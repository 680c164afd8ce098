# Verification of QEMU's concurrent core: event loop, block layer, migration

TLA+ models of the parts of this repository where several activities meet:
worker threads and the main loop, callbacks that re-enter the event loop,
coroutines and their locks, requests that wait for each other, a block job and
the guest it races, the metadata of a qcow2 image that must survive a crash, and
the migration of memory that is being written. TLC checks the models on small
instances; TLAPS proves the safety properties of all of them but migration, and
the refinement of the thread pool, for every value of the constants.

## 1. The system and its parts

The program is a machine emulator. One *global mutex* serialises the main loop,
the monitor, device models and vcpu threads; asynchronous work is done by
coroutines, callbacks and bottom halves under that mutex, and by worker threads
outside it. Disk I/O passes through these layers:

| Part | Source | State | Operations |
|---|---|---|---|
| Thread pool | `thread-pool.c` | list `head`, queue `request_list`, semaphore, notifier, thread counters | submit, cancel, worker loop, `event_notifier_ready`, spawn bottom half |
| Coroutines and locks | `qemu-coroutine.c`, `qemu-coroutine-lock.c` | chain of callers, lock flags, wait queues, `unlock_bh_queue` | enter, yield, lock, unlock, `unlock_bh` |
| AioContext | `async.c`, `aio-posix.c` | bottom halves, fd handlers, walk counters | poll, schedule, delete, flush |
| Block core | `block.c` | tracked requests, dirty bitmap, throttling queue, backing chain | read, write, flush, discard, drain, swap, reopen |
| Block jobs | `blockjob.c`, `block/mirror.c`, `block/stream.c`, `block/commit.c` | paused, cancelled, busy, error status, job-specific state | start, pause, resume, cancel, complete, set speed, job loop |
| qcow2 | `block/qcow2*.c` | L1/L2 tables, refcounts, two metadata caches, in-flight allocations, dirty bit, snapshots | read, write, discard, flush, open, check, close, snapshot |
| QED | `block/qed*.c` | tables, queue of allocating writes, need-check timer | as above |
| NBD | `nbd.c`, `block/nbd.c` | requests in flight by handle | send, receive, negotiate |
| Migration | `migration.c`, `arch_init.c`, `block-migration.c`, `savevm.c` | migration state, dirty RAM and blocks | start, iterate, complete, cancel |
| Threads, timers, vcpus | `qemu-thread-posix.c`, `qemu-timer.c`, `cpus.c`, `main-loop.c` | mutexes, semaphores, timer lists, vcpu state | lock, wait, arm, run, stop, kick |
| Monitor and QAPI | `monitor.c`, `qmp.c`, `qapi*` | command tables, event throttling | commands, events |
| Devices, CPU emulation, user mode, UI, audio, network | `hw/`, `target-*`, `tcg/`, `linux-user/`, `ui/`, ... | — | — |

Interactions that matter here: a driver submits a function to the thread pool;
its completion callback enters the coroutine that waits for it, which takes and
releases coroutine locks (qcow2's `s->lock`), updates metadata through the
caches, and completes a guest request, whose dirty bit a mirror job sees. All of
it is driven by `aio_poll`, which any callback may call again. Migration is a
thread beside all this that takes the global mutex only now and then.

What makes this code hard to test: callbacks that re-enter the loop that called
them; a worker's idle timeout racing a submission; results and states passed
between threads without a lock; wakeups that run later than the event they
report; guest writes between any two steps of a job; users that pause, resume,
complete and cancel in any order; I/O errors under four policies; evictions
that write metadata in an order nobody chose; crashes between two writes; guest
memory that changes while it is sent, over a connection that may fail.
`PROJECT.json` lists each hazard with its line and the properties that cover it.

## 2. Modules

| Module | Models | Runs |
|---|---|---|
| `AioRequests` | what users of an asynchronous engine are promised | refined by `ThreadPool` |
| `ThreadPool` | `thread-pool.c` | `thread_pool` |
| `ThreadPoolProofs` | theorems on `ThreadPool`, with the refinement of `AioRequests` | |
| `AioContext` | `async.c`, `aio-posix.c`: bottom halves, handlers, `aio_poll`, the GLib source | `aio_context`, `aio_notify` |
| `AioContextInvariant` | the inductive invariant of `AioContext`: counters, pointers, types | |
| `AioContextProofs` | the other theorems on `AioContext` | |
| `CoLock` | coroutine switching, `CoQueue`, `CoMutex`, `CoRwlock`, `unlock_bh` | `co_lock` |
| `CoLockProofs` | theorems on `CoLock` | |
| `BlockRequests` | `block.c`: throttling, tracked requests, copy-on-read, synchronous requests, `bdrv_drain_all` | through `MCBlockRequests` |
| `MCBlockRequests` | the requests of the run | `block_requests` |
| `BlockRequestsProofs` | theorems on `BlockRequests` | |
| `MirrorJob` | `mirror.c` on `blockjob.c`, the dirty bitmap and guest writes of `block.c`, the job commands of `blockdev.c` | `mirror`, `mirror_error_then_cancel`, `mirror_reopen` |
| `MirrorJobProofs` | theorems on `MirrorJob` | |
| `Qcow2Meta` | `qcow2-cache.c` and its users in `qcow2-refcount.c`, `qcow2-cluster.c`, `qcow2.c` | through `MCQcow2Meta` |
| `MCQcow2Meta` | the symmetry sets and the setups of an image | `qcow2`, `qcow2_repair` |
| `Qcow2MetaInvariant` | the inductive invariant of `Qcow2Meta` and lemmas on it | |
| `Qcow2MetaProofs` | that each step preserves it, and the theorems on `Qcow2Meta` | |
| `Migration` | `migration.c`, the RAM handlers of `arch_init.c`, `page_cache.c`, the socket file and handler calls of `savevm.c` | `migration`, `migration_xbzrle` |

Runs that check liveness do not use symmetry, as it is unsound there. In each
module an operator whose name begins with `Mut` is a wrong version of a
definition that follows it; no specification uses it. Replacing the definition by it shows that a property can
fail. Runs that turn the deadlock check off are those whose bounds let behaviours
end: all operations are used up and the program is idle.

### ThreadPool

State: each element's `state`, `ret` and callback, the two lists, the semaphore
value, the notifier and the counters are the C variables. `pc` and `req` are a
worker's position and local variable; `mode`, `toScan` and `calls` are what the
thread that holds the global mutex is doing: running, between the unlock and the
semaphore post of a submission, scanning in `event_notifier_ready`, or waiting
in `thread_pool_cancel`. `calls` is the stack of completion callbacks, because a
callback may poll and so re-enter `event_notifier_ready`.

A section under `lock` is one action. The worker's timed wait, its function, the
store of `ret` and the store of `state` are separate actions, as other threads
can run in between.

Bounds: 2 requests and 2 threads suffice for a request to be queued behind
another, for a token to be stolen while another request is queued, and for a
thread to be created while another exits; callbacks nest two deep. AIOCBs are
recycled, so behaviours are infinite.

Fairness (`FairSpec`): threads that can run do run; the main loop keeps
dispatching bottom halves and the notifier, and callbacks return. Strong
fairness is used where another step of the main loop can interpose: the loop
polls again until it has served everything. A timeout is never forced.

`ImplementsAioRequests` is the refinement of `AioRequests` by the mapping
`phase` and `given`: the function runs once, the callback is called once and
with what the function returned, a cancelled request runs neither.

### AioContext

`stack` holds the active `aio_poll` calls, innermost first: where each is, its
`blocking` and `progress`, the node it points to and its set of descriptors. A
callback may schedule, cancel and delete bottom halves, add and remove handlers,
and poll again; each is an action enabled while a callback runs or the main loop
does. Bottom halves and handlers are freed when the last walk ends, after which
their structures can be allocated again, so a dangling pointer would be visible.
Another thread schedules a bottom half in two steps, the flag and the notifier,
and runs between any two steps of the loop. `aio_ctx_check` and
`aio_ctx_dispatch` are the GLib source: events found by the GLib poll stay in
`revents` until a later `aio_poll`, perhaps a nested one, dispatches them. A
signal may interrupt `select` (`Interrupted`): the code does not look at its
return value -1, dispatches nothing and returns, so a blocking poll can return
`false` with requests in flight. `FalseMeansIdle` excepts exactly this step.

Bounds: 2 bottom halves, 2 descriptors besides the notifier, 4 calls made by
callbacks and signals (`MaxOps`), polls nested two deep; a removal under an outer walk and a
reuse of the structure fit into that. Fairness: the loop runs, callbacks return,
a thread that began to schedule finishes, requests in flight complete.

### CoLock

`stack` is the chain of `co->caller`, the event loop at the bottom. `lock`
attempts a lock and queues the coroutine if it is taken; unlock moves waiters to
`unlock_bh_queue` and schedules `unlock_bh`; `next_bh` enters the first of them,
which tests its lock again. I/O waits are external events. One mutex and one
reader/writer lock are shared by 4 coroutines; `Work` bounds the number of
acquisitions and waits, so that behaviours end (no deadlock check). Fairness is
weak fairness of the thread as a whole: it runs while there is something to do.

### BlockRequests

A request is a coroutine that runs from one yield to the next in one action:
`Submit` and `Resume` go through `bdrv_io_limits_intercept`,
`wait_for_overlapping_requests` and `tracked_request_begin`; the driver's answer
ends a step of I/O. `throttled`, `waitq` and `unlock` are the three queues a
coroutine passes through. Whether a request exceeds its limits is a
nondeterministic choice, since it depends on the clock. `disk` is what the guest
reads from each sector, by the request that wrote it, and `alloc` the sectors
that the image itself holds; a copy-on-read reads clusters in one step and
writes them in another. A synchronous request, which switches throttling off,
and `bdrv_drain_all` occupy the main loop until they are done. A use of the
timer after it was freed is recorded in `crash` and ends the behaviour.

The loop of `bdrv_drain_all` ends when a poll returns `false` and no request is
throttled, either because nothing is in flight (`DrainEnd`) or because a signal
interrupted the poll (`Interrupted`). The assertions on the tracked requests
follow; when they fail the main loop is in `Abort`, where nothing happens any
more. `DrainIsComplete` is about drains that no signal ends. `do_vm_stop` stops
`vm_clock` before it drains, and `vm_start` lets it go on; the timer of the
throttle runs on that clock.

Bounds: 3 requests of every kind on 2 regions (`MCSetups`), one of which
straddles two clusters, so that a request can wait for one that waited itself;
two monitor commands, synchronous requests or drains (`MaxAdmin`). The requests
are interchangeable, so `MCSetups` gives their kinds in order. Fairness: the loop
runs its handlers and the driver answers. While the clock runs its timer fires,
and a request that is tested for its limits again and again passes in the end,
because a test that fails extends the slice beyond the time to wait. With the
clock stopped neither is assumed: each test may give the same answer, and a
drain in `do_vm_stop` can then go round for ever. `RequestsEnd` excepts this
case (`Frozen`), and the two failures.

### MirrorJob

A step is what the job does from one yield to the next: read, write, flush,
drain, sleep or pause, reopen, close. Data is abstracted to the set `stale` of
chunks that the target lacks. A guest write is submitted, lands on the image and
completes (setting its dirty bit) in three steps, so it can overlap any step of
the job. The monitor commands `pause`, `resume`, `cancel` and `complete` are
enabled whenever the code accepts them. Each error of a read, write or flush
(`ENOSPC` or other) goes through `block_job_error_action` with the policy chosen
for source and target.

Bounds: 2 chunks, so that a write can dirty the chunk being copied or the other;
2 guest writes that may overlap; the policies report, ignore and enospc, chosen
for source and target when the job starts. Open flags may differ or not;
`PivotIsClean` is about pivots without `bdrv_reopen`, as it fails with one
(finding 2). Fairness: steps of the
job that are due are taken and guest writes end; users and guests are not obliged to do
anything. Convergence and completion are not claimed for policy
`ignore`, with which an error can repeat for ever.

### Qcow2Meta

`mem` holds the tables as the program sees them, `file` what was written to
`bs->file`, `disk` what a crash would leave. A flush copies `file` to `disk`;
the disk may also write back any table at any time. `stack` holds the C
functions an operation is in, so each request to the file is a step and may
fail. Tables have one entry each, which is the most hostile granularity for
ordering: every entry can be evicted alone. A cache has one entry, so nearly
every access evicts. 2 guest clusters and 3 host clusters let a cluster be freed
and reused while another is being written (2 host clusters in `qcow2_repair`).
A *setup*, chosen in the initial state, says whether refcounts are lazy, whether
requests to the file may fail, whether the host may crash, and how many
operations there are. `qcow2` has three: accurate with crashes (9 operations),
accurate with failures and crashes (4), lazy with failures (4). `OrderIsKept`
and `NoSharedCluster` speak of accurate refcounts and requests that succeed, for
the reasons that section 3 gives.

### Migration

The actors are the migration thread, whose place in `migration_thread` and
the functions it calls is `pc`; the main loop, with `migrate`, `migrate_cancel`,
the capability, the end of a connect and the cleanup bottom half; virtual CPUs,
which write a word of a page and mark it in the dirty log in one step; and a
device, which writes memory that it has mapped and marks it dirty later, when it
unmaps it. The thread holds the global mutex only where the code takes it, so
the others run between any two of its steps outside. A page is two words,
uniform when they are equal; an XBZRLE delta changes the words that differ from
the cache. `queue` are the buffers of the socket file: some are copies, some
refer to guest memory or to the cache and are read when they are sent, which is
what `socket_put_buffer_no_copy` does. `dest` is what the receiver makes of the
items that were sent. An abort is recorded in `halt`, as is a `migrate` command
that resets the state under a live thread.

`socket_flush` sends the queue buffer by buffer. When the first send fails, the
file gets an error; when a later one fails, `do_send_recv` returns what was sent
before, and `socket_flush` drops the rest of the queue without an error. The
model has both (`Flushed`), for any prefix of the queue. `broken` remembers that
the connection has failed: every later send on it fails too, so the file gets
its error at the next flush. `NoDirtyForgotten` and `CacheIsReceivers` are about
connections that hold; `NoPageLost`, about what a destination starts with, needs
no such condition, since no end mark gets through a broken connection.

Bounds: 2 pages, 2 writes or changes of the capability (`MaxEvents`), 2
migrations, a queue of 2 buffers, a cache of one page, so that pages evict each
other. Fairness: the thread runs, the main loop runs its handlers, a device ends
its transfer; nothing obliges the user to act. Nor does anything oblige a send
to return, since the sockets block while the receiver does not read: neither
`MaybeFlush` nor a cleanup with something to send is fair. `MigrationEnds`
therefore has the condition `SendsReturn`, and without it TLC finds a cancelled
migration whose cleanup waits in `send` for ever. Its other exceptions are the `migrate`
command above and, with XBZRLE only, the abort in `cache_fini`: a migration that
is cancelled before its set-up, or whose set-up could not make a cache because
the cache size is below a page (`NoCache`), is cleaned up without one. `exempt` is a history variable
with the pages that the code does lose, each for a reason listed in the hazards:
page 0 when set-up did not mark it, a page sent as uniform past its cache entry
(finding 5), and every page when the capability changes under a running thread.

## 3. What the runs show

| Run | Result |
|---|---|
| `thread_pool` (158,576 states) | no lost token or completion; counters exact; refinement of `AioRequests`; every request completes, every cancellation returns |
| `aio_context` (404,256) | no walk holds a freed pointer; nothing removed is called; `false` from a blocking poll that no signal interrupted means that nothing is in flight; a bottom half wakes a poll that has not read the notifier, and runs |
| `aio_notify` | **violated**: finding 4 |
| `co_lock` (329,259) | exclusion, one list per coroutine, each waiter gets its lock |
| `block_requests` (603,644) | a copy-on-read is alone on its clusters and invisible to the guest; no coroutine is lost; a drain that no signal ends is complete; the device becomes quiet again, unless a stopped clock keeps a throttled request |
| `mirror` (255,581) | no change of the source is forgotten; cancelled jobs end; jobs converge, complete when asked, and pivot to a clean target |
| `mirror_error_then_cancel` | **violated**: finding 1 |
| `mirror_reopen` | **violated**: finding 2 |
| `qcow2` (880,516) | after a crash at any point refcounts cover all mappings and no cluster is mapped twice; the caches never depend on each other; successful flushes are durable, also when requests fail |
| `qcow2_repair` | **violated**: finding 3 |
| `migration` (937,171) | while the connection holds every page that the receiver lacks is marked somewhere, and the cache is what the receiver has; a destination that starts has all of RAM; the machine is on one side, and goes on when a migration fails; failed and cancelled migrations end if sends return |
| `migration_xbzrle` | **violated**: finding 5 |

Disagreements between the code and its documentation:

1. *Completion, then error, then cancel* (`block/mirror.c:231`). An accepted
   `block-job-complete` is remembered in `should_complete`. An error that is
   ignored, or pauses the job, resets `synced`; cancelling the job now ends the
   loop with `ret == 0`, and the device is switched to a target that is not
   ready.
2. *Reopen before the pivot* (`block/mirror.c:233`). If the open flags of source
   and target differ, `bdrv_reopen` polls after dirty tracking has been turned
   off. A guest write that lands then is lost by `bdrv_swap`.
3. *Repair marks the image clean too early* (`block/qcow2.c:263`).
   `qcow2_mark_clean` flushes while the dirty bit is set, and such a flush skips
   the refcount cache. The same happens when writing the refcounts fails during
   close.
4. *A notification that is read too early* (`aio-posix.c:190`). A blocking
   `aio_poll` that dispatches events left by the GLib poll may read the notifier
   for a bottom half that another thread has just scheduled. It then goes on to
   `select` and sleeps until I/O completes, while `qemu-aio.h` says that
   `aio_notify` "forces aio_wait to exit". The bottom half is late, not lost:
   `ScheduledRuns` holds, as a poll blocks only while I/O is in flight.
5. *XBZRLE and uniform pages* (`arch_init.c:452`). A page that is sent as uniform
   leaves its old copy in the cache. If the page later gets back its cached
   content nothing is sent for it, and the receiver keeps the uniform page.

Some behaviours that the models have, and their properties except, are
recorded as hazards. A signal that interrupts the last poll of `bdrv_drain_all`
makes its assertion fail (`block.c:1219`): with `loop # Abort` as an invariant
TLC shows it in three steps. With XBZRLE a migration that is cancelled before
its set-up aborts (`page_cache.c:94`): `halt # "assert"` is not an invariant. A
request throttled when a synchronous one frees the timer arms a timer that is
gone (`block.c:193`). In `Qcow2Meta` the result of `qcow2_cache_set_dependency`
is ignored, so when a request fails an L2 table can overtake its refcount; and
with lazy refcounts nothing orders the L2 table that loses a freed cluster
before the one that gains it, so a crash can leave both mappings.

## 4. What is proved

The theorems hold for every value of the constants that satisfies the named
assumptions below; the bounds on operations (`MaxNest`, `MaxOps`, `MaxDepth`,
`Work`, `MaxAdmin`, `MaxWrites`, the `ops` of a setup) may be any numbers. Each
proof follows one pattern: an invariant that is inductive, one step per action,
and the property as a consequence.

**ThreadPool** (`ThreadPoolProofs`; any finite set of threads, any sets of
requests and results, any nesting of callbacks):

- `TypeCorrect`, `ThreadsAreAccounted`: `[]TypeOK`, `[]ThreadsAccounted`;
- `CompletionsAreNotLost`: `[]NoLostCompletion`;
- `TokensAreRequests`: `[]TokensMatchQueue`;
- `ElementsAreOwned`, `PoolImplementsAioRequests`: `ImplementsAioRequests`.

`ThreadsAccounted` is proved together with the types, as `CInv`: that a counter
stays natural when it is decremented follows only from the fact that it counts
the threads at certain program points, and the bound on `cur_threads` only from
the guard of submission and the fact that new threads were counted before they
exist. Each action moves at most one worker (two for a worker that starts and
creates the next), and lemmas on the cardinality of `Workers` say how the counts
change. `NoLostCompletion` is then inductive given the types: a worker that
settles a request is about to set the notifier; the scan that clears it begins
with all of `head`; and a nested scan leaves the outer callback on the stack,
after which everything is scanned again. The refinement needs to know who owns
an element (`Elements`): the queue while it is QUEUED, exactly one worker while
it is ACTIVE, `head` until a scan removes it, and then the frame of its
callback. That a callback gets the result of its own request is a consequence.

**AioContext** (`AioContextInvariant`, `AioContextProofs`; any finite sets of
bottom halves and descriptors, any depth of nested polls):

- `TypeCorrect`, `WalksAreCounted`, `PointersAreValid`: `[]TypeOK`, `[]Base`,
  `[]NoDangling`;
- `HandlersAreServed`, `IdleWhenFalse`: `FalseMeansIdle`;
- `RemovedAreNotCalled`: `NoCallAfterRemoval`;
- `SchedulersWake`: `[]WokenByBh`.

`NoDangling` is not inductive, because whether an element may be freed is decided
by the two walk counters. `Base` adds that they are exactly the numbers of walks
on the stack, that all polls but the innermost are in a callback, and that the
lists have no element twice. `NodesInv` adds that every descriptor with a
request in flight has a live handler, and that a poll whose `select` found
something still has a handler to call before it, so it makes progress.
`HeardInv` says that a poll which has neither read the notifier nor finds it set
still has the bottom halves that are owed a run before it.

**CoLock** (`CoLockProofs`; any set of coroutines): `TypeCorrect`,
`HoldersAreExclusive` (`[]Exclusion`) and `CoroutinesAreLinkedOnce`
(`[]LinkedOnce`). The invariant `Inv` has three shapes: the chain of callers is
made of the coroutines that run, the lists of those that wait, each once, and
the flags and the count of readers are what the holders amount to. A coroutine
that waits holds nothing, which is why a wakeup cannot break exclusion.

**BlockRequests** (`BlockRequestsProofs`; any finite set of requests, any device
and cluster size, any regions):

- `TypeCorrect`, `RequestsAreTracked`: `[]TypeOK`, `[]Base`;
- `CopyOnReadIsAlone`, `CopyOnReadIsInvisible`: `[]CorIsAlone`,
  `CorWriteIsInvisible`;
- `TimerExists`: `[]TimerIsThere`;
- `RequestsAreQueued`, `DrainCompletes`: `[]QueueInv`, `DrainIsComplete`;
- `RequestsAreNotLost`: `[]NoneLost`.

`Base` joins the types with what `tracked` and `cor` hold, since the counter
stays natural only because it counts. Given `Base`, `CorIsAlone` is inductive: a
request starts only after it found nothing tracked on its clusters, or while no
copy-on-read exists. Then what a copy-on-read has read is still on the disk when
it writes (`BounceIsDisk`), because a write in between would have to share its
cluster. `TimerInv` says that the timer exists while throttling is enabled, and
that nothing is in the queue while it is not. `QueueInv` says that each request
that has yielded is in a queue and that a wait queue belongs to a tracked
request; a drain whose last poll was not interrupted finds no tracked, no woken
and no throttled request, and therefore none at all. `DrainCompletes` says
nothing of a drain that a signal ends, whose assertion may fail. `OnceInv`
counts the places of a request in all the queues, which `NoneLost` needs.

**MirrorJob** (`MirrorJobProofs`; any number of chunks and guest writes):
`TypeCorrect`, `NoChangeIsForgotten` (`[]NoChangeForgotten`) and `PivotsAreClean`
(`PivotIsClean`). `Inv` adds where in its loop the job can be when a variable
has a given value (`Control`), that a guest write which overtook the read of the
chunk in the buffer has marked it or will (`Overtaken`), and that under the
policy `report` a job that was asked to complete stays ready (`Ready`).

**Qcow2Meta** (`Qcow2MetaInvariant`, `Qcow2MetaProofs`; any finite set of guest
clusters, any set of host clusters, any cache size, any setups):

- `TypeCorrect`, `CachesAreAcyclic`: `[]TypeOK`, `[]NoDependencyCycle`;
- `RefcountsAreOrdered`, `ClustersAreNotShared`: `[]OrderIsKept`,
  `[]NoSharedCluster`;
- `SyncsAreDurable`: `SyncIsDurable`.

What a crash leaves depends on what the caches may still write, so the
invariant relates all three copies of the tables. `DataInv`: a table that is not
dirty is as it is in the file. `StackInv`: which function calls which, what each
active one relies on when it is returned to, and what holds when the innermost
returns. `OrderInv`: with accurate refcounts and requests that succeed,
refcounts cover the mappings, and mappings are distinct, in every mixture of
`file` and `disk` that write-back can produce, and in `mem` given the
dependency between the caches and the step that a write or a discard has
reached.

Assumptions: `ConstantsAssumption` of `ThreadPool`, `CoLock`, `MirrorJob` and
`Qcow2Meta`, `AioConstants` of `AioContext`, and `BlockConstants` and
`SetupsAssumption` of `BlockRequests`; TLC evaluates all of them in the runs.

Only model-checked: all liveness properties, which TLAPS cannot handle; and all
of `Migration`, where what the receiver has is a fold over the queue, and facts
about folds need induction over data.


## 5. Not modelled

The repository has some 816,000 lines, nearly all of them device models,
instruction translators, host bindings and user-mode emulation: sequential code
whose correctness is agreement with a device or an architecture manual. The
models translate about 3,900 lines, 0.5% of it. That is 60 to 80% of
`thread-pool.c`, `async.c`, `aio-posix.c`, `mirror.c`, `qcow2-cache.c` and the
coroutine files, about a third of `qcow2-cluster.c`, `migration.c`,
`arch_init.c` and `page_cache.c`, and selected functions of larger files: 13% of
`block.c`, 9% of `savevm.c`, 7% of `blockdev.c`. Covering a substantial share of
the whole tree is not a sensible aim for models of this kind.

- Memory: allocation failures, AIOCB pools, buffers.
- Values: sector data, offsets inside a cluster or chunk, image sizes, speeds.
- Event loop: write handlers, several contexts, the Windows version.
- Block requests: discard, which is not tracked, opening, backing chains, the
  arithmetic of limits.
- qcow2: compressed and zero clusters, snapshots, encryption, growth of the L1
  and refcount tables, several clusters per request.
- Migration: block migration, device state, the incoming side's control, several
  RAM blocks, resizing the cache, transports other than TCP.
- The parts marked `not_modelled` in `PROJECT.json`, with the reason: streaming
  and commit, the emulated semaphore, QED, NBD, timers, monitor and the rest.

Not composed: `CoLock` with `AioContext` (a nested loop inside `unlock_bh`), and
`BlockRequests` with `MirrorJob`; each product is beyond the state spaces that
can be explored in minutes, so each module takes the other's interface as
nondeterministic events. Hazards that are left to them or to parts not
modelled: opening the backing file in `mirror_complete` runs a nested event loop
(`block/mirror.c:265`), a coroutine entered by `unlock_bh` may run one
(`qemu-coroutine-lock.c:43`), the monitor can resize the XBZRLE cache under the
thread (`arch_init.c:201`), and the emulated semaphore does not undo its
decrement after a timeout (`qemu-thread-posix.c:212`).
