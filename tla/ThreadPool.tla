----------------------------- MODULE ThreadPool -----------------------------
(***************************************************************************)
(* thread-pool.c: the pool of worker threads that runs blocking functions  *)
(* for the block layer.                                                    *)
(*                                                                         *)
(* Processes.  One worker per element of Thread, and "main": whichever     *)
(* thread holds the global mutex (the main loop, or a vcpu thread).  Main  *)
(* submits and cancels requests, and dispatches new_thread_bh and          *)
(* event_notifier_ready; the completion callbacks it runs do any of these  *)
(* again, nested polls of the AioContext included.                         *)
(*                                                                         *)
(* Atomicity.  A section between qemu_mutex_lock(&lock) and the matching   *)
(* unlock is one step.  What workers do without `lock' is split where      *)
(* another thread can see a difference: sem_timedwait, the store of ret    *)
(* and the store of state are steps of their own, and so is each element   *)
(* that event_notifier_ready examines.                                     *)
(***************************************************************************)
EXTENDS Integers, Sequences, FiniteSets

CONSTANTS Req,          \* ThreadPoolElements (AIOCBs are recycled)
          Thread,       \* threads that can be alive at the same time
          Ret,          \* results of req->func
          max_threads,  \* limit on cur_threads
          MaxNest,      \* bound: callbacks nested through polls
          NoReq         \* the null pointer

ASSUME ConstantsAssumption ==
  /\ IsFiniteSet(Thread)
  /\ max_threads \in Nat /\ max_threads = Cardinality(Thread)
  /\ MaxNest \in Nat \ {0}
  /\ NoReq \notin Req

VARIABLES
  state,         \* enum ThreadState of each element; "FREE": released
  ret,           \* elem->ret
  cb,            \* elem->common.cb # NULL
  result,        \* history: what the element's func returned
  head,          \* elements on the list `head' (its order is not observable)
  request_list,  \* queue of elements not yet taken by a worker
  sem,           \* value of the semaphore
  notifier,      \* the event notifier is set
  bh_scheduled,  \* new_thread_bh is scheduled
  cur_threads, idle_threads, new_threads, pending_threads,
  pending_cancellations,
  pc,            \* where each worker is; "none": no such thread
  req,           \* the worker's local req
  mode,          \* what main is doing
  toScan,        \* elements event_notifier_ready has still to examine
  calls,         \* stack of running callbacks: element and ret passed
  cancelling,    \* element thread_pool_cancel waits for
  woken          \* check_cancel was broadcast since main waits on it

elemVars   == <<state, ret, cb, result>>
listVars   == <<head, request_list, sem, notifier>>
threadVars == <<bh_scheduled, cur_threads, idle_threads, new_threads,
                pending_threads>>
workerVars == <<pc, req>>
mainVars   == <<mode, toScan, calls>>
cancelVars == <<pending_cancellations, cancelling, woken>>
vars == <<elemVars, listVars, threadVars, workerVars, mainVars, cancelVars>>

States == {"FREE", "QUEUED", "ACTIVE", "DONE", "CANCELED"}
PCs    == {"none", "created", "waiting", "timedout", "claimed", "func",
           "returned", "stored", "done"}
Modes  == {"run", "post", "scan", "cancel"}

Init ==
  /\ state = [r \in Req |-> "FREE"]
  /\ ret \in [Req -> Ret]            \* AIOCB memory is not cleared
  /\ result = ret
  /\ cb = [r \in Req |-> FALSE]
  /\ head = {} /\ request_list = <<>> /\ sem = 0 /\ notifier = FALSE
  /\ bh_scheduled = FALSE
  /\ cur_threads = 0 /\ idle_threads = 0
  /\ new_threads = 0 /\ pending_threads = 0
  /\ pc = [t \in Thread |-> "none"] /\ req = [t \in Thread |-> NoReq]
  /\ mode = "run" /\ toScan = {} /\ calls = <<>>
  /\ pending_cancellations = 0 /\ cancelling = NoReq /\ woken = FALSE

-----------------------------------------------------------------------------
(* Creating workers *)

\* Mutation: the backlog is not tested.
Mut_do_spawn_thread(pending, workers) ==
  /\ new_threads' = new_threads - 1 /\ pending_threads' = pending + 1
  /\ \E t \in {u \in Thread : workers[u] = "none"} :
       pc' = [workers EXCEPT ![t] = "created"]

\* The counters' part of do_spawn_thread, and the new thread in `workers', the
\* value of pc that the caller leaves behind.
do_spawn_thread(pending, workers) ==
  IF new_threads = 0
  THEN /\ pending_threads' = pending /\ pc' = workers
       /\ UNCHANGED new_threads
  ELSE /\ new_threads' = new_threads - 1 /\ pending_threads' = pending + 1
       /\ \E t \in {u \in Thread : workers[u] = "none"} :
            pc' = [workers EXCEPT ![t] = "created"]

spawn_thread_bh_fn ==
  /\ mode = "run" /\ bh_scheduled
  /\ bh_scheduled' = FALSE
  /\ do_spawn_thread(pending_threads, pc)
  /\ UNCHANGED <<elemVars, listVars, cur_threads, idle_threads, req, mainVars,
                 cancelVars>>

\* Mutation: cur_threads is left for the new thread to count.
Mut_spawn_thread ==
  /\ UNCHANGED cur_threads
  /\ new_threads' = new_threads + 1
  /\ bh_scheduled' = (bh_scheduled \/ pending_threads = 0)

spawn_thread ==
  /\ cur_threads' = cur_threads + 1
  /\ new_threads' = new_threads + 1
  /\ bh_scheduled' = (bh_scheduled \/ pending_threads = 0)

-----------------------------------------------------------------------------
(* Submitting and cancelling *)

thread_pool_submit_aio(r, hasCb) ==
  /\ mode = "run" /\ state[r] = "FREE"
  /\ state' = [state EXCEPT ![r] = "QUEUED"]
  /\ cb' = [cb EXCEPT ![r] = hasCb]
  /\ head' = head \cup {r}
  /\ IF idle_threads = 0 /\ cur_threads < max_threads
     THEN spawn_thread
     ELSE UNCHANGED <<cur_threads, new_threads, bh_scheduled>>
  /\ request_list' = Append(request_list, r)
  /\ mode' = "post"
  /\ UNCHANGED <<ret, result, sem, notifier, idle_threads, pending_threads,
                 workerVars, toScan, calls, cancelVars>>

\* The sem_post that follows the critical section.
submit_post ==
  /\ mode = "post"
  /\ sem' = sem + 1
  /\ mode' = "run"
  /\ UNCHANGED <<elemVars, head, request_list, notifier, threadVars,
                 workerVars, toScan, calls, cancelVars>>

\* Requests submitted without callback have no handle to cancel them by.
\* Cancelling a request that is DONE or CANCELED already changes nothing: the
\* loop of the else branch is not entered.
Cancellable(r) == mode = "run" /\ r \in head /\ cb[r]

\* The loop conditions of event_notifier_ready and of thread_pool_cancel.
Finished(r) == state[r] \in {"CANCELED", "DONE"}

\* Mutation: the token of the stolen request stays in the semaphore.
Mut_sem_trywait == sem > 0 /\ sem' = sem

sem_trywait == sem > 0 /\ sem' = sem - 1

\* The list without its i-th element.
QTAILQ_REMOVE(list, i) == SubSeq(list, 1, i - 1) \o SubSeq(list, i + 1, Len(list))

cancel_steal(r) ==
  /\ Cancellable(r)
  /\ state[r] = "QUEUED" /\ sem_trywait
  /\ \E i \in 1 .. Len(request_list) :
       /\ request_list[i] = r
       /\ request_list' = QTAILQ_REMOVE(request_list, i)
  /\ state' = [state EXCEPT ![r] = "CANCELED"]
  /\ notifier' = TRUE
  /\ UNCHANGED <<ret, cb, result, head, threadVars, workerVars, mainVars,
                 cancelVars>>

\* The else branch.
cancel_wait(r) ==
  /\ Cancellable(r)
  /\ ~Finished(r) /\ ~(state[r] = "QUEUED" /\ sem > 0)
  /\ pending_cancellations' = pending_cancellations + 1
  /\ mode' = "cancel" /\ cancelling' = r /\ woken' = FALSE
  /\ UNCHANGED <<elemVars, listVars, threadVars, workerVars, toScan, calls>>

\* qemu_cond_wait returns, after a broadcast or spuriously (POSIX allows it);
\* the loop tests the state again.
cancel_woken ==
  /\ mode = "cancel"
  /\ woken' = FALSE
  /\ IF Finished(cancelling)
     THEN /\ pending_cancellations' = pending_cancellations - 1
          /\ mode' = "run" /\ cancelling' = NoReq
     ELSE UNCHANGED <<pending_cancellations, mode, cancelling>>
  /\ UNCHANGED <<elemVars, listVars, threadVars, workerVars, toScan, calls>>

-----------------------------------------------------------------------------
(* Completion in the thread that holds the global mutex *)

\* aio_poll or the main loop dispatches the notifier's handler.  It may be
\* called with the notifier clear: a nested poll can have cleared it since the
\* outer one looked at the file descriptor.
ready_begin ==
  /\ mode = "run" /\ Len(calls) < MaxNest
  /\ notifier' = FALSE
  /\ toScan' = head /\ mode' = "scan"
  /\ UNCHANGED <<elemVars, head, request_list, sem, threadVars, workerVars,
                 calls, cancelVars>>

scan_skip(r) ==
  /\ mode = "scan" /\ r \in toScan
  /\ ~Finished(r)
  /\ toScan' = toScan \ {r}
  /\ UNCHANGED <<elemVars, listVars, threadVars, workerVars, mode, calls,
                 cancelVars>>

scan_callback(r) ==
  /\ mode = "scan" /\ r \in toScan
  /\ state[r] = "DONE" /\ cb[r]
  /\ head' = head \ {r}
  /\ calls' = Append(calls, [elem |-> r, ret |-> ret[r]])
  /\ mode' = "run" /\ toScan' = {}
  /\ UNCHANGED <<elemVars, request_list, sem, notifier, threadVars,
                 workerVars, cancelVars>>

\* The callback returns: qemu_aio_release(elem), then goto restart.
callback_return ==
  /\ mode = "run" /\ calls # <<>>
  /\ state' = [state EXCEPT ![calls[Len(calls)].elem] = "FREE"]
  /\ calls' = SubSeq(calls, 1, Len(calls) - 1)
  /\ mode' = "scan" /\ toScan' = head
  /\ UNCHANGED <<ret, cb, result, listVars, threadVars, workerVars,
                 cancelVars>>

scan_remove(r) ==
  /\ mode = "scan" /\ r \in toScan
  /\ Finished(r) /\ ~(state[r] = "DONE" /\ cb[r])
  /\ head' = head \ {r}
  /\ toScan' = toScan \ {r}
  /\ state' = [state EXCEPT ![r] = "FREE"]
  /\ UNCHANGED <<ret, cb, result, request_list, sem, notifier, threadVars,
                 workerVars, mode, calls, cancelVars>>

\* Mutation: the notifier is cleared after the list was scanned.
Mut_scan_end ==
  /\ mode = "scan" /\ toScan = {}
  /\ mode' = "run" /\ notifier' = FALSE
  /\ UNCHANGED <<elemVars, head, request_list, sem, threadVars, workerVars,
                 toScan, calls, cancelVars>>

scan_end ==
  /\ mode = "scan" /\ toScan = {}
  /\ mode' = "run"
  /\ UNCHANGED <<elemVars, listVars, threadVars, workerVars, toScan, calls,
                 cancelVars>>

-----------------------------------------------------------------------------
(* worker_thread *)

worker_start(t) ==
  /\ pc[t] = "created"
  /\ do_spawn_thread(pending_threads - 1, [pc EXCEPT ![t] = "waiting"])
  /\ idle_threads' = idle_threads + 1
  /\ UNCHANGED <<elemVars, listVars, bh_scheduled, cur_threads, req, mainVars,
                 cancelVars>>

sem_taken(t) ==
  /\ pc[t] = "waiting" /\ sem > 0
  /\ sem' = sem - 1
  /\ pc' = [pc EXCEPT ![t] = "claimed"]
  /\ UNCHANGED <<elemVars, head, request_list, notifier, threadVars, req,
                 mainVars, cancelVars>>

sem_timeout(t) ==
  /\ pc[t] = "waiting" /\ sem = 0
  /\ pc' = [pc EXCEPT ![t] = "timedout"]
  /\ UNCHANGED <<elemVars, listVars, threadVars, req, mainVars, cancelVars>>

worker_take(t) ==
  /\ pc[t] = "claimed" /\ request_list # <<>>
  /\ idle_threads' = idle_threads - 1
  /\ req' = [req EXCEPT ![t] = Head(request_list)]
  /\ request_list' = Tail(request_list)
  /\ state' = [state EXCEPT ![Head(request_list)] = "ACTIVE"]
  /\ pc' = [pc EXCEPT ![t] = "func"]
  /\ UNCHANGED <<ret, cb, result, head, sem, notifier, bh_scheduled,
                 cur_threads, new_threads, pending_threads, mainVars,
                 cancelVars>>

\* Mutation: a worker that timed out exits without looking at the queue.
Mut_StayAfterTimeout == FALSE

StayAfterTimeout == request_list # <<>>

\* After a timeout: wait again if a request is queued, else exit.
worker_timedout(t) ==
  /\ pc[t] = "timedout"
  /\ IF StayAfterTimeout
     THEN /\ pc' = [pc EXCEPT ![t] = "waiting"]
          /\ UNCHANGED <<cur_threads, idle_threads>>
     ELSE /\ pc' = [pc EXCEPT ![t] = "none"]
          /\ idle_threads' = idle_threads - 1
          /\ cur_threads' = cur_threads - 1
  /\ UNCHANGED <<elemVars, listVars, bh_scheduled, new_threads,
                 pending_threads, req, mainVars, cancelVars>>

\* req->func returns v ...
worker_return(t, v) ==
  /\ pc[t] = "func"
  /\ result' = [result EXCEPT ![req[t]] = v]
  /\ pc' = [pc EXCEPT ![t] = "returned"]
  /\ UNCHANGED <<state, ret, cb, listVars, threadVars, req, mainVars,
                 cancelVars>>

\* Mutation: the store of ret is not visible when the state is stored.
Mut_worker_store(t) ==
  /\ pc[t] = "returned"
  /\ pc' = [pc EXCEPT ![t] = "stored"]
  /\ UNCHANGED <<elemVars, listVars, threadVars, req, mainVars, cancelVars>>

\* ... and the result is stored in req->ret ...
worker_store(t) ==
  /\ pc[t] = "returned"
  /\ ret' = [ret EXCEPT ![req[t]] = result[req[t]]]
  /\ pc' = [pc EXCEPT ![t] = "stored"]
  /\ UNCHANGED <<state, cb, result, listVars, threadVars, req, mainVars,
                 cancelVars>>

\* ... before (smp_wmb) the state.
worker_done(t) ==
  /\ pc[t] = "stored"
  /\ state' = [state EXCEPT ![req[t]] = "DONE"]
  /\ pc' = [pc EXCEPT ![t] = "done"]
  /\ UNCHANGED <<ret, cb, result, listVars, threadVars, req, mainVars,
                 cancelVars>>

broadcast_check_cancel ==
  woken' = (woken \/ (pending_cancellations > 0 /\ mode = "cancel"))

\* Under lock: broadcast, set the notifier, and go back to waiting.
worker_notify(t) ==
  /\ pc[t] = "done"
  /\ broadcast_check_cancel
  /\ notifier' = TRUE
  /\ idle_threads' = idle_threads + 1
  /\ pc' = [pc EXCEPT ![t] = "waiting"]
  /\ req' = [req EXCEPT ![t] = NoReq]
  /\ UNCHANGED <<elemVars, head, request_list, sem, bh_scheduled, cur_threads,
                 new_threads, pending_threads, mainVars,
                 pending_cancellations, cancelling>>

-----------------------------------------------------------------------------
Main ==
  \/ spawn_thread_bh_fn \/ submit_post \/ cancel_woken
  \/ ready_begin \/ callback_return \/ scan_end
  \/ \E r \in Req : \/ \E c \in BOOLEAN : thread_pool_submit_aio(r, c)
                    \/ cancel_steal(r) \/ cancel_wait(r)
                    \/ scan_skip(r) \/ scan_callback(r) \/ scan_remove(r)

worker_thread(t) ==
  \/ worker_start(t) \/ sem_taken(t) \/ sem_timeout(t) \/ worker_take(t)
  \/ worker_timedout(t) \/ (\E v \in Ret : worker_return(t, v))
  \/ worker_store(t) \/ worker_done(t) \/ worker_notify(t)

Next == Main \/ \E t \in Thread : worker_thread(t)

Spec == Init /\ [][Next]_vars

\* Workers are scheduled and functions return.  The thread with the global
\* mutex finishes what it has begun, callbacks return (at each nesting depth),
\* and it comes back to the main loop, which dispatches a scheduled bottom half
\* and a readable notifier in every iteration.
Fairness ==
  /\ \A t \in Thread :
       /\ WF_vars(worker_start(t)) /\ WF_vars(sem_taken(t))
       /\ WF_vars(worker_take(t)) /\ WF_vars(worker_timedout(t))
       /\ WF_vars(\E v \in Ret : worker_return(t, v))
       /\ WF_vars(worker_store(t)) /\ WF_vars(worker_done(t))
       /\ WF_vars(worker_notify(t))
  /\ WF_vars(submit_post) /\ WF_vars(woken /\ cancel_woken) /\ WF_vars(scan_end)
  /\ WF_vars(\E r \in Req : scan_skip(r) \/ scan_callback(r) \/ scan_remove(r))
  /\ \A n \in 1 .. MaxNest : SF_vars(callback_return /\ Len(calls) = n)
  /\ SF_vars(ready_begin /\ notifier /\ calls = <<>>)
  /\ SF_vars(spawn_thread_bh_fn)

FairSpec == Spec /\ Fairness

-----------------------------------------------------------------------------
(* Properties *)

Workers(at) == {t \in Thread : pc[t] \in at}
Settled(r)  == state[r] \in {"CANCELED", "DONE"}   \* as users see it

\* Every variable has its type.
TypeOK ==
  /\ state \in [Req -> States] /\ ret \in [Req -> Ret]
  /\ cb \in [Req -> BOOLEAN] /\ result \in [Req -> Ret]
  /\ head \in SUBSET Req /\ request_list \in Seq(Req) /\ sem \in Nat
  /\ notifier \in BOOLEAN /\ bh_scheduled \in BOOLEAN
  /\ cur_threads \in Nat /\ idle_threads \in Nat
  /\ new_threads \in Nat /\ pending_threads \in Nat
  /\ pending_cancellations \in Nat
  /\ pc \in [Thread -> PCs] /\ req \in [Thread -> Req \cup {NoReq}]
  /\ mode \in Modes /\ toScan \in SUBSET Req
  /\ calls \in Seq([elem : Req, ret : Ret])
  /\ cancelling \in Req \cup {NoReq} /\ woken \in BOOLEAN

\* The semaphore counts the queued requests no worker has claimed: a worker
\* that got a token, and a cancellation that stole one, find a request, so
\* QTAILQ_FIRST in worker_thread is never NULL.
TokensMatchQueue ==
  Len(request_list) =
    sem + Cardinality(Workers({"claimed"})) + (IF mode = "post" THEN 1 ELSE 0)

\* The thread counters agree with the threads there are, so at most
\* max_threads exist; submit's test of idle_threads == 0 relies on it.
ThreadsAccounted ==
  /\ cur_threads = new_threads + Cardinality(Workers(PCs \ {"none"}))
  /\ pending_threads = Cardinality(Workers({"created"}))
  /\ idle_threads = Cardinality(Workers({"waiting", "timedout", "claimed"}))
  /\ cur_threads <= max_threads

\* A finished or cancelled request is never forgotten on `head': the notifier
\* is set, or its worker is about to set it, or main is inside a callback
\* (after which it scans again), or the scan in progress has not yet passed it.
\* event_notifier_ready must clear the notifier before it reads the states, and
\* start over after a callback.
NoLostCompletion ==
  \A r \in head : Settled(r) =>
    \/ notifier
    \/ \E t \in Thread : pc[t] = "done" /\ req[t] = r
    \/ calls # <<>>
    \/ mode = "scan" /\ r \in toScan

\* Every request leaves `head': its callback was called or it was cancelled.
\* So thread_pool_cancel returns, too: while it waits nothing leaves `head'.
\* Elements are interchangeable, so that one of them stands for all.
AnyReq == CHOOSE r \in Req : TRUE
EveryRequestCompletes == AnyReq \in head ~> AnyReq \notin head

\* The pool as its users see it.
phase == [r \in Req |->
  CASE state[r] = "FREE"     -> "free"
    [] state[r] = "QUEUED"   -> "submitted"
    [] state[r] = "ACTIVE"   -> "running"
    [] state[r] = "CANCELED" -> "cancelled"
    [] state[r] = "DONE"     -> IF r \in head THEN "finished" ELSE "callback"]

\* What the callbacks that are running were called with.
given == {<<calls[i].elem, calls[i].ret>> : i \in 1 .. Len(calls)}

Aio == INSTANCE AioRequests WITH phase <- phase, result <- result, given <- given

\* The pool implements the abstract life of an asynchronous request: its
\* function runs once, its callback once and with what the function returned,
\* not with what the AIOCB holds from its previous use; a cancelled one runs
\* neither, and a cancellation does not return while the function runs.
ImplementsAioRequests == Aio!Spec
=============================================================================
