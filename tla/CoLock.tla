------------------------------- MODULE CoLock -------------------------------
(***************************************************************************)
(* Coroutines and their locks: qemu-coroutine.c and qemu-coroutine-lock.c. *)
(* One thread runs a stack of contexts, the event loop at the bottom; each *)
(* coroutine entered is pushed by its caller and popped when it yields or  *)
(* ends.  Locks do not enter the coroutine they wake: they move it to      *)
(* unlock_bh_queue, which the bottom half unlock_bh empties later, so the  *)
(* lock can be taken by another coroutine before the one that was woken    *)
(* looks at it.                                                            *)
(***************************************************************************)
EXTENDS Integers, Sequences, FiniteSets, SequencesExt

CONSTANTS Co,       \* coroutines
          Work,     \* bound: lock acquisitions and I/O waits in a behaviour
          EventLoop, Bh   \* contexts that are not coroutines

ASSUME ConstantsAssumption ==
  /\ Work \in Nat
  /\ EventLoop \notin Co /\ Bh \notin Co /\ EventLoop # Bh

VARIABLES
  stack,            \* contexts, innermost last: the chain of co->caller
  st,               \* what each coroutine is doing
  locked,           \* CoMutex.locked
  reader, writer,   \* CoRwlock
  queue,            \* the CoQueue of each lock
  unlock_bh_queue,
  scheduled,        \* unlock_bh->scheduled
  holds,            \* history: what each coroutine has acquired
  left              \* what is left of Work

lockVars == <<locked, reader, writer>>
vars == <<stack, st, lockVars, queue, unlock_bh_queue, scheduled, holds, left>>

Wants == {"mutex", "read", "write"}
LockOf(want) == IF want = "mutex" THEN "mutex" ELSE "rwlock"

Init ==
  /\ stack = <<EventLoop>> /\ st = [c \in Co |-> "new"]
  /\ locked = FALSE /\ reader = 0 /\ writer = FALSE
  /\ queue = [l \in {"mutex", "rwlock"} |-> <<>>]
  /\ unlock_bh_queue = <<>> /\ scheduled = FALSE
  /\ holds = [c \in Co |-> "none"] /\ left = Work

Top == Last(stack)
OnStack(x) == \E i \in 1 .. Len(stack) : stack[i] = x
Running(c) == Top = c /\ c \in Co

-----------------------------------------------------------------------------
(* qemu-coroutine.c *)

\* qemu_coroutine_enter: the context that runs becomes the caller of c.
enter(c) == stack' = Append(stack, c)

\* qemu_coroutine_yield: back to the caller.
yield == stack' = Front(stack)

\* A coroutine is created and entered, by any context but unlock_bh.
create(c) ==
  /\ Top # Bh /\ st[c] = "new"
  /\ enter(c) /\ st' = [st EXCEPT ![c] = "run"]
  /\ UNCHANGED <<lockVars, queue, unlock_bh_queue, scheduled, holds, left>>

\* The coroutine waits for I/O, with or without a lock.
co_wait_io(c) ==
  /\ Running(c) /\ left > 0
  /\ yield /\ st' = [st EXCEPT ![c] = "io"] /\ left' = left - 1
  /\ UNCHANGED <<lockVars, queue, unlock_bh_queue, scheduled, holds>>

\* The I/O ends; the event loop, or a nested qemu_aio_wait, enters it again.
co_io_done(c) ==
  /\ Top # Bh /\ st[c] = "io"
  /\ enter(c) /\ st' = [st EXCEPT ![c] = "run"]
  /\ UNCHANGED <<lockVars, queue, unlock_bh_queue, scheduled, holds, left>>

\* The coroutine function returns (COROUTINE_TERMINATE).
terminate(c) ==
  /\ Running(c) /\ holds[c] = "none"
  /\ yield /\ st' = [st EXCEPT ![c] = "done"]
  /\ UNCHANGED <<lockVars, queue, unlock_bh_queue, scheduled, holds, left>>

-----------------------------------------------------------------------------
(* Taking a lock *)

\* Mutation: a writer does not wait for readers.
Mut_must_wait(want) ==
  CASE want = "mutex" -> locked
    [] want = "read"  -> writer
    [] want = "write" -> writer

\* The conditions of the loops in qemu_co_mutex_lock, qemu_co_rwlock_rdlock
\* and qemu_co_rwlock_wrlock.
must_wait(want) ==
  CASE want = "mutex" -> locked
    [] want = "read"  -> writer
    [] want = "write" -> writer \/ reader > 0

\* What they do after the loop.
acquire(c, want) ==
  /\ locked' = (locked \/ want = "mutex")
  /\ reader' = IF want = "read" THEN reader + 1 ELSE reader
  /\ writer' = (writer \/ want = "write")
  /\ holds' = [holds EXCEPT ![c] = want]

\* qemu_co_queue_wait up to the yield.
queue_wait(c, want) ==
  /\ queue' = [queue EXCEPT ![LockOf(want)] = Append(@, c)]
  /\ st' = [st EXCEPT ![c] = want]

lock(c, want) ==
  /\ Running(c) /\ holds[c] = "none" /\ left > 0
  /\ left' = left - 1
  /\ IF must_wait(want)
     THEN queue_wait(c, want) /\ yield /\ UNCHANGED <<lockVars, holds>>
     ELSE acquire(c, want) /\ UNCHANGED <<queue, st, stack>>
  /\ UNCHANGED <<unlock_bh_queue, scheduled>>

\* The same condition, on the way back from qemu_co_queue_wait.
must_wait_again(want) == must_wait(want)

-----------------------------------------------------------------------------
(* Releasing a lock *)

\* Mutation: the coroutine is not removed from the queue of the lock.
Mut_queue_next_unlinked(l, n) ==
  /\ queue' = queue
  /\ unlock_bh_queue' = unlock_bh_queue \o SubSeq(queue[l], 1, n)
  /\ scheduled' = (scheduled \/ n > 0)

\* qemu_co_queue_next, n times.
queue_next(l, n) ==
  /\ queue' = [queue EXCEPT ![l] = SubSeq(@, n + 1, Len(@))]
  /\ unlock_bh_queue' = unlock_bh_queue \o SubSeq(queue[l], 1, n)
  /\ scheduled' = (scheduled \/ n > 0)

first(l) == IF queue[l] = <<>> THEN 0 ELSE 1
all(l)   == Len(queue[l])

mutex_unlock(c) ==
  /\ Running(c) /\ holds[c] = "mutex"
  /\ locked' = FALSE /\ holds' = [holds EXCEPT ![c] = "none"]
  /\ queue_next("mutex", first("mutex"))
  /\ UNCHANGED <<stack, st, reader, writer, left>>

\* qemu_co_rwlock_unlock wakes everybody when a writer leaves, and one
\* coroutine when the last reader does.
wake_writer == all("rwlock")

wake_reader == IF reader = 1 THEN first("rwlock") ELSE 0

\* Mutation: a writer that leaves is counted as a reader.
Mut_left_by_writer == FALSE

left_by_writer == writer

rwlock_unlock(c) ==
  /\ Running(c) /\ holds[c] \in {"read", "write"}
  /\ holds' = [holds EXCEPT ![c] = "none"]
  /\ IF left_by_writer
     THEN writer' = FALSE /\ UNCHANGED reader /\ queue_next("rwlock", wake_writer)
     ELSE reader' = reader - 1 /\ UNCHANGED writer /\ queue_next("rwlock", wake_reader)
  /\ UNCHANGED <<stack, st, locked, left>>

-----------------------------------------------------------------------------
(* unlock_bh *)

\* aio_bh_poll, from the event loop or from a nested qemu_aio_wait.
bh_poll ==
  /\ Top # Bh /\ scheduled
  /\ scheduled' = FALSE /\ stack' = Append(stack, Bh)
  /\ UNCHANGED <<st, lockVars, queue, unlock_bh_queue, holds, left>>

\* One turn of qemu_co_queue_next_bh: the coroutine tests its condition again
\* and either runs with the lock or waits again.
next_bh ==
  /\ Top = Bh /\ unlock_bh_queue # <<>>
  /\ unlock_bh_queue' = Tail(unlock_bh_queue)
  /\ LET c == Head(unlock_bh_queue)
     IN IF must_wait_again(st[c])
        THEN queue_wait(c, st[c]) /\ UNCHANGED <<lockVars, holds, stack>>
        ELSE /\ acquire(c, st[c]) /\ enter(c) /\ st' = [st EXCEPT ![c] = "run"]
             /\ UNCHANGED queue
  /\ UNCHANGED <<scheduled, left>>

\* Mutation: the bottom half wakes one coroutine and returns.
Mut_bh_may_return == TRUE

bh_may_return == unlock_bh_queue = <<>>

bh_return ==
  /\ Top = Bh /\ bh_may_return
  /\ yield
  /\ UNCHANGED <<st, lockVars, queue, unlock_bh_queue, scheduled, holds, left>>

-----------------------------------------------------------------------------
Next ==
  \/ bh_poll \/ next_bh \/ bh_return
  \/ \E c \in Co : \/ create(c) \/ co_wait_io(c) \/ co_io_done(c) \/ terminate(c)
                   \/ mutex_unlock(c) \/ rwlock_unlock(c)
                   \/ \E want \in Wants : lock(c, want)

Spec == Init /\ [][Next]_vars

\* The thread runs while it has something to do, and coroutines end.
FairSpec == Spec /\ WF_vars(Next)

-----------------------------------------------------------------------------
(* Properties *)

Waiting == {c \in Co : st[c] \in Wants}
\* Every variable has a value of its C type.
TypeOK ==
  /\ stack \in Seq(Co \cup {EventLoop, Bh}) /\ stack # <<>>
  /\ st \in [Co -> Wants \cup {"new", "run", "io", "done"}]
  /\ locked \in BOOLEAN /\ writer \in BOOLEAN /\ reader \in Nat
  /\ queue \in [{"mutex", "rwlock"} -> Seq(Co)]
  /\ unlock_bh_queue \in Seq(Co) /\ scheduled \in BOOLEAN
  /\ holds \in [Co -> Wants \cup {"none"}] /\ left \in 0 .. Work

\* Holders exclude each other as CoMutex and CoRwlock promise, also when a woken
\* coroutine finds that another took the lock before it, and the flags and the
\* counter say who holds what (the assertion in qemu_co_rwlock_unlock).
Exclusion ==
  /\ \A c, d \in Co : c # d => {holds[c], holds[d]} \notin
       {{"mutex"}, {"write"}, {"read", "write"}}
  /\ locked <=> \E c \in Co : holds[c] = "mutex"
  /\ writer <=> \E c \in Co : holds[c] = "write"
  /\ reader = Cardinality({c \in Co : holds[c] = "read"})

\* A coroutine is linked through its one co_queue_next field into at most one
\* list, and is there exactly while it waits; it is never entered while it
\* runs ("Co-routine re-entered recursively").
LinkedOnce ==
  LET links == queue["mutex"] \o queue["rwlock"] \o unlock_bh_queue
  IN /\ \A i, j \in 1 .. Len(links) : links[i] = links[j] => i = j
     /\ {links[i] : i \in 1 .. Len(links)} = Waiting
     /\ \A c \in Co : OnStack(c) <=> st[c] = "run"

\* Whoever waits for a lock gets it, as long as coroutines release theirs and
\* only so many requests overtake it.
WaitersRun == \A c \in Co : st[c] \in Wants ~> st[c] = "run"
=============================================================================
