----------------------------- MODULE AioContext -----------------------------
(***************************************************************************)
(* The AioContext of async.c and aio-posix.c: bottom halves, file handlers *)
(* and aio_poll.  One thread runs the loop; a callback may do anything,    *)
(* including aio_poll again, so the loop is a stack of frames, each with   *)
(* the pointers its C locals hold.  Other threads only schedule bottom     *)
(* halves; file descriptors become ready at any time.                      *)
(***************************************************************************)
EXTENDS Integers, FiniteSets, Sequences, Functions

CONSTANTS Bh,        \* bottom halves
          Node,      \* AioHandler structures, among them Notifier
          Fd,        \* descriptors of AIO users
          Notifier,  \* the handler of ctx->notifier, never removed
          Null,      \* the null pointer
          MaxOps,    \* bound: calls made by callbacks and other code, and signals
          MaxDepth   \* bound: nested aio_poll

NFd == 0     \* the descriptor of the notifier

ASSUME AioConstants ==
  /\ Notifier \in Node /\ Null \notin Bh \cup Node
  /\ IsFiniteSet(Bh) /\ IsFiniteSet(Fd) /\ NFd \notin Fd
  /\ ExistsInjection(Fd, Node \ {Notifier})
  /\ MaxOps \in Nat /\ MaxDepth \in Nat \ {0}

VARIABLES
  bhs,       \* ctx->first_bh, a list of bottom halves
  bh,        \* their flags
  handlers,  \* ctx->aio_handlers, a list of nodes
  node,      \* their fields
  walking_bh, walking_handlers,
  ready,     \* descriptors with an event
  inflight,  \* descriptors whose io_flush returns 1
  stack,     \* active aio_poll calls, innermost first
  checked,   \* aio_ctx_check said yes and the dispatch is still to come
  posting,   \* a bottom half another thread has marked but not notified yet
  ops        \* for the bound

vars == <<bhs, bh, handlers, node, walking_bh, walking_handlers, ready, inflight,
          stack, checked, posting, ops>>

Idle == [scheduled |-> FALSE, idle |-> FALSE, deleted |-> FALSE]
FreeNode == [fd |-> NFd, deleted |-> FALSE, revents |-> FALSE]
-----------------------------------------------------------------------------
(* Lists.                                                                  *)

First(list) == IF list = <<>> THEN Null ELSE Head(list)
After(list, x) == LET i == CHOOSE k \in DOMAIN list : list[k] = x
                  IN IF i = Len(list) THEN Null ELSE list[i + 1]
Listed(x, list) == \E i \in DOMAIN list : list[i] = x
Without(list, S) ==
  LET kept == {i \in DOMAIN list : list[i] \notin S}
      place(i) == Cardinality({j \in kept : j <= i})
  IN [k \in 1 .. Cardinality(kept) |-> list[CHOOSE i \in kept : place(i) = k]]

(* The elements of a set in some order. *)
ListOf(S) == CHOOSE list \in Bijection(1 .. Cardinality(S), S) : TRUE

(* find_aio_handler *)
find_aio_handler(fd) ==
  LET S == {n \in Node : Listed(n, handlers) /\ node[n].fd = fd /\ ~node[n].deleted}
  IN IF S = {} THEN Null ELSE CHOOSE n \in S : TRUE

(* Frames.  pc "bh", "walk1", "fill", "select", "walk2": inside aio_poll;  *)
(* "bhcb", "cb1", "cb2": inside the callback called from there.            *)
Frame(blocking) == [pc |-> "enter", cur |-> Null, blocking |-> blocking,
                    progress |-> FALSE, rdfds |-> {}, noted |-> FALSE]
Top == Head(stack)
At(pc) == stack # <<>> /\ Top.pc = pc
Goto(f) == stack' = <<f>> \o Tail(stack)

(* Code other than the loop runs: a callback, or nothing is on the stack.  *)
InCallback == stack # <<>> => Top.pc \in {"bhcb", "cb1", "cb2"}
MayCall == InCallback /\ ops < MaxOps /\ ops' = ops + 1
-----------------------------------------------------------------------------
(* aio_context_new has added the notifier's handler; the devices have      *)
(* created their bottom halves and a handler for each descriptor.          *)
Init ==
  /\ bhs = ListOf(Bh) /\ bh = [b \in Bh |-> Idle]
  /\ LET of == CHOOSE f \in Injection(Fd, Node \ {Notifier}) : TRUE
     IN /\ handlers = ListOf(Range(of)) \o <<Notifier>>
        /\ node = [n \in Node |-> IF n \in Range(of)
                                  THEN [FreeNode EXCEPT !.fd = CHOOSE fd \in Fd : of[fd] = n]
                                  ELSE FreeNode]
  /\ walking_bh = 0 /\ walking_handlers = 0
  /\ ready = {} /\ inflight = {}
  /\ stack = <<>> /\ checked = FALSE /\ posting = Null /\ ops = 0
-----------------------------------------------------------------------------
(* What callbacks, other code under the global mutex and other threads do. *)

aio_bh_new(b) ==
  /\ MayCall /\ ~Listed(b, bhs)
  /\ bhs' = <<b>> \o bhs /\ bh' = [bh EXCEPT ![b] = Idle]
  /\ UNCHANGED <<handlers, node, walking_bh, walking_handlers, ready, inflight, stack, checked, posting>>

(* Only a bottom half that was not deleted is still known to its owner. *)
Owned(b) == Listed(b, bhs) /\ ~bh[b].deleted

(* Mutant: the bottom half is marked and the notifier not set. *)
Mut_qemu_bh_schedule(b) ==
  /\ MayCall /\ Owned(b) /\ ~bh[b].scheduled
  /\ bh' = [bh EXCEPT ![b].scheduled = TRUE, ![b].idle = FALSE]
  /\ UNCHANGED <<bhs, handlers, node, walking_bh, walking_handlers, ready, inflight, stack, checked, posting>>

qemu_bh_schedule(b) ==
  /\ MayCall /\ Owned(b) /\ ~bh[b].scheduled
  /\ bh' = [bh EXCEPT ![b].scheduled = TRUE, ![b].idle = FALSE]
  /\ ready' = ready \cup {NFd}
  /\ UNCHANGED <<bhs, handlers, node, walking_bh, walking_handlers, inflight, stack, checked, posting>>

qemu_bh_schedule_idle(b) ==
  /\ MayCall /\ Owned(b) /\ ~bh[b].scheduled
  /\ bh' = [bh EXCEPT ![b].scheduled = TRUE, ![b].idle = TRUE]
  /\ UNCHANGED <<bhs, handlers, node, walking_bh, walking_handlers, ready, inflight, stack, checked, posting>>

qemu_bh_cancel(b) ==
  /\ MayCall /\ Owned(b) /\ bh[b].scheduled
  /\ bh' = [bh EXCEPT ![b].scheduled = FALSE]
  /\ UNCHANGED <<bhs, handlers, node, walking_bh, walking_handlers, ready, inflight, stack, checked, posting>>

qemu_bh_delete(b) ==
  /\ MayCall /\ Owned(b) /\ posting # b
  /\ bh' = [bh EXCEPT ![b].scheduled = FALSE, ![b].deleted = TRUE]
  /\ UNCHANGED <<bhs, handlers, node, walking_bh, walking_handlers, ready, inflight, stack, checked, posting>>

(* qemu_bh_schedule by another thread, without the mutex: the flags, then  *)
(* aio_notify.                                                             *)
ThreadSchedule(b) ==
  /\ posting = Null /\ ops < MaxOps /\ ops' = ops + 1
  /\ Owned(b) /\ ~bh[b].scheduled
  /\ bh' = [bh EXCEPT ![b].scheduled = TRUE, ![b].idle = FALSE]
  /\ posting' = b
  /\ UNCHANGED <<bhs, handlers, node, walking_bh, walking_handlers, ready, inflight, stack, checked>>

aio_notify ==
  /\ posting # Null
  /\ posting' = Null /\ ready' = ready \cup {NFd}
  /\ UNCHANGED <<bhs, bh, handlers, node, walking_bh, walking_handlers, inflight, stack, checked, ops>>

(* aio_set_fd_handler with a read handler: a new node at the head of the   *)
(* list unless the descriptor has one.                                     *)
SetHandler(fd, n) ==
  /\ MayCall /\ find_aio_handler(fd) = Null /\ ~Listed(n, handlers)
  /\ handlers' = <<n>> \o handlers
  /\ node' = [node EXCEPT ![n] = [FreeNode EXCEPT !.fd = fd]]
  /\ ready' = ready \cup {NFd}
  /\ UNCHANGED <<bhs, bh, walking_bh, walking_handlers, inflight, stack, checked, posting>>

(* Mutant: a removed handler keeps the events the GLib loop found. *)
Mut_ClearHandler(fd) ==
  LET n == find_aio_handler(fd) IN
  /\ MayCall /\ n # Null
  /\ IF walking_handlers > 0
     THEN node' = [node EXCEPT ![n].deleted = TRUE] /\ UNCHANGED handlers
     ELSE handlers' = Without(handlers, {n}) /\ UNCHANGED node
  /\ ready' = (ready \ {fd}) \cup {NFd}
  /\ inflight' = inflight \ {fd}
  /\ UNCHANGED <<bhs, bh, walking_bh, walking_handlers, stack, checked, posting>>

(* ... and with none: marked while a walk is on, else freed at once.       *)
ClearHandler(fd) ==
  LET n == find_aio_handler(fd) IN
  /\ MayCall /\ n # Null
  /\ IF walking_handlers > 0
     THEN /\ node' = [node EXCEPT ![n].deleted = TRUE, ![n].revents = FALSE]
          /\ UNCHANGED handlers
     ELSE handlers' = Without(handlers, {n}) /\ UNCHANGED node
  /\ ready' = (ready \ {fd}) \cup {NFd}   \* the caller closes fd
  /\ inflight' = inflight \ {fd}
  /\ UNCHANGED <<bhs, bh, walking_bh, walking_handlers, stack, checked, posting>>

(* An AIO user submits a request, whose completion makes fd readable. *)
Submit(fd) ==
  /\ MayCall /\ find_aio_handler(fd) # Null /\ fd \notin inflight
  /\ inflight' = inflight \cup {fd}
  /\ UNCHANGED <<bhs, bh, handlers, node, walking_bh, walking_handlers, ready, stack, checked, posting>>

Event(fd) ==
  /\ fd \in inflight \ ready
  /\ ready' = ready \cup {fd}
  /\ UNCHANGED <<bhs, bh, handlers, node, walking_bh, walking_handlers, inflight, stack, checked, posting, ops>>

(* The callback returns to the walk that called it. *)
Return ==
  /\ stack # <<>> /\ InCallback
  /\ Goto([Top EXCEPT !.pc = CASE Top.pc = "bhcb" -> "bh"
                               [] Top.pc = "cb1"  -> "end1"
                               [] Top.pc = "cb2"  -> "end2"])
  /\ UNCHANGED <<bhs, bh, handlers, node, walking_bh, walking_handlers, ready, inflight, checked, posting, ops>>
-----------------------------------------------------------------------------
(* aio_poll.                                                               *)

(* A synchronous wait, from the main program or from a callback. *)
qemu_aio_wait ==
  /\ InCallback /\ Len(stack) < MaxDepth
  /\ stack # <<>> => ops < MaxOps
  /\ ops' = IF stack = <<>> THEN ops ELSE ops + 1
  /\ stack' = <<Frame(TRUE)>> \o stack
  /\ UNCHANGED <<bhs, bh, handlers, node, walking_bh, walking_handlers, ready, inflight, checked, posting>>

(* The GLib main loop.  poll() fills pfd.revents and aio_ctx_check looks   *)
(* for work (g_main_context_check); aio_ctx_dispatch follows, but other    *)
(* sources may be dispatched, and vCPU threads run, before it.             *)
aio_ctx_check ==
  LET polled == [n \in Node |-> IF Listed(n, handlers) /\ ~node[n].deleted
                                THEN [node[n] EXCEPT !.revents = node[n].fd \in ready]
                                ELSE node[n]]
  IN /\ stack = <<>> /\ ~checked
     /\ \/ \E b \in Bh : Owned(b) /\ bh[b].scheduled
        \/ \E n \in Node : Listed(n, handlers) /\ polled[n].revents
     /\ node' = polled /\ checked' = TRUE
     /\ UNCHANGED <<bhs, bh, handlers, walking_bh, walking_handlers, ready, inflight, stack, posting, ops>>

aio_ctx_dispatch ==
  /\ stack = <<>> /\ checked
  /\ checked' = FALSE /\ stack' = <<Frame(FALSE)>>
  /\ UNCHANGED <<bhs, bh, handlers, node, walking_bh, walking_handlers, ready, inflight, posting, ops>>

(* aio_bh_poll: the walk starts. *)
BhStart ==
  /\ At("enter")
  /\ walking_bh' = walking_bh + 1
  /\ Goto([Top EXCEPT !.pc = "bh", !.cur = First(bhs)])
  /\ UNCHANGED <<bhs, bh, handlers, node, walking_handlers, ready, inflight, checked, posting, ops>>

(* Mutant: a bottom half that runs stays scheduled. *)
Mut_BhWalk ==
  /\ At("bh") /\ Top.cur # Null
  /\ LET b == Top.cur
         run == ~bh[b].deleted /\ bh[b].scheduled
     IN Goto([Top EXCEPT !.pc = IF run THEN "bhcb" ELSE "bh",
                         !.cur = After(bhs, b),
                         !.progress = Top.progress \/ (run /\ ~bh[b].idle),
                         !.blocking = Top.blocking /\ ~(run /\ ~bh[b].idle)])
  /\ UNCHANGED <<bhs, bh, handlers, node, walking_bh, walking_handlers, ready, inflight, checked, posting, ops>>

(* Every bottom half from the current one on that is scheduled is run; the *)
(* next pointer is read before the callback.                               *)
BhWalk ==
  /\ At("bh") /\ Top.cur # Null
  /\ LET b == Top.cur
         run == ~bh[b].deleted /\ bh[b].scheduled
     IN /\ Goto([Top EXCEPT !.pc = IF run THEN "bhcb" ELSE "bh",
                            !.cur = After(bhs, b),
                            !.progress = Top.progress \/ (run /\ ~bh[b].idle),
                            !.blocking = Top.blocking /\ ~(run /\ ~bh[b].idle)])
        /\ bh' = IF run THEN [bh EXCEPT ![b].scheduled = FALSE, ![b].idle = FALSE] ELSE bh
  /\ UNCHANGED <<bhs, handlers, node, walking_bh, walking_handlers, ready, inflight, checked, posting, ops>>

(* Mutant: nested walks free the deleted bottom halves too. *)
Mut_BhEnd ==
  /\ At("bh") /\ Top.cur = Null
  /\ walking_bh' = walking_bh - 1
  /\ bhs' = Without(bhs, {b \in Bh : bh[b].deleted})
  /\ Goto([Top EXCEPT !.pc = "walk1", !.cur = First(handlers)])
  /\ UNCHANGED <<bh, handlers, node, walking_handlers, ready, inflight, checked, posting, ops>>

(* The end of the walk: the outermost one frees the deleted ones. *)
BhEnd ==
  /\ At("bh") /\ Top.cur = Null
  /\ walking_bh' = walking_bh - 1
  /\ bhs' = IF walking_bh = 1 THEN Without(bhs, {b \in Bh : bh[b].deleted}) ELSE bhs
  /\ Goto([Top EXCEPT !.pc = "walk1", !.cur = First(handlers)])
  /\ UNCHANGED <<bh, handlers, node, walking_handlers, ready, inflight, checked, posting, ops>>

(* io_read: the notifier's clears it, a user's completes its request if    *)
(* the descriptor is ready.                                                *)
io_read(n, f) ==
  /\ ready' = ready \ {node[n].fd} /\ inflight' = inflight \ ({node[n].fd} \cap ready)
  /\ stack' = [i \in DOMAIN stack |->
                 [(IF i = 1 THEN f ELSE stack[i]) EXCEPT !.noted = @ \/ n = Notifier]]

(* The first walk dispatches what the GLib loop found. *)
Walk1 ==
  /\ At("walk1") /\ Top.cur # Null
  /\ walking_handlers' = walking_handlers + 1
  /\ node' = [node EXCEPT ![Top.cur].revents = FALSE]
  /\ IF node[Top.cur].revents
     THEN io_read(Top.cur, [Top EXCEPT !.pc = IF Top.cur = Notifier THEN "end1" ELSE "cb1",
                                       !.progress = TRUE])
     ELSE /\ Goto([Top EXCEPT !.pc = "end1"])
          /\ UNCHANGED <<ready, inflight>>
  /\ UNCHANGED <<bhs, bh, handlers, walking_bh, checked, posting, ops>>

(* Mutant: the count of walks is dropped only with a node to free. *)
Mut_WalkEnd(pc, to) ==
  /\ At(pc)
  /\ walking_handlers' = IF node[Top.cur].deleted THEN walking_handlers - 1 ELSE walking_handlers
  /\ Goto([Top EXCEPT !.pc = to, !.cur = After(handlers, Top.cur)])
  /\ handlers' = IF walking_handlers = 1 /\ node[Top.cur].deleted
                 THEN Without(handlers, {Top.cur}) ELSE handlers
  /\ UNCHANGED <<bhs, bh, node, walking_bh, ready, inflight, checked, posting, ops>>

(* After each node: next is read, the count dropped, and a node removed    *)
(* meanwhile is freed when no walk is left.                                *)
WalkEnd(pc, to) ==
  /\ At(pc)
  /\ walking_handlers' = walking_handlers - 1
  /\ Goto([Top EXCEPT !.pc = to, !.cur = After(handlers, Top.cur)])
  /\ handlers' = IF walking_handlers = 1 /\ node[Top.cur].deleted
                 THEN Without(handlers, {Top.cur}) ELSE handlers
  /\ UNCHANGED <<bhs, bh, node, walking_bh, ready, inflight, checked, posting, ops>>

Pop == stack' = Tail(stack)

(* Then a poll that made progress and need not block returns. *)
Walk1Done ==
  /\ At("walk1") /\ Top.cur = Null
  /\ IF Top.progress /\ ~Top.blocking THEN Pop ELSE Goto([Top EXCEPT !.pc = "fill"])
  /\ UNCHANGED <<bhs, bh, handlers, node, walking_bh, walking_handlers, ready, inflight, checked, posting, ops>>

(* The sets for select: handlers with nothing in flight are left out, and  *)
(* with nothing in flight at all the poll returns.                         *)
Live == {n \in Node : Listed(n, handlers) /\ ~node[n].deleted}
Fill ==
  /\ At("fill")
  /\ LET busy == {node[n].fd : n \in Live} \cap inflight
     IN IF busy = {} THEN Pop
        ELSE Goto([Top EXCEPT !.pc = "select", !.rdfds = busy \cup {NFd}])
  /\ UNCHANGED <<bhs, bh, handlers, node, walking_bh, walking_handlers, ready, inflight, checked, posting, ops>>

(* Mutant: select never blocks. *)
Mut_Select ==
  /\ At("select")
  /\ LET set == Top.rdfds \cap ready
     IN IF set = {} THEN Pop
        ELSE Goto([Top EXCEPT !.pc = "walk2", !.cur = First(handlers), !.rdfds = set])
  /\ UNCHANGED <<bhs, bh, handlers, node, walking_bh, walking_handlers, ready, inflight, checked, posting, ops>>

(* select blocks until a descriptor of the sets is ready, unless it only polls. *)
Select ==
  /\ At("select")
  /\ LET set == Top.rdfds \cap ready
     IN \/ /\ set # {}
           /\ Goto([Top EXCEPT !.pc = "walk2", !.cur = First(handlers), !.rdfds = set])
        \/ set = {} /\ ~Top.blocking /\ Pop
  /\ UNCHANGED <<bhs, bh, handlers, node, walking_bh, walking_handlers, ready, inflight, checked, posting, ops>>

(* A signal interrupts select: nothing is dispatched and the poll returns. *)
Interrupted ==
  /\ At("select") /\ ops < MaxOps /\ ops' = ops + 1
  /\ Pop
  /\ UNCHANGED <<bhs, bh, handlers, node, walking_bh, walking_handlers, ready, inflight, checked, posting>>

(* The second walk dispatches what select found. *)
Walk2 ==
  /\ At("walk2") /\ Top.cur # Null
  /\ walking_handlers' = walking_handlers + 1
  /\ IF ~node[Top.cur].deleted /\ node[Top.cur].fd \in Top.rdfds
     THEN io_read(Top.cur, [Top EXCEPT !.pc = IF Top.cur = Notifier THEN "end2" ELSE "cb2",
                                       !.progress = TRUE])
     ELSE /\ Goto([Top EXCEPT !.pc = "end2"])
          /\ UNCHANGED <<ready, inflight>>
  /\ UNCHANGED <<bhs, bh, handlers, node, walking_bh, checked, posting, ops>>

Walk2Done ==
  /\ At("walk2") /\ Top.cur = Null
  /\ Pop
  /\ UNCHANGED <<bhs, bh, handlers, node, walking_bh, walking_handlers, ready, inflight, checked, posting, ops>>
-----------------------------------------------------------------------------
Poll == \/ BhStart \/ BhWalk \/ BhEnd \/ Walk1 \/ WalkEnd("end1", "walk1") \/ Walk1Done
        \/ Fill \/ Select \/ Walk2 \/ WalkEnd("end2", "walk2") \/ Walk2Done

Calls == \/ \E b \in Bh : \/ aio_bh_new(b) \/ qemu_bh_schedule(b) \/ qemu_bh_schedule_idle(b)
                          \/ qemu_bh_cancel(b) \/ qemu_bh_delete(b) \/ ThreadSchedule(b)
         \/ \E fd \in Fd : Submit(fd) \/ ClearHandler(fd) \/ \E n \in Node : SetHandler(fd, n)

Next == Poll \/ Interrupted \/ Calls \/ Return \/ aio_notify \/ qemu_aio_wait
        \/ aio_ctx_check \/ aio_ctx_dispatch
        \/ \E fd \in Fd : Event(fd)

Spec == Init /\ [][Next]_vars

(* The loop runs, callbacks return, threads that began to schedule finish, *)
(* and requests in flight complete.                                        *)
FairSpec == /\ Spec
            /\ WF_vars(Poll) /\ WF_vars(Return) /\ WF_vars(aio_notify)
            /\ WF_vars(aio_ctx_check) /\ WF_vars(aio_ctx_dispatch)
            /\ \A fd \in Fd : WF_vars(Event(fd))
-----------------------------------------------------------------------------
(* Properties.                                                             *)

(* Every variable has its type. *)
TypeOK ==
  /\ bhs \in Seq(Bh) /\ handlers \in Seq(Node)
  /\ bh \in [Bh -> [scheduled : BOOLEAN, idle : BOOLEAN, deleted : BOOLEAN]]
  /\ node \in [Node -> [fd : Fd \cup {NFd}, deleted : BOOLEAN, revents : BOOLEAN]]
  /\ walking_bh \in 0 .. MaxDepth /\ walking_handlers \in 0 .. MaxDepth
  /\ ready \subseteq Fd \cup {NFd} /\ inflight \subseteq Fd
  /\ Len(stack) <= MaxDepth /\ posting \in Bh \cup {Null} /\ checked \in BOOLEAN /\ ops \in 0 .. MaxOps

BhPcs == {"bh", "bhcb"}
WalkPcs == {"walk1", "cb1", "end1", "walk2", "cb2", "end2"}

(* No walk, outer or inner, holds a pointer to a bottom half or a handler  *)
(* that has been freed, whatever callbacks and nested polls remove.        *)
NoDangling == \A i \in DOMAIN stack : LET f == stack[i] IN
  f.cur # Null => /\ f.pc \in BhPcs => Listed(f.cur, bhs)
                  /\ f.pc \in WalkPcs => Listed(f.cur, handlers)

(* A callback is never called once its bottom half was deleted or its      *)
(* handler removed, not even by a walk that had selected it before.        *)
Called(f, g) == f.pc # g.pc /\ g.pc \in {"cb1", "cb2"}
NoCallAfterRemoval ==
  [][stack # <<>> /\ stack' # <<>> /\ Len(stack) = Len(stack') =>
       /\ Called(Top, Head(stack')) => ~node[Top.cur].deleted
       /\ Top.pc = "bh" /\ Head(stack').pc = "bhcb" => ~bh[Top.cur].deleted]_vars

(* A blocking poll, qemu_aio_wait or aio_flush's, that returns without     *)
(* progress leaves nothing in flight, unless a signal interrupted it.      *)
FalseMeansIdle ==
  [][Len(stack') < Len(stack) /\ Top.blocking /\ ~Top.progress =>
       inflight = {} \/ Interrupted]_vars

(* A poll that sleeps in select is woken when a bottom half is scheduled:  *)
(* the notifier is set or about to be, unless this poll, or one inside it, *)
(* has already read it.                                                    *)
Sleeping == At("select") /\ Top.blocking /\ Top.rdfds \cap ready = {}
Pending(b) == Owned(b) /\ bh[b].scheduled /\ ~bh[b].idle
WokenByBh == Sleeping /\ ~Top.noted => \A b \in Bh : Pending(b) => posting = b

(* aio_notify forces a waiting aio_poll to exit, so none sleeps while a    *)
(* bottom half is pending.                                                 *)
NotifyEndsWait == Sleeping => \A b \in Bh : Pending(b) => posting = b

(* A scheduled bottom half runs, or is cancelled or deleted. *)
ScheduledRuns == \A b \in Bh : Pending(b) ~> ~Pending(b)
=============================================================================
