-------------------------- MODULE AioContextProofs --------------------------
(***************************************************************************)
(* What users of the event loop rely on, from the invariant on its walks:  *)
(* handlers are called for what select found, never after their removal,   *)
(* and schedulers of bottom halves wake a poll that sleeps.                *)
(***************************************************************************)
EXTENDS AioContextInvariant

-----------------------------------------------------------------------------
(* What the handlers and the sets for select are good for. *)

LiveIn(hl, nd) == {n \in Node : Listed(n, hl) /\ ~nd[n].deleted}

\* Call f made progress in its second walk, or will when it comes to a handler
\* that select found; and what it gives to select are descriptors with handlers.
Served(f, hl, nd) ==
  /\ f.pc = "cb2" => f.progress
  /\ f.pc \in {"walk2", "end2"} /\ ~f.progress =>
       /\ f.cur # Null
       /\ \E n \in LiveIn(hl, nd) : /\ nd[n].fd \in f.rdfds /\ From(hl, f.cur, n)
                                    /\ f.pc = "end2" => n # f.cur
  /\ f.pc = "select" => /\ NFd \in f.rdfds
                        /\ \A fd \in f.rdfds : \E n \in LiveIn(hl, nd) : nd[n].fd = fd

\* Removed handlers have no events, the notifier keeps its handler, and every
\* descriptor with requests in flight has one.
NodesOK(hl, nd, inf) ==
  /\ \A n \in Node : nd[n].revents => ~nd[n].deleted
  /\ Notifier \in LiveIn(hl, nd) /\ nd[Notifier].fd = NFd
  /\ \A n \in Node \ {Notifier} : Listed(n, hl) => nd[n].fd \in Fd
  /\ \A fd \in inf : \E n \in LiveIn(hl, nd) : nd[n].fd = fd

NodesInv ==
  /\ NodesOK(handlers, node, inflight)
  /\ \A i \in 1 .. Len(stack) : Served(stack[i], handlers, node)

\* The handlers stay in the list, and what select needs of them is the same.
LEMMA NodesSame ==
  ASSUME NEW hl, NEW nd, NEW inf, NodesOK(hl, nd, inf), NEW md, NEW ing,
         \A n \in Node : md[n].fd = nd[n].fd /\ md[n].deleted = nd[n].deleted,
         \A n \in Node : md[n].revents => nd[n].revents \/ ~nd[n].deleted,
         \A fd \in ing : fd \in inf \/ \E n \in LiveIn(hl, nd) : nd[n].fd = fd
  PROVE  /\ NodesOK(hl, md, ing)
         /\ \A f : Served(f, hl, nd) => Served(f, hl, md)
<1>1. LiveIn(hl, md) = LiveIn(hl, nd) /\ LiveIn(hl, nd) \subseteq Node
  BY Zenon DEF LiveIn
<1>2. \A fd \in ing : \E n \in LiveIn(hl, nd) : nd[n].fd = fd
  BY Zenon DEF NodesOK
<1>3. \A n \in LiveIn(hl, nd) : md[n].fd = nd[n].fd
  BY <1>1, Zenon
<1>4. Notifier \in Node
  BY AioConstants, Zenon
<1>5. NodesOK(hl, md, ing)
  <2>1. \A n \in Node : md[n].revents => ~md[n].deleted
    BY Zenon DEF NodesOK
  <2>2. Notifier \in LiveIn(hl, md) /\ md[Notifier].fd = NFd
    BY <1>1, <1>4, Zenon DEF NodesOK
  <2>3. \A n \in Node \ {Notifier} : Listed(n, hl) => md[n].fd \in Fd
    BY Zenon DEF NodesOK
  <2>4. ASSUME NEW fd \in ing PROVE \E n \in LiveIn(hl, md) : md[n].fd = fd
    <3>1. PICK n \in LiveIn(hl, nd) : nd[n].fd = fd
      BY <1>2, Zenon
    <3> QED
      BY <1>1, <1>3, <3>1, Zenon
  <2> QED
    BY <2>1, <2>2, <2>3, <2>4, Zenon DEF NodesOK
<1>6. ASSUME NEW f, Served(f, hl, nd) PROVE Served(f, hl, md)
  BY <1>1, <1>3, <1>6, Zenon DEF Served
<1> QED
  BY <1>5, <1>6, Zenon

\* A callback does not depend on the lists.
LEMMA ServedCallback ==
  ASSUME NEW f, NEW g, g.pc = f.pc, g.progress = f.progress, f.pc \in CallbackPcs,
         NEW hl, NEW nd, Served(f, hl, nd), NEW hm, NEW md
  PROVE  Served(g, hm, md)
  BY Zenon DEF Served, CallbackPcs

\* The innermost call goes on: the others are in callbacks.
LEMMA ServedMoves ==
  ASSUME Base, NodesInv, stack # <<>>, NEW f, Onto(stack', f), NEW hl, NEW nd,
         Served(f, hl, nd)
  PROVE  \A i \in 1 .. Len(stack') : Served(stack'[i], hl, nd)
<1>1. \A i \in 1 .. Len(stack) : i = 1 \/ i \in 2 .. Len(stack)
  <2>1. Len(stack) \in Nat
    BY TopIs, Zenon
  <2> QED
    BY <2>1
<1>2. \A i \in 2 .. Len(stack) : i \in 1 .. Len(stack)
  <2>1. Len(stack) \in Nat
    BY TopIs, Zenon
  <2> QED
    BY <2>1
<1>3. Served(stack'[1], hl, nd)
  BY Zenon DEF Served, Onto
<1>4. ASSUME NEW i \in 2 .. Len(stack) PROVE Served(stack'[i], hl, nd)
  <2>1. /\ stack[i].pc \in CallbackPcs /\ Served(stack[i], handlers, node)
        /\ stack'[i].pc = stack[i].pc /\ stack'[i].progress = stack[i].progress
    BY <1>2, Zenon DEF Base, StackInv, NodesInv, Onto
  <2> QED
    BY <2>1, ServedCallback, Zenon
<1> QED
  BY <1>1, <1>3, <1>4, Zenon DEF Onto

\* Code outside aio_poll runs: all calls are in callbacks.
LEMMA ServedOutside ==
  ASSUME Base, NodesInv, InCallback, NEW hl, NEW nd
  PROVE  \A i \in 1 .. Len(stack) : Served(stack[i], hl, nd)
<1> SUFFICES ASSUME NEW i \in 1 .. Len(stack) PROVE Served(stack[i], hl, nd)
  BY Zenon
<1>1. stack # <<>>
  BY EmptySeq
<1>2. i = 1 \/ i \in 2 .. Len(stack)
  <2>1. Len(stack) \in Nat
    BY <1>1, TopIs, Zenon
  <2> QED
    BY <2>1
<1>3. stack[i].pc \in CallbackPcs /\ Served(stack[i], handlers, node)
  BY <1>1, <1>2, TopIs, Zenon DEF InCallback, CallbackPcs, Base, StackInv, NodesInv
<1> QED
  BY <1>3, ServedCallback, Zenon

\* Flags are changed.
LEMMA FlagsNodes ==
  ASSUME Base, NodesInv,
         \/ \E b \in Bh : \/ qemu_bh_schedule(b) \/ qemu_bh_schedule_idle(b) \/ aio_bh_new(b)
                          \/ qemu_bh_cancel(b) \/ qemu_bh_delete(b) \/ ThreadSchedule(b)
         \/ aio_notify \/ aio_ctx_check
         \/ \E fd \in Fd : Submit(fd) \/ Event(fd)
  PROVE  NodesInv'
<1>1. UNCHANGED <<stack, handlers>>
  BY Zenon DEF qemu_bh_schedule, qemu_bh_schedule_idle, qemu_bh_cancel, qemu_bh_delete,
     ThreadSchedule, aio_notify, aio_ctx_check, Submit, Event, aio_bh_new
<1>2. /\ \A n \in Node : node'[n].fd = node[n].fd /\ node'[n].deleted = node[n].deleted
      /\ \A n \in Node : node'[n].revents => node[n].revents \/ ~node[n].deleted
  <2>1. CASE aio_ctx_check
    <3>1. \A n \in Node : \A x : /\ [node[n] EXCEPT !.revents = x].fd = node[n].fd
                                 /\ [node[n] EXCEPT !.revents = x].deleted = node[n].deleted
      BY Zenon DEF Base, DataOK, NodeFields
    <3>2. \A n \in Node : node'[n] = IF Listed(n, handlers) /\ ~node[n].deleted
                                     THEN [node[n] EXCEPT !.revents = node[n].fd \in ready]
                                     ELSE node[n]
      BY <2>1, Zenon DEF aio_ctx_check
    <3>3. ASSUME NEW n \in Node
          PROVE  /\ node'[n].fd = node[n].fd /\ node'[n].deleted = node[n].deleted
                 /\ node'[n].revents => node[n].revents \/ ~node[n].deleted
      <4>1. CASE Listed(n, handlers) /\ ~node[n].deleted
        <5>1. node'[n] = [node[n] EXCEPT !.revents = node[n].fd \in ready]
          BY <3>2, <4>1, Zenon
        <5>2. node'[n].fd = node[n].fd /\ node'[n].deleted = node[n].deleted
          BY <3>1, <5>1
        <5> QED
          BY <4>1, <5>2, Zenon
      <4>2. CASE ~(Listed(n, handlers) /\ ~node[n].deleted)
        <5>1. node'[n] = node[n]
          BY <3>2, <4>2, Zenon
        <5> QED
          BY <5>1, Zenon
      <4> QED
        BY <4>1, <4>2, Zenon
    <3> QED
      BY <3>3, Zenon
  <2>2. CASE node' = node
    BY <2>2, Zenon
  <2> QED
    BY <2>1, <2>2, Zenon DEF qemu_bh_schedule, qemu_bh_schedule_idle, qemu_bh_cancel,
       qemu_bh_delete, ThreadSchedule, aio_notify, Submit, Event, aio_bh_new
<1>3. \A fd \in inflight' : fd \in inflight \/ \E n \in LiveIn(handlers, node) : node[n].fd = fd
  <2>1. ASSUME NEW fd \in Fd, Submit(fd)
        PROVE  \E n \in LiveIn(handlers, node) : node[n].fd = fd
    BY <2>1, Finds, Zenon DEF Submit, LiveIn
  <2>2. \/ inflight' = inflight
        \/ \E fd \in Fd : Submit(fd) /\ inflight' = inflight \cup {fd}
    BY Zenon DEF qemu_bh_schedule, qemu_bh_schedule_idle, qemu_bh_cancel,
       qemu_bh_delete, ThreadSchedule, aio_notify, aio_ctx_check, Submit, Event, aio_bh_new
  <2> QED
    BY <2>1, <2>2, Zenon
<1> QED
  BY <1>1, <1>2, <1>3, NodesSame, Zenon DEF NodesInv

\* A handler is added.
LEMMA SetHandlerNodes ==
  ASSUME Base, NodesInv, NEW fd \in Fd, NEW n \in Node, SetHandler(fd, n)
  PROVE  NodesInv'
<1>1. /\ ~Listed(n, handlers) /\ handlers' = <<n>> \o handlers
      /\ node' = [node EXCEPT ![n] = [FreeNode EXCEPT !.fd = fd]]
      /\ UNCHANGED <<inflight, stack>> /\ InCallback
  BY Zenon DEF SetHandler, MayCall
<1>2. \A x : Listed(x, handlers') <=> x = n \/ Listed(x, handlers)
  BY <1>1, Lists, ListPrepend, Zenon
<1>3. LET x == [FreeNode EXCEPT !.fd = fd] IN x.fd = fd /\ ~x.deleted /\ ~x.revents
  BY Zenon DEF FreeNode
<1>4. /\ node'[n].fd = fd /\ ~node'[n].deleted /\ ~node'[n].revents
      /\ \A m \in Node \ {n} : node'[m] = node[m]
  BY <1>1, <1>3, Zenon DEF Base, DataOK
<1>5. \A m \in LiveIn(handlers, node) : m # n /\ m \in LiveIn(handlers', node') /\ node'[m] = node[m]
  BY <1>1, <1>2, <1>4, Zenon DEF LiveIn
<1>6. NodesOK(handlers', node', inflight)
  BY <1>2, <1>4, <1>5, AioConstants, Zenon DEF NodesOK, NodesInv
<1> QED
  BY <1>1, <1>6, ServedOutside, Zenon DEF NodesInv

\* A handler is removed, with the requests of its descriptor.
LEMMA ClearHandlerNodes ==
  ASSUME Base, NodesInv, NEW fd \in Fd, ClearHandler(fd)
  PROVE  NodesInv'
<1> DEFINE n == find_aio_handler(fd)
<1>1. /\ n # Null /\ InCallback
      /\ \/ /\ handlers' = handlers
            /\ node' = [node EXCEPT ![n].deleted = TRUE, ![n].revents = FALSE]
         \/ handlers' = Without(handlers, {n}) /\ node' = node
      /\ inflight' = inflight \ {fd} /\ stack' = stack
  BY Zenon DEF ClearHandler, MayCall
<1>2. n \in Node /\ node[n].fd = fd
  BY <1>1, Finds, Zenon
<1> HIDE DEF n
<1>3. n # Notifier
  BY <1>2, AioConstants, Zenon DEF NodesInv, NodesOK
<1>4. \A x : Listed(x, Without(handlers, {n})) <=> Listed(x, handlers) /\ x \notin {n}
  BY Lists, ListWithout, Zenon
<1>5. LET x == [node EXCEPT ![n].deleted = TRUE, ![n].revents = FALSE]
      IN  /\ \A m \in Node : x[m].fd = node[m].fd
          /\ \A m \in Node \ {n} : x[m] = node[m]
          /\ ~x[n].revents
  BY <1>2, Zenon DEF Base, DataOK, NodeFields
<1>6. /\ \A x : Listed(x, handlers') => Listed(x, handlers)
      /\ \A m \in Node : node'[m].fd = node[m].fd
      /\ \A m \in Node \ {n} : node'[m] = node[m] /\ (Listed(m, handlers) => Listed(m, handlers'))
      /\ node'[n].revents => node'[n] = node[n]
  BY <1>1, <1>4, <1>5, Zenon
<1>7. \A m \in LiveIn(handlers, node) : m # n => m \in LiveIn(handlers', node')
  BY <1>6, Zenon DEF LiveIn
<1>8. \A g \in inflight \ {fd} : \E m \in LiveIn(handlers', node') : node'[m].fd = g
  <2> SUFFICES ASSUME NEW g \in inflight \ {fd}
               PROVE  \E m \in LiveIn(handlers', node') : node'[m].fd = g
    BY Zenon
  <2>1. PICK m \in LiveIn(handlers, node) : node[m].fd = g
    BY Zenon DEF NodesInv, NodesOK
  <2> QED
    BY <1>2, <1>6, <1>7, <2>1, Zenon DEF LiveIn
<1>9. NodesOK(handlers', node', inflight')
  BY <1>1, <1>3, <1>6, <1>7, <1>8, AioConstants, Zenon DEF NodesOK, NodesInv
<1> QED
  BY <1>1, <1>9, ServedOutside, Zenon DEF NodesInv

\* The steps that serve no handler.
LEMMA QuietNodes ==
  ASSUME Base, NodesInv,
         Return \/ qemu_aio_wait \/ aio_ctx_dispatch \/ BhStart \/ BhWalk \/ BhEnd
  PROVE  NodesInv'
<1>1. UNCHANGED <<handlers, node, inflight>>
  BY Zenon DEF Return, qemu_aio_wait, aio_ctx_dispatch, BhStart, BhWalk, BhEnd
<1>2. ASSUME \A i \in 1 .. Len(stack') : Served(stack'[i], handlers, node) PROVE NodesInv'
  BY <1>1, <1>2, Zenon DEF NodesInv
<1>3. ASSUME stack # <<>>, NEW f \in Frames, Goto(f), Served(f, handlers, node)
      PROVE  \A i \in 1 .. Len(stack') : Served(stack'[i], handlers, node)
  BY <1>3, GotoMoves, ServedMoves, Zenon
<1>5. ASSUME Return PROVE NodesInv'
  <2>1. stack # <<>>
    BY <1>5, ReturnForm, Zenon
  <2>2. PICK f : /\ Goto(f) /\ Step(f, f.pc, Top.cur) /\ f.progress = Top.progress
                 /\ \/ Top.pc = "bhcb" /\ f.pc = "bh"
                    \/ Top.pc = "cb1" /\ f.pc = "end1"
                    \/ Top.pc = "cb2" /\ f.pc = "end2"
    BY <1>5, ReturnForm, Zenon
  <2>3. Served(Top, handlers, node)
    BY <2>1, TopIs, Zenon DEF NodesInv
  <2>4. f.pc = "end2" => f.progress
    BY <2>2, <2>3, Zenon DEF Served
  <2>5. Served(f, handlers, node)
    BY <2>2, <2>4, Zenon DEF Served
  <2> QED
    BY <1>2, <1>3, <2>1, <2>2, <2>5, Zenon DEF Step
<1>6. ASSUME qemu_aio_wait \/ aio_ctx_dispatch PROVE NodesInv'
  <2>1. PICK b \in BOOLEAN : stack' = <<Frame(b)>> \o stack
    BY <1>6, Pushes, Zenon
  <2>2. Frame(b) \in Frames /\ Served(Frame(b), handlers, node)
    <3>1. Frame(b) \in Frames /\ Frame(b).pc = "enter"
      BY FrameTypes, Zenon
    <3> QED
      BY <3>1, Zenon DEF Served
  <2>3. stack \in Seq(Frames)
    BY Zenon DEF Base, StackInv
  <2>4. /\ Len(stack') = Len(stack) + 1 /\ stack'[1] = Frame(b) /\ Len(stack) \in Nat
        /\ \A i \in 2 .. Len(stack) + 1 : i - 1 \in 1 .. Len(stack) /\ stack'[i] = stack[i - 1]
    BY <2>1, <2>2, <2>3, SeqPrepend, SeqElements
  <2>5. \A i \in 1 .. Len(stack') : i = 1 \/ i \in 2 .. Len(stack) + 1
    BY <2>4
  <2>6. \A i \in 1 .. Len(stack) : Served(stack[i], handlers, node)
    BY Zenon DEF NodesInv
  <2>7. \A i \in 1 .. Len(stack') : Served(stack'[i], handlers, node)
    BY <2>2, <2>4, <2>5, <2>6, Zenon
  <2> QED
    BY <1>2, <2>7, Zenon
<1>7. ASSUME BhStart \/ BhWalk \/ BhEnd PROVE NodesInv'
  <2>1. /\ stack # <<>>
        /\ \E f : /\ Goto(f) /\ f \in Frames /\ f.pc \in {"bh", "bhcb", "walk1"}
    BY <1>7, BhForms, Zenon DEF Step
  <2>2. PICK f : Goto(f) /\ f \in Frames /\ f.pc \in {"bh", "bhcb", "walk1"}
    BY <2>1, Zenon
  <2>3. Served(f, handlers, node)
    BY <2>2, Zenon DEF Served
  <2> QED
    BY <1>2, <1>3, <2>1, <2>2, <2>3, Zenon
<1> QED
  BY <1>5, <1>6, <1>7, Zenon

\* A walk comes to a handler: either it is called, or what select found is behind it.
LEMMA WalkNodes ==
  ASSUME Base, NodesInv, Walk1 \/ Walk2
  PROVE  NodesInv'
<1> DEFINE c == Top.cur
           d == [node EXCEPT ![c].revents = FALSE]
<1>1. stack # <<>> /\ c # Null /\ Listed(c, handlers)
  BY WalkForms, Zenon
<1>2. PICK f : /\ Step(f, f.pc, c) /\ f.rdfds = Top.rdfds
               /\ \/ Walk1 /\ Top.pc = "walk1" /\ f.pc \in {"cb1", "end1"}
                  \/ Walk2 /\ Top.pc = "walk2" /\ f.pc \in {"cb2", "end2"}
               /\ \/ io_read(c, f) /\ f.progress
                  \/ /\ Goto(f) /\ f.progress = Top.progress /\ f.pc \in {"end1", "end2"}
                     /\ UNCHANGED <<ready, inflight>>
                     /\ Walk2 => node[c].deleted \/ node[c].fd \notin Top.rdfds
  BY WalkForms, Zenon
<1>3. f \in Frames /\ f.cur = c /\ c \in Node
  BY <1>1, <1>2, Lists, Zenon DEF Step
<1>4. handlers' = handlers /\ (node' = node \/ node' = d)
  BY Zenon DEF Walk1, Walk2
<1>5. inflight' \subseteq inflight /\ Onto(stack', f)
  <2>1. CASE io_read(c, f)
    <3>1. Onto(stack', f)
      BY <1>1, <1>3, <2>1, ReadMoves, Zenon
    <3> QED
      BY <2>1, <3>1, Zenon DEF io_read
  <2>2. CASE Goto(f) /\ UNCHANGED <<ready, inflight>>
    BY <1>1, <1>3, <2>2, GotoMoves, Zenon
  <2> QED
    BY <1>2, <2>1, <2>2, Zenon
<1>6. Served(f, handlers, node)
  <2>1. CASE f.pc \in {"cb1", "end1"}
    BY <2>1, Zenon DEF Served
  <2>2. CASE f.pc \in {"cb2", "end2"} /\ f.progress
    BY <2>2, Zenon DEF Served
  <2>3. CASE f.pc \in {"cb2", "end2"} /\ ~f.progress
    <3>1. /\ Top.pc = "walk2" /\ f.pc = "end2" /\ ~Top.progress
          /\ node[c].deleted \/ node[c].fd \notin Top.rdfds
      BY <1>2, <2>3, Zenon
    <3>2. Served(Top, handlers, node)
      BY <1>1, TopIs, Zenon DEF NodesInv
    <3>3. PICK n \in LiveIn(handlers, node) : node[n].fd \in Top.rdfds /\ From(handlers, c, n)
      BY <3>1, <3>2, Zenon DEF Served
    <3>4. n # c
      BY <3>1, <3>3, Zenon DEF LiveIn
    <3> QED
      BY <1>1, <1>2, <1>3, <3>1, <3>3, <3>4, Zenon DEF Served
  <2> QED
    BY <1>2, <2>1, <2>2, <2>3, Zenon
<1>7. \A i \in 1 .. Len(stack') : Served(stack'[i], handlers, node)
  BY <1>1, <1>5, <1>6, ServedMoves, Zenon
<1>8. /\ \A n \in Node : node'[n].fd = node[n].fd /\ node'[n].deleted = node[n].deleted
      /\ \A n \in Node : node'[n].revents => node[n].revents \/ ~node[n].deleted
  <2>1. /\ \A n \in Node : d[n].fd = node[n].fd /\ d[n].deleted = node[n].deleted
        /\ \A n \in Node : d[n].revents => node[n].revents
    <3>1. ASSUME NEW n \in Node
          PROVE  /\ d[n].fd = node[n].fd /\ d[n].deleted = node[n].deleted
                 /\ d[n].revents => node[n].revents
      <4>1. node \in [Node -> NodeFields]
        BY Zenon DEF Base, DataOK
      <4> QED
        BY <1>3, <4>1, Zenon DEF NodeFields
    <3> QED
      BY <3>1, Zenon
  <2> HIDE DEF d
  <2> QED
    BY <1>4, <2>1, Zenon
<1> HIDE DEF d, c
<1>9. \A fd \in inflight' : fd \in inflight \/ \E n \in LiveIn(handlers, node) : node[n].fd = fd
  BY <1>5, Zenon
<1>10. NodesOK(handlers, node, inflight)
  BY Zenon DEF NodesInv
<1>11. /\ NodesOK(handlers, node', inflight')
       /\ \A g : Served(g, handlers, node) => Served(g, handlers, node')
  BY <1>8, <1>9, <1>10, NodesSame, Zenon
<1> QED
  BY <1>4, <1>7, <1>11, Zenon DEF NodesInv

\* The walk leaves a handler, which may be freed; the others stay in their order.
LEMMA WalkEndNodes ==
  ASSUME Base, NodesInv, WalkEnd("end1", "walk1") \/ WalkEnd("end2", "walk2")
  PROVE  NodesInv'
<1> DEFINE c == Top.cur
           n == After(handlers, c)
           w == Without(handlers, {c})
<1>1. /\ stack # <<>> /\ Listed(c, handlers)
      /\ \E f : /\ Goto(f) /\ f.progress = Top.progress /\ f.rdfds = Top.rdfds
                /\ \/ Top.pc = "end1" /\ Step(f, "walk1", n)
                   \/ Top.pc = "end2" /\ Step(f, "walk2", n)
  BY WalkEndForm, Zenon
<1>2. PICK f : /\ Goto(f) /\ f.progress = Top.progress /\ f.rdfds = Top.rdfds
               /\ \/ Top.pc = "end1" /\ Step(f, "walk1", n)
                  \/ Top.pc = "end2" /\ Step(f, "walk2", n)
  BY <1>1, Zenon
<1>3. /\ handlers' = handlers \/ (node[c].deleted /\ handlers' = w)
      /\ UNCHANGED <<node, inflight>>
  BY Zenon DEF WalkEnd
<1>4. /\ handlers \in Seq(Node) /\ Distinct(handlers) /\ Null \notin Node
  BY Lists, Zenon
<1>5. n # c /\ \A y : From(handlers, c, y) /\ y # c => n # Null /\ From(handlers, n, y)
  <2> HIDE DEF c
  <2>1. n # c
    BY <1>1, <1>4, ListAfter, Zenon
  <2>2. ASSUME NEW y, From(handlers, c, y), y # c PROVE n # Null /\ From(handlers, n, y)
    BY <1>1, <1>4, <2>2, ListAfter, Zenon
  <2> QED
    BY <2>1, <2>2, Zenon
<1>6. /\ \A x : Listed(x, w) <=> Listed(x, handlers) /\ x \notin {c}
      /\ \A x, y : From(handlers, x, y) /\ x \notin {c} /\ y \notin {c} => From(w, x, y)
  BY <1>4, ListWithout, Zenon
<1> HIDE DEF w, n, c
<1>7. /\ LiveIn(handlers', node) = LiveIn(handlers, node)
      /\ \A x : Listed(x, handlers') => Listed(x, handlers)
      /\ \A x, y : From(handlers, x, y) /\ x # c /\ y # c => From(handlers', x, y)
  <2>1. CASE handlers' = handlers
    BY <2>1, Zenon
  <2>2. CASE node[c].deleted /\ handlers' = w
    <3>1. /\ \A x : Listed(x, handlers') <=> Listed(x, handlers) /\ x # c
          /\ \A x, y : From(handlers, x, y) /\ x # c /\ y # c => From(handlers', x, y)
      BY <1>6, <2>2, Zenon
    <3> QED
      BY <2>2, <3>1, Zenon DEF LiveIn
  <2> QED
    BY <1>3, <2>1, <2>2, Zenon
<1>8. NodesOK(handlers', node, inflight)
  BY <1>7, Zenon DEF NodesOK, NodesInv
<1>9. Served(f, handlers', node)
  <2>1. f.cur = n /\ f.pc \in {"walk1", "walk2"} /\ (f.pc = "walk2" => Top.pc = "end2")
    BY <1>2, Zenon DEF Step
  <2>2. ASSUME f.pc = "walk2", ~f.progress
        PROVE  /\ n # Null
               /\ \E m \in LiveIn(handlers', node) : /\ node[m].fd \in f.rdfds
                                                     /\ From(handlers', n, m)
    <3>1. Served(Top, handlers, node) /\ Top.pc = "end2" /\ ~Top.progress
      BY <1>1, <1>2, <2>1, <2>2, TopIs, Zenon DEF NodesInv
    <3>2. PICK m \in LiveIn(handlers, node) : /\ node[m].fd \in Top.rdfds
                                              /\ From(handlers, c, m) /\ m # c
      BY <3>1, Zenon DEF Served, c
    <3> QED
      BY <1>2, <1>5, <1>7, <3>2, Zenon
  <2> QED
    BY <2>1, <2>2, Zenon DEF Served
<1>10. Onto(stack', f)
  BY <1>1, <1>2, GotoMoves, Zenon DEF Step
<1>11. \A i \in 1 .. Len(stack') : Served(stack'[i], handlers', node)
  BY <1>1, <1>9, <1>10, ServedMoves, Zenon
<1> QED
  BY <1>3, <1>8, <1>11, Zenon DEF NodesInv

\* aio_poll goes on between its walks, or returns.
LEMMA BetweenNodes ==
  ASSUME Base, NodesInv, Walk1Done \/ Fill \/ Select \/ Interrupted \/ Walk2Done
  PROVE  NodesInv'
<1>1. UNCHANGED <<handlers, node, inflight>>
  BY Zenon DEF Walk1Done, Fill, Select, Interrupted, Walk2Done
<1>2. ASSUME \A i \in 1 .. Len(stack') : Served(stack'[i], handlers, node) PROVE NodesInv'
  BY <1>1, <1>2, Zenon DEF NodesInv
<1>3. /\ stack # <<>> /\ Served(Top, handlers, node) /\ NodesOK(handlers, node, inflight)
      /\ LiveIn(handlers, node) = Live
  BY BetweenForms, TopIs, Zenon DEF NodesInv, LiveIn, Live
<1>4. ASSUME NEW f \in Frames, Goto(f), Served(f, handlers, node) PROVE NodesInv'
  BY <1>2, <1>3, <1>4, GotoMoves, ServedMoves, Zenon
<1>5. ASSUME Pop PROVE NodesInv'
  <2>1. stack \in Seq(Frames) /\ \A i \in 1 .. Len(stack) : Served(stack[i], handlers, node)
    BY Zenon DEF Base, StackInv, NodesInv
  <2>2. \A i \in 1 .. Len(stack') : i + 1 \in 1 .. Len(stack) /\ stack'[i] = stack[i + 1]
    <3>1. /\ Len(stack') = Len(stack) - 1 /\ Len(stack) \in Nat
          /\ \A i \in 1 .. Len(stack) - 1 : stack'[i] = stack[i + 1]
      BY <1>3, <1>5, <2>1, SeqTail, SeqElements, Zenon DEF Pop
    <3> QED
      BY <3>1
  <2> QED
    BY <1>2, <2>1, <2>2, Zenon
<1>6. ASSUME NEW f, Goto(f), Step(f, "fill", Top.cur) PROVE NodesInv'
  <2>1. Served(f, handlers, node)
    BY <1>6, Zenon DEF Served, Step
  <2> QED
    BY <1>4, <1>6, <2>1, Zenon DEF Step
<1>7. ASSUME NEW f, Goto(f), Step(f, "select", Top.cur),
             f.rdfds = ({node[n].fd : n \in Live} \cap inflight) \cup {NFd}
      PROVE  NodesInv'
  <2>1. NFd \in f.rdfds
    BY <1>7, Zenon
  <2>2. ASSUME NEW fd \in f.rdfds PROVE \E n \in Live : node[n].fd = fd
    <3>1. CASE fd \in {node[n].fd : n \in Live}
      BY <3>1, Zenon
    <3>2. CASE fd = NFd
      BY <1>3, <3>2, Zenon DEF NodesOK
    <3> QED
      BY <1>7, <2>2, <3>1, <3>2, Zenon
  <2>3. Served(f, handlers, node)
    BY <1>3, <1>7, <2>1, <2>2, Zenon DEF Served, Step
  <2> QED
    BY <1>4, <1>7, <2>3, Zenon DEF Step
<1>8. ASSUME NEW f, Goto(f), Step(f, "walk2", First(handlers)), Top.pc = "select",
             f.rdfds # {}, f.rdfds \subseteq Top.rdfds
      PROVE  NodesInv'
  <2>1. PICK fd \in f.rdfds : TRUE
    BY <1>8, Zenon
  <2>2. PICK n \in LiveIn(handlers, node) : node[n].fd = fd
    BY <1>3, <1>8, <2>1, Zenon DEF Served
  <2>3. Listed(n, handlers)
    BY <2>2, Zenon DEF LiveIn
  <2>4. First(handlers) # Null /\ From(handlers, First(handlers), n)
    BY <2>3, Lists, ListFirst, Zenon
  <2>5. Served(f, handlers, node)
    BY <1>8, <2>1, <2>2, <2>4, Zenon DEF Served, Step
  <2> QED
    BY <1>4, <1>8, <2>5, Zenon DEF Step
<1> QED
  BY <1>5, <1>6, <1>7, <1>8, BetweenForms, Zenon

\* Every step keeps what is known of the handlers.
LEMMA NodesNext == Base /\ NodesInv /\ [Next]_vars => NodesInv'
<1> SUFFICES ASSUME Base, NodesInv, [Next]_vars PROVE NodesInv'
  BY Zenon
<1>1. CASE Next
  BY <1>1, FlagsNodes, SetHandlerNodes, ClearHandlerNodes, QuietNodes, WalkNodes,
     WalkEndNodes, BetweenNodes, Zenon DEF Next, Poll, Calls
<1>2. CASE UNCHANGED vars
  BY <1>2, Zenon DEF vars, NodesInv
<1> QED
  BY <1>1, <1>2, Zenon

\* It holds when the context is created.
LEMMA NodesStart == Init => Base /\ NodesInv
<1> SUFFICES ASSUME Init PROVE Base /\ NodesInv
  BY Zenon
<1>1. /\ Base /\ Listed(Notifier, handlers) /\ node[Notifier].fd = NFd
      /\ \A n \in Node : ~node[n].deleted /\ ~node[n].revents
      /\ \A n \in Node \ {Notifier} : Listed(n, handlers) => node[n].fd \in Fd
      /\ inflight = {} /\ stack = <<>>
  BY Starts, Zenon DEF Init
<1>2. Notifier \in LiveIn(handlers, node)
  BY <1>1, AioConstants, Zenon DEF LiveIn
<1>3. NodesOK(handlers, node, inflight)
  BY <1>1, <1>2, Zenon DEF NodesOK
<1>4. \A i \in 1 .. Len(stack) : FALSE
  BY <1>1, EmptySeq
<1> QED
  BY <1>1, <1>3, <1>4, Zenon DEF NodesInv

\* Requests in flight have a handler that select knows of, and a poll that was
\* woken up comes to the handler it was woken up for.
THEOREM HandlersAreServed == Spec => [](Base /\ NodesInv)
<1>1. Base /\ NodesInv /\ [Next]_vars => (Base /\ NodesInv)'
  BY BaseNext, NodesNext, Zenon
<1> QED
  BY <1>1, NodesStart, PTL DEF Spec

-----------------------------------------------------------------------------
(* What each step does to the innermost call. *)

\* A step leaves the stack alone, begins a call, returns from one, or moves the
\* innermost one to a program point; it calls only handlers and bottom halves that
\* were not removed.
LEMMA StackSteps ==
  ASSUME Base, NodesInv, [Next]_vars
  PROVE  \/ stack' = stack
         \/ \E b \in BOOLEAN : stack' = <<Frame(b)>> \o stack
         \/ /\ stack # <<>> /\ Pop
            /\ Top.blocking /\ ~Top.progress => inflight = {} \/ Interrupted
         \/ /\ stack # <<>> /\ Len(stack') = Len(stack) /\ stack' # <<>>
            /\ stack'[1].pc \in {"cb1", "cb2"} => ~node[Top.cur].deleted
            /\ Top.pc = "bh" /\ stack'[1].pc = "bhcb" => ~bh[Top.cur].deleted
<1>1. CASE \/ UNCHANGED vars \/ Calls \/ aio_notify \/ aio_ctx_check \/ \E fd \in Fd : Event(fd)
  <2>1. stack' = stack
    BY <1>1, Zenon DEF vars, Calls, aio_bh_new, qemu_bh_schedule, qemu_bh_schedule_idle,
       qemu_bh_cancel, qemu_bh_delete, ThreadSchedule, Submit, ClearHandler, SetHandler,
       aio_notify, aio_ctx_check, Event
  <2> QED
    BY <2>1, Zenon
<1>2. CASE qemu_aio_wait \/ aio_ctx_dispatch
  BY <1>2, Pushes, Zenon
<1>3. ASSUME stack # <<>>, NEW f, Onto(stack', f),
             f.pc \in {"cb1", "cb2"} => ~node[Top.cur].deleted,
             Top.pc = "bh" /\ f.pc = "bhcb" => ~bh[Top.cur].deleted
      PROVE  /\ stack # <<>> /\ Len(stack') = Len(stack) /\ stack' # <<>>
             /\ stack'[1].pc \in {"cb1", "cb2"} => ~node[Top.cur].deleted
             /\ Top.pc = "bh" /\ stack'[1].pc = "bhcb" => ~bh[Top.cur].deleted
  BY <1>3, Zenon DEF Onto
<1>4. CASE Return
  <2>1. stack # <<>> /\ \E f : Goto(f) /\ f \in Frames /\ f.pc \in {"bh", "end1", "end2"}
    BY <1>4, ReturnForm, Zenon DEF Step
  <2>2. PICK f : Goto(f) /\ f \in Frames /\ f.pc \in {"bh", "end1", "end2"}
    BY <2>1, Zenon
  <2>3. Onto(stack', f)
    BY <2>1, <2>2, GotoMoves, Zenon
  <2> QED
    BY <1>3, <2>1, <2>2, <2>3, Zenon
<1>5. CASE BhStart \/ BhWalk \/ BhEnd
  <2>1. /\ stack # <<>>
        /\ \E f : /\ Goto(f) /\ f \in Frames /\ f.pc \in {"bh", "bhcb", "walk1"}
                  /\ f.pc = "bhcb" => ~bh[Top.cur].deleted
    BY <1>5, BhForms, Zenon DEF Step
  <2>2. PICK f : /\ Goto(f) /\ f \in Frames /\ f.pc \in {"bh", "bhcb", "walk1"}
                 /\ f.pc = "bhcb" => ~bh[Top.cur].deleted
    BY <2>1, Zenon
  <2>3. Onto(stack', f)
    BY <2>1, <2>2, GotoMoves, Zenon
  <2> QED
    BY <1>3, <2>1, <2>2, <2>3, Zenon
<1>6. CASE Walk1 \/ Walk2
  <2>1. stack # <<>> /\ Listed(Top.cur, handlers)
    BY <1>6, WalkForms, Zenon
  <2>2. PICK f : /\ Step(f, f.pc, Top.cur) /\ f.pc \in {"cb1", "end1", "cb2", "end2"}
                 /\ \/ /\ io_read(Top.cur, f)
                       /\ Walk1 => node[Top.cur].revents
                       /\ Walk2 => ~node[Top.cur].deleted
                    \/ Goto(f) /\ f.pc \in {"end1", "end2"}
    BY <1>6, WalkForms, Zenon
  <2>3. Top.cur \in Node /\ f \in Frames
    BY <2>1, <2>2, Lists, Zenon DEF Step
  <2>4. f.pc \in {"cb1", "cb2"} => ~node[Top.cur].deleted
    BY <1>6, <2>2, <2>3, Zenon DEF NodesInv, NodesOK
  <2>5. Onto(stack', f)
    BY <2>1, <2>2, <2>3, ReadMoves, GotoMoves, Zenon
  <2> QED
    BY <1>3, <2>1, <2>2, <2>4, <2>5, Zenon
<1>7. CASE WalkEnd("end1", "walk1") \/ WalkEnd("end2", "walk2")
  <2>1. stack # <<>> /\ \E f : Goto(f) /\ f \in Frames /\ f.pc \in {"walk1", "walk2"}
    BY <1>7, WalkEndForm, Zenon DEF Step
  <2>2. PICK f : Goto(f) /\ f \in Frames /\ f.pc \in {"walk1", "walk2"}
    BY <2>1, Zenon
  <2>3. Onto(stack', f)
    BY <2>1, <2>2, GotoMoves, Zenon
  <2> QED
    BY <1>3, <2>1, <2>2, <2>3, Zenon
<1>8. CASE Walk1Done \/ Fill \/ Select \/ Interrupted \/ Walk2Done
  <2>1. /\ stack # <<>>
        /\ \/ /\ Pop /\ \/ Top.progress
                        \/ {node[n].fd : n \in Live} \cap inflight = {}
                        \/ ~Top.blocking
                        \/ Top.pc = "walk2" /\ Top.cur = Null
                        \/ Interrupted
           \/ \E f : Goto(f) /\ f \in Frames /\ f.pc \in {"fill", "select", "walk2"}
    BY <1>8, BetweenForms, Zenon DEF Step
  <2>2. CASE \E f : Goto(f) /\ f \in Frames /\ f.pc \in {"fill", "select", "walk2"}
    <3>1. PICK f : Goto(f) /\ f \in Frames /\ f.pc \in {"fill", "select", "walk2"}
      BY <2>2, Zenon
    <3>2. Onto(stack', f)
      BY <2>1, <3>1, GotoMoves, Zenon
    <3> QED
      BY <1>3, <2>1, <3>1, <3>2, Zenon
  <2>3. ASSUME {node[n].fd : n \in Live} \cap inflight = {} PROVE inflight = {}
    BY <2>3, Zenon DEF NodesInv, NodesOK, LiveIn, Live
  <2>4. Top.pc = "walk2" /\ Top.cur = Null => Top.progress
    BY <2>1, TopIs, Zenon DEF NodesInv, Served
  <2> QED
    BY <2>1, <2>2, <2>3, <2>4, Zenon
<1> QED
  BY <1>1, <1>2, <1>4, <1>5, <1>6, <1>7, <1>8, Zenon DEF Next, Poll

\* qemu_aio_wait returns false only when nothing is in flight or a signal came: a
\* blocking aio_poll that made no progress had no descriptor to wait for.
THEOREM IdleWhenFalse == Spec => FalseMeansIdle
<1>1. Base /\ NodesInv /\ [Next]_vars =>
        [Len(stack') < Len(stack) /\ Top.blocking /\ ~Top.progress =>
           inflight = {} \/ Interrupted]_vars
  <2> SUFFICES ASSUME Base, NodesInv, [Next]_vars,
                      Len(stack') < Len(stack), Top.blocking, ~Top.progress
               PROVE  inflight = {} \/ Interrupted
    BY Zenon
  <2>1. Len(stack) \in Nat /\ stack \in Seq(Frames)
    BY SeqElements, Zenon DEF Base, StackInv
  <2>2. ~(Len(stack) < Len(stack))
    BY <2>1
  <2>3. \A b \in BOOLEAN : stack' # <<Frame(b)>> \o stack
    <3> SUFFICES ASSUME NEW b \in BOOLEAN, stack' = <<Frame(b)>> \o stack PROVE FALSE
      BY Zenon
    <3>1. Len(stack') = Len(stack) + 1
      BY <2>1, SeqPrepend, FrameTypes
    <3> QED
      BY <2>1, <3>1
  <2> QED
    BY <2>2, <2>3, StackSteps, Zenon
<1> QED
  BY <1>1, HandlersAreServed, PTL DEF Spec, FalseMeansIdle

\* A callback is not called once its bottom half was deleted or its handler removed,
\* though walks were on their way to it.
THEOREM RemovedAreNotCalled == Spec => NoCallAfterRemoval
<1> DEFINE A == stack # <<>> /\ stack' # <<>> /\ Len(stack) = Len(stack') =>
                  /\ Called(Top, Head(stack')) => ~node[Top.cur].deleted
                  /\ Top.pc = "bh" /\ Head(stack').pc = "bhcb" => ~bh[Top.cur].deleted
<1>1. Base /\ Base' /\ NodesInv /\ [Next]_vars => [A]_vars
  <2> SUFFICES ASSUME Base, Base', NodesInv, [Next]_vars,
                      stack # <<>>, stack' # <<>>, Len(stack) = Len(stack')
               PROVE  /\ Called(Top, Head(stack')) => ~node[Top.cur].deleted
                      /\ Top.pc = "bh" /\ Head(stack').pc = "bhcb" => ~bh[Top.cur].deleted
    BY Zenon
  <2>1. /\ Len(stack) \in Nat \ {0} /\ stack \in Seq(Frames) /\ stack' \in Seq(Frames)
        /\ Top = stack[1] /\ Head(stack) = stack[1]
    BY TopIs, Zenon DEF Base, StackInv, Top
  <2>2. Head(stack') = stack'[1]
    BY <2>1, SeqElements, Zenon
  <2>3. ~Pop
    BY <2>1, SeqTail DEF Pop
  <2>4. \A b \in BOOLEAN : stack' # <<Frame(b)>> \o stack
    <3> SUFFICES ASSUME NEW b \in BOOLEAN, stack' = <<Frame(b)>> \o stack PROVE FALSE
      BY Zenon
    <3>1. Len(stack') = Len(stack) + 1
      BY <2>1, SeqPrepend, FrameTypes
    <3> QED
      BY <2>1, <3>1
  <2>5. CASE stack' = stack
    <3>1. Head(stack').pc = Top.pc
      BY <2>5, Zenon DEF Top
    <3> QED
      BY <3>1, Zenon DEF Called
  <2>6. CASE /\ stack'[1].pc \in {"cb1", "cb2"} => ~node[Top.cur].deleted
             /\ Top.pc = "bh" /\ stack'[1].pc = "bhcb" => ~bh[Top.cur].deleted
    BY <2>2, <2>6, Zenon DEF Called
  <2> QED
    BY <2>3, <2>4, <2>5, <2>6, StackSteps, Zenon
<1> QED
  BY <1>1, HandlersAreServed, PTL DEF Spec, NoCallAfterRemoval

-----------------------------------------------------------------------------
(* Wake-ups.                                                               *)

\* The bottom halves whose schedulers have set the notifier.
Owed(bl, bf, po) == {b \in Bh : /\ Listed(b, bl) /\ ~bf[b].deleted
                                /\ bf[b].scheduled /\ ~bf[b].idle /\ po # b}

\* A call of aio_poll that has neither read the notifier nor finds it set has the
\* bottom halves that are owed a run still before it.
Heard(f, bl, rd, O) ==
  \/ f.noted \/ f.pc = "enter" \/ NFd \in rd
  \/ \A b \in O : f.pc \in BhPcs /\ f.cur # Null /\ From(bl, f.cur, b)

HeardInv == \A i \in 1 .. Len(stack) : Heard(stack[i], bhs, ready, Owed(bhs, bh, posting))

\* Nothing is lost while fewer bottom halves are owed, their order is kept and the
\* notifier stays set.
LEMMA HeardKept ==
  ASSUME NEW f, NEW bl, NEW rd, NEW O, Heard(f, bl, rd, O),
         NEW g, g.pc = f.pc, g.cur = f.cur, f.noted => g.noted,
         NEW bm, \A x, y : From(bl, x, y) => From(bm, x, y),
         NEW rm, NFd \in rd => NFd \in rm, NEW P, P \subseteq O
  PROVE  Heard(g, bm, rm, P)
<1>1. CASE f.noted \/ f.pc = "enter" \/ NFd \in rd
  BY <1>1, Zenon DEF Heard
<1>2. CASE \A b \in O : f.pc \in BhPcs /\ f.cur # Null /\ From(bl, f.cur, b)
  <2>1. ASSUME NEW b \in P PROVE g.pc \in BhPcs /\ g.cur # Null /\ From(bm, g.cur, b)
    <3>1. f.pc \in BhPcs /\ f.cur # Null /\ From(bl, f.cur, b)
      BY <1>2, <2>1, Zenon
    <3> QED
      BY <3>1, Zenon
  <2> QED
    BY <2>1, Zenon DEF Heard
<1> QED
  BY <1>1, <1>2, Zenon DEF Heard

\* A poll that is past its bottom halves has read the notifier, or finds it set, or
\* nothing is owed.
LEMMA HeardOutside ==
  ASSUME NEW f, NEW bl, NEW rd, NEW O, Heard(f, bl, rd, O), f.pc # "enter",
         f.pc \notin BhPcs \/ f.cur = Null
  PROVE  f.noted \/ NFd \in rd \/ O = {}
  BY Zenon DEF Heard

\* The stack does not change.
LEMMA HeardStays ==
  ASSUME HeardInv, stack' = stack,
         \/ NFd \in ready'
         \/ /\ Owed(bhs', bh', posting') \subseteq Owed(bhs, bh, posting)
            /\ \A x, y : From(bhs, x, y) => From(bhs', x, y)
            /\ NFd \in ready => NFd \in ready'
  PROVE  HeardInv'
<1>1. CASE NFd \in ready'
  BY <1>1, Zenon DEF HeardInv, Heard
<1>2. CASE /\ Owed(bhs', bh', posting') \subseteq Owed(bhs, bh, posting)
           /\ \A x, y : From(bhs, x, y) => From(bhs', x, y)
           /\ NFd \in ready => NFd \in ready'
  <2>1. ASSUME NEW i \in 1 .. Len(stack)
        PROVE  Heard(stack[i], bhs', ready', Owed(bhs', bh', posting'))
    <3>1. Heard(stack[i], bhs, ready, Owed(bhs, bh, posting))
      BY <2>1, Zenon DEF HeardInv
    <3> QED
      BY <1>2, <3>1, HeardKept, Zenon
  <2> QED
    BY <2>1, Zenon DEF HeardInv
<1> QED
  BY <1>1, <1>2, Zenon

\* The innermost call moves to f.
LEMMA HeardMoves ==
  ASSUME Base, HeardInv, stack # <<>>, NEW f, Onto(stack', f), bhs' = bhs,
         Owed(bhs, bh', posting') \subseteq Owed(bhs, bh, posting),
         NFd \in ready => NFd \in ready',
         Heard(f, bhs, ready', Owed(bhs, bh', posting'))
  PROVE  HeardInv'
<1> DEFINE O == Owed(bhs, bh, posting)
           P == Owed(bhs, bh', posting')
<1>1. \A i \in 1 .. Len(stack) : i = 1 \/ i \in 2 .. Len(stack)
  <2>1. Len(stack) \in Nat
    BY TopIs, Zenon
  <2> QED
    BY <2>1
<1>2. P \subseteq O /\ Heard(f, bhs, ready', P) /\ \A x, y : From(bhs, x, y) => From(bhs, x, y)
  BY Zenon
<1>3. \A i \in 1 .. Len(stack) : Heard(stack[i], bhs, ready, O)
  BY Zenon DEF HeardInv
<1> HIDE DEF O, P
<1>4. Heard(stack'[1], bhs, ready', P)
  <2>1. stack'[1].pc = f.pc /\ stack'[1].cur = f.cur /\ (f.noted => stack'[1].noted)
    BY Zenon DEF Onto
  <2>2. (NFd \in ready' => NFd \in ready') /\ P \subseteq P
    BY Zenon
  <2> QED
    BY <1>2, <2>1, <2>2, HeardKept, Zenon
<1>5. ASSUME NEW i \in 2 .. Len(stack), i \in 1 .. Len(stack) PROVE Heard(stack'[i], bhs, ready', P)
  <2>1. /\ stack'[i].pc = stack[i].pc /\ stack'[i].cur = stack[i].cur
        /\ stack[i].noted => stack'[i].noted
    BY <1>5, Zenon DEF Onto
  <2>2. Heard(stack[i], bhs, ready, O)
    BY <1>3, <1>5, Zenon
  <2> QED
    BY <1>2, <2>1, <2>2, HeardKept, Zenon
<1>6. \A i \in 1 .. Len(stack) : Heard(stack'[i], bhs, ready', P)
  BY <1>1, <1>4, <1>5, Zenon
<1>7. Len(stack') = Len(stack)
  BY Zenon DEF Onto
<1> QED
  BY <1>6, <1>7, Zenon DEF HeardInv, P

\* The bottom halves are marked, created, cancelled and deleted; the steps that make
\* one owed set the notifier.
LEMMA FlagsHeard ==
  ASSUME Base, HeardInv,
         \/ \E b \in Bh : \/ qemu_bh_schedule(b) \/ qemu_bh_schedule_idle(b)
                          \/ qemu_bh_cancel(b) \/ qemu_bh_delete(b) \/ ThreadSchedule(b)
         \/ aio_notify \/ aio_ctx_check
         \/ \E fd \in Fd : \/ Submit(fd) \/ Event(fd) \/ ClearHandler(fd)
                           \/ \E n \in Node : SetHandler(fd, n)
  PROVE  HeardInv'
<1>1. UNCHANGED <<stack, bhs>>
  BY Zenon DEF qemu_bh_schedule, qemu_bh_schedule_idle, qemu_bh_cancel, qemu_bh_delete,
     ThreadSchedule, aio_notify, aio_ctx_check, Submit, Event, ClearHandler, SetHandler
<1>2. CASE \/ \E b \in Bh : qemu_bh_schedule(b)
           \/ aio_notify
           \/ \E fd \in Fd : ClearHandler(fd) \/ \E n \in Node : SetHandler(fd, n)
  <2>1. \E r : ready' = r \cup {NFd}
    BY <1>2, Zenon DEF qemu_bh_schedule, aio_notify, ClearHandler, SetHandler
  <2>2. NFd \in ready'
    BY <2>1, Zenon
  <2> QED
    BY <1>1, <2>2, HeardStays, Zenon
<1>3. CASE aio_ctx_check \/ \E fd \in Fd : Submit(fd) \/ Event(fd)
  <2>1. UNCHANGED <<bhs, bh, posting>> /\ ready \subseteq ready'
    BY <1>3, Zenon DEF aio_ctx_check, Submit, Event
  <2>2. /\ Owed(bhs', bh', posting') \subseteq Owed(bhs, bh, posting)
        /\ \A x, y : From(bhs, x, y) => From(bhs', x, y)
        /\ NFd \in ready => NFd \in ready'
    BY <2>1, Zenon
  <2> QED
    BY <1>1, <2>2, HeardStays, Zenon
<1>4. ASSUME NEW b \in Bh,
             qemu_bh_schedule_idle(b) \/ qemu_bh_cancel(b) \/ qemu_bh_delete(b) \/ ThreadSchedule(b)
      PROVE  HeardInv'
  <2>1. bh \in [Bh -> BhFlags] /\ Null \notin Bh
    BY Lists, Zenon DEF Base, DataOK
  <2>2. /\ \/ bh' = [bh EXCEPT ![b].scheduled = TRUE, ![b].idle = TRUE] /\ posting' = posting
           \/ bh' = [bh EXCEPT ![b].scheduled = FALSE] /\ posting' = posting
           \/ bh' = [bh EXCEPT ![b].scheduled = FALSE, ![b].deleted = TRUE] /\ posting' = posting
           \/ /\ bh' = [bh EXCEPT ![b].scheduled = TRUE, ![b].idle = FALSE]
              /\ posting = Null /\ posting' = b
        /\ ready' = ready
    BY <1>4, Zenon DEF qemu_bh_schedule_idle, qemu_bh_cancel, qemu_bh_delete, ThreadSchedule
  <2>3. /\ \A x \in Bh : x # b => bh'[x] = bh[x]
        /\ bh'[b].idle \/ ~bh'[b].scheduled \/ posting' = b
        /\ posting' = posting \/ (posting' = b /\ posting = Null)
    BY <2>1, <2>2, Zenon DEF BhFlags
  <2>4. Owed(bhs, bh', posting') \subseteq Owed(bhs, bh, posting)
    <3> SUFFICES ASSUME NEW x \in Owed(bhs, bh', posting') PROVE x \in Owed(bhs, bh, posting)
      BY Zenon
    <3>1. /\ x \in Bh /\ Listed(x, bhs) /\ ~bh'[x].deleted /\ bh'[x].scheduled
          /\ ~bh'[x].idle /\ posting' # x
      BY Zenon DEF Owed
    <3>2. x # b
      BY <2>3, <3>1, Zenon
    <3>3. bh'[x] = bh[x]
      BY <2>3, <3>1, <3>2, Zenon
    <3>4. posting # x
      BY <2>1, <2>3, <3>1, Zenon
    <3> QED
      BY <3>1, <3>3, <3>4, Zenon DEF Owed
  <2>5. /\ Owed(bhs', bh', posting') \subseteq Owed(bhs, bh, posting)
        /\ \A x, y : From(bhs, x, y) => From(bhs', x, y)
        /\ NFd \in ready => NFd \in ready'
    BY <1>1, <2>2, <2>4, Zenon
  <2> QED
    BY <1>1, <2>5, HeardStays, Zenon
<1> QED
  BY <1>2, <1>3, <1>4, Zenon

\* A new bottom half is not scheduled.
LEMMA NewBhHeard ==
  ASSUME Base, HeardInv, NEW b \in Bh, aio_bh_new(b)
  PROVE  HeardInv'
<1>1. /\ bhs' = <<b>> \o bhs /\ bh' = [bh EXCEPT ![b] = Idle]
      /\ UNCHANGED <<ready, stack, posting>>
  BY Zenon DEF aio_bh_new
<1>2. /\ \A x : Listed(x, bhs') <=> x = b \/ Listed(x, bhs)
      /\ \A x, y : From(bhs, x, y) => From(bhs', x, y)
  BY <1>1, Lists, ListPrepend, Zenon
<1>3. /\ bh \in [Bh -> BhFlags] /\ ~Idle.scheduled
  BY Zenon DEF Base, DataOK, Idle
<1>4. ~bh'[b].scheduled /\ \A x \in Bh : x # b => bh'[x] = bh[x]
  BY <1>1, <1>3, Zenon
<1>5. Owed(bhs', bh', posting') \subseteq Owed(bhs, bh, posting)
  <2> SUFFICES ASSUME NEW x \in Owed(bhs', bh', posting') PROVE x \in Owed(bhs, bh, posting)
    BY Zenon
  <2>1. /\ x \in Bh /\ Listed(x, bhs') /\ ~bh'[x].deleted /\ bh'[x].scheduled
        /\ ~bh'[x].idle /\ posting' # x
    BY Zenon DEF Owed
  <2>2. x # b /\ bh'[x] = bh[x] /\ posting # x /\ Listed(x, bhs)
    BY <1>1, <1>2, <1>4, <2>1, Zenon
  <2> QED
    BY <2>1, <2>2, Zenon DEF Owed
<1>6. /\ \A x, y : From(bhs, x, y) => From(bhs', x, y)
      /\ NFd \in ready => NFd \in ready'
  BY <1>1, <1>2, Zenon
<1> QED
  BY <1>1, <1>5, <1>6, HeardStays, Zenon

\* A step of the innermost call past its bottom halves.
LEMMA LaterHeard ==
  ASSUME Base, HeardInv, stack # <<>>, UNCHANGED <<bhs, bh, posting, ready>>,
         Top.pc # "enter", Top.pc \notin BhPcs,
         NEW f \in Frames, Goto(f), f.noted = Top.noted
  PROVE  HeardInv'
<1> DEFINE O == Owed(bhs, bh, posting)
<1>1. Onto(stack', f) /\ Heard(Top, bhs, ready, O)
  BY GotoMoves, TopIs, Zenon DEF HeardInv
<1>2. Owed(bhs, bh', posting') = O /\ ready' = ready /\ bhs' = bhs
  BY Zenon
<1> HIDE DEF O
<1>3. Top.noted \/ NFd \in ready \/ O = {}
  BY <1>1, HeardOutside, Zenon
<1>4. Heard(f, bhs, ready, O)
  BY <1>3, Zenon DEF Heard
<1>5. Owed(bhs, bh', posting') \subseteq Owed(bhs, bh, posting)
  BY <1>2, Zenon DEF O
<1> QED
  BY <1>1, <1>2, <1>4, <1>5, HeardMoves, Zenon

\* Calls of aio_poll begin and end, and callbacks return.
LEMMA CallHeard ==
  ASSUME Base, HeardInv, Return \/ qemu_aio_wait \/ aio_ctx_dispatch
  PROVE  HeardInv'
<1> DEFINE O == Owed(bhs, bh, posting)
<1>1. UNCHANGED <<bhs, bh, posting, ready>>
  BY Zenon DEF Return, qemu_aio_wait, aio_ctx_dispatch
<1>2. \A i \in 1 .. Len(stack) : Heard(stack[i], bhs, ready, O)
  BY Zenon DEF HeardInv
<1>3. Owed(bhs, bh', posting') = O /\ ready' = ready /\ bhs' = bhs
  BY <1>1, Zenon
<1>4. ASSUME \A i \in 1 .. Len(stack') : Heard(stack'[i], bhs, ready, O) PROVE HeardInv'
  BY <1>1, <1>4, Zenon DEF HeardInv
<1>5. Owed(bhs, bh', posting') \subseteq Owed(bhs, bh, posting)
  BY <1>3, Zenon
<1> HIDE DEF O
<1>6. ASSUME Return PROVE HeardInv'
  <2>1. stack # <<>>
    BY <1>6, ReturnForm, Zenon
  <2>2. PICK f : /\ Goto(f) /\ Step(f, f.pc, Top.cur)
                 /\ \/ Top.pc = "bhcb" /\ f.pc = "bh"
                    \/ Top.pc = "cb1" /\ f.pc = "end1"
                    \/ Top.pc = "cb2" /\ f.pc = "end2"
    BY <1>6, ReturnForm, Zenon
  <2>3. f \in Frames /\ f.cur = Top.cur /\ f.noted = Top.noted
    BY <2>2, Zenon DEF Step
  <2>4. CASE Top.pc = "bhcb" /\ f.pc = "bh"
    <3>1. Heard(Top, bhs, ready, O) /\ Onto(stack', f)
      BY <1>2, <2>1, <2>2, <2>3, TopIs, GotoMoves, Zenon
    <3>2. "bh" \in BhPcs /\ "bhcb" # "enter"
      BY PcSets, Zenon
    <3>3. Heard(f, bhs, ready, O)
      BY <2>3, <2>4, <3>1, <3>2, Zenon DEF Heard
    <3> QED
      BY <1>3, <1>5, <2>1, <3>1, <3>3, HeardMoves, Zenon
  <2>5. CASE Top.pc \in {"cb1", "cb2"}
    <3>1. Top.pc # "enter" /\ Top.pc \notin BhPcs
      BY <2>5, Zenon DEF BhPcs
    <3> QED
      BY <1>1, <2>1, <2>2, <2>3, <3>1, LaterHeard, Zenon
  <2> QED
    BY <2>2, <2>4, <2>5, Zenon
<1>7. ASSUME qemu_aio_wait \/ aio_ctx_dispatch PROVE HeardInv'
  <2>1. PICK b \in BOOLEAN : stack' = <<Frame(b)>> \o stack
    BY <1>7, Pushes, Zenon
  <2>2. Frame(b) \in Frames /\ Heard(Frame(b), bhs, ready, O)
    <3>1. Frame(b) \in Frames /\ Frame(b).pc = "enter"
      BY FrameTypes, Zenon
    <3> QED
      BY <3>1, Zenon DEF Heard
  <2>3. stack \in Seq(Frames)
    BY Zenon DEF Base, StackInv
  <2>4. /\ Len(stack') = Len(stack) + 1 /\ stack'[1] = Frame(b) /\ Len(stack) \in Nat
        /\ \A i \in 2 .. Len(stack) + 1 : i - 1 \in 1 .. Len(stack) /\ stack'[i] = stack[i - 1]
    BY <2>1, <2>2, <2>3, SeqPrepend, SeqElements
  <2>5. \A i \in 1 .. Len(stack') : i = 1 \/ i \in 2 .. Len(stack) + 1
    BY <2>4
  <2>6. \A i \in 1 .. Len(stack') : Heard(stack'[i], bhs, ready, O)
    BY <1>2, <2>2, <2>4, <2>5, Zenon
  <2> QED
    BY <1>4, <2>6, Zenon
<1> QED
  BY <1>6, <1>7, Zenon

\* The walk of the bottom halves starts at the first one, and one that it passes is
\* not owed a run any more.
LEMMA BhWalkHeard ==
  ASSUME Base, HeardInv, BhStart \/ BhWalk
  PROVE  HeardInv'
<1> DEFINE O == Owed(bhs, bh, posting)
           P == Owed(bhs, bh', posting')
           c == Top.cur
<1>1. UNCHANGED <<bhs, ready, posting>>
  BY Zenon DEF BhStart, BhWalk
<1>2. ASSUME stack # <<>>, NEW f \in Frames, Goto(f), P \subseteq O, Heard(f, bhs, ready, P)
      PROVE  HeardInv'
  <2>1. Onto(stack', f)
    BY <1>2, GotoMoves, Zenon
  <2> QED
    BY <1>1, <1>2, <2>1, HeardMoves, Zenon
<1>3. ASSUME BhStart PROVE HeardInv'
  <2>1. stack # <<>> /\ \E f : Goto(f) /\ Step(f, "bh", First(bhs))
    BY <1>3, BhForms, Zenon
  <2>2. PICK f : Goto(f) /\ Step(f, "bh", First(bhs))
    BY <2>1, Zenon
  <2>3. P = O
    BY <1>1, <1>3, Zenon DEF BhStart
  <2>4. \A b \in O : Listed(b, bhs)
    BY Zenon DEF Owed
  <2> HIDE DEF O, P
  <2>5. \A b \in O : First(bhs) # Null /\ From(bhs, First(bhs), b)
    BY <2>4, Lists, ListFirst, Zenon
  <2>6. f \in Frames /\ f.pc \in BhPcs /\ f.cur = First(bhs)
    BY <2>2, PcSets, Zenon DEF Step
  <2>7. Heard(f, bhs, ready, P) /\ P \subseteq O
    BY <2>3, <2>5, <2>6, Zenon DEF Heard
  <2> QED
    BY <1>2, <2>1, <2>2, <2>6, <2>7, Zenon
<1>4. ASSUME BhWalk PROVE HeardInv'
  <2>1. /\ stack # <<>> /\ Top.pc = "bh" /\ c # Null /\ Listed(c, bhs)
        /\ \E f : /\ Goto(f) /\ f.pc \in {"bh", "bhcb"} /\ Step(f, f.pc, After(bhs, c))
    BY <1>4, BhForms, Zenon
  <2>2. PICK f : Goto(f) /\ f.pc \in {"bh", "bhcb"} /\ Step(f, f.pc, After(bhs, c))
    BY <2>1, Zenon
  <2>3. f \in Frames /\ f.pc \in BhPcs /\ f.cur = After(bhs, c) /\ f.noted = Top.noted
    BY <2>2, PcSets, Zenon DEF Step
  <2>4. Heard(Top, bhs, ready, O)
    BY <2>1, TopIs, Zenon DEF HeardInv
  <2>5. P \subseteq O /\ c \notin P
    <3> DEFINE run == ~bh[c].deleted /\ bh[c].scheduled
    <3>1. c \in Bh /\ bh \in [Bh -> BhFlags]
      BY <2>1, Lists, Zenon DEF Base, DataOK
    <3>2. bh' = IF run THEN [bh EXCEPT ![c].scheduled = FALSE, ![c].idle = FALSE] ELSE bh
      BY <1>4, Zenon DEF BhWalk
    <3>3. CASE run
      <4>1. ~bh'[c].scheduled /\ \A x \in Bh : x # c => bh'[x] = bh[x]
        BY <3>1, <3>2, <3>3, Zenon DEF BhFlags
      <4>2. c \notin P
        BY <4>1, Zenon DEF Owed
      <4>3. ASSUME NEW x \in P PROVE x \in O
        <5>1. /\ x \in Bh /\ Listed(x, bhs) /\ ~bh'[x].deleted /\ bh'[x].scheduled
              /\ ~bh'[x].idle /\ posting' # x
          BY <4>3, Zenon DEF Owed
        <5>2. x # c
          BY <4>2, <4>3, Zenon
        <5>3. bh'[x] = bh[x] /\ posting' = posting
          BY <1>1, <4>1, <5>1, <5>2, Zenon
        <5> QED
          BY <5>1, <5>3, Zenon DEF Owed
      <4> QED
        BY <4>2, <4>3, Zenon
    <3>4. CASE ~run
      <4>1. P = O
        BY <1>1, <3>2, <3>4, Zenon
      <4>2. c \notin O
        BY <3>4, Zenon DEF Owed
      <4> QED
        BY <4>1, <4>2, Zenon
    <3> QED
      BY <3>3, <3>4, Zenon
  <2> HIDE DEF O, P, c
  <2>6. Heard(f, bhs, ready, P)
    <3>1. CASE Top.noted \/ NFd \in ready
      BY <2>3, <3>1, Zenon DEF Heard
    <3>2. CASE \A b \in O : From(bhs, c, b)
      <4>1. ASSUME NEW b \in P PROVE After(bhs, c) # Null /\ From(bhs, After(bhs, c), b)
        <5>1. From(bhs, c, b) /\ b # c
          BY <2>5, <3>2, <4>1, Zenon
        <5> QED
          BY <2>1, <5>1, Lists, ListAfter, Zenon
      <4> QED
        BY <2>3, <4>1, Zenon DEF Heard
    <3>3. Top.pc # "enter"
      BY <2>1, Zenon
    <3> QED
      BY <2>4, <3>1, <3>2, <3>3, Zenon DEF Heard, c
  <2> QED
    BY <1>2, <2>1, <2>2, <2>3, <2>5, <2>6, Zenon
<1> QED
  BY <1>3, <1>4, Zenon

\* The walk of the bottom halves ends; they are freed only when no call below is
\* walking them.
LEMMA BhEndHeard ==
  ASSUME Base, HeardInv, BhEnd
  PROVE  HeardInv'
<1> DEFINE w == Without(bhs, {b \in Bh : bh[b].deleted})
           O == Owed(bhs, bh, posting)
           P == Owed(bhs', bh', posting')
<1>1. /\ stack # <<>> /\ Top.pc = "bh" /\ Top.cur = Null
      /\ \E f : Goto(f) /\ Step(f, "walk1", First(handlers))
  BY BhForms, Zenon
<1>2. PICK f : Goto(f) /\ Step(f, "walk1", First(handlers))
  BY <1>1, Zenon
<1>3. bhs' = (IF walking_bh = 1 THEN w ELSE bhs) /\ UNCHANGED <<bh, posting, ready>>
  BY Zenon DEF BhEnd
<1>4. \A x : Listed(x, w) => Listed(x, bhs)
  BY Lists, ListWithout, Zenon
<1> HIDE DEF w
<1>5. P \subseteq O
  <2> SUFFICES ASSUME NEW x \in P PROVE x \in O
    BY Zenon
  <2>1. Listed(x, bhs') => Listed(x, bhs)
    BY <1>3, <1>4, Zenon
  <2> QED
    BY <1>3, <2>1, Zenon DEF Owed
<1>6. \A i \in 1 .. Len(stack) : Heard(stack[i], bhs, ready, O)
  BY Zenon DEF HeardInv
<1>7. f \in Frames /\ f.noted = Top.noted
  BY <1>2, Zenon DEF Step
<1>8. Len(stack') = Len(stack) /\ stack'[1] = f /\ \A i \in 2 .. Len(stack) : stack'[i] = stack[i]
  BY <1>1, <1>2, <1>7, GotoMoves, Zenon DEF Onto
<1>9. Top = stack[1] /\ 1 \in 1 .. Len(stack) /\ stack[1].pc \in BhPcs
  BY <1>1, TopIs, PcSets, Zenon
<1>10. \A i \in 1 .. Len(stack) : i = 1 \/ i \in 2 .. Len(stack)
  <2>1. Len(stack) \in Nat
    BY <1>1, TopIs, Zenon
  <2> QED
    BY <2>1
<1>11. ASSUME HeardInv' = \A i \in 1 .. Len(stack) : Heard(stack'[i], bhs', ready, P) PROVE HeardInv'
  <2> HIDE DEF O, P
  <2>1. Heard(stack'[1], bhs', ready, P)
    <3>1. Top.noted \/ NFd \in ready \/ O = {}
      <4>1. Heard(Top, bhs, ready, O) /\ Top.pc # "enter"
        BY <1>1, <1>6, <1>9, Zenon
      <4> QED
        BY <1>1, <4>1, HeardOutside, Zenon
    <3> QED
      BY <1>5, <1>7, <1>8, <3>1, Zenon DEF Heard
  <2>2. ASSUME NEW i \in 2 .. Len(stack), i \in 1 .. Len(stack) PROVE Heard(stack'[i], bhs', ready, P)
    <3>1. Heard(stack[i], bhs, ready, O) /\ stack'[i] = stack[i]
      BY <1>6, <1>8, <2>2, Zenon
    <3>2. CASE walking_bh = 1
      <4>1. stack[i].pc \notin BhPcs
        BY <1>1, <1>9, <2>2, <3>2, StackAlone, Zenon DEF Base
      <4>2. CASE stack[i].pc = "enter"
        BY <3>1, <4>2, Zenon DEF Heard
      <4>3. CASE stack[i].noted \/ NFd \in ready \/ O = {}
        BY <1>5, <3>1, <4>3, Zenon DEF Heard
      <4> QED
        BY <3>1, <4>1, <4>2, <4>3, HeardOutside, Zenon
    <3>3. CASE walking_bh # 1
      <4>1. bhs' = bhs
        BY <1>3, <3>3, Zenon
      <4>2. Heard(stack[i], bhs, ready, P)
        BY <1>5, <3>1, HeardKept, Zenon
      <4> QED
        BY <3>1, <4>1, <4>2, Zenon
    <3> QED
      BY <3>2, <3>3, Zenon
  <2> QED
    BY <1>10, <1>11, <2>1, <2>2, Zenon
<1>12. HeardInv' = \A i \in 1 .. Len(stack) : Heard(stack'[i], bhs', ready, P)
  BY <1>3, <1>8, Zenon DEF HeardInv
<1> QED
  BY <1>11, <1>12, Zenon

\* The walks of the handlers: whoever reads the notifier tells every call.
LEMMA WalkHeard ==
  ASSUME Base, NodesInv, HeardInv, Walk1 \/ Walk2
  PROVE  HeardInv'
<1> DEFINE c == Top.cur
           O == Owed(bhs, bh, posting)
<1>1. /\ stack # <<>> /\ Top.pc \in {"walk1", "walk2"} /\ Listed(c, handlers)
  BY WalkForms, Zenon
<1>2. PICK f : /\ Step(f, f.pc, c)
               /\ io_read(c, f) \/ (Goto(f) /\ UNCHANGED <<ready, inflight>>)
  BY WalkForms, Zenon
<1>3. UNCHANGED <<bhs, bh, posting>>
  BY Zenon DEF Walk1, Walk2
<1>4. f \in Frames /\ f.noted = Top.noted /\ c \in Node
  BY <1>1, <1>2, Lists, Zenon DEF Step
<1>5. Top.pc # "enter" /\ Top.pc \notin BhPcs
  BY <1>1, Zenon DEF BhPcs
<1>6. CASE Goto(f) /\ UNCHANGED <<ready, inflight>>
  BY <1>1, <1>3, <1>4, <1>5, <1>6, LaterHeard, Zenon
<1>7. CASE io_read(c, f) /\ c = Notifier
  <2> HIDE DEF c
  <2>1. Onto(stack', f) /\ \A i \in 1 .. Len(stack) : stack'[i].noted
    BY <1>1, <1>4, <1>7, ReadMoves, Zenon
  <2>2. \A i \in 1 .. Len(stack') : stack'[i].noted
    BY <2>1, Zenon DEF Onto
  <2> QED
    BY <2>2, Zenon DEF HeardInv, Heard
<1>8. CASE io_read(c, f) /\ c # Notifier
  <2>1. Owed(bhs, bh', posting') = O /\ bhs' = bhs
    BY <1>3, Zenon
  <2>2. Owed(bhs, bh', posting') \subseteq Owed(bhs, bh, posting)
    BY <2>1, Zenon
  <2>3. Heard(Top, bhs, ready, O)
    BY <1>1, TopIs, Zenon DEF HeardInv
  <2> HIDE DEF O, c
  <2>4. Onto(stack', f)
    BY <1>1, <1>4, <1>8, ReadMoves, Zenon
  <2>5. node[c].fd \in Fd
    BY <1>1, <1>4, <1>8, Zenon DEF NodesInv, NodesOK
  <2>6. node[c].fd # NFd
    BY <2>5, AioConstants, Zenon
  <2>7. NFd \in ready => NFd \in ready'
    BY <1>8, <2>6, Zenon DEF io_read
  <2>8. Top.noted \/ NFd \in ready \/ O = {}
    BY <1>5, <2>3, HeardOutside, Zenon
  <2>9. Heard(f, bhs, ready', O)
    BY <1>4, <2>7, <2>8, Zenon DEF Heard
  <2> QED
    BY <1>1, <2>1, <2>2, <2>4, <2>7, <2>9, HeardMoves, Zenon
<1> QED
  BY <1>2, <1>6, <1>7, <1>8, Zenon

\* The rest of aio_poll.
LEMMA BetweenHeard ==
  ASSUME Base, HeardInv,
         \/ WalkEnd("end1", "walk1") \/ WalkEnd("end2", "walk2")
         \/ Walk1Done \/ Fill \/ Select \/ Interrupted \/ Walk2Done
  PROVE  HeardInv'
<1>1. UNCHANGED <<bhs, bh, posting, ready>>
  BY Zenon DEF WalkEnd, Walk1Done, Fill, Select, Interrupted, Walk2Done
<1>2. /\ stack # <<>> /\ Top.pc \in {"end1", "end2", "walk1", "fill", "select", "walk2"}
      /\ Pop \/ \E f : Goto(f) /\ f \in Frames /\ f.noted = Top.noted
  <2>1. CASE WalkEnd("end1", "walk1") \/ WalkEnd("end2", "walk2")
    BY <2>1, WalkEndForm, Zenon DEF Step
  <2>2. CASE Walk1Done \/ Fill \/ Select \/ Interrupted \/ Walk2Done
    BY <2>2, BetweenForms, Zenon DEF Step
  <2> QED
    BY <2>1, <2>2, Zenon
<1>3. Top.pc # "enter" /\ Top.pc \notin BhPcs
  BY <1>2, Zenon DEF BhPcs
<1>4. ASSUME NEW f, Goto(f), f \in Frames, f.noted = Top.noted PROVE HeardInv'
  BY <1>1, <1>2, <1>3, <1>4, LaterHeard, Zenon
<1>5. ASSUME Pop PROVE HeardInv'
  <2>1. stack \in Seq(Frames)
    BY Zenon DEF Base, StackInv
  <2>2. \A i \in 1 .. Len(stack') : i + 1 \in 1 .. Len(stack) /\ stack'[i] = stack[i + 1]
    <3>1. /\ Len(stack') = Len(stack) - 1 /\ Len(stack) \in Nat
          /\ \A i \in 1 .. Len(stack) - 1 : stack'[i] = stack[i + 1]
      BY <1>2, <1>5, <2>1, SeqTail, SeqElements, Zenon DEF Pop
    <3> QED
      BY <3>1
  <2>3. ASSUME NEW i \in 1 .. Len(stack')
        PROVE  Heard(stack'[i], bhs', ready', Owed(bhs', bh', posting'))
    <3>1. Heard(stack[i + 1], bhs, ready, Owed(bhs, bh, posting))
      BY <2>2, <2>3, Zenon DEF HeardInv
    <3> QED
      BY <1>1, <2>2, <2>3, <3>1, Zenon
  <2> QED
    BY <2>3, Zenon DEF HeardInv
<1> QED
  BY <1>2, <1>4, <1>5, Zenon

\* Every step keeps what is known of the wake-ups.
LEMMA HeardNext == Base /\ NodesInv /\ HeardInv /\ [Next]_vars => HeardInv'
<1> SUFFICES ASSUME Base, NodesInv, HeardInv, [Next]_vars PROVE HeardInv'
  BY Zenon
<1>1. CASE Next
  BY <1>1, FlagsHeard, NewBhHeard, CallHeard, BhWalkHeard, BhEndHeard, WalkHeard,
     BetweenHeard, Zenon DEF Next, Poll, Calls
<1>2. CASE UNCHANGED vars
  BY <1>2, Zenon DEF vars, HeardInv
<1> QED
  BY <1>1, <1>2, Zenon

\* A poll that sleeps in select and has not read the notifier, nor has one inside
\* it, is woken up by whoever schedules a bottom half.
THEOREM SchedulersWake == Spec => []WokenByBh
<1>1. Init => Base /\ NodesInv /\ HeardInv
  <2> SUFFICES ASSUME Init PROVE Base /\ NodesInv /\ HeardInv
    BY Zenon
  <2>1. Base /\ NodesInv /\ stack = <<>>
    BY NodesStart, Zenon DEF Init
  <2>2. \A i \in 1 .. Len(stack) : FALSE
    BY <2>1, EmptySeq
  <2> QED
    BY <2>1, <2>2, Zenon DEF HeardInv
<1>2. Base /\ NodesInv /\ HeardInv /\ [Next]_vars => (Base /\ NodesInv /\ HeardInv)'
  BY BaseNext, NodesNext, HeardNext, Zenon
<1>3. Base /\ NodesInv /\ HeardInv => WokenByBh
  <2> SUFFICES ASSUME Base, NodesInv, HeardInv, Sleeping, ~Top.noted,
                      NEW b \in Bh, Pending(b), posting # b
               PROVE  FALSE
    BY Zenon DEF WokenByBh
  <2>1. stack # <<>> /\ Top.pc = "select" /\ Top.rdfds \cap ready = {}
    BY Zenon DEF Sleeping, At
  <2>2. Served(Top, handlers, node) /\ Heard(Top, bhs, ready, Owed(bhs, bh, posting))
    BY <2>1, TopIs, Zenon DEF NodesInv, HeardInv
  <2>3. NFd \notin ready
    BY <2>1, <2>2, Zenon DEF Served
  <2>4. "select" \notin BhPcs /\ "select" # "enter"
    BY Zenon DEF BhPcs
  <2>5. b \in Owed(bhs, bh, posting)
    BY Zenon DEF Pending, Owned, Owed
  <2> QED
    BY <2>1, <2>2, <2>3, <2>4, <2>5, HeardOutside, Zenon
<1> QED
  BY <1>1, <1>2, <1>3, PTL DEF Spec
=============================================================================
