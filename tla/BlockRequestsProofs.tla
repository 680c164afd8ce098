------------------------ MODULE BlockRequestsProofs ------------------------
(***************************************************************************)
(* Proofs about BlockRequests, for any number of requests of any kind, any *)
(* regions, and any size of device and cluster.                            *)
(***************************************************************************)
EXTENDS BlockRequests, FiniteSetTheorems, SequenceTheorems, TLAPS

-----------------------------------------------------------------------------
(* Sequences as queues *)

In(q, r) == \E i \in 1 .. Len(q) : q[i] = r

\* Appending a coroutine to a queue.
LEMMA InAppend ==
  ASSUME NEW S, NEW q \in Seq(S), NEW x \in S
  PROVE  /\ Append(q, x) \in Seq(S) /\ In(Append(q, x), x)
         /\ \A r : In(q, r) => In(Append(q, x), r)
<1>1. /\ Len(q) \in Nat /\ Append(q, x) \in Seq(S)
      /\ Len(Append(q, x)) = Len(q) + 1
      /\ \A i \in 1 .. Len(q) : Append(q, x)[i] = q[i]
      /\ Append(q, x)[Len(q) + 1] = x
  BY AppendProperties, LenProperties
<1> QED
  BY <1>1 DEF In

\* Moving one queue to the end of another.
LEMMA InConcat ==
  ASSUME NEW S, NEW p \in Seq(S), NEW q \in Seq(S)
  PROVE  /\ p \o q \in Seq(S)
         /\ \A r : In(p, r) \/ In(q, r) => In(p \o q, r)
<1>1. /\ Len(p) \in Nat /\ Len(q) \in Nat /\ p \o q \in Seq(S)
      /\ Len(p \o q) = Len(p) + Len(q)
      /\ \A i \in 1 .. Len(p) + Len(q) :
           (p \o q)[i] = IF i <= Len(p) THEN p[i] ELSE q[i - Len(p)]
  BY ConcatProperties, LenProperties, Zenon
<1>2. ASSUME NEW r, In(p, r) PROVE In(p \o q, r)
  BY <1>1, <1>2 DEF In
<1>3. ASSUME NEW r, In(q, r) PROVE In(p \o q, r)
  <2>1. PICK i \in 1 .. Len(q) : q[i] = r
    BY <1>3, Zenon DEF In
  <2>2. Len(p) + i \in 1 .. Len(p \o q) /\ (p \o q)[Len(p) + i] = r
    BY <1>1, <2>1
  <2> QED
    BY <2>2, Zenon DEF In
<1> QED
  BY <1>1, <1>2, <1>3, Zenon

\* Taking the first coroutine of a queue.
LEMMA InTail ==
  ASSUME NEW S, NEW q \in Seq(S), q # <<>>
  PROVE  /\ Head(q) \in S /\ Tail(q) \in Seq(S)
         /\ \A r : In(q, r) => r = Head(q) \/ In(Tail(q), r)
<1>1. /\ Len(q) \in Nat \ {0} /\ Head(q) \in S /\ Tail(q) \in Seq(S)
      /\ Head(q) = q[1] /\ Len(Tail(q)) = Len(q) - 1
      /\ \A i \in 1 .. Len(Tail(q)) : Tail(q)[i] = q[i + 1]
  BY HeadTailProperties, EmptySeq, LenProperties
<1>2. ASSUME NEW r, In(q, r), r # Head(q) PROVE In(Tail(q), r)
  <2>1. PICK i \in 1 .. Len(q) : q[i] = r
    BY <1>2, Zenon DEF In
  <2>2. i - 1 \in 1 .. Len(Tail(q)) /\ Tail(q)[i - 1] = r
    BY <1>1, <1>2, <2>1
  <2> QED
    BY <2>2, Zenon DEF In
<1> QED
  BY <1>1, <1>2, Zenon

\* An empty queue.
LEMMA InEmpty == \A r : ~In(<<>>, r)
BY DEF In

-----------------------------------------------------------------------------
(* Regions *)

USE BlockConstants

\* Rounding to clusters keeps a region, and is symmetric when it is used to
\* tell whether two requests share a cluster.
LEMMA Rounding ==
  ASSUME NEW A \in SUBSET Sector, NEW B \in SUBSET Sector
  PROVE  /\ round_to_clusters(A) \in SUBSET Sector /\ A \subseteq round_to_clusters(A)
         /\ round_to_clusters(A) \cap B = {} <=> A \cap round_to_clusters(B) = {}
<1>1. \A C \in SUBSET Sector : \A t :
        t \in round_to_clusters(C) <=>
          t \in Sector /\ \E s \in C : t \div Cluster = s \div Cluster
  BY DEF round_to_clusters, ClusterOf
<1>2. round_to_clusters(A) \in SUBSET Sector /\ A \subseteq round_to_clusters(A)
  BY <1>1, Zenon
<1>3. ASSUME round_to_clusters(A) \cap B # {} PROVE A \cap round_to_clusters(B) # {}
  BY <1>1, <1>3
<1>4. ASSUME A \cap round_to_clusters(B) # {} PROVE round_to_clusters(A) \cap B # {}
  BY <1>1, <1>4
<1> QED
  BY <1>2, <1>3, <1>4, Zenon

-----------------------------------------------------------------------------
(* Types *)

\* The two outcomes of wait_for_overlapping_requests.
Wait(r, q) ==
  /\ q \in Overlapping(r)
  /\ waitq' = [waitq EXCEPT ![q] = Append(@, r)]
  /\ pc' = [pc EXCEPT ![r] = "overlap"] /\ tracked' = tracked

Start(r) ==
  /\ cor' <= 0 \/ Overlapping(r) = {}
  /\ tracked' = tracked \cup {r} /\ pc' = [pc EXCEPT ![r] = "io"] /\ waitq' = waitq

\* wait_for_overlapping_requests does one or the other.
LEMMA WaitOrStart ==
  ASSUME NEW r \in Req, NEW u, cor' \in Nat, wait_for_overlapping_requests(r, u)
  PROVE  unlock' = u /\ (Start(r) \/ \E q \in tracked : Wait(r, q))
<1>1. CASE (cor' > 0 \/ pc[r] = "overlap") /\ Overlapping(r) # {}
  <2>1. \E q \in Overlapping(r) : Wait(r, q)
    BY <1>1, Zenon DEF wait_for_overlapping_requests, Wait
  <2> QED
    BY <2>1, Zenon DEF wait_for_overlapping_requests, Overlapping
<1>2. CASE ~((cor' > 0 \/ pc[r] = "overlap") /\ Overlapping(r) # {})
  BY <1>2 DEF wait_for_overlapping_requests, Start
<1> QED
  BY <1>1, <1>2, Zenon

\* What Proceed, or waiting and starting after a wakeup, leaves well typed.
Placed ==
  /\ cor' \in Nat /\ unlock' \in Seq(Req) /\ waitq' \in [Req -> Seq(Req)]
  /\ tracked' \subseteq Req /\ pc' \in [Req -> Pcs]

\* Both outcomes keep the types.
LEMMA WaitTypes ==
  ASSUME TypeOK, NEW r \in Req, NEW u \in Seq(Req), cor' \in Nat,
         wait_for_overlapping_requests(r, u)
  PROVE  Placed
<1>1. unlock' = u /\ (Start(r) \/ \E q \in tracked : Wait(r, q))
  BY WaitOrStart, Zenon
<1>2. CASE Start(r)
  BY <1>1, <1>2, Zenon DEF TypeOK, Placed, Start, Pcs
<1>3. ASSUME NEW q \in tracked, Wait(r, q) PROVE Placed
  <2>1. q \in Req /\ waitq[q] \in Seq(Req) /\ Append(waitq[q], r) \in Seq(Req)
    BY InAppend, Zenon DEF TypeOK
  <2> QED
    BY <1>1, <1>3, <2>1, Zenon DEF TypeOK, Placed, Wait, Pcs
<1> QED
  BY <1>1, <1>2, <1>3, Zenon

\* So does a request that has passed the throttle.
LEMMA ProceedTypes ==
  ASSUME TypeOK, NEW r \in Req, NEW u \in Seq(Req), Proceed(r, u)
  PROVE  Placed
<1>1. cor' \in Nat
  BY DEF TypeOK, Proceed
<1> QED
  BY <1>1, WaitTypes, Zenon DEF Proceed

\* The queue and the timer of the throttle keep their types.
Timed ==
  /\ throttled' \in Seq(Req) /\ timer' \in {"none", "idle", "armed"}
  /\ crash' \in BOOLEAN

\* A request that exceeds the limits goes to the head of the throttle queue.
LEMMA ExceedsTypes ==
  ASSUME TypeOK, NEW r \in Req, NEW u \in Seq(Req), Exceeds(r, u)
  PROVE  Placed /\ Timed
<1>1. <<r>> \in Seq(Req) /\ <<r>> \o throttled \in Seq(Req)
  BY InConcat DEF TypeOK
<1> QED
  BY <1>1, Zenon DEF Exceeds, TypeOK, Placed, Timed, Pcs

\* A request that passes wakes the next one.
LEMMA PassesTypes ==
  ASSUME TypeOK, NEW r \in Req, NEW u \in Seq(Req), Passes(r, u)
  PROVE  Placed /\ Timed
<1>1. CASE throttled = <<>>
  BY <1>1, ProceedTypes, Zenon DEF Passes, TypeOK, Timed
<1>2. CASE throttled # <<>>
  <2>1. Tail(throttled) \in Seq(Req) /\ Append(u, Head(throttled)) \in Seq(Req)
    BY <1>2, InTail, InAppend, Zenon DEF TypeOK
  <2>2. Proceed(r, Append(u, Head(throttled)))
    BY <1>2, Zenon DEF Passes
  <2>3. Placed
    BY <2>1, <2>2, ProceedTypes, Zenon
  <2> QED
    BY <1>2, <2>1, <2>3, Zenon DEF Passes, TypeOK, Timed
<1> QED
  BY <1>1, <1>2, Zenon

\* End wakes the requests that wait for this one.
LEMMA EndTypes ==
  ASSUME TypeOK, NEW r \in Req, End(r), cor' \in Nat
  PROVE  Placed /\ loop' \in {Main, Drain, Abort} \cup Req
<1>1. unlock \o waitq[r] \in Seq(Req) /\ <<>> \in Seq(Req)
  BY InConcat DEF TypeOK
<1>2. Placed
  BY <1>1, Zenon DEF End, tracked_request_end, TypeOK, Placed, Pcs
<1>3. loop' \in {Main, Drain, Abort} \cup Req
  BY Zenon DEF End, TypeOK
<1> QED
  BY <1>2, <1>3, Zenon

-----------------------------------------------------------------------------
(* The requests that are tracked, and the count of copy-on-reads *)

Counted == {"overlap", "io", "cow"}
Copying == {r \in Req : kind[r] = "cor" /\ pc[r] \in Counted}

\* tracked_requests holds the requests that do I/O, copy_on_read_in_flight counts
\* the copy-on-reads that wait or do I/O, and each kind of request has its steps.
Base ==
  /\ TypeOK
  /\ tracked = InFlight
  /\ cor = Cardinality(Copying)
  /\ \A r \in Req : /\ pc[r] = "cow" => kind[r] = "cor"
                    /\ pc[r] = "flush" => kind[r] = "write"

\* The count follows a request from one place to another.
LEMMA CountStep ==
  ASSUME TypeOK, cor = Cardinality(Copying), NEW r \in Req, NEW p \in Pcs,
         pc' = [pc EXCEPT ![r] = p], kind' = kind,
         cor' = IF kind[r] # "cor" \/ (pc[r] \in Counted <=> p \in Counted) THEN cor
                ELSE IF p \in Counted THEN cor + 1 ELSE cor - 1
  PROVE  cor' \in Nat /\ cor' = Cardinality(Copying')
<1>1. IsFiniteSet(Copying)
  BY FS_Subset, Zenon DEF Copying
<1>2. CASE kind[r] = "cor" /\ p \in Counted
  <2>1. Copying' = Copying \cup {r}
    BY <1>2, Zenon DEF Copying, TypeOK
  <2>2. IsFiniteSet(Copying') /\ Cardinality(Copying') \in Nat
    BY <1>1, <2>1, FS_AddElement, FS_CardinalityType, Zenon
  <2>3. Cardinality(Copying') = IF r \in Copying THEN cor ELSE cor + 1
    BY <1>1, <2>1, FS_AddElement, Zenon
  <2>4. r \in Copying <=> pc[r] \in Counted
    BY <1>2, Zenon DEF Copying
  <2> QED
    BY <1>2, <2>2, <2>3, <2>4, Zenon
<1>3. CASE ~(kind[r] = "cor" /\ p \in Counted)
  <2>1. Copying' = Copying \ {r}
    BY <1>3, Zenon DEF Copying, TypeOK
  <2>2. IsFiniteSet(Copying') /\ Cardinality(Copying') \in Nat
    BY <1>1, <2>1, FS_RemoveElement, FS_CardinalityType, Zenon
  <2>3. Cardinality(Copying') = IF r \in Copying THEN cor - 1 ELSE cor
    BY <1>1, <2>1, FS_RemoveElement, Zenon
  <2>4. r \in Copying <=> kind[r] = "cor" /\ pc[r] \in Counted
    BY Zenon DEF Copying
  <2> QED
    BY <1>3, <2>2, <2>3, <2>4, Zenon
<1> QED
  BY <1>2, <1>3, Zenon

\* The parts of Base that a step changes.
Followed ==
  /\ tracked' = InFlight' /\ cor' \in Nat /\ cor' = Cardinality(Copying')
  /\ \A r \in Req : /\ pc'[r] = "cow" => kind[r] = "cor"
                    /\ pc'[r] = "flush" => kind[r] = "write"

\* A request that moves to place p enters and leaves tracked_requests with it.
LEMMA MoveFollows ==
  ASSUME Base, NEW r \in Req, NEW p \in Pcs,
         pc' = [pc EXCEPT ![r] = p], kind' = kind,
         tracked' = IF p \in {"io", "cow", "flush"} THEN tracked \cup {r} ELSE tracked \ {r},
         p = "cow" => kind[r] = "cor", p = "flush" => kind[r] = "write",
         cor' = IF kind[r] # "cor" \/ (pc[r] \in Counted <=> p \in Counted) THEN cor
                ELSE IF p \in Counted THEN cor + 1 ELSE cor - 1
  PROVE  Followed
<1>1. cor' \in Nat /\ cor' = Cardinality(Copying')
  BY CountStep, Zenon DEF Base
<1>2. tracked' = InFlight'
  BY Zenon DEF Base, TypeOK, InFlight
<1>3. \A q \in Req : pc'[q] = IF q = r THEN p ELSE pc[q]
  BY Zenon DEF Base, TypeOK
<1> QED
  BY <1>1, <1>2, <1>3, Zenon DEF Base, Followed

\* A request that waits for another one, or starts.
LEMMA WaitFollows ==
  ASSUME Base, NEW r \in Req, NEW u, kind' = kind, r \notin tracked,
         cor' = IF kind[r] = "cor" /\ pc[r] \notin Counted THEN cor + 1 ELSE cor,
         wait_for_overlapping_requests(r, u)
  PROVE  Followed
<1>1. cor' \in Nat
  BY DEF Base, TypeOK
<1>2. Start(r) \/ \E q \in tracked : Wait(r, q)
  BY <1>1, WaitOrStart, Zenon
<1>3. CASE Start(r)
  BY <1>3, MoveFollows, Zenon DEF Start, Pcs, Counted
<1>4. CASE \E q \in tracked : Wait(r, q)
  <2>1. tracked' = tracked \ {r} /\ pc' = [pc EXCEPT ![r] = "overlap"]
    BY <1>4, Zenon DEF Wait
  <2> QED
    BY <2>1, MoveFollows, Zenon DEF Pcs, Counted
<1> QED
  BY <1>2, <1>3, <1>4, Zenon

\* A new request, or one that was throttled, that goes on.
LEMMA ProceedFollows ==
  ASSUME Base, NEW r \in Req, NEW u, kind' = kind, pc[r] \in {"idle", "throttle"},
         Proceed(r, u)
  PROVE  Followed
<1>1. pc[r] \notin Counted /\ r \notin tracked
  BY Zenon DEF Base, InFlight, Counted
<1> QED
  BY <1>1, WaitFollows, Zenon DEF Proceed

\* A request that is throttled.
LEMMA ThrottleFollows ==
  ASSUME Base, NEW r \in Req, kind' = kind, pc[r] \in {"idle", "throttle"},
         pc' = [pc EXCEPT ![r] = "throttle"], tracked' = tracked, cor' = cor
  PROVE  Followed
<1>1. pc[r] \notin Counted /\ tracked' = tracked \ {r}
  BY Zenon DEF Base, InFlight, Counted
<1> QED
  BY <1>1, MoveFollows, Zenon DEF Pcs, Counted

\* A request that ends.
LEMMA EndFollows ==
  ASSUME Base, NEW r \in Req, pc[r] \in {"io", "cow", "flush"}, End(r)
  PROVE  Followed
<1>1. pc[r] = "flush" => kind[r] = "write"
  BY Zenon DEF Base
<1>2. kind[r] = "cor" => pc[r] \in Counted
  BY <1>1, Zenon DEF Counted
<1> QED
  BY <1>2, MoveFollows, Zenon DEF End, tracked_request_end, Pcs, Counted

\* Base holds after a step that keeps types and follows the request.
LEMMA BaseFrom ==
  ASSUME Base, Followed, TypeOK', kind' = kind
  PROVE  Base'
BY Zenon DEF Base, Followed

\* A request that goes through the throttle, or is put back into its queue.
LEMMA ThrottleBase ==
  ASSUME Base, NEW r \in Req, NEW u \in Seq(Req), kind' = kind,
         pc[r] \in {"idle", "throttle"}, Exceeds(r, u) \/ Passes(r, u)
  PROVE  Placed /\ Timed /\ Followed
<1> TypeOK
  BY Zenon DEF Base
<1>1. CASE Exceeds(r, u)
  BY <1>1, ExceedsTypes, ThrottleFollows, Zenon DEF Exceeds
<1>2. CASE Passes(r, u)
  <2>1. Followed
    BY <1>2, ProceedFollows, Zenon DEF Passes
  <2> QED
    BY <1>2, <2>1, PassesTypes, Zenon
<1> QED
  BY <1>1, <1>2, Zenon

\* The actions that let a request in preserve Base.
LEMMA SubmitBase ==
  ASSUME Base, NEW r \in Req, Submit(r)
  PROVE  Base'
<1> TypeOK /\ unlock \in Seq(Req) /\ throttled \in Seq(Req)
  BY Zenon DEF Base, TypeOK
<1>1. Placed /\ Timed /\ Followed
  <2>1. kind' = kind /\ pc[r] \in {"idle", "throttle"}
    BY Zenon DEF Submit
  <2>2. CASE ~enabled
    <3>1. Proceed(r, unlock) /\ UNCHANGED <<throttled, timer, crash>>
      BY <2>2, Zenon DEF Submit
    <3> QED
      BY <2>1, <3>1, ProceedTypes, ProceedFollows, Zenon DEF TypeOK, Timed
  <2>3. CASE enabled /\ throttled # <<>>
    <3>1. /\ throttled' = Append(throttled, r) /\ pc' = [pc EXCEPT ![r] = "throttle"]
          /\ UNCHANGED <<unlock, waitq, tracked, cor, timer, crash>>
      BY <2>3, Zenon DEF Submit, bdrv_io_limits_intercept
    <3>2. Append(throttled, r) \in Seq(Req)
      BY InAppend, Zenon
    <3>3. Placed /\ Timed
      BY <3>1, <3>2, Zenon DEF TypeOK, Placed, Timed, Pcs
    <3> QED
      BY <2>1, <3>1, <3>3, ThrottleFollows, Zenon
  <2>4. CASE enabled /\ throttled = <<>>
    <3>1. Exceeds(r, unlock) \/ Passes(r, unlock)
      BY <2>4, Zenon DEF Submit, bdrv_io_limits_intercept
    <3> QED
      BY <2>1, <3>1, ThrottleBase, Zenon
  <2> QED
    BY <2>2, <2>3, <2>4, Zenon
<1>2. TypeOK'
  BY <1>1, Zenon DEF Submit, TypeOK, Placed, Timed, data
<1> QED
  BY <1>1, <1>2, BaseFrom, Zenon DEF Submit

\* A synchronous request.
LEMMA SyncBase ==
  ASSUME Base, NEW r \in Req, bdrv_rw_co(r)
  PROVE  Base'
<1> TypeOK /\ unlock \in Seq(Req) /\ throttled \in Seq(Req)
  BY Zenon DEF Base, TypeOK
<1>1. kind' = kind /\ pc[r] \in {"idle", "throttle"} /\ <<>> \in Seq(Req)
  BY DEF bdrv_rw_co
<1>2. Placed /\ Followed /\ throttled' \in Seq(Req)
      /\ timer' \in {"none", "idle", "armed"} /\ enabled' \in BOOLEAN
  <2>1. CASE enabled
    <3>1. Proceed(r, unlock \o throttled) /\ unlock \o throttled \in Seq(Req)
      BY <2>1, InConcat, Zenon DEF bdrv_rw_co
    <3>2. throttled' = <<>> /\ timer' = "none" /\ enabled' = FALSE
      BY <2>1, Zenon DEF bdrv_rw_co
    <3> QED
      BY <1>1, <3>1, <3>2, ProceedTypes, ProceedFollows, Zenon
  <2>2. CASE ~enabled
    <3>1. Proceed(r, unlock) /\ UNCHANGED <<throttled, timer, enabled>>
      BY <2>2, Zenon DEF bdrv_rw_co
    <3> QED
      BY <1>1, <3>1, ProceedTypes, ProceedFollows, Zenon DEF TypeOK
  <2> QED
    BY <2>1, <2>2, Zenon
<1>3. /\ loop' \in {Main, Drain, Abort} \cup Req /\ admin' \in 0 .. MaxAdmin
      /\ UNCHANGED <<kind, region, bounce, inbh, disk, alloc, limits, crash, clock>>
  BY DEF bdrv_rw_co, TypeOK, data
<1>4. TypeOK'
  BY <1>2, <1>3, Zenon DEF TypeOK, Placed
<1> QED
  BY <1>1, <1>2, <1>4, BaseFrom, Zenon

\* A request that the bottom half enters again.
LEMMA ResumeBase ==
  ASSUME Base, NEW r \in Req, Resume(r)
  PROVE  Base'
<1> TypeOK /\ unlock \in Seq(Req) /\ throttled \in Seq(Req)
  BY Zenon DEF Base, TypeOK
<1>1. kind' = kind /\ unlock # <<>> /\ Tail(unlock) \in Seq(Req)
  BY InTail, Zenon DEF Resume
<1>2. Placed /\ Timed /\ Followed
  <2>1. CASE pc[r] = "throttle"
    BY <1>1, <2>1, ThrottleBase, Zenon DEF Resume
  <2>2. CASE pc[r] = "overlap"
    <3>1. /\ cor' = cor /\ wait_for_overlapping_requests(r, Tail(unlock))
          /\ UNCHANGED <<throttled, timer, crash>>
      BY <2>2, Zenon DEF Resume
    <3>2. r \notin tracked /\ pc[r] \in Counted /\ cor' \in Nat
      BY <2>2, <3>1, Zenon DEF Base, TypeOK, InFlight, Counted
    <3>3. Followed
      BY <1>1, <3>1, <3>2, WaitFollows, Zenon
    <3>4. Placed
      BY <1>1, <3>1, <3>2, WaitTypes, Zenon
    <3> QED
      BY <3>1, <3>3, <3>4, Zenon DEF TypeOK, Timed
  <2> QED
    BY <2>1, <2>2, Zenon DEF Resume
<1>3. TypeOK'
  BY <1>2, Zenon DEF Resume, TypeOK, Placed, Timed, data
<1> QED
  BY <1>1, <1>2, <1>3, BaseFrom, Zenon

\* The steps of I/O preserve Base: those that end the request,
LEMMA EndBase ==
  ASSUME Base, NEW r \in Req, pc[r] \in {"io", "cow", "flush"}, End(r),
         bounce' \in [Req -> [Sector -> Req \cup {Old}]],
         disk' \in [Sector -> Req \cup {Old}], alloc' \subseteq Sector
  PROVE  Base'
<1>1. Followed /\ cor' \in Nat
  BY EndFollows, Zenon DEF Followed
<1>2. Placed /\ loop' \in {Main, Drain, Abort} \cup Req
  BY <1>1, EndTypes, Zenon DEF Base
<1>3. UNCHANGED <<kind, region, throttled, inbh, enabled, limits, timer, crash, clock, admin>>
  BY Zenon DEF End, throttle
<1>4. TypeOK'
  BY <1>2, <1>3, Zenon DEF Base, TypeOK, Placed
<1> QED
  BY <1>1, <1>3, <1>4, BaseFrom, Zenon

\* and the others.
LEMMA IoBase ==
  ASSUME Base, NEW r \in Req, Io(r)
  PROVE  Base'
<1> TypeOK /\ region[r] \in SUBSET Sector
  BY Zenon DEF Base, TypeOK
<1> round_to_clusters(region[r]) \in SUBSET Sector
  BY Rounding
<1>1. CASE ReadDone(r)
  <2>1. pc[r] = "io" /\ End(r) /\ UNCHANGED <<bounce, disk, alloc>>
    BY <1>1, Zenon DEF ReadDone, data
  <2> QED
    BY <2>1, EndBase, ZenonT(30) DEF TypeOK
<1>2. CASE CorRead(r)
  <2>1. /\ pc[r] = "io" /\ kind[r] = "cor" /\ pc' = [pc EXCEPT ![r] = "cow"]
        /\ bounce' = [bounce EXCEPT ![r] = disk]
        /\ UNCHANGED <<kind, region, throttled, unlock, inbh, waitq, tracked, cor, disk,
                       alloc, enabled, limits, timer, crash, clock, loop, admin>>
    BY <1>2, Zenon DEF CorRead, queues, data, throttle
  <2>2. TypeOK'
    BY <2>1, SMTT(20) DEF TypeOK, Pcs
  <2>3. tracked' = tracked \cup {r}
    BY <2>1, Zenon DEF Base, InFlight
  <2>4. Followed
    BY <2>1, <2>3, MoveFollows, Zenon DEF Pcs, Counted
  <2> QED
    BY <2>1, <2>2, <2>4, BaseFrom, Zenon
<1>3. CASE CorWrite(r)
  <2>1. disk' \in [Sector -> Req \cup {Old}] /\ alloc' \subseteq Sector
    BY <1>3 DEF CorWrite, TypeOK
  <2>2. bounce' \in [Req -> [Sector -> Req \cup {Old}]]
    BY <1>3, Zenon DEF CorWrite, TypeOK
  <2> QED
    BY <1>3, <2>1, <2>2, EndBase, Zenon DEF CorWrite
<1>4. CASE WriteData(r)
  <2>1. /\ pc[r] = "io" /\ kind[r] = "write" /\ pc' = [pc EXCEPT ![r] = "flush"]
        /\ disk' = [s \in Sector |-> IF s \in region[r] THEN r ELSE disk[s]]
        /\ alloc' = alloc \cup round_to_clusters(region[r])
        /\ UNCHANGED <<kind, region, bounce, throttled, unlock, inbh, waitq, tracked, cor,
                       enabled, limits, timer, crash, clock, loop, admin>>
    BY <1>4, Zenon DEF WriteData, queues, throttle
  <2>2. disk' \in [Sector -> Req \cup {Old}] /\ alloc' \subseteq Sector
    BY <2>1, Zenon DEF TypeOK
  <2>3. TypeOK'
    BY <2>1, <2>2, SMTT(20) DEF TypeOK, Pcs
  <2>4. tracked' = tracked \cup {r}
    BY <2>1, SMTT(20) DEF Base, InFlight
  <2>5. Followed
    BY <2>1, <2>4, MoveFollows, Zenon DEF Pcs, Counted
  <2> QED
    BY <2>1, <2>3, <2>5, BaseFrom, SMTT(20)
<1>5. CASE WriteDone(r)
  BY <1>5, EndBase, Zenon DEF WriteDone, TypeOK, data
<1>6. CASE IoError(r)
  <2>1. bounce' \in [Req -> [Sector -> Req \cup {Old}]]
    BY <1>6, Zenon DEF IoError, TypeOK
  <2> QED
    BY <1>6, <2>1, EndBase, Zenon DEF IoError, TypeOK, data
<1> QED
  BY <1>1, <1>2, <1>3, <1>4, <1>5, <1>6, Zenon DEF Io

\* The steps by which a drain starts and ends, and those that stop and start the
\* clock, leave the requests and the throttle alone.
DrainStep == DrainStart \/ do_vm_stop \/ vm_start \/ DrainEnd \/ Interrupted

\* They change nothing but the clock and the loop.
LEMMA DrainLeaves ==
  ASSUME DrainStep
  PROVE  UNCHANGED <<request, queues, tracked, cor, data, throttle>>
BY Zenon DEF DrainStep, DrainStart, do_vm_stop, vm_start, DrainEnd, Interrupted, Drains,
             DrainAsserts

\* And these keep their types.
LEMMA DrainTypes ==
  ASSUME TypeOK, DrainStep
  PROVE  /\ loop' \in {Main, Drain, Abort} \cup Req /\ admin' \in 0 .. MaxAdmin
         /\ clock' \in BOOLEAN
<1>1. CASE DrainStart \/ do_vm_stop
  <2>1. /\ loop' = Drain /\ admin < MaxAdmin /\ admin' = admin + 1
        /\ clock' = clock \/ clock' = FALSE
    BY <1>1, Zenon DEF DrainStart, do_vm_stop, Drains
  <2>2. admin' \in 0 .. MaxAdmin
    BY <2>1 DEF TypeOK
  <2> QED
    BY <2>1, <2>2, Zenon DEF TypeOK
<1>2. CASE vm_start
  BY <1>2, Zenon DEF vm_start, TypeOK
<1>3. CASE DrainEnd \/ Interrupted
  BY <1>3, Zenon DEF DrainEnd, Interrupted, DrainAsserts, TypeOK
<1> QED
  BY <1>1, <1>2, <1>3, Zenon DEF DrainStep

\* Timers, monitor commands and drains do not touch requests.
LEMMA AdminBase ==
  ASSUME Base, bdrv_block_timer \/ qmp_block_set_io_throttle \/ DrainRestart \/ DrainStep
  PROVE  Base'
<1> TypeOK /\ unlock \in Seq(Req) /\ throttled \in Seq(Req) /\ <<>> \in Seq(Req)
  BY DEF Base, TypeOK
<1>1. UNCHANGED <<pc, kind, region, bounce, inbh, waitq, tracked, cor, disk, alloc, crash>>
  BY DrainLeaves, Zenon DEF bdrv_block_timer, qmp_block_set_io_throttle, DrainRestart, request,
                            queues, data, throttle
<1>2. unlock \o throttled \in Seq(Req)
  BY InConcat, Zenon
<1>3. throttled' \in Seq(Req) /\ unlock' \in Seq(Req)
  <2>1. CASE bdrv_block_timer
    <3>1. CASE throttled = <<>>
      BY <2>1, <3>1, Zenon DEF bdrv_block_timer
    <3>2. CASE throttled # <<>>
      <4>1. throttled' = Tail(throttled) /\ unlock' = Append(unlock, Head(throttled))
        BY <2>1, <3>2, Zenon DEF bdrv_block_timer
      <4> QED
        BY <3>2, <4>1, InTail, InAppend, Zenon
    <3> QED
      BY <3>1, <3>2, Zenon
  <2>2. CASE qmp_block_set_io_throttle
    BY <1>2, <2>2, Zenon DEF qmp_block_set_io_throttle, bdrv_io_limits_enable,
                             bdrv_io_limits_disable
  <2>3. CASE DrainRestart \/ DrainStep
    BY <1>2, <2>3, DrainLeaves, Zenon DEF DrainRestart, queues
  <2> QED
    BY <2>1, <2>2, <2>3, Zenon
<1>4. /\ enabled' \in BOOLEAN /\ limits' \in BOOLEAN /\ timer' \in {"none", "idle", "armed"}
      /\ loop' \in {Main, Drain, Abort} \cup Req /\ admin' \in 0 .. MaxAdmin
      /\ clock' \in BOOLEAN
  <2>1. CASE bdrv_block_timer
    BY <2>1, Zenon DEF bdrv_block_timer, TypeOK
  <2>2. CASE qmp_block_set_io_throttle
    <3>1. UNCHANGED <<loop, clock>> /\ admin' \in 0 .. MaxAdmin /\ limits' \in BOOLEAN
      BY <2>2 DEF qmp_block_set_io_throttle, TypeOK
    <3>2. enabled' \in BOOLEAN /\ timer' \in {"none", "idle", "armed"}
      BY <2>2, Zenon DEF qmp_block_set_io_throttle, bdrv_io_limits_enable, bdrv_io_limits_disable,
                  TypeOK
    <3> QED
      BY <3>1, <3>2, SMTT(20) DEF TypeOK
  <2>3. CASE DrainRestart
    BY <2>3, Zenon DEF DrainRestart, throttle, TypeOK
  <2>4. CASE DrainStep
    BY <2>4, DrainLeaves, DrainTypes, Zenon DEF throttle, TypeOK
  <2> QED
    BY <2>1, <2>2, <2>3, <2>4, Zenon
<1>5. TypeOK'
  BY <1>1, <1>3, <1>4, Zenon DEF TypeOK
<1>6. tracked' = InFlight' /\ Copying' = Copying
  BY <1>1, Zenon DEF Base, InFlight, Copying
<1> QED
  BY <1>1, <1>5, <1>6, SMTT(20) DEF Base

\* Base holds before the first request.
LEMMA BaseInit ==
  ASSUME Init
  PROVE  Base
<1>1. TypeOK
  <2>1. PICK setup \in Setups : /\ kind = [r \in Req |-> setup[r].kind]
                               /\ region = [r \in Req |-> setup[r].region]
    BY Zenon DEF Init
  <2>2. /\ kind \in [Req -> {"read", "cor", "write"}]
        /\ region \in [Req -> SUBSET Sector]
    <3>1. setup \in [Req -> [kind : {"read", "cor", "write"}, region : SUBSET Sector]]
      BY SetupsAssumption, Zenon
    <3> QED
      BY <2>1, <3>1
  <2>3. /\ pc \in [Req -> Pcs] /\ waitq \in [Req -> Seq(Req)]
        /\ throttled \in Seq(Req) /\ unlock \in Seq(Req)
    BY DEF Init, Pcs
  <2>4. /\ bounce \in [Req -> [Sector -> Req \cup {Old}]]
        /\ disk \in [Sector -> Req \cup {Old}]
    BY Zenon DEF Init
  <2>5. {inbh, enabled, limits, crash, clock} \subseteq BOOLEAN /\ timer \in {"none", "idle", "armed"}
    BY Zenon DEF Init
  <2>6. /\ tracked \subseteq Req /\ cor \in Nat /\ alloc \subseteq Sector
        /\ loop \in {Main, Drain, Abort} \cup Req /\ admin \in 0 .. MaxAdmin
    BY DEF Init
  <2> QED
    BY <2>2, <2>3, <2>4, <2>5, <2>6, Zenon DEF TypeOK
<1>2. tracked = InFlight /\ Copying = {}
  BY Zenon DEF Init, InFlight, Copying, Counted
<1> QED
  BY <1>1, <1>2, FS_EmptySet, Zenon DEF Init, Base

\* Every step preserves Base.
LEMMA BaseStep ==
  ASSUME Base, [Next]_vars
  PROVE  Base'
<1>1. CASE UNCHANGED vars
  <2>1. TypeOK'
    BY <1>1, Zenon DEF Base, TypeOK, vars, request, queues, data, throttle
  <2>2. tracked' = InFlight' /\ Copying' = Copying /\ UNCHANGED <<pc, kind, cor>>
    BY <1>1, Zenon DEF Base, InFlight, Copying, vars, request
  <2> QED
    BY <2>1, <2>2, Zenon DEF Base
<1>2. CASE Next
  BY <1>2, SubmitBase, ResumeBase, IoBase, SyncBase, AdminBase, Zenon DEF Next, DrainStep
<1> QED
  BY <1>1, <1>2, Zenon

\* The variables of block.c keep their types, the count of copy-on-reads in
\* flight never becomes negative, and tracked_requests is what does I/O.
THEOREM RequestsAreTracked == Spec => []Base
<1>1. Init => Base
  BY BaseInit, Zenon
<1>2. Base /\ [Next]_vars => Base'
  BY BaseStep, Zenon
<1> QED
  BY <1>1, <1>2, PTL DEF Spec

\* TypeOK holds for any requests, regions, cluster size and monitor commands.
THEOREM TypeCorrect == Spec => []TypeOK
<1>1. Base => TypeOK
  BY Zenon DEF Base
<1> QED
  BY <1>1, RequestsAreTracked, PTL

-----------------------------------------------------------------------------
(* Copy-on-read *)

\* While a copy-on-read is between its read and its write, its buffer holds what
\* the guest would read.
BounceIsDisk ==
  \A r \in Req : pc[r] = "cow" =>
    \A s \in round_to_clusters(region[r]) : bounce[r][s] = disk[s]

\* A request that starts finds none that it must not meet.
LEMMA StartIsAlone ==
  ASSUME Base, CorIsAlone, Base', NEW r \in Req, Start(r),
         UNCHANGED <<kind, region>>
  PROVE  CorIsAlone'
<1> DEFINE R(q) == round_to_clusters(region[q])
<1> region \in [Req -> SUBSET Sector] /\ tracked \subseteq Req /\ IsFiniteSet(Copying')
  BY FS_Subset, Zenon DEF Base, TypeOK, Copying
<1>1. ASSUME NEW q \in tracked, q # r, kind[q] = "cor" \/ kind[r] = "cor"
      PROVE  region[q] \cap R(r) = {}
  <2>1. \E x \in Req : x \in Copying'
    <3>1. pc'[r] = "io" /\ (pc'[q] = pc[q]) /\ pc[q] \in {"io", "cow", "flush"}
      BY <1>1 DEF Start, Base, TypeOK, InFlight
    <3>2. kind[q] = "cor" => pc[q] # "flush"
      BY Zenon DEF Base
    <3> QED
      BY <1>1, <3>1, <3>2, SMTT(20) DEF Copying, Counted
  <2>2. cor' \in Nat /\ cor' # 0
    BY <2>1, FS_EmptySet, Zenon DEF Base, TypeOK
  <2>3. Overlapping(r) = {}
    BY <2>2 DEF Start
  <2> QED
    BY <2>3, Zenon DEF Overlapping, tracked_request_overlaps
<1>2. ASSUME NEW q \in tracked, q # r, kind[q] = "cor" \/ kind[r] = "cor"
      PROVE  R(q) \cap region[r] = {} /\ R(r) \cap region[q] = {}
  <2>1. region[q] \in SUBSET Sector /\ region[r] \in SUBSET Sector
    BY Zenon
  <2> HIDE DEF R
  <2>2. region[q] \cap R(r) = {}
    BY <1>1, <1>2, Zenon
  <2> QED
    BY <2>1, <2>2, Rounding DEF R
<1> QED
  BY <1>2, Zenon DEF CorIsAlone, Start

\* Requests enter tracked_requests only through wait_for_overlapping_requests.
LEMMA TrackedStep ==
  ASSUME Base, Base', [Next]_vars
  PROVE  /\ UNCHANGED <<kind, region>>
         /\ tracked' \subseteq tracked \/ \E r \in Req : Start(r)
<1> cor' \in Nat
  BY Zenon DEF Base, TypeOK
<1> DEFINE Goal == tracked' \subseteq tracked \/ \E r \in Req : Start(r)
<1>1. ASSUME NEW r \in Req, NEW u, Proceed(r, u) \/ wait_for_overlapping_requests(r, u)
      PROVE  Goal
  <2>1. Start(r) \/ \E q \in tracked : Wait(r, q)
    BY <1>1, WaitOrStart, Zenon DEF Proceed
  <2> QED
    BY <2>1, Zenon DEF Wait
<1>2. ASSUME NEW r \in Req, NEW u, Exceeds(r, u) \/ Passes(r, u) PROVE Goal
  BY <1>1, <1>2, Zenon DEF Exceeds, Passes
<1>3. ASSUME NEW r \in Req, Submit(r) PROVE Goal /\ UNCHANGED <<kind, region>>
  BY <1>1, <1>2, <1>3, Zenon DEF Submit, bdrv_io_limits_intercept
<1>4. ASSUME NEW r \in Req, Resume(r) PROVE Goal /\ UNCHANGED <<kind, region>>
  BY <1>1, <1>2, <1>4, Zenon DEF Resume
<1>5. ASSUME NEW r \in Req, bdrv_rw_co(r) PROVE Goal /\ UNCHANGED <<kind, region>>
  BY <1>1, <1>5, SMTT(20) DEF bdrv_rw_co
<1>6. ASSUME NEW r \in Req, Io(r) PROVE Goal /\ UNCHANGED <<kind, region>>
  BY <1>6, Zenon DEF Io, ReadDone, CorRead, CorWrite, WriteData, WriteDone, IoError, End,
              tracked_request_end
<1>7. CASE \/ bdrv_block_timer \/ qmp_block_set_io_throttle
           \/ DrainRestart \/ DrainStep \/ UNCHANGED vars
  BY <1>7, DrainLeaves, Zenon DEF bdrv_block_timer, qmp_block_set_io_throttle, DrainRestart,
                                  request, vars
<1> QED
  BY <1>3, <1>4, <1>5, <1>6, <1>7, SMTT(20) DEF Next, DrainStep

\* Every step leaves copy-on-reads alone on their clusters.
LEMMA AloneStep ==
  ASSUME Base, Base', CorIsAlone, [Next]_vars
  PROVE  CorIsAlone'
<1>1. /\ UNCHANGED <<kind, region>>
      /\ tracked' \subseteq tracked \/ \E r \in Req : Start(r)
  BY TrackedStep, Zenon
<1>2. CASE tracked' \subseteq tracked
  BY <1>1, <1>2, Zenon DEF CorIsAlone
<1>3. CASE \E r \in Req : Start(r)
  BY <1>1, <1>3, StartIsAlone, Zenon
<1> QED
  BY <1>1, <1>2, <1>3, Zenon

\* A copy-on-read has its clusters for itself (wait_for_overlapping_requests with
\* the counter copy_on_read_in_flight), whatever the requests and their regions.
THEOREM CopyOnReadIsAlone == Spec => []CorIsAlone
<1>1. Init => CorIsAlone
  BY Zenon DEF Init, CorIsAlone
<1>2. Base /\ Base' /\ CorIsAlone /\ [Next]_vars => CorIsAlone'
  BY AloneStep, Zenon
<1> QED
  BY <1>1, <1>2, RequestsAreTracked, PTL DEF Spec

\* The write of a copy-on-read puts back what is there.
LEMMA CorWriteKeeps ==
  ASSUME Base, BounceIsDisk, NEW r \in Req, CorWrite(r)
  PROVE  disk' = disk
<1>1. disk \in [Sector -> Req \cup {Old}]
  BY Zenon DEF Base, TypeOK
<1>2. \A s \in Sector :
        (IF s \in round_to_clusters(region[r]) THEN bounce[r][s] ELSE disk[s]) = disk[s]
  BY Zenon DEF CorWrite, BounceIsDisk
<1>3. disk' = [s \in Sector |->
                 IF s \in round_to_clusters(region[r]) THEN bounce[r][s] ELSE disk[s]]
  BY Zenon DEF CorWrite
<1> QED
  BY <1>1, <1>2, <1>3, Zenon

\* Every step keeps the buffers true.
LEMMA BounceStep ==
  ASSUME Base, Base', CorIsAlone, BounceIsDisk, [Next]_vars
  PROVE  BounceIsDisk'
<1> region' = region /\ pc \in [Req -> Pcs] /\ region \in [Req -> SUBSET Sector]
  BY TrackedStep, Zenon DEF Base, TypeOK
<1> DEFINE NoNewCopy == \A q \in Req : pc'[q] = "cow" => pc[q] = "cow"
<1>1. ASSUME NoNewCopy, UNCHANGED <<bounce, disk>> PROVE BounceIsDisk'
  BY <1>1, SMTT(20) DEF BounceIsDisk
<1>2. ASSUME NEW r \in Req, NEW u, wait_for_overlapping_requests(r, u) PROVE NoNewCopy
  BY <1>2, Zenon DEF wait_for_overlapping_requests
<1>3. ASSUME NEW r \in Req, NEW u, Exceeds(r, u) \/ Passes(r, u) PROVE NoNewCopy
  <2>1. CASE Exceeds(r, u)
    BY <2>1, Zenon DEF Exceeds
  <2>2. CASE Passes(r, u)
    BY <1>2, <2>2, Zenon DEF Passes, Proceed
  <2> QED
    BY <1>3, <2>1, <2>2, Zenon
<1>4. ASSUME NEW r \in Req, Submit(r) PROVE NoNewCopy
  <2>1. CASE ~enabled
    BY <1>2, <1>4, <2>1, Zenon DEF Submit, Proceed
  <2>2. CASE enabled /\ throttled # <<>>
    BY <1>4, <2>2, Zenon DEF Submit, bdrv_io_limits_intercept
  <2>3. CASE enabled /\ throttled = <<>>
    BY <1>3, <1>4, <2>3, Zenon DEF Submit, bdrv_io_limits_intercept
  <2> QED
    BY <2>1, <2>2, <2>3, Zenon
<1>5. ASSUME NEW r \in Req, Resume(r) PROVE NoNewCopy
  BY <1>2, <1>3, <1>5, Zenon DEF Resume
<1>6. ASSUME NEW r \in Req, bdrv_rw_co(r) PROVE NoNewCopy
  BY <1>2, <1>6, Zenon DEF bdrv_rw_co, Proceed
<1>7. ASSUME NEW r \in Req, ReadDone(r) \/ WriteDone(r) PROVE NoNewCopy
  BY <1>7, Zenon DEF ReadDone, WriteDone, End
<1>8. ASSUME NEW r \in Req, CorRead(r) PROVE BounceIsDisk'
  <2>1. /\ pc' = [pc EXCEPT ![r] = "cow"] /\ bounce' = [bounce EXCEPT ![r] = disk]
        /\ disk' = disk /\ bounce \in [Req -> [Sector -> Req \cup {Old}]]
    BY <1>8, Zenon DEF CorRead, data, Base, TypeOK
  <2> QED
    BY <2>1, Zenon DEF BounceIsDisk
<1>9. ASSUME NEW r \in Req, CorWrite(r) \/ IoError(r) PROVE BounceIsDisk'
  <2>1. disk' = disk
    BY <1>9, CorWriteKeeps, Zenon DEF IoError, data
  <2>2. /\ pc' = [pc EXCEPT ![r] = "done"]
        /\ bounce' = [bounce EXCEPT ![r] = [s \in Sector |-> Old]]
    BY <1>9, SMTT(20) DEF CorWrite, IoError, End
  <2>3. bounce \in [Req -> [Sector -> Req \cup {Old}]]
    BY Zenon DEF Base, TypeOK
  <2> QED
    BY <2>1, <2>2, <2>3, Zenon DEF BounceIsDisk
<1>10. ASSUME NEW r \in Req, WriteData(r) PROVE BounceIsDisk'
  <2>1. /\ pc[r] = "io" /\ kind[r] = "write" /\ pc' = [pc EXCEPT ![r] = "flush"]
        /\ disk' = [s \in Sector |-> IF s \in region[r] THEN r ELSE disk[s]]
        /\ bounce' = bounce
    BY <1>10, Zenon DEF WriteData
  <2>2. ASSUME NEW q \in Req, pc[q] = "cow", NEW s \in round_to_clusters(region[q])
        PROVE  disk'[s] = disk[s]
    <3>1. kind[q] = "cor" /\ q \in tracked /\ r \in tracked /\ q # r
      BY <2>1, <2>2, Zenon DEF Base, InFlight
    <3>2. s \notin region[r]
      BY <2>2, <3>1, Zenon DEF CorIsAlone
    <3>3. s \in Sector
      BY <2>2, Rounding
    <3> QED
      BY <2>1, <3>2, <3>3, Zenon
  <2> QED
    BY <2>1, <2>2, Zenon DEF BounceIsDisk
<1>11. CASE \/ bdrv_block_timer \/ qmp_block_set_io_throttle
            \/ DrainRestart \/ DrainStep \/ UNCHANGED vars
  BY <1>1, <1>11, DrainLeaves, Zenon
     DEF bdrv_block_timer, qmp_block_set_io_throttle, DrainRestart, request, data, vars
<1>12. ASSUME NEW r \in Req, Submit(r) \/ Resume(r) \/ bdrv_rw_co(r) \/ ReadDone(r) \/ WriteDone(r)
       PROVE  BounceIsDisk'
  <2>1. UNCHANGED <<bounce, disk>>
    BY <1>12, Zenon DEF Submit, Resume, bdrv_rw_co, ReadDone, WriteDone, data
  <2> HIDE DEF NoNewCopy
  <2> QED
    BY <1>1, <1>4, <1>5, <1>6, <1>7, <1>12, <2>1, Zenon
<1> QED
  BY <1>8, <1>9, <1>10, <1>11, <1>12, SMTT(20) DEF Next, Io, DrainStep

\* The write of a copy-on-read never changes what the guest reads: no write of
\* the guest that came in between is undone (bdrv_co_do_copy_on_readv).
THEOREM CopyOnReadIsInvisible == Spec => CorWriteIsInvisible
<1>1. Init => BounceIsDisk
  BY Zenon DEF Init, BounceIsDisk
<1>2. Base /\ Base' /\ CorIsAlone /\ BounceIsDisk /\ [Next]_vars => BounceIsDisk'
  BY BounceStep, Zenon
<1>3. Base /\ BounceIsDisk => [\A r \in Req : CorWrite(r) => disk' = disk]_vars
  BY CorWriteKeeps, Zenon
<1> QED
  BY <1>1, <1>2, <1>3, RequestsAreTracked, CopyOnReadIsAlone, PTL
     DEF Spec, CorWriteIsInvisible

-----------------------------------------------------------------------------
(* The timer *)

\* The timer exists while throttling is on; while it is off nothing is
\* throttled, unless a request used the timer that a synchronous one had freed.
TimerInv ==
  /\ enabled => timer # "none" /\ ~crash
  /\ ~enabled /\ ~crash => timer = "none" /\ throttled = <<>>

\* A request that goes through the throttle.
LEMMA ThrottleTimer ==
  ASSUME TypeOK, TimerInv, ~crash, NEW r, NEW u, Exceeds(r, u) \/ Passes(r, u),
         enabled' = enabled
  PROVE  TimerInv'
<1>1. CASE Exceeds(r, u)
  <2>1. crash' = (timer = "none") /\ timer' = "armed"
    BY <1>1, Zenon DEF Exceeds
  <2> QED
    BY <2>1, Zenon DEF TimerInv
<1>2. CASE Passes(r, u)
  <2>1. UNCHANGED <<timer, crash>> /\ (throttled = <<>> => throttled' = <<>>)
    BY <1>2, Zenon DEF Passes
  <2> QED
    BY <2>1, Zenon DEF TimerInv
<1> QED
  BY <1>1, <1>2, Zenon

\* Every step preserves TimerInv.
LEMMA TimerStep ==
  ASSUME TypeOK, TimerInv, [Next]_vars
  PROVE  TimerInv'
<1>1. ASSUME NEW r \in Req, Submit(r) PROVE TimerInv'
  <2>1. ~crash /\ enabled' = enabled
    BY <1>1, Zenon DEF Submit, Free
  <2>2. CASE ~enabled
    BY <1>1, <2>1, <2>2 DEF Submit, TimerInv
  <2>3. CASE enabled /\ throttled # <<>>
    BY <1>1, <2>1, <2>3 DEF Submit, bdrv_io_limits_intercept, TimerInv
  <2>4. CASE enabled /\ throttled = <<>>
    BY <1>1, <2>1, <2>4, ThrottleTimer, Zenon DEF Submit, bdrv_io_limits_intercept
  <2> QED
    BY <2>2, <2>3, <2>4, Zenon
<1>2. ASSUME NEW r \in Req, Resume(r) PROVE TimerInv'
  <2>1. ~crash /\ enabled' = enabled
    BY <1>2, Zenon DEF Resume
  <2>2. CASE Exceeds(r, Tail(unlock)) \/ Passes(r, Tail(unlock))
    BY <2>1, <2>2, ThrottleTimer, Zenon
  <2>3. CASE UNCHANGED <<throttled, timer, crash>>
    BY <2>1, <2>3, Zenon DEF TimerInv
  <2> QED
    BY <1>2, <2>2, <2>3, Zenon DEF Resume
<1>3. ASSUME NEW r \in Req, bdrv_rw_co(r) PROVE TimerInv'
  BY <1>3, Zenon DEF bdrv_rw_co, Free, TimerInv
<1>4. ASSUME NEW r \in Req, Io(r) PROVE TimerInv'
  <2>1. UNCHANGED <<enabled, timer, crash, throttled>>
    BY <1>4, Zenon DEF Io, ReadDone, CorRead, CorWrite, WriteData, WriteDone, IoError, End,
                throttle, queues
  <2> QED
    BY <2>1, SMTT(20) DEF TimerInv
<1>5. CASE bdrv_block_timer
  BY <1>5, Zenon DEF bdrv_block_timer, Free, TimerInv
<1>6. CASE qmp_block_set_io_throttle
  <2>1. ~crash /\ crash' = crash
    BY <1>6, Zenon DEF qmp_block_set_io_throttle, Free
  <2>2. CASE ~enabled /\ limits'
    BY <1>6, <2>1, <2>2 DEF qmp_block_set_io_throttle, bdrv_io_limits_enable, TimerInv
  <2>3. CASE enabled /\ ~limits'
    BY <1>6, <2>1, <2>3, Zenon DEF qmp_block_set_io_throttle, bdrv_io_limits_disable, TimerInv
  <2>4. CASE ~(~enabled /\ limits') /\ ~(enabled /\ ~limits')
    <3>1. /\ timer' = IF timer = "none" THEN timer ELSE "armed"
          /\ UNCHANGED <<enabled, throttled>>
      BY <1>6, <2>4, Zenon DEF qmp_block_set_io_throttle
    <3> QED
      BY <2>1, <3>1, Zenon DEF TimerInv
  <2> QED
    BY <2>2, <2>3, <2>4, Zenon
<1>7. CASE DrainRestart \/ DrainStep
  <2>1. /\ UNCHANGED <<enabled, timer, crash>>
        /\ throttled = <<>> => throttled' = <<>>
    BY <1>7, DrainLeaves, Zenon DEF DrainRestart, throttle, queues
  <2> QED
    BY <2>1, Zenon DEF TimerInv
<1>8. CASE UNCHANGED vars
  BY <1>8, Zenon DEF vars, throttle, queues, TimerInv
<1> QED
  BY <1>1, <1>2, <1>3, <1>4, <1>5, <1>6, <1>7, <1>8, Zenon DEF Next, DrainStep

\* TimerInv is an invariant.
LEMMA TimerInvariant == Spec => []TimerInv
<1>1. Init => TimerInv
  BY DEF Init, TimerInv
<1>2. TypeOK /\ TimerInv /\ [Next]_vars => TimerInv'
  BY TimerStep, Zenon
<1> QED
  BY <1>1, <1>2, TypeCorrect, PTL DEF Spec

\* bdrv_io_limits_intercept never arms a timer that does not exist while
\* throttling is on, whatever the order of monitor commands and requests.
THEOREM TimerExists == Spec => []TimerIsThere
<1>1. TimerInv => TimerIsThere
  BY Zenon DEF TimerInv, TimerIsThere
<1> QED
  BY <1>1, TimerInvariant, PTL

-----------------------------------------------------------------------------
(* The queues *)

\* A request that is throttled, or waits for another one, is in a queue from
\* which it will be woken.
Queued(r) ==
  /\ pc[r] = "throttle" => In(throttled, r) \/ In(unlock, r)
  /\ pc[r] = "overlap" => In(unlock, r) \/ \E q \in tracked : In(waitq[q], r)
QueueInv == \A r \in Req : Queued(r)

\* A request that waits or starts; the others are still queued, woken or not.
LEMMA WaitQueued ==
  ASSUME Base, NEW r \in Req, NEW u \in Seq(Req), cor' \in Nat,
         wait_for_overlapping_requests(r, u),
         \A x \in Req \ {r} : Queued(x) =>
           /\ pc[x] = "throttle" => In(throttled', x) \/ In(u, x)
           /\ pc[x] = "overlap" => In(u, x) \/ \E q \in tracked : In(waitq[q], x),
         QueueInv
  PROVE  QueueInv'
<1> /\ pc \in [Req -> Pcs] /\ tracked \subseteq Req /\ waitq \in [Req -> Seq(Req)]
    /\ unlock' = u
  BY WaitOrStart, Zenon DEF Base, TypeOK
<1>1. CASE Start(r)
  <2>1. Queued(r)'
    BY <1>1, Zenon DEF Start, Queued
  <2>2. ASSUME NEW x \in Req \ {r} PROVE Queued(x)'
    <3>1. pc'[x] = pc[x] /\ Queued(x) /\ tracked \subseteq tracked' /\ waitq' = waitq
      BY <1>1, Zenon DEF Start, QueueInv
    <3> QED
      BY <3>1, Zenon DEF Queued
  <2> QED
    BY <2>1, <2>2, Zenon DEF QueueInv
<1>2. ASSUME NEW q \in tracked, Wait(r, q) PROVE QueueInv'
  <2>1. /\ waitq' = [waitq EXCEPT ![q] = Append(@, r)] /\ tracked' = tracked
        /\ pc' = [pc EXCEPT ![r] = "overlap"]
    BY <1>2, Zenon DEF Wait
  <2>2. In(waitq'[q], r) /\ \A x : In(waitq[q], x) => In(waitq'[q], x)
    BY <2>1, InAppend, Zenon
  <2>3. \A p \in tracked : p # q => waitq'[p] = waitq[p]
    BY <2>1, Zenon
  <2>4. Queued(r)'
    BY <2>1, <2>2, Zenon DEF Queued
  <2>5. ASSUME NEW x \in Req \ {r} PROVE Queued(x)'
    <3>1. pc'[x] = pc[x] /\ Queued(x)
      BY <2>1, Zenon DEF QueueInv
    <3>2. (\E p \in tracked : In(waitq[p], x)) => \E p \in tracked' : In(waitq'[p], x)
      BY <2>1, <2>2, <2>3, Zenon
    <3> QED
      BY <3>1, <3>2, Zenon DEF Queued
  <2> QED
    BY <2>4, <2>5, Zenon DEF QueueInv
<1> QED
  BY <1>1, <1>2, WaitOrStart, SMTT(20)

\* The same, for a request that passes the throttle and wakes the next one: u is
\* the queue of the bottom half, or what is left of it without the request.
LEMMA PassesQueued ==
  ASSUME Base, NEW r \in Req, NEW u \in Seq(Req), cor' \in Nat, Passes(r, u),
         \A x \in Req \ {r} : In(unlock, x) => In(u, x),
         QueueInv
  PROVE  QueueInv'
<1> throttled \in Seq(Req)
  BY Zenon DEF Base, TypeOK
<1>1. CASE throttled = <<>>
  <2>1. wait_for_overlapping_requests(r, u) /\ throttled' = throttled
    BY <1>1, Zenon DEF Passes, Proceed
  <2> QED
    BY <2>1, WaitQueued, Zenon DEF Queued
<1>2. CASE throttled # <<>>
  <2> DEFINE v == Append(u, Head(throttled))
  <2>1. wait_for_overlapping_requests(r, v) /\ throttled' = Tail(throttled)
    BY <1>2, Zenon DEF Passes, Proceed
  <2>2. /\ v \in Seq(Req) /\ In(v, Head(throttled)) /\ \A x : In(u, x) => In(v, x)
        /\ \A x : In(throttled, x) => x = Head(throttled) \/ In(throttled', x)
    BY <1>2, <2>1, InTail, InAppend, Zenon
  <2> HIDE DEF v
  <2>3. ASSUME NEW x \in Req \ {r}, Queued(x)
        PROVE  /\ pc[x] = "throttle" => In(throttled', x) \/ In(v, x)
               /\ pc[x] = "overlap" => In(v, x) \/ \E q \in tracked : In(waitq[q], x)
    BY <2>2, <2>3, Zenon DEF Queued
  <2> QED
    BY <2>1, <2>2, <2>3, WaitQueued, Zenon
<1> QED
  BY <1>1, <1>2, Zenon

\* The same, for a request that is put at the head of the throttle queue.
LEMMA ExceedsQueued ==
  ASSUME Base, NEW r \in Req, NEW u \in Seq(Req), Exceeds(r, u),
         \A x \in Req \ {r} : In(unlock, x) => In(u, x),
         QueueInv
  PROVE  QueueInv'
<1> throttled \in Seq(Req) /\ pc \in [Req -> Pcs] /\ <<r>> \in Seq(Req)
  BY DEF Base, TypeOK
<1>1. /\ throttled' = <<r>> \o throttled /\ unlock' = u /\ UNCHANGED <<waitq, tracked>>
      /\ pc' = [pc EXCEPT ![r] = "throttle"]
  BY Zenon DEF Exceeds
<1>2. In(throttled', r) /\ \A x : In(throttled, x) => In(throttled', x)
  <2>1. In(<<r>>, r)
    BY DEF In
  <2> QED
    BY <1>1, <2>1, InConcat, Zenon
<1>3. Queued(r)'
  BY <1>1, <1>2, Zenon DEF Queued
<1>4. ASSUME NEW x \in Req \ {r} PROVE Queued(x)'
  <2>1. pc'[x] = pc[x] /\ Queued(x)
    BY <1>1, Zenon DEF QueueInv
  <2> QED
    BY <1>1, <1>2, <2>1, Zenon DEF Queued
<1> QED
  BY <1>3, <1>4, SMTT(20) DEF QueueInv

\* A request that ends moves those that wait for it to the bottom half's queue.
LEMMA EndQueued ==
  ASSUME Base, NEW r \in Req, End(r), QueueInv
  PROVE  QueueInv'
<1> /\ unlock \in Seq(Req) /\ waitq \in [Req -> Seq(Req)] /\ pc \in [Req -> Pcs]
    /\ tracked \subseteq Req
  BY Zenon DEF Base, TypeOK
<1>1. /\ tracked' = tracked \ {r} /\ unlock' = unlock \o waitq[r]
      /\ waitq' = [waitq EXCEPT ![r] = <<>>] /\ pc' = [pc EXCEPT ![r] = "done"]
      /\ throttled' = throttled
  BY Zenon DEF End, tracked_request_end
<1>2. \A x : In(unlock, x) \/ In(waitq[r], x) => In(unlock', x)
  BY <1>1, InConcat, Zenon
<1>3. \A q \in tracked' : waitq'[q] = waitq[q]
  BY <1>1, Zenon
<1>4. Queued(r)'
  BY <1>1, Zenon DEF Queued
<1>5. ASSUME NEW x \in Req \ {r} PROVE Queued(x)'
  <2>1. pc'[x] = pc[x] /\ Queued(x)
    BY <1>1, Zenon DEF QueueInv
  <2>2. (\E q \in tracked : In(waitq[q], x)) =>
          In(unlock', x) \/ \E q \in tracked' : In(waitq'[q], x)
    BY <1>1, <1>2, <1>3, Zenon
  <2> QED
    BY <1>1, <1>2, <2>1, <2>2, Zenon DEF Queued
<1> QED
  BY <1>4, <1>5, SMTT(20) DEF QueueInv

\* All that is throttled moves to the bottom half's queue.
LEMMA RestartQueued ==
  ASSUME Base, QueueInv, unlock' = unlock \o throttled, throttled' = <<>>,
         UNCHANGED <<pc, waitq, tracked>>
  PROVE  QueueInv'
<1>1. \A x : In(unlock, x) \/ In(throttled, x) => In(unlock', x)
  BY InConcat, Zenon DEF Base, TypeOK
<1> QED
  BY <1>1, SMTT(20) DEF QueueInv, Queued

\* Every step preserves QueueInv.
LEMMA QueueStep ==
  ASSUME Base, Base', TimerInv, QueueInv, [Next]_vars
  PROVE  QueueInv'
<1> /\ unlock \in Seq(Req) /\ throttled \in Seq(Req) /\ pc \in [Req -> Pcs]
    /\ cor' \in Nat
  BY Zenon DEF Base, TypeOK
<1>1. ASSUME NEW r \in Req, Submit(r) PROVE QueueInv'
  <2>1. CASE ~enabled
    <3>1. wait_for_overlapping_requests(r, unlock) /\ throttled' = throttled
      BY <1>1, <2>1, Zenon DEF Submit, Proceed
    <3> QED
      BY <3>1, WaitQueued, Zenon DEF Queued
  <2>2. CASE enabled /\ throttled # <<>>
    <3>1. /\ throttled' = Append(throttled, r) /\ pc' = [pc EXCEPT ![r] = "throttle"]
          /\ UNCHANGED <<unlock, waitq, tracked>>
      BY <1>1, <2>2, Zenon DEF Submit, bdrv_io_limits_intercept
    <3>2. In(throttled', r) /\ \A x : In(throttled, x) => In(throttled', x)
      BY <3>1, InAppend, Zenon
    <3> QED
      BY <3>1, <3>2, Zenon DEF QueueInv, Queued
  <2>3. CASE enabled /\ throttled = <<>>
    <3>1. Exceeds(r, unlock) \/ Passes(r, unlock)
      BY <1>1, <2>3, Zenon DEF Submit, bdrv_io_limits_intercept
    <3> QED
      BY <3>1, ExceedsQueued, PassesQueued, Zenon
  <2> QED
    BY <2>1, <2>2, <2>3, Zenon
<1>2. ASSUME NEW r \in Req, Resume(r) PROVE QueueInv'
  <2>1. unlock # <<>> /\ r = Head(unlock)
    BY <1>2, Zenon DEF Resume
  <2>2. /\ Tail(unlock) \in Seq(Req)
        /\ \A x \in Req \ {r} : In(unlock, x) => In(Tail(unlock), x)
    BY <2>1, InTail, Zenon
  <2>3. CASE pc[r] = "throttle"
    <3>1. Exceeds(r, Tail(unlock)) \/ Passes(r, Tail(unlock))
      BY <1>2, <2>3, Zenon DEF Resume
    <3> QED
      BY <2>2, <3>1, ExceedsQueued, PassesQueued, Zenon
  <2>4. CASE pc[r] = "overlap"
    <3>1. wait_for_overlapping_requests(r, Tail(unlock)) /\ throttled' = throttled
      BY <1>2, <2>4, Zenon DEF Resume
    <3> QED
      BY <2>2, <3>1, WaitQueued, Zenon DEF Queued
  <2> QED
    BY <1>2, <2>3, <2>4, Zenon DEF Resume
<1>3. ASSUME NEW r \in Req, bdrv_rw_co(r) PROVE QueueInv'
  <2>1. CASE enabled
    <3>1. wait_for_overlapping_requests(r, unlock \o throttled)
      BY <1>3, <2>1, Zenon DEF bdrv_rw_co, Proceed
    <3>2. /\ unlock \o throttled \in Seq(Req)
          /\ \A x : In(unlock, x) \/ In(throttled, x) => In(unlock \o throttled, x)
      BY InConcat, Zenon
    <3> QED
      BY <3>1, <3>2, WaitQueued, ZenonT(30) DEF Queued
  <2>2. CASE ~enabled
    <3>1. wait_for_overlapping_requests(r, unlock) /\ throttled' = throttled
      BY <1>3, <2>2, SMTT(20) DEF bdrv_rw_co, Proceed
    <3> QED
      BY <3>1, WaitQueued, Zenon DEF Queued
  <2> QED
    BY <2>1, <2>2, Zenon
<1>4. ASSUME NEW r \in Req, Io(r) PROVE QueueInv'
  <2>1. CASE End(r)
    BY <2>1, EndQueued, Zenon
  <2>2. CASE CorRead(r) \/ WriteData(r)
    <3>1. /\ UNCHANGED <<throttled, unlock, waitq, tracked>>
          /\ \E p \in {"cow", "flush"} : pc' = [pc EXCEPT ![r] = p]
      BY <2>2, Zenon DEF CorRead, WriteData, queues
    <3> QED
      BY <3>1, SMTT(20) DEF QueueInv, Queued
  <2> QED
    BY <1>4, <2>1, <2>2, Zenon DEF Io, ReadDone, CorWrite, WriteDone, IoError
<1>5. CASE bdrv_block_timer
  <2>1. UNCHANGED <<pc, waitq, tracked>>
    BY <1>5, Zenon DEF bdrv_block_timer, request
  <2>2. CASE throttled = <<>>
    BY <1>5, <2>1, <2>2, Zenon DEF bdrv_block_timer, QueueInv, Queued
  <2>3. CASE throttled # <<>>
    <3>1. throttled' = Tail(throttled) /\ unlock' = Append(unlock, Head(throttled))
      BY <1>5, <2>3, Zenon DEF bdrv_block_timer
    <3>2. /\ In(unlock', Head(throttled)) /\ \A x : In(unlock, x) => In(unlock', x)
          /\ \A x : In(throttled, x) => x = Head(throttled) \/ In(throttled', x)
      BY <2>3, <3>1, InTail, InAppend, Zenon
    <3> QED
      BY <2>1, <3>2, Zenon DEF QueueInv, Queued
  <2> QED
    BY <2>2, <2>3, Zenon
<1>6. CASE qmp_block_set_io_throttle
  <2>1. UNCHANGED <<pc, waitq, tracked>> /\ ~crash
    BY <1>6, Zenon DEF qmp_block_set_io_throttle, request, Free
  <2>2. CASE ~enabled /\ limits'
    <3>1. throttled' = throttled /\ unlock' = unlock
      BY <1>6, <2>1, <2>2, Zenon DEF qmp_block_set_io_throttle, bdrv_io_limits_enable, TimerInv
    <3> QED
      BY <2>1, <3>1, Zenon DEF QueueInv, Queued
  <2>3. CASE enabled /\ ~limits'
    BY <1>6, <2>1, <2>3, RestartQueued, Zenon DEF qmp_block_set_io_throttle, bdrv_io_limits_disable
  <2>4. CASE ~(~enabled /\ limits') /\ ~(enabled /\ ~limits')
    <3>1. throttled' = throttled /\ unlock' = unlock
      BY <1>6, <2>4, Zenon DEF qmp_block_set_io_throttle
    <3> QED
      BY <2>1, <3>1, Zenon DEF QueueInv, Queued
  <2> QED
    BY <2>2, <2>3, <2>4, Zenon
<1>7. CASE DrainRestart
  BY <1>7, RestartQueued, SMTT(20) DEF DrainRestart, request
<1>8. CASE DrainStep \/ UNCHANGED vars
  BY <1>8, DrainLeaves, Zenon DEF vars, request, queues, QueueInv, Queued
<1> QED
  BY <1>1, <1>2, <1>3, <1>4, <1>5, <1>6, <1>7, <1>8, SMTT(20) DEF Next, DrainStep

\* No request is lost: it is running, done, or in a queue that will be emptied.
THEOREM RequestsAreQueued == Spec => []QueueInv
<1>1. Init => QueueInv
  BY Zenon DEF Init, QueueInv, Queued
<1>2. Base /\ Base' /\ TimerInv /\ QueueInv /\ [Next]_vars => QueueInv'
  BY QueueStep, Zenon
<1> QED
  BY <1>1, <1>2, RequestsAreTracked, TimerInvariant, PTL DEF Spec

\* When the loop of bdrv_drain_all ends no request is throttled, waits or does I/O:
\* what its assertions say of the lists holds, and of the coroutines too.  Only a
\* poll that a signal interrupted ends it early (Interrupted).
THEOREM DrainCompletes == Spec => DrainIsComplete
<1>1. ASSUME Base, QueueInv, [Next]_vars, loop = Drain, loop' # Drain, ~Interrupted
      PROVE  tracked = {} /\ Quiet
  <2>1. ASSUME NEW r \in Req, Submit(r) \/ Resume(r) \/ Io(r) \/ bdrv_rw_co(r)
        PROVE  FALSE
    <3>1. loop # r /\ Drain # Main
      BY <1>1, Zenon DEF Drain, Main
    <3> QED
      BY <1>1, <2>1, <3>1, Zenon DEF Submit, Resume, bdrv_rw_co, Io, ReadDone, CorRead, CorWrite,
                              WriteData, WriteDone, IoError, End
  <2>2. DrainEnd
    BY <1>1, <2>1, Zenon DEF Next, Drain, Main, bdrv_block_timer, qmp_block_set_io_throttle,
                      DrainStart, do_vm_stop, vm_start, Drains, DrainRestart, vars
  <2>3. unlock = <<>> /\ throttled = <<>> /\ InFlight = {} /\ tracked = {}
    BY <1>1, <2>2, Zenon DEF DrainEnd, DrainAsserts, Base
  <2>4. ASSUME NEW r \in Req PROVE pc[r] \in {"idle", "done"}
    <3>1. Queued(r) /\ pc[r] \in Pcs
      BY <1>1, Zenon DEF QueueInv, Base, TypeOK
    <3>2. pc[r] \notin {"throttle", "overlap"}
      BY <2>3, <3>1, InEmpty, Zenon DEF Queued
    <3> QED
      BY <2>3, <3>1, <3>2, SMTT(20) DEF InFlight, Pcs
  <2> QED
    BY <2>3, <2>4, Zenon DEF Quiet
<1>2. Base /\ QueueInv /\ [Next]_vars =>
        [loop = Drain /\ loop' # Drain => Interrupted \/ (tracked = {} /\ Quiet)]_vars
  BY <1>1, Zenon
<1> QED
  BY <1>2, RequestsAreTracked, RequestsAreQueued, PTL DEF Spec, DrainIsComplete

-----------------------------------------------------------------------------
(* Each request that waits is in one queue, once: no request is lost. *)

\* How often a coroutine is in a queue is a number, and 0 in an empty one.
LEMMA CountNat ==
  ASSUME NEW S, NEW q \in Seq(S), NEW r
  PROVE  /\ IsFiniteSet({i \in DOMAIN q : q[i] = r}) /\ Count(q, r) \in Nat
         /\ Count(<<>>, r) = 0 /\ (Count(q, r) > 0 => q # <<>>)
<1>1. DOMAIN q = 1 .. Len(q) /\ Len(q) \in Nat
  BY LenProperties, Zenon
<1>2. IsFiniteSet(1 .. Len(q))
  <2>1. 1 \in Int /\ Len(q) \in Int
    BY <1>1
  <2> QED
    BY <2>1, FS_Interval, Zenon
<1>3. IsFiniteSet({i \in DOMAIN q : q[i] = r})
  BY <1>1, <1>2, FS_Subset, Zenon
<1>4. {i \in DOMAIN <<>> : <<>>[i] = r} = {}
  OBVIOUS
<1>5. Count(<<>>, r) = 0
  BY <1>4, FS_EmptySet, Zenon DEF Count
<1>6. Count(q, r) \in Nat
  BY <1>3, FS_CardinalityType, Zenon DEF Count
<1>7. ASSUME q = <<>> PROVE Count(q, r) = 0
  BY <1>5, <1>7, Zenon
<1> QED
  BY <1>3, <1>5, <1>6, <1>7

\* Appending to a queue.
LEMMA CountAppend ==
  ASSUME NEW S, NEW q \in Seq(S), NEW x \in S, NEW r
  PROVE  Count(Append(q, x), r) = Count(q, r) + (IF r = x THEN 1 ELSE 0)
<1> DEFINE A == {i \in DOMAIN q : q[i] = r}
           B == {i \in DOMAIN Append(q, x) : Append(q, x)[i] = r}
           n == Len(q) + 1
<1>1. /\ n \in Nat /\ DOMAIN q = 1 .. Len(q) /\ DOMAIN Append(q, x) = 1 .. n
      /\ \A i \in 1 .. Len(q) : Append(q, x)[i] = q[i]
      /\ Append(q, x)[n] = x
  BY AppendProperties, LenProperties
<1>2. B = IF r = x THEN A \cup {n} ELSE A
  BY <1>1
<1>3. n \notin A
  BY <1>1
<1>4. /\ Count(q, r) = Cardinality(A) /\ Count(Append(q, x), r) = Cardinality(B)
      /\ IsFiniteSet(A) /\ Cardinality(A) \in Nat
  <2>1. Count(q, r) = Cardinality(A) /\ Count(Append(q, x), r) = Cardinality(B)
    BY Zenon DEF Count
  <2> QED
    BY <2>1, CountNat, Zenon
<1> HIDE DEF A, B, n
<1>5. Cardinality(A \cup {n}) = Cardinality(A) + 1
  BY <1>3, <1>4, FS_AddElement, Zenon
<1> QED
  BY <1>2, <1>4, <1>5

\* Moving one queue to the end of another.
LEMMA CountConcat ==
  ASSUME NEW S, NEW p \in Seq(S), NEW q \in Seq(S), NEW r
  PROVE  Count(p \o q, r) = Count(p, r) + Count(q, r)
<1> DEFINE c == p \o q
           n == Len(p)
           A == {i \in DOMAIN p : p[i] = r}
           B == {i \in DOMAIN q : q[i] = r}
           D == {i \in DOMAIN c : c[i] = r}
           M == {i \in D : i > n}
           f == [i \in B |-> n + i]
<1>1. /\ n \in Nat /\ Len(q) \in Nat /\ DOMAIN p = 1 .. n /\ DOMAIN q = 1 .. Len(q)
      /\ DOMAIN c = 1 .. (n + Len(q))
      /\ \A i \in 1 .. n + Len(q) : c[i] = IF i <= n THEN p[i] ELSE q[i - n]
  <2>1. c \in Seq(S)
    BY ConcatProperties, Zenon
  <2> QED
    BY <2>1, ConcatProperties, LenProperties
<1>2. /\ IsFiniteSet(A) /\ Cardinality(A) = Count(p, r) /\ Cardinality(A) \in Nat
      /\ IsFiniteSet(B) /\ Cardinality(B) = Count(q, r) /\ Cardinality(B) \in Nat
      /\ Cardinality(D) = Count(c, r)
  <2>1. Cardinality(A) = Count(p, r) /\ Cardinality(B) = Count(q, r) /\ Cardinality(D) = Count(c, r)
    BY Zenon DEF Count
  <2> QED
    BY <2>1, CountNat, Zenon
<1>3. D = A \cup M
  BY <1>1
<1>4. A \cap M = {}
  BY <1>1
<1>5. f \in Bijection(B, M)
  <2>1. \A i \in B : n + i \in M
    BY <1>1
  <2>2. f \in [B -> M]
    BY <2>1, Zenon
  <2>3. \A i, j \in B : f[i] = f[j] => i = j
    BY <1>1
  <2>4. \A m \in M : m - n \in B /\ f[m - n] = m
    BY <1>1
  <2> HIDE DEF f, B, M
  <2>5. f \in Injection(B, M)
    BY <2>2, <2>3, Zenon DEF Injection, IsInjective
  <2>6. f \in Surjection(B, M)
    BY <2>2, <2>4, Zenon DEF Surjection
  <2> QED
    BY <2>5, <2>6, Zenon DEF Bijection
<1> HIDE DEF A, B, D, M, f, n, c
<1>6. IsFiniteSet(M) /\ Cardinality(M) = Cardinality(B)
  <2>1. ExistsBijection(B, M)
    BY <1>5, Zenon DEF ExistsBijection
  <2> QED
    BY <1>2, <2>1, FS_Bijection, Zenon
<1>7. Cardinality(D) = Cardinality(A) + Cardinality(M)
  <2>1. Cardinality(A \cup M) = Cardinality(A) + Cardinality(M) - Cardinality(A \cap M)
    BY <1>2, <1>6, FS_Union, Zenon
  <2>2. Cardinality(A \cap M) = 0
    BY <1>4, FS_EmptySet, Zenon
  <2> QED
    BY <1>2, <1>3, <1>6, <2>1, <2>2
<1> QED
  BY <1>2, <1>6, <1>7, Zenon DEF c

\* One coroutine.
LEMMA CountOne ==
  ASSUME NEW x, NEW r
  PROVE  Count(<<x>>, r) = IF r = x THEN 1 ELSE 0
<1>1. {i \in DOMAIN <<x>> : <<x>>[i] = r} = IF r = x THEN {1} ELSE {}
  OBVIOUS
<1> QED
  BY <1>1, FS_Singleton, FS_EmptySet, Zenon DEF Count

\* Taking the first of a queue.
LEMMA CountTail ==
  ASSUME NEW S, NEW q \in Seq(S), q # <<>>, NEW r
  PROVE  Count(q, r) = Count(Tail(q), r) + (IF r = Head(q) THEN 1 ELSE 0)
<1>1. Head(q) \in S /\ Tail(q) \in Seq(S) /\ <<Head(q)>> \in Seq(S)
  BY HeadTailProperties
<1>2. Count(<<Head(q)>> \o Tail(q), r) = Count(<<Head(q)>>, r) + Count(Tail(q), r)
  BY <1>1, CountConcat, Zenon
<1>3. Count(q, r) = Count(<<Head(q)>>, r) + Count(Tail(q), r)
  <2>1. q = <<Head(q)>> \o Tail(q)
    OBVIOUS
  <2> DEFINE t == <<Head(q)>> \o Tail(q)
  <2>2. q = t
    BY <2>1
  <2> HIDE DEF t
  <2>3. Count(q, r) = Count(t, r)
    BY <2>2
  <2> QED
    BY <1>2, <2>3 DEF t
<1>4. Count(<<Head(q)>>, r) = IF r = Head(q) THEN 1 ELSE 0
  BY CountOne, Zenon
<1>5. Count(Tail(q), r) \in Nat
  BY <1>1, CountNat, Zenon
<1> QED
  BY <1>3, <1>4, <1>5

\* The requests in whose wait_queue a request is.
Waiting(r) == {q \in Req : Count(waitq[q], r) > 0}

\* A request that has yielded to a queue is in one queue, once.
Once(r) ==
  /\ Count(throttled, r) + Count(unlock, r) + Cardinality(Waiting(r))
       = IF pc[r] \in {"throttle", "overlap"} THEN 1 ELSE 0
  /\ waitq[r] # <<>> => r \in tracked
  /\ \A q \in Req : Count(waitq[q], r) <= 1
OnceInv == \A r \in Req : Once(r)

\* The numbers that Once adds up.
LEMMA OnceNumbers ==
  ASSUME TypeOK, NEW r
  PROVE  /\ Count(throttled, r) \in Nat /\ Count(unlock, r) \in Nat
         /\ \A q \in Req : Count(waitq[q], r) \in Nat
         /\ IsFiniteSet(Waiting(r)) /\ Cardinality(Waiting(r)) \in Nat
         /\ Cardinality(Waiting(r)) = 0 <=> Waiting(r) = {}
<1>1. IsFiniteSet(Waiting(r))
  BY FS_Subset, Zenon DEF Waiting
<1>2. \A q \in Req : Count(waitq[q], r) \in Nat
  BY CountNat, Zenon DEF TypeOK
<1>3. Count(throttled, r) \in Nat /\ Count(unlock, r) \in Nat
  BY CountNat, Zenon DEF TypeOK
<1> QED
  BY <1>1, <1>2, <1>3, FS_CardinalityType, FS_EmptySet, Zenon

\* r is in no queue but unlock, and u is what unlock holds besides it.
Out(r, u) ==
  /\ u \in Seq(Req)
  /\ Count(throttled, r) = 0 /\ Count(u, r) = 0 /\ Waiting(r) = {}
  /\ \A x \in Req \ {r} : Count(u, x) = Count(unlock, x)

\* A request that has not been submitted, and one that is taken from the queue.
LEMMA IdleOut ==
  ASSUME TypeOK, OnceInv, NEW r \in Req, pc[r] = "idle"
  PROVE  Out(r, unlock)
<1>1. Count(throttled, r) + Count(unlock, r) + Cardinality(Waiting(r)) = 0
  BY Zenon DEF OnceInv, Once
<1>2. unlock \in Seq(Req)
  BY Zenon DEF TypeOK
<1> QED
  BY <1>1, <1>2, OnceNumbers DEF Out

\* The coroutine that is resumed is in no queue once it has left its queue.
LEMMA ResumeOut ==
  ASSUME TypeOK, OnceInv, NEW r \in Req, unlock # <<>>, r = Head(unlock)
  PROVE  Out(r, Tail(unlock))
<1>1. unlock \in Seq(Req) /\ Tail(unlock) \in Seq(Req)
  BY HeadTailProperties, Zenon DEF TypeOK
<1>2. \A x : Count(unlock, x) = Count(Tail(unlock), x) + (IF x = r THEN 1 ELSE 0)
  BY <1>1, CountTail, Zenon
<1>3. \A x : Count(Tail(unlock), x) \in Nat
  BY <1>1, CountNat, Zenon
<1>4. Count(throttled, r) + Count(unlock, r) + Cardinality(Waiting(r)) <= 1
  BY OnceNumbers DEF OnceInv, Once
<1> QED
  BY <1>1, <1>2, <1>3, <1>4, OnceNumbers DEF Out

\* A request whose place in the queues of the throttle and the bottom half is the
\* same, or that went from one to the other.
LEMMA OnceKept ==
  ASSUME TypeOK, NEW x \in Req, Once(x), UNCHANGED waitq, tracked \subseteq tracked',
         Count(throttled', x) + Count(unlock', x) = Count(throttled, x) + Count(unlock, x),
         pc[x] \in {"throttle", "overlap"} <=> pc'[x] \in {"throttle", "overlap"}
  PROVE  Once(x)'
<1>1. Waiting(x)' = Waiting(x)
  BY Zenon DEF Waiting
<1> QED
  BY <1>1, OnceNumbers, Zenon DEF Once

\* A request that waits or starts; the others may be woken.
LEMMA WaitOnce ==
  ASSUME Base, OnceInv, NEW r \in Req, NEW u \in Seq(Req), cor' \in Nat,
         wait_for_overlapping_requests(r, u),
         Count(throttled', r) = 0, Count(u, r) = 0, Waiting(r) = {},
         \A x \in Req \ {r} : Count(throttled', x) + Count(u, x)
                                = Count(throttled, x) + Count(unlock, x)
  PROVE  OnceInv'
<1> /\ pc \in [Req -> Pcs] /\ tracked \subseteq Req /\ waitq \in [Req -> Seq(Req)]
    /\ unlock' = u /\ TypeOK
  BY WaitOrStart, Zenon DEF Base, TypeOK
<1>1. CASE Start(r)
  <2>1. waitq' = waitq /\ tracked \subseteq tracked' /\ pc' = [pc EXCEPT ![r] = "io"]
    BY <1>1, Zenon DEF Start
  <2>2. ASSUME NEW x \in Req \ {r} PROVE Once(x)'
    BY <2>1, OnceKept, Zenon DEF OnceInv
  <2>3. Once(r)'
    <3>1. Waiting(r)' = {} /\ Cardinality({}) = 0
      BY <2>1, FS_EmptySet, Zenon DEF Waiting
    <3> QED
      BY <2>1, <3>1 DEF Once, OnceInv
  <2> QED
    BY <2>2, <2>3, Zenon DEF OnceInv
<1>2. ASSUME NEW q \in tracked, Wait(r, q) PROVE OnceInv'
  <2>1. /\ waitq' = [waitq EXCEPT ![q] = Append(@, r)] /\ tracked' = tracked
        /\ pc' = [pc EXCEPT ![r] = "overlap"] /\ q \in Req
    BY <1>2, Zenon DEF Wait
  <2>2. \A x : Count(waitq'[q], x) = Count(waitq[q], x) + (IF x = r THEN 1 ELSE 0)
    BY <2>1, CountAppend
  <2>3. \A p \in Req : p # q => waitq'[p] = waitq[p]
    BY <2>1, Zenon
  <2>4. \A p \in Req : waitq'[p] # <<>> => p \in tracked'
    BY <2>1, <2>3, Zenon DEF OnceInv, Once
  <2>5. ASSUME NEW x \in Req \ {r} PROVE Once(x)'
    <3>1. \A p \in Req : Count(waitq'[p], x) = Count(waitq[p], x)
      <4>1. \A p \in Req : Count(waitq[p], x) \in Nat
        BY OnceNumbers, Zenon
      <4>2. Count(waitq'[q], x) = Count(waitq[q], x)
        BY <2>1, <2>2, <4>1
      <4> QED
        BY <2>3, <4>2, Zenon
    <3>2. Waiting(x)' = Waiting(x)
      BY <3>1, Zenon DEF Waiting
    <3>3. pc'[x] = pc[x] /\ Once(x)
      BY <2>1, Zenon DEF OnceInv
    <3>4. Count(throttled', x) + Count(unlock', x) = Count(throttled, x) + Count(unlock, x)
      BY Zenon
    <3> QED
      BY <2>4, <3>1, <3>2, <3>3, <3>4, OnceNumbers, Zenon DEF Once
  <2>6. Once(r)'
    <3>1. \A p \in Req : Count(waitq[p], r) = 0
      <4>1. \A p \in Req : Count(waitq[p], r) \in Nat
        BY OnceNumbers, Zenon
      <4> QED
        BY <4>1 DEF Waiting
    <3>2. \A p \in Req : Count(waitq'[p], r) = IF p = q THEN 1 ELSE 0
      BY <2>1, <2>2, <2>3, <3>1
    <3>3. Waiting(r)' = {q}
      BY <2>1, <3>2 DEF Waiting
    <3>4. Cardinality(Waiting(r)') = 1
      BY <3>3, FS_Singleton, Zenon
    <3> QED
      BY <2>1, <2>4, <3>2, <3>4 DEF Once
  <2> QED
    BY <2>5, <2>6, Zenon DEF OnceInv
<1> QED
  BY <1>1, <1>2, WaitOrStart, SMTT(20)

\* A request that passes the throttle wakes the next one.
LEMMA PassesOnce ==
  ASSUME Base, OnceInv, NEW r \in Req, NEW u, cor' \in Nat, Passes(r, u), Out(r, u)
  PROVE  OnceInv'
<1> throttled \in Seq(Req) /\ u \in Seq(Req) /\ TypeOK
  BY Zenon DEF Base, TypeOK, Out
<1>1. CASE throttled = <<>>
  <2>1. wait_for_overlapping_requests(r, u) /\ throttled' = throttled
    BY <1>1, Zenon DEF Passes, Proceed
  <2> QED
    BY <2>1, WaitOnce, Zenon DEF Out
<1>2. CASE throttled # <<>>
  <2> DEFINE h == Head(throttled)
             v == Append(u, h)
  <2>1. wait_for_overlapping_requests(r, v) /\ throttled' = Tail(throttled)
    BY <1>2, Zenon DEF Passes, Proceed
  <2>2. h \in Req /\ v \in Seq(Req) /\ throttled' \in Seq(Req)
    BY <1>2, <2>1, InTail, InAppend, Zenon
  <2>3. \A x : /\ Count(throttled, x) = Count(throttled', x) + (IF x = h THEN 1 ELSE 0)
               /\ Count(v, x) = Count(u, x) + (IF x = h THEN 1 ELSE 0)
    BY <1>2, <2>1, <2>2, CountTail, CountAppend
  <2>4. \A x : Count(throttled', x) \in Nat /\ Count(u, x) \in Nat
    BY <2>2, CountNat, Zenon
  <2> HIDE DEF v, h
  <2>5. Count(throttled', r) = 0 /\ Count(v, r) = 0 /\ Waiting(r) = {}
    BY <2>3, <2>4 DEF Out
  <2>6. ASSUME NEW x \in Req \ {r}
        PROVE  Count(throttled', x) + Count(v, x) = Count(throttled, x) + Count(unlock, x)
    BY <2>3, <2>4 DEF Out
  <2> QED
    BY <2>1, <2>2, <2>5, <2>6, WaitOnce, Zenon
<1> QED
  BY <1>1, <1>2, Zenon

\* A request that is put into the queue of the throttle.
LEMMA ThrottleOnce ==
  ASSUME Base, OnceInv, NEW r \in Req, NEW u, Out(r, u), unlock' = u,
         UNCHANGED <<waitq, tracked>>, pc' = [pc EXCEPT ![r] = "throttle"],
         \A x : Count(throttled', x) = Count(throttled, x) + (IF x = r THEN 1 ELSE 0)
  PROVE  OnceInv'
<1> TypeOK /\ pc \in [Req -> Pcs]
  BY Zenon DEF Base, TypeOK
<1>1. ASSUME NEW x \in Req \ {r} PROVE Once(x)'
  <2>1. Count(throttled', x) = Count(throttled, x) /\ Count(unlock', x) = Count(unlock, x)
    BY OnceNumbers DEF Out
  <2> QED
    BY <2>1, OnceKept, Zenon DEF OnceInv
<1>2. Once(r)'
  <2>1. Waiting(r)' = {} /\ Cardinality({}) = 0
    BY FS_EmptySet, Zenon DEF Waiting, Out
  <2>2. Count(throttled', r) = 1 /\ Count(unlock', r) = 0
    BY DEF Out
  <2> QED
    BY <2>1, <2>2 DEF Once, OnceInv
<1> QED
  BY <1>1, <1>2, Zenon DEF OnceInv

\* It is put at the head of the queue when it exceeds the limits.
LEMMA ExceedsOnce ==
  ASSUME Base, OnceInv, NEW r \in Req, NEW u, Exceeds(r, u), Out(r, u)
  PROVE  OnceInv'
<1>1. throttled \in Seq(Req) /\ <<r>> \in Seq(Req)
  BY DEF Base, TypeOK
<1>2. /\ throttled' = <<r>> \o throttled /\ unlock' = u /\ UNCHANGED <<waitq, tracked>>
      /\ pc' = [pc EXCEPT ![r] = "throttle"]
  BY Zenon DEF Exceeds
<1>3. ASSUME NEW x PROVE Count(throttled', x) = Count(throttled, x) + (IF x = r THEN 1 ELSE 0)
  <2> DEFINE one == <<r>>
  <2>1. Count(one, x) = IF x = r THEN 1 ELSE 0
    BY CountOne, Zenon
  <2>2. one \in Seq(Req) /\ throttled' = one \o throttled
    BY <1>1, <1>2, Zenon
  <2> HIDE DEF one
  <2>3. Count(throttled', x) = Count(one, x) + Count(throttled, x)
    BY <1>1, <2>2, CountConcat
  <2>4. Count(throttled, x) \in Nat
    BY <1>1, CountNat, Zenon
  <2> QED
    BY <2>1, <2>3, <2>4
<1> QED
  BY <1>2, <1>3, ThrottleOnce, Zenon

\* A request that ends moves those that wait for it to the bottom half's queue.
LEMMA EndOnce ==
  ASSUME Base, OnceInv, NEW r \in Req, pc[r] \in {"io", "cow", "flush"}, End(r)
  PROVE  OnceInv'
<1> /\ unlock \in Seq(Req) /\ waitq \in [Req -> Seq(Req)] /\ pc \in [Req -> Pcs] /\ TypeOK
  BY Zenon DEF Base, TypeOK
<1>1. /\ tracked' = tracked \ {r} /\ unlock' = unlock \o waitq[r]
      /\ waitq' = [waitq EXCEPT ![r] = <<>>] /\ pc' = [pc EXCEPT ![r] = "done"]
      /\ throttled' = throttled
  BY Zenon DEF End, tracked_request_end
<1>2. ASSUME NEW x \in Req PROVE Once(x)'
  <2> DEFINE k == Count(waitq[r], x)
  <2>1. Once(x) /\ k \in 0 .. 1
    <3>1. Once(x) /\ k \in Nat
      BY OnceNumbers, Zenon DEF OnceInv
    <3> QED
      BY <3>1 DEF Once
  <2>2. Count(unlock', x) = Count(unlock, x) + k
    BY <1>1, CountConcat
  <2>3. \A p \in Req : waitq'[p] = IF p = r THEN <<>> ELSE waitq[p]
    BY <1>1, Zenon
  <2>4. Count(<<>>, x) = 0
    BY CountNat, Zenon
  <2>5. Waiting(x)' = Waiting(x) \ {r}
    BY <2>3, <2>4 DEF Waiting
  <2>6. r \in Waiting(x) <=> k = 1
    BY <2>1 DEF Waiting
  <2> HIDE DEF k
  <2>7. Cardinality(Waiting(x)') = Cardinality(Waiting(x)) - k
    <3>1. IsFiniteSet(Waiting(x)) /\ Cardinality(Waiting(x)) \in Nat
      BY OnceNumbers, Zenon
    <3>2. Cardinality(Waiting(x) \ {r}) =
            IF r \in Waiting(x) THEN Cardinality(Waiting(x)) - 1 ELSE Cardinality(Waiting(x))
      BY <3>1, FS_RemoveElement, Zenon
    <3> QED
      BY <2>1, <2>5, <2>6, <3>1, <3>2
  <2>8. Count(throttled', x) + Count(unlock', x) + Cardinality(Waiting(x)')
          = Count(throttled, x) + Count(unlock, x) + Cardinality(Waiting(x))
    BY <1>1, <2>1, <2>2, <2>7, OnceNumbers
  <2>9. pc[x] \in {"throttle", "overlap"} <=> pc'[x] \in {"throttle", "overlap"}
    BY <1>1, Zenon
  <2>10. \A p \in Req : Count(waitq'[p], x) <= 1
    <3> SUFFICES ASSUME NEW p \in Req PROVE Count(waitq'[p], x) <= 1
      BY Zenon
    <3>1. Count(waitq'[p], x) = 0 \/ Count(waitq'[p], x) = Count(waitq[p], x)
      BY <2>3, <2>4, Zenon
    <3>2. Count(waitq[p], x) <= 1
      BY <2>1, Zenon DEF Once
    <3> QED
      BY <3>1, <3>2
  <2>11. waitq'[x] # <<>> => x \in tracked'
    BY <1>1, <2>1, <2>3, Zenon DEF Once
  <2> QED
    BY <2>1, <2>8, <2>9, <2>10, <2>11, Zenon DEF Once
<1> QED
  BY <1>2, Zenon DEF OnceInv

\* All that is throttled moves to the bottom half's queue.
LEMMA RestartOnce ==
  ASSUME Base, OnceInv, unlock' = unlock \o throttled, throttled' = <<>>,
         UNCHANGED <<pc, waitq, tracked>>
  PROVE  OnceInv'
<1>1. TypeOK /\ throttled \in Seq(Req) /\ unlock \in Seq(Req)
  BY Zenon DEF Base, TypeOK
<1>2. ASSUME NEW x \in Req PROVE Once(x)'
  <2>1. Count(unlock \o throttled, x) = Count(unlock, x) + Count(throttled, x)
    BY <1>1, CountConcat
  <2>2. Count(throttled', x) = 0
    BY <1>1, CountNat, Zenon
  <2> QED
    BY <1>1, <2>1, <2>2, OnceKept, OnceNumbers DEF OnceInv
<1> QED
  BY <1>2, Zenon DEF OnceInv

\* The first of those that are throttled moves to the bottom half's queue.
LEMMA TimerOnce ==
  ASSUME Base, OnceInv, throttled # <<>>, throttled' = Tail(throttled),
         unlock' = Append(unlock, Head(throttled)), UNCHANGED <<pc, waitq, tracked>>
  PROVE  OnceInv'
<1>1. /\ TypeOK /\ throttled \in Seq(Req) /\ unlock \in Seq(Req)
      /\ Head(throttled) \in Req /\ throttled' \in Seq(Req)
  BY InTail, Zenon DEF Base, TypeOK
<1>2. ASSUME NEW x \in Req PROVE Once(x)'
  <2> DEFINE k == IF x = Head(throttled) THEN 1 ELSE 0
  <2>1. Count(throttled, x) = Count(throttled', x) + k
    BY <1>1, CountTail, Zenon
  <2>2. Count(unlock', x) = Count(unlock, x) + k
    BY <1>1, CountAppend
  <2>3. Count(throttled', x) \in Nat /\ Count(unlock, x) \in Nat /\ k \in Nat
    BY <1>1, CountNat, Zenon
  <2> HIDE DEF k
  <2>4. Count(throttled', x) + Count(unlock', x) = Count(throttled, x) + Count(unlock, x)
    BY <2>1, <2>2, <2>3
  <2> QED
    BY <1>1, <2>4, OnceKept, Zenon DEF OnceInv
<1> QED
  BY <1>2, Zenon DEF OnceInv

\* A step that moves no request between the queues.
LEMMA OnceSame ==
  ASSUME Base, OnceInv, UNCHANGED <<throttled, unlock, waitq, tracked>>,
         \A x \in Req : pc[x] \in {"throttle", "overlap"} <=> pc'[x] \in {"throttle", "overlap"}
  PROVE  OnceInv'
BY OnceKept, Zenon DEF OnceInv, Base

\* Every step keeps requests in one queue.
LEMMA OnceStep ==
  ASSUME Base, Base', TimerInv, OnceInv, [Next]_vars
  PROVE  OnceInv'
<1> /\ unlock \in Seq(Req) /\ throttled \in Seq(Req) /\ pc \in [Req -> Pcs]
    /\ cor' \in Nat /\ TypeOK
  BY Zenon DEF Base, TypeOK
<1>1. ASSUME NEW r \in Req, Submit(r) PROVE OnceInv'
  <2>1. Out(r, unlock)
    BY <1>1, IdleOut, Zenon DEF Submit
  <2>2. CASE ~enabled
    <3>1. wait_for_overlapping_requests(r, unlock) /\ throttled' = throttled
      BY <1>1, <2>2, Zenon DEF Submit, Proceed
    <3> QED
      BY <2>1, <3>1, WaitOnce, Zenon DEF Out
  <2>3. CASE enabled /\ throttled # <<>>
    <3>1. /\ throttled' = Append(throttled, r) /\ pc' = [pc EXCEPT ![r] = "throttle"]
          /\ UNCHANGED <<unlock, waitq, tracked>>
      BY <1>1, <2>3, Zenon DEF Submit, bdrv_io_limits_intercept
    <3>2. \A x : Count(throttled', x) = Count(throttled, x) + (IF x = r THEN 1 ELSE 0)
      BY <3>1, CountAppend
    <3> QED
      BY <2>1, <3>1, <3>2, ThrottleOnce, Zenon
  <2>4. CASE enabled /\ throttled = <<>>
    <3>1. Exceeds(r, unlock) \/ Passes(r, unlock)
      BY <1>1, <2>4, Zenon DEF Submit, bdrv_io_limits_intercept
    <3> QED
      BY <2>1, <3>1, ExceedsOnce, PassesOnce, Zenon
  <2> QED
    BY <2>2, <2>3, <2>4, Zenon
<1>2. ASSUME NEW r \in Req, Resume(r) PROVE OnceInv'
  <2>1. Out(r, Tail(unlock))
    BY <1>2, ResumeOut, Zenon DEF Resume
  <2>2. CASE Exceeds(r, Tail(unlock)) \/ Passes(r, Tail(unlock))
    BY <2>1, <2>2, ExceedsOnce, PassesOnce, Zenon
  <2>3. CASE wait_for_overlapping_requests(r, Tail(unlock)) /\ throttled' = throttled
    BY <2>1, <2>3, WaitOnce, Zenon DEF Out
  <2> QED
    BY <1>2, <2>2, <2>3, Zenon DEF Resume
<1>3. ASSUME NEW r \in Req, bdrv_rw_co(r) PROVE OnceInv'
  <2>1. Out(r, unlock)
    BY <1>3, IdleOut, Zenon DEF bdrv_rw_co
  <2>2. CASE enabled
    <3> DEFINE u == unlock \o throttled
    <3>1. wait_for_overlapping_requests(r, u) /\ throttled' = <<>>
      BY <1>3, <2>2, Zenon DEF bdrv_rw_co, Proceed
    <3>2. u \in Seq(Req)
      BY InConcat, Zenon
    <3>3. \A x : Count(u, x) = Count(unlock, x) + Count(throttled, x)
      BY CountConcat
    <3>4. \A x : Count(throttled', x) = 0
      BY <3>1, CountNat, Zenon
    <3> HIDE DEF u
    <3>5. ASSUME NEW x \in Req
          PROVE  Count(throttled', x) + Count(u, x) = Count(throttled, x) + Count(unlock, x)
      BY <3>3, <3>4, OnceNumbers
    <3>6. Count(throttled', r) = 0 /\ Count(u, r) = 0 /\ Waiting(r) = {}
      BY <2>1, <3>3, <3>4 DEF Out
    <3> QED
      BY <3>1, <3>2, <3>5, <3>6, WaitOnce, Zenon
  <2>3. CASE ~enabled
    <3>1. wait_for_overlapping_requests(r, unlock) /\ throttled' = throttled
      BY <1>3, <2>3, SMTT(20) DEF bdrv_rw_co, Proceed
    <3> QED
      BY <2>1, <3>1, WaitOnce, Zenon DEF Out
  <2> QED
    BY <2>2, <2>3, Zenon
<1>4. ASSUME NEW r \in Req, Io(r) PROVE OnceInv'
  <2>1. pc[r] \in {"io", "cow", "flush"}
    BY <1>4, Zenon DEF Io, ReadDone, CorRead, CorWrite, WriteData, WriteDone, IoError
  <2>2. CASE End(r)
    BY <2>1, <2>2, EndOnce, Zenon
  <2>3. CASE CorRead(r) \/ WriteData(r)
    <3>1. /\ UNCHANGED <<throttled, unlock, waitq, tracked>>
          /\ \E p \in {"cow", "flush"} : pc' = [pc EXCEPT ![r] = p]
      BY <2>3, Zenon DEF CorRead, WriteData, queues
    <3> QED
      BY <2>1, <3>1, OnceSame, Zenon
  <2> QED
    BY <1>4, <2>2, <2>3, Zenon DEF Io, ReadDone, CorWrite, WriteDone, IoError
<1>5. CASE bdrv_block_timer
  <2>1. UNCHANGED <<pc, waitq, tracked>>
    BY <1>5, Zenon DEF bdrv_block_timer, request
  <2>2. CASE throttled = <<>>
    BY <1>5, <2>1, <2>2, OnceSame, Zenon DEF bdrv_block_timer
  <2>3. CASE throttled # <<>>
    BY <1>5, <2>1, <2>3, TimerOnce, Zenon DEF bdrv_block_timer
  <2> QED
    BY <2>2, <2>3, Zenon
<1>6. CASE qmp_block_set_io_throttle
  <2>1. UNCHANGED <<pc, waitq, tracked>> /\ ~crash
    BY <1>6, Zenon DEF qmp_block_set_io_throttle, request, Free
  <2>2. CASE enabled /\ ~limits'
    BY <1>6, <2>1, <2>2, RestartOnce, Zenon DEF qmp_block_set_io_throttle, bdrv_io_limits_disable
  <2>3. CASE ~(enabled /\ ~limits')
    <3>1. throttled' = throttled /\ unlock' = unlock
      BY <1>6, <2>1, <2>3, Zenon DEF qmp_block_set_io_throttle, bdrv_io_limits_enable, TimerInv
    <3> QED
      BY <2>1, <3>1, OnceSame, Zenon
  <2> QED
    BY <2>2, <2>3, Zenon
<1>7. CASE DrainRestart
  BY <1>7, RestartOnce, SMTT(20) DEF DrainRestart, request
<1>8. CASE DrainStep \/ UNCHANGED vars
  BY <1>8, DrainLeaves, OnceSame, Zenon DEF vars, request, queues
<1> QED
  BY <1>1, <1>2, <1>3, <1>4, <1>5, <1>6, <1>7, <1>8, SMTT(20) DEF Next, DrainStep

\* No request is lost or queued twice: one that has yielded is in exactly one of
\* the throttle queue, the queue of the bottom half and the wait queues of the
\* requests in progress (CoQueue in block.c and qemu-coroutine-lock.c).
THEOREM RequestsAreNotLost == Spec => []NoneLost
<1>1. Init => OnceInv
  <2> SUFFICES ASSUME Init, NEW r \in Req PROVE Once(r)
    BY Zenon DEF OnceInv
  <2>1. \A x : Count(<<>>, x) = 0
    BY CountNat, EmptySeq, Zenon
  <2>2. Waiting(r) = {} /\ Cardinality({}) = 0
    BY <2>1, FS_EmptySet DEF Init, Waiting
  <2> QED
    BY <2>1, <2>2 DEF Init, Once
<1>2. Base /\ Base' /\ TimerInv /\ OnceInv /\ [Next]_vars => OnceInv'
  BY OnceStep, Zenon
<1>3. OnceInv => NoneLost
  BY Zenon DEF OnceInv, Once, Waiting, NoneLost
<1> QED
  BY <1>1, <1>2, <1>3, RequestsAreTracked, TimerInvariant, PTL DEF Spec
=============================================================================
