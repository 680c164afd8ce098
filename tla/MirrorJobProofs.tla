-------------------------- MODULE MirrorJobProofs --------------------------
(***************************************************************************)
(* drive-mirror forgets no change of the source and hands over a complete  *)
(* copy, for devices of any size and any number of guest writes.           *)
(*                                                                         *)
(* The job's steps end in one of two ways: mirror_run stays in its loop    *)
(* with a given bitmap (Stays), or leaves it (Leaves).  The first lemmas   *)
(* say which of the two the pieces of mirror_run do; the others say what   *)
(* either means for the invariant.                                         *)
(***************************************************************************)
EXTENDS MirrorJob, FiniteSetTheorems, TLAPS

\* A set of natural numbers has a least element.
LEMMA NatMin ==
  ASSUME NEW T \in SUBSET Nat, T # {}
  PROVE  \E m \in T : \A n \in T : m <= n
<1> DEFINE F == {0 .. n : n \in T}
           R == StrictSubsetOrdering(Nat)
<1>1. F \subseteq FiniteSubsetsOf(Nat) /\ F # {}
  <2>1. ASSUME NEW n \in T PROVE 0 .. n \in SUBSET Nat /\ IsFiniteSet(0 .. n)
    BY FS_Interval
  <2> QED
    BY <2>1, Zenon DEF FiniteSubsetsOf
<1>2. IsWellFoundedOn(R, FiniteSubsetsOf(Nat))
  BY FS_StrictSubsetOrderingWellFounded, Zenon
<1>3. PICK x \in F : \A y \in F : ~(<<y, x>> \in R)
  <2> HIDE DEF F, R
  <2> QED
    BY <1>1, <1>2, WFMin, Zenon
<1>4. PICK m \in T : x = 0 .. m
  BY Zenon
<1>5. ASSUME NEW n \in T, ~(m <= n)
      PROVE  FALSE
  <2>1. 0 .. n \subseteq 0 .. m /\ m \in 0 .. m /\ m \notin 0 .. n
    BY <1>5
  <2>2. 0 .. n \in SUBSET Nat /\ 0 .. m \in SUBSET Nat /\ 0 .. n # 0 .. m
    BY <2>1
  <2>3. <<0 .. n, 0 .. m>> \in R
    BY <2>1, <2>2, Zenon DEF StrictSubsetOrdering
  <2> QED
    BY <1>3, <1>4, <2>3, Zenon
<1> QED
  BY <1>5, Zenon

Loop == {"populate", "read", "write", "flush", "drain", "sleep", "paused"}

\* Where mirror_run can be when a variable has a given value.
Control ==
  /\ tracking <=> pc \in Loop
  /\ pc \in {"populate", "read", "write"} => sector_num \in Chunk
  /\ buf # "empty" => pc \in {"read", "write"}
  /\ pc = "write" => buf # "empty"
  /\ ~busy <=> pc \in {"sleep", "paused"}

\* A guest write that overtook the read has set the dirty bit or will.
Overtaken == buf = "outdated" => sector_num \in dirty \cup Landed

\* Under the policy "report" a job that was asked to complete stays ready.
Ready == Reports /\ tracking /\ should_complete => synced

Inv == TypeOK /\ Control /\ NoChangeForgotten /\ Overtaken /\ Ready

-----------------------------------------------------------------------------
(* Pieces of mirror_run *)

\* bdrv_get_next_dirty returns a dirty chunk if there is one.
LEMMA NextDirty ==
  ASSUME NEW bits, bits \subseteq Chunk, bits # {}, NEW c
  PROVE  next_dirty(c, bits) \in bits
<1>1. bits \subseteq Nat
  BY ConstantsAssumption DEF Chunk
<1>2. CASE \E d \in bits : d > c
  <2> DEFINE above == {d \in bits : d > c}
  <2>1. above \subseteq Nat /\ above # {}
    BY <1>1, <1>2, Zenon
  <2>2. \E d \in above : \A e \in above : d <= e
    BY ONLY <2>1, NatMin, Zenon
  <2>3. \E d \in bits : d > c /\ \A e \in bits : e > c => d <= e
    BY <2>2, Zenon
  <2> QED
    BY <1>2, <2>3, Zenon DEF next_dirty
<1>3. CASE ~\E d \in bits : d > c
  <2>1. \E d \in bits : \A e \in bits : d <= e
    BY ONLY <1>1, bits # {}, NatMin, Zenon
  <2> QED
    BY <1>3, <2>1, Zenon DEF next_dirty
<1> QED
  BY <1>2, <1>3, Zenon

\* mirror_run is in its loop, and every chunk of bits is dirty or being copied.
Stays(bits) ==
  /\ tracking' = tracking /\ dirty' \subseteq bits
  /\ pc' \in {"read", "flush", "sleep", "paused"} /\ buf' = "empty"
  /\ busy' \in BOOLEAN /\ (~busy' <=> pc' \in {"sleep", "paused"})
  /\ sector_num' \in Chunk \cup {-1} /\ (pc' = "read" => sector_num' \in Chunk)
  /\ \A b \in bits : b \in dirty' \/ (pc' = "read" /\ sector_num' = b)
  /\ UNCHANGED exitVars

\* mirror_run has freed the bitmap and goes on to bdrv_swap or to bdrv_close.
Leaves ==
  /\ tracking' = FALSE /\ dirty' = {} /\ pc' \in {"reopen", "close"}
  /\ buf' = "empty" /\ busy' = TRUE /\ UNCHANGED <<sector_num, event>>
  /\ exit' \in {"insync", "cancelled", "error"} /\ pivoted' \in BOOLEAN
  /\ pivoted' => should_complete /\ exit' # "error"

\* The top of the loop stays in it.
LEMMA LoopTop ==
  ASSUME NEW bits, bits \subseteq Chunk, NEW c \in Chunk \cup {-1}, loop_top(c, bits)
  PROVE  Stays(bits)
<1>1. CASE bits # {}
  <2>1. next_dirty(c, bits) \in bits
    BY <1>1, NextDirty, Zenon
  <2> QED
    BY <1>1, <2>1, Zenon DEF loop_top, iteration_begin, Stays
<1>2. CASE bits = {}
  BY <1>2, Zenon DEF loop_top, Stays
<1> QED
  BY <1>1, <1>2, Zenon

\* immediate_exit leaves it.
LEMMA ImmediateExit ==
  ASSUME NEW why \in {"insync", "cancelled", "error"}, NEW ok \in BOOLEAN,
         immediate_exit(why, ok), ok <=> why # "error"
  PROVE  Leaves /\ exit' = why
<1>1. pivoted' \in BOOLEAN
  BY Zenon DEF immediate_exit
<1>2. pivoted' => should_complete /\ ok
  BY Zenon DEF immediate_exit
<1>3. pc' \in {"reopen", "close"}
  BY Zenon DEF immediate_exit
<1> QED
  BY <1>1, <1>2, <1>3, Zenon DEF immediate_exit, Leaves

\* After a sleep the job goes on, or leaves if it was cancelled and is not ready.
LEMMA AfterSleep ==
  ASSUME NEW bits, bits \subseteq Chunk, sector_num \in Chunk \cup {-1}, NEW c,
         after_sleep(c, bits)
  PROVE  Stays(bits) \/ (Leaves /\ exit' = "cancelled" /\ ~synced' /\ c)
<1>1. CASE ~synced' /\ c
  <2>1. immediate_exit("cancelled", TRUE)
    BY <1>1, Zenon DEF after_sleep
  <2> QED
    BY <1>1, <2>1, ImmediateExit, Zenon
<1>2. CASE ~(~synced' /\ c)
  <2>1. loop_top(sector_num, bits)
    BY <1>2, Zenon DEF after_sleep
  <2> QED
    BY <2>1, LoopTop, Zenon
<1> QED
  BY <1>1, <1>2, Zenon

\* The end of the loop body: "insync" is the exit of a job that was asked to
\* complete and has nothing left to copy.
LEMMA LoopEnd ==
  ASSUME NEW bits, bits \subseteq Chunk, sector_num \in Chunk \cup {-1},
         NEW complete, cancelled \in BOOLEAN, loop_end(bits, complete)
  PROVE  /\ cancelled' \in BOOLEAN
         /\ \/ Stays(bits)
            \/ Leaves /\ exit' = "cancelled" /\ ~synced'
            \/ Leaves /\ exit' = "insync" /\ complete /\ bits = {}
<1>1. CASE synced' /\ complete /\ bits = {}
  <2>1. immediate_exit("insync", TRUE) /\ cancelled' = FALSE
    BY <1>1, Zenon DEF loop_end
  <2> QED
    BY <1>1, <2>1, ImmediateExit, Zenon
<1>2. CASE synced' /\ complete /\ bits # {}
  <2>1. loop_top(sector_num, bits) /\ cancelled' = cancelled
    BY <1>2, Zenon DEF loop_end
  <2> QED
    BY <2>1, LoopTop, Zenon
<1>3. CASE ~(synced' /\ complete)
  <2>1. cancelled' = cancelled
    BY <1>3, Zenon DEF loop_end
  <2>2. CASE cancelled
    <3>1. after_sleep(cancelled, bits)
      BY <1>3, <2>2, Zenon DEF loop_end, sleep_returns
    <3> QED
      BY <2>1, <3>1, AfterSleep, Zenon
  <2>3. CASE ~cancelled
    <3>1. dirty' = bits /\ sleep
      BY <1>3, <2>3, Zenon DEF loop_end, sleep_returns
    <3>2. Stays(bits)
      BY <3>1, Zenon DEF sleep, Stays
    <3> QED
      BY <2>1, <3>2, Zenon
  <2> QED
    BY <2>2, <2>3, Zenon
<1> QED
  BY <1>1, <1>2, <1>3, Zenon

-----------------------------------------------------------------------------
(* What a step of the job means for the invariant *)

\* The types of the variables that Stays and Leaves do not mention.
RestTypes ==
  /\ stale \subseteq Chunk
  /\ wr \in [Writer -> [st : {"idle", "pending", "landed"}, chunk : Chunk]]
  /\ budget \in 0 .. MaxWrites
  /\ paused \in BOOLEAN /\ cancelled \in BOOLEAN
  /\ iostatus \in {"ok", "failed", "nospace"}
  /\ on_source_error \in Policies \cup {"report"}
  /\ on_target_error \in Policies \cup {"report"}
  /\ synced \in BOOLEAN /\ should_complete \in BOOLEAN

\* A job that stays in its loop with all it has to copy in the bitmap.
LEMMA StaysKeeps ==
  ASSUME Inv, NEW bits, bits \subseteq Chunk, tracking, Stays(bits), RestTypes',
         \A c \in stale' : c \in bits \/ c \in Landed',
         Reports' /\ should_complete' => synced'
  PROVE  Inv'
<1>1. /\ tracking' = TRUE /\ dirty' \subseteq Chunk
      /\ pc' \in {"read", "flush", "sleep", "paused"} /\ buf' = "empty"
      /\ busy' \in BOOLEAN /\ (~busy' <=> pc' \in {"sleep", "paused"})
      /\ sector_num' \in Chunk \cup {-1} /\ (pc' = "read" => sector_num' \in Chunk)
      /\ exit' = exit /\ pivoted' = pivoted /\ event' = event
  BY Zenon DEF Stays, exitVars, Inv, TypeOK
<1>2. TypeOK'
  BY <1>1, Zenon DEF Inv, TypeOK, RestTypes
<1>3. Control' /\ Overtaken'
  BY <1>1, Zenon DEF Control, Loop, Overtaken
<1>4. NoChangeForgotten'
  <2>1. \A b \in bits : b \in dirty' \/ (pc' = "read" /\ sector_num' = b)
    BY Zenon DEF Stays
  <2> QED
    BY <1>1, <2>1, Zenon DEF NoChangeForgotten, Accounted
<1>5. Ready'
  BY Zenon DEF Ready
<1> QED
  BY <1>2, <1>3, <1>4, <1>5, Zenon DEF Inv

\* A job that leaves its loop.
LEMMA LeavesKeeps ==
  ASSUME Inv, Leaves, RestTypes'
  PROVE  Inv'
<1>1. /\ tracking' = FALSE /\ dirty' = {} /\ pc' \in {"reopen", "close"}
      /\ buf' = "empty" /\ busy' = TRUE
      /\ sector_num' = sector_num /\ event' = event
      /\ exit' \in {"insync", "cancelled", "error"} /\ pivoted' \in BOOLEAN
  BY Zenon DEF Leaves
<1>2. TypeOK'
  BY <1>1, Zenon DEF Inv, TypeOK, RestTypes
<1>3. Control' /\ Overtaken'
  BY <1>1, Zenon DEF Control, Loop, Overtaken
<1>4. NoChangeForgotten' /\ Ready'
  BY <1>1, Zenon DEF NoChangeForgotten, Ready
<1> QED
  BY <1>2, <1>3, <1>4, Zenon DEF Inv

\* bdrv_swap is called in this step, before a reopen, and errors are reported.
Pivots == ~pivoted /\ pivoted' /\ pc # "reopen" /\ Reports

Clean == Pivots => stale' = {}

\* A step that stays in the loop, or leaves it with an error, does not pivot.
LEMMA NoPivot ==
  ASSUME \/ UNCHANGED pivoted
         \/ \E bits : Stays(bits)
         \/ Leaves /\ exit' = "error"
  PROVE  ~Pivots
BY Zenon DEF Pivots, Stays, Leaves, exitVars

\* A ready job that was asked to complete does not leave as cancelled.
LEMMA NoCancelledPivot ==
  ASSUME Inv, tracking, Leaves, exit' = "cancelled", ~synced', synced' = synced
  PROVE  ~Pivots
BY Zenon DEF Inv, Ready, Leaves, Pivots

-----------------------------------------------------------------------------
(* Guest writes *)

\* What guest writes leave alone.
LEMMA GuestStep ==
  ASSUME Inv, Guest
  PROVE  Inv' /\ Clean
<1>1. PICK w \in Writer : \/ \E c \in Chunk : guest_submit(w, c)
                          \/ guest_land(w) \/ guest_complete(w)
  BY Zenon DEF Guest
<1>2. /\ UNCHANGED <<tracking, paused, cancelled, iostatus, on_source_error,
                     on_target_error, pc, busy, synced, should_complete,
                     sector_num, exit, pivoted, event>>
  BY <1>1, Zenon DEF guest_submit, guest_land, guest_complete, userVars, mirrorVars,
              runVars, exitVars
<1>3. Clean
  BY <1>2, NoPivot, Zenon DEF Clean
<1>4. wr[w] \in [st : {"idle", "pending", "landed"}, chunk : Chunk]
  BY Zenon DEF Inv, TypeOK
<1> DEFINE k == wr[w].chunk
<1>5. k \in Chunk /\ wr[w].st \in {"idle", "pending", "landed"}
  BY <1>4, Zenon
<1>6. CASE \E c \in Chunk : guest_submit(w, c)
  <2>1. PICK c \in Chunk : guest_submit(w, c)
    BY <1>6, Zenon
  <2>2. /\ wr[w].st = "idle" /\ wr' = [wr EXCEPT ![w] = [st |-> "pending", chunk |-> c]]
        /\ budget > 0 /\ budget' = budget - 1 /\ UNCHANGED <<stale, dirty, buf>>
    BY <2>1, Zenon DEF guest_submit, runVars
  <2>3. wr' \in [Writer -> [st : {"idle", "pending", "landed"}, chunk : Chunk]]
    BY <2>2, Zenon DEF Inv, TypeOK
  <2>4. budget' \in 0 .. MaxWrites
    BY <2>2, ConstantsAssumption DEF Inv, TypeOK
  <2>5. Landed' = Landed
    <3>1. \A v \in Writer : wr'[v].st = "landed" <=> wr[v].st = "landed"
      BY <2>2, <2>3, Zenon DEF Inv, TypeOK
    <3>2. \A v \in Writer : wr[v].st = "landed" => wr'[v] = wr[v]
      BY <2>2, <2>3, Zenon DEF Inv, TypeOK
    <3> QED
      BY <3>1, <3>2, Zenon DEF Landed
  <2>6. TypeOK'
    BY <1>2, <2>2, <2>3, <2>4 DEF Inv, TypeOK
  <2>7. Control' /\ Ready'
    BY <1>2, <2>2, Zenon DEF Inv, Control, Ready, Reports
  <2>8. NoChangeForgotten' /\ Overtaken'
    BY <1>2, <2>2, <2>5, Zenon DEF Inv, NoChangeForgotten, Accounted, Overtaken
  <2> QED
    BY <1>3, <2>6, <2>7, <2>8, Zenon DEF Inv
<1>7. CASE guest_land(w)
  <2>1. /\ wr[w].st = "pending" /\ wr' = [wr EXCEPT ![w].st = "landed"]
        /\ stale' \in {stale, stale \cup {k}} /\ UNCHANGED <<dirty, budget>>
        /\ buf' = IF buf = "current" /\ sector_num = k THEN "outdated" ELSE buf
    BY <1>7, Zenon DEF guest_land
  <2>2. wr' = [wr EXCEPT ![w] = [st |-> "landed", chunk |-> k]]
    <3>1. [wr[w] EXCEPT !.st = "landed"] = [st |-> "landed", chunk |-> k]
      BY <1>4
    <3>2. wr' = [wr EXCEPT ![w] = [wr[w] EXCEPT !.st = "landed"]]
      BY <2>1, Zenon DEF Inv, TypeOK
    <3> QED
      BY <3>1, <3>2, Zenon
  <2>3. wr' \in [Writer -> [st : {"idle", "pending", "landed"}, chunk : Chunk]]
    BY <1>5, <2>2, Zenon DEF Inv, TypeOK
  <2>4. Landed \subseteq Landed' /\ k \in Landed'
    <3>1. \A v \in Writer : wr[v].st = "landed" => wr'[v] = wr[v]
      BY <2>1, <2>2, <2>3, Zenon DEF Inv, TypeOK
    <3>2. wr'[w].st = "landed" /\ wr'[w].chunk = k
      BY <2>2, <2>3, Zenon DEF Inv, TypeOK
    <3> QED
      BY <3>1, <3>2, Zenon DEF Landed
  <2> HIDE DEF k
  <2>5. buf' \in {"empty", "current", "outdated"} /\ stale' \subseteq Chunk
    BY <1>5, <2>1, Zenon DEF Inv, TypeOK, k
  <2>6. TypeOK'
    BY <1>2, <2>1, <2>3, <2>5 DEF Inv, TypeOK
  <2>7. Control' /\ Ready'
    BY <1>2, <2>1, Zenon DEF Inv, Control, Ready, Reports
  <2>8. Overtaken'
    BY <1>2, <2>1, <2>4, Zenon DEF Inv, Overtaken
  <2>9. NoChangeForgotten'
    BY <1>2, <2>1, <2>4, Zenon DEF Inv, NoChangeForgotten, Accounted
  <2> QED
    BY <1>3, <2>6, <2>7, <2>8, <2>9, Zenon DEF Inv
<1>8. CASE guest_complete(w)
  <2>1. /\ wr' = [wr EXCEPT ![w] = Idle] /\ UNCHANGED <<stale, budget, buf>>
        /\ dirty' = IF tracking THEN dirty \cup {k} ELSE dirty
    BY <1>8, Zenon DEF guest_complete, set_dirty, runVars
  <2>2. wr' \in [Writer -> [st : {"idle", "pending", "landed"}, chunk : Chunk]]
    <3>1. Idle \in [st : {"idle", "pending", "landed"}, chunk : Chunk]
      BY ConstantsAssumption DEF Idle, Chunk
    <3> QED
      BY <2>1, <3>1, Zenon DEF Inv, TypeOK
  <2>3. \A c \in Landed : c \in Landed' \/ c = k
    <3>1. \A v \in Writer \ {w} : wr'[v] = wr[v]
      BY <2>1, Zenon DEF Inv, TypeOK
    <3> QED
      BY <3>1, Zenon DEF Landed
  <2> HIDE DEF k
  <2>4. TypeOK'
    BY <1>2, <1>5, <2>1, <2>2 DEF Inv, TypeOK
  <2>5. Control' /\ Ready'
    BY <1>2, <2>1, Zenon DEF Inv, Control, Ready, Reports
  <2>6. Overtaken'
    BY <1>2, <2>1, <2>3, Zenon DEF Inv, Overtaken, Control, Loop
  <2>7. NoChangeForgotten'
    BY <1>2, <2>1, <2>3, Zenon DEF Inv, NoChangeForgotten, Accounted
  <2> QED
    BY <1>3, <2>4, <2>5, <2>6, <2>7, Zenon DEF Inv
<1> QED
  BY <1>1, <1>6, <1>7, <1>8, Zenon

-----------------------------------------------------------------------------
(* The job *)

\* The invariant has the types of all variables.
LEMMA InvTypes ==
  ASSUME Inv
  PROVE  /\ RestTypes /\ dirty \subseteq Chunk /\ sector_num \in Chunk \cup {-1}
         /\ cancelled \in BOOLEAN
BY Zenon DEF Inv, TypeOK, RestTypes

\* The first loop of mirror_run.
LEMMA PopulateStep ==
  ASSUME Inv, populate \/ populate_fails
  PROVE  Inv' /\ Clean
<1> USE InvTypes
<1>1. /\ pc = "populate" /\ tracking /\ sector_num \in Chunk
      /\ UNCHANGED <<stale, wr, budget, paused, cancelled, iostatus, synced,
                     on_source_error, on_target_error, should_complete>>
  BY Zenon DEF populate, populate_fails, userVars, mirrorVars, Inv, Control, Loop
<1>2. RestTypes' /\ Landed' = Landed
  BY <1>1, Zenon DEF RestTypes, Landed
<1>3. Reports' /\ should_complete' => synced'
  BY <1>1, Zenon DEF Inv, Ready, Reports
<1>4. CASE populate_fails
  <2>1. Leaves /\ exit' = "error"
    BY <1>4, ImmediateExit, Zenon DEF populate_fails
  <2> QED
    BY <1>2, <2>1, LeavesKeeps, NoPivot, Zenon DEF Clean
<1>5. CASE populate
  <2> DEFINE bits == dirty \cup (stale \cap {sector_num})
  <2>1. bits \subseteq Chunk
    BY <1>1, Zenon
  <2>2. \A c \in stale : c \in bits \/ c \in Landed \/ c > sector_num
    <3>1. \A c \in stale : Accounted(c)
      BY <1>1, Zenon DEF Inv, NoChangeForgotten
    <3>2. \A c \in stale : c \in Int
      BY ConstantsAssumption DEF RestTypes, Chunk
    <3>3. sector_num \in Int
      BY <1>1, ConstantsAssumption DEF Chunk
    <3> QED
      BY <1>1, <3>1, <3>2, <3>3 DEF Accounted
  <2>3. CASE sector_num + 1 < NChunk
    <3>1. /\ dirty' = bits /\ sector_num' = sector_num + 1
          /\ UNCHANGED <<tracking, pc, busy, buf, exit, pivoted, event>>
      BY <1>5, <2>3, Zenon DEF populate, exitVars
    <3>2. sector_num' \in Chunk
      BY <1>1, <2>3, <3>1, ConstantsAssumption DEF Chunk
    <3> HIDE DEF bits
    <3>3. TypeOK'
      BY <1>1, <1>2, <2>1, <3>1, <3>2, Zenon DEF Inv, TypeOK, RestTypes
    <3>4. Control' /\ Ready' /\ Overtaken'
      BY <1>1, <1>3, <3>1, <3>2, Zenon DEF Inv, Control, Ready, Overtaken
    <3>5. NoChangeForgotten'
      <4>1. \A c \in stale : c > sector_num => c >= sector_num + 1
        BY <1>1, ConstantsAssumption DEF RestTypes, Chunk
      <4> QED
        BY <1>1, <1>2, <2>2, <3>1, <4>1, Zenon DEF NoChangeForgotten, Accounted
    <3> QED
      BY <3>1, <3>3, <3>4, <3>5, NoPivot, Zenon DEF Inv, Clean
  <2>4. CASE ~(sector_num + 1 < NChunk)
    <3>1. loop_top(-1, bits)
      BY <1>5, <2>4, Zenon DEF populate
    <3>2. Stays(bits)
      BY <2>1, <3>1, LoopTop, Zenon
    <3> HIDE DEF bits
    <3>3. \A c \in stale : ~(c > sector_num)
      BY <1>1, <2>4, ConstantsAssumption DEF RestTypes, Chunk
    <3>4. \A c \in stale' : c \in bits \/ c \in Landed'
      BY <1>1, <1>2, <2>2, <3>3, Zenon
    <3> QED
      BY <1>1, <1>2, <1>3, <2>1, <3>2, <3>4, StaysKeeps, NoPivot, Zenon DEF Clean
  <2> QED
    BY <2>3, <2>4, Zenon
<1> QED
  BY <1>4, <1>5, Zenon

\* bdrv_co_readv takes its data and completes.
LEMMA ReadStep ==
  ASSUME Inv, read_data \/ read_done
  PROVE  Inv' /\ Clean
<1>1. /\ pc = "read" /\ buf' \in {"current", buf} /\ pc' \in {"read", "write"}
      /\ (pc' = "write" => buf' # "empty") /\ (buf' = "outdated" => buf = "outdated")
      /\ UNCHANGED <<stale, tracking, dirty, wr, budget, paused, cancelled, iostatus,
                     on_source_error, on_target_error, busy, synced,
                     should_complete, sector_num, exit, pivoted, event>>
  BY Zenon DEF read_data, read_done, deviceVars, userVars, mirrorVars, exitVars
<1>2. TypeOK'
  BY <1>1 DEF Inv, TypeOK
<1>3. Control'
  BY <1>1, Zenon DEF Inv, Control, Loop
<1>4. Overtaken' /\ Ready'
  BY <1>1, Zenon DEF Inv, Overtaken, Ready, Reports, Landed
<1>5. NoChangeForgotten'
  BY <1>1, Zenon DEF Inv, NoChangeForgotten, Accounted, Landed
<1> QED
  BY <1>1, <1>2, <1>3, <1>4, <1>5, NoPivot, Zenon DEF Inv, Clean

\* An error of the source or of the target, after which all that the target
\* lacks is in the bitmap again.
LEMMA FailStep ==
  ASSUME Inv, tracking, NEW bits, bits \subseteq Chunk,
         NEW p \in {on_source_error, on_target_error}, NEW error,
         fail(p, error, bits),
         UNCHANGED <<wr, budget, on_source_error, on_target_error, should_complete>>,
         stale' \subseteq Chunk, \A c \in stale' : c \in bits \/ c \in Landed
  PROVE  Inv' /\ Clean
<1> USE InvTypes
<1>1. synced' = FALSE
  BY Zenon DEF fail, mirror_error_action
<1>2. paused' \in BOOLEAN /\ iostatus' \in {"ok", "failed", "nospace"}
  BY Zenon DEF fail, mirror_error_action, RestTypes
<1>3. Reports => error_action(p, error) = "report"
  BY Zenon DEF Reports, error_action
<1>4. CASE error_action(p, error) = "report"
  <2>1. cancelled' = cancelled /\ immediate_exit("error", FALSE)
    BY <1>4, Zenon DEF fail
  <2>2. Leaves /\ exit' = "error"
    BY <2>1, ImmediateExit, Zenon
  <2>3. RestTypes'
    BY <1>1, <1>2, <2>1, Zenon DEF RestTypes
  <2> QED
    BY <2>2, <2>3, LeavesKeeps, NoPivot, Zenon DEF Clean
<1>5. CASE error_action(p, error) # "report"
  <2>1. loop_end(bits, FALSE)
    BY <1>5, Zenon DEF fail
  <2>2. cancelled' \in BOOLEAN /\ (Stays(bits) \/ Leaves)
    BY <2>1, LoopEnd, Zenon
  <2>3. RestTypes' /\ Landed' = Landed
    BY <1>1, <1>2, <2>2, Zenon DEF RestTypes, Landed
  <2>4. ~Reports /\ ~Reports'
    BY <1>3, <1>5, Zenon DEF Reports
  <2>5. \A c \in stale' : c \in bits \/ c \in Landed'
    BY <2>3, Zenon
  <2>6. Inv'
    BY <2>2, <2>3, <2>4, <2>5, StaysKeeps, LeavesKeeps, Zenon
  <2> QED
    BY <2>4, <2>6, Zenon DEF Clean, Pivots
<1> QED
  BY <1>4, <1>5, Zenon

\* A failed read, write or flush.
LEMMA ErrorStep ==
  ASSUME Inv, NEW error, read_fails(error) \/ write_fails(error) \/ flush_fails(error)
  PROVE  Inv' /\ Clean
<1> USE InvTypes
<1>1. /\ pc \in {"read", "write", "flush"} /\ tracking
      /\ UNCHANGED <<wr, budget, on_source_error, on_target_error, should_complete>>
  BY Zenon DEF read_fails, write_fails, flush_fails, mirrorVars, Inv, Control, Loop
<1>2. \A c \in stale : Accounted(c)
  BY <1>1, Zenon DEF Inv, NoChangeForgotten
<1>3. CASE read_fails(error) \/ write_fails(error)
  <2> DEFINE bits == dirty \cup {sector_num}
  <2>1. PICK p \in {on_source_error, on_target_error} : fail(p, error, bits)
    BY <1>3, Zenon DEF read_fails, write_fails, retry
  <2>2. sector_num \in Chunk /\ pc \in {"read", "write"}
    BY <1>3, Zenon DEF read_fails, write_fails, Inv, Control
  <2>3. bits \subseteq Chunk
    BY <2>2, Zenon
  <2>4. stale' \in {stale, stale \cup {sector_num}}
    BY <1>3, Zenon DEF read_fails, write_fails
  <2>5. stale' \subseteq Chunk
    BY <2>2, <2>4, Zenon DEF RestTypes
  <2>6. \A c \in stale' : c \in bits \/ c \in Landed
    BY <1>2, <2>2, <2>4, Zenon DEF Accounted
  <2> HIDE DEF bits
  <2> QED
    BY <1>1, <2>1, <2>3, <2>5, <2>6, FailStep, Zenon
<1>4. CASE flush_fails(error)
  <2>1. fail(on_target_error, error, dirty) /\ stale' = stale /\ pc = "flush"
    BY <1>4, Zenon DEF flush_fails
  <2>2. stale' \subseteq Chunk /\ \A c \in stale' : c \in dirty \/ c \in Landed
    BY <1>2, <2>1, Zenon DEF Accounted, RestTypes
  <2> QED
    BY <1>1, <2>1, <2>2, FailStep, Zenon
<1> QED
  BY <1>3, <1>4, Zenon

\* The write to the target completes.
LEMMA WriteStep ==
  ASSUME Inv, write_done
  PROVE  Inv' /\ Clean
<1> USE InvTypes
<1>1. /\ pc = "write" /\ tracking /\ sector_num \in Chunk
      /\ buf \in {"current", "outdated"}
      /\ UNCHANGED <<wr, budget, paused, iostatus, on_source_error, on_target_error,
                     synced, should_complete>>
  BY Zenon DEF write_done, mirrorVars, Inv, Control, Loop, TypeOK
<1>2. \A c \in stale : Accounted(c)
  BY <1>1, Zenon DEF Inv, NoChangeForgotten
<1>3. /\ buf = "current" => stale' = stale \ {sector_num}
      /\ buf = "outdated" => stale' = stale \cup {sector_num}
  BY Zenon DEF write_done
<1>4. \A c \in stale' : c \in dirty \/ c \in Landed
  BY <1>1, <1>2, <1>3, Zenon DEF Accounted, Inv, Overtaken
<1>5. stale' \subseteq Chunk
  BY <1>1, <1>3, Zenon DEF RestTypes
<1>6. Reports' /\ should_complete' => synced'
  BY <1>1, Zenon DEF Inv, Ready, Reports
<1>7. Landed' = Landed
  BY <1>1, Zenon DEF Landed
<1>8. CASE dirty = {}
  <2>1. /\ pc' = "flush" /\ buf' = "empty"
        /\ UNCHANGED <<cancelled, tracking, dirty, busy, sector_num, exit, pivoted, event>>
    BY <1>8, Zenon DEF write_done, exitVars
  <2>2. TypeOK'
    BY <1>1, <1>5, <2>1 DEF Inv, TypeOK
  <2>3. Control' /\ Overtaken' /\ Ready'
    BY <1>1, <1>6, <2>1, Zenon DEF Inv, Control, Loop, Overtaken, Ready
  <2>4. NoChangeForgotten'
    BY <1>4, <1>7, <2>1, Zenon DEF NoChangeForgotten, Accounted
  <2> QED
    BY <2>1, <2>2, <2>3, <2>4, NoPivot, Zenon DEF Inv, Clean
<1>9. CASE dirty # {}
  <2>1. loop_end(dirty, FALSE)
    BY <1>9, Zenon DEF write_done
  <2>2. /\ cancelled' \in BOOLEAN
        /\ Stays(dirty) \/ (Leaves /\ exit' = "cancelled" /\ ~synced')
    BY <2>1, LoopEnd, Zenon
  <2>3. RestTypes'
    BY <1>1, <1>5, <2>2, Zenon DEF RestTypes
  <2>4. \A c \in stale' : c \in dirty \/ c \in Landed'
    BY <1>4, <1>7, Zenon
  <2>5. Inv'
    BY <1>1, <1>6, <2>2, <2>3, <2>4, StaysKeeps, LeavesKeeps, Zenon
  <2>6. ~Pivots
    BY <1>1, <2>2, NoPivot, NoCancelledPivot, Zenon
  <2> QED
    BY <2>5, <2>6, Zenon DEF Clean
<1> QED
  BY <1>8, <1>9, Zenon

\* The flush of the target completes: the job is ready.
LEMMA FlushStep ==
  ASSUME Inv, flush_done
  PROVE  Inv' /\ Clean
<1> USE InvTypes
<1>1. /\ pc = "flush" /\ tracking /\ synced' = TRUE
      /\ UNCHANGED <<stale, wr, budget, paused, iostatus, on_source_error,
                     on_target_error, should_complete>>
  BY Zenon DEF flush_done, mirrorVars, Inv, Control, Loop
<1>2. Landed' = Landed /\ \A c \in stale' : c \in dirty \/ c \in Landed
  BY <1>1, Zenon DEF Inv, NoChangeForgotten, Accounted, Landed
<1>3. CASE drain_needed(complete_asked)
  <2>1. /\ pc' = "drain"
        /\ UNCHANGED <<cancelled, tracking, dirty, busy, sector_num, buf, exit,
                       pivoted, event>>
    BY <1>3, Zenon DEF flush_done, exitVars
  <2>2. TypeOK'
    BY <1>1, <2>1 DEF Inv, TypeOK
  <2>3. Control' /\ Overtaken' /\ Ready'
    BY <1>1, <2>1, Zenon DEF Inv, Control, Loop, Overtaken, Ready
  <2>4. NoChangeForgotten'
    BY <1>2, <2>1, Zenon DEF NoChangeForgotten, Accounted
  <2> QED
    BY <2>1, <2>2, <2>3, <2>4, NoPivot, Zenon DEF Inv, Clean
<1>4. CASE ~drain_needed(complete_asked)
  <2>1. loop_end(dirty, complete_asked) /\ ~(complete_asked /\ dirty = {})
    BY <1>4, Zenon DEF flush_done, drain_needed
  <2>2. cancelled' \in BOOLEAN /\ Stays(dirty)
    BY <1>1, <2>1, LoopEnd
  <2>3. RestTypes'
    BY <1>1, <2>2, Zenon DEF RestTypes
  <2>4. \A c \in stale' : c \in dirty \/ c \in Landed'
    BY <1>2, Zenon
  <2> QED
    BY <1>1, <2>2, <2>3, <2>4, StaysKeeps, NoPivot, Zenon DEF Clean
<1> QED
  BY <1>3, <1>4, Zenon

\* bdrv_drain_all returns: with no write in flight and no dirty bit, nothing is
\* stale, and the job leaves its loop with two equal disks.
LEMMA DrainStep ==
  ASSUME Inv, drain_done
  PROVE  Inv' /\ Clean
<1> USE InvTypes
<1>1. /\ pc = "drain" /\ tracking /\ Quiet /\ loop_end(dirty, TRUE)
      /\ UNCHANGED <<stale, wr, budget, paused, iostatus, on_source_error,
                     on_target_error, synced, should_complete>>
  BY Zenon DEF drain_done, mirrorVars, Inv, Control, Loop
<1>2. Landed = {} /\ Landed' = Landed
  BY <1>1, Zenon DEF Quiet, Landed
<1>3. \A c \in stale' : c \in dirty
  BY <1>1, <1>2, Zenon DEF Inv, NoChangeForgotten, Accounted
<1>4. /\ cancelled' \in BOOLEAN
      /\ \/ Stays(dirty)
         \/ Leaves /\ exit' = "cancelled" /\ ~synced'
         \/ Leaves /\ exit' = "insync" /\ dirty = {}
  BY <1>1, LoopEnd, Zenon
<1>5. RestTypes'
  BY <1>1, <1>4, Zenon DEF RestTypes
<1>6. Reports' /\ should_complete' => synced'
  BY <1>1, Zenon DEF Inv, Ready, Reports
<1>7. Inv'
  BY <1>1, <1>3, <1>4, <1>5, <1>6, StaysKeeps, LeavesKeeps, Zenon
<1>8. ~Pivots \/ dirty = {}
  BY <1>1, <1>4, NoPivot, NoCancelledPivot, Zenon
<1> QED
  BY <1>3, <1>7, <1>8, Zenon DEF Clean

\* The job is woken, by its timer or by the user, with job->cancelled = c.
LEMMA WakeStep ==
  ASSUME Inv, tracking, pc \in {"sleep", "paused"}, NEW c, after_sleep(c, dirty),
         UNCHANGED <<stale, wr, budget, on_source_error, on_target_error, synced>>,
         RestTypes', should_complete' => should_complete \/ synced
  PROVE  Inv' /\ Clean
<1> USE InvTypes
<1>1. Stays(dirty) \/ (Leaves /\ exit' = "cancelled" /\ ~synced' /\ c)
  BY AfterSleep, Zenon
<1>2. Landed' = Landed /\ \A d \in stale' : d \in dirty \/ d \in Landed
  BY Zenon DEF Inv, NoChangeForgotten, Accounted, Landed
<1>3. Reports' /\ should_complete' => synced'
  BY Zenon DEF Inv, Ready, Reports
<1>4. Inv'
  BY <1>1, <1>2, <1>3, StaysKeeps, LeavesKeeps, Zenon
<1>5. ~Pivots
  BY <1>1, NoPivot, NoCancelledPivot, Zenon
<1> QED
  BY <1>4, <1>5, Zenon DEF Clean

\* The timer of the job fires.
LEMMA WakeupStep ==
  ASSUME Inv, wakeup
  PROVE  Inv' /\ Clean
<1>1. /\ pc = "sleep" /\ tracking /\ after_sleep(cancelled, dirty)
      /\ UNCHANGED <<stale, wr, budget, paused, cancelled, iostatus, on_source_error,
                     on_target_error, synced, should_complete>>
  BY Zenon DEF wakeup, userVars, mirrorVars, Inv, Control, Loop
<1>2. RestTypes'
  BY <1>1, InvTypes, Zenon DEF RestTypes
<1> QED
  BY <1>1, <1>2, WakeStep, Zenon

\* What follows the loop.
LEMMA EndStep ==
  ASSUME Inv, reopen_done \/ completed
  PROVE  Inv' /\ Clean
<1>1. /\ pc \in {"reopen", "close"} /\ pc' \in {"close", "none"}
      /\ event' \in {"none", "CANCELLED", "ERROR", "COMPLETED"}
      /\ pivoted' \in BOOLEAN /\ (pc = "reopen" \/ pivoted' = pivoted)
      /\ UNCHANGED <<stale, tracking, dirty, wr, budget, paused, cancelled, iostatus,
                     on_source_error, on_target_error, busy, synced,
                     should_complete, sector_num, buf, exit>>
  BY Zenon DEF reopen_done, completed, block_job_cb, deviceVars, userVars, mirrorVars,
         Inv, TypeOK
<1>2. ~tracking /\ buf = "empty" /\ busy
  BY <1>1, Zenon DEF Inv, Control, Loop
<1>3. TypeOK'
  BY <1>1 DEF Inv, TypeOK
<1>4. Control' /\ Overtaken' /\ Ready' /\ NoChangeForgotten'
  BY <1>1, <1>2, Zenon DEF Control, Loop, Overtaken, Ready, NoChangeForgotten
<1> QED
  BY <1>1, <1>3, <1>4, Zenon DEF Inv, Clean, Pivots

\* Every step of the job.
LEMMA JobStep ==
  ASSUME Inv, Job
  PROVE  Inv' /\ Clean
BY PopulateStep, ReadStep, ErrorStep, WriteStep, FlushStep, DrainStep, WakeupStep,
   EndStep, Zenon DEF Job

-----------------------------------------------------------------------------
(* The user *)

\* mirror_start: everything that has to be copied is ahead of the first loop.
LEMMA StartStep ==
  ASSUME Inv, NEW m, NEW src \in Policies, NEW tgt \in Policies,
         NEW alloc \in SUBSET Chunk, mirror_start(m, src, tgt, alloc)
  PROVE  Inv' /\ Clean
<1>1. /\ stale' \in {{}, alloc} /\ tracking' = TRUE /\ dirty' = {}
      /\ wr' = wr /\ budget' = budget /\ paused' = FALSE /\ cancelled' = FALSE
      /\ iostatus' = "ok" /\ busy' = TRUE /\ synced' = FALSE
      /\ should_complete' = FALSE /\ exit' = "none" /\ pivoted' = FALSE
      /\ event' = "none" /\ buf' = "empty"
      /\ on_source_error' = src /\ on_target_error' = tgt
  BY Zenon DEF mirror_start
<1>2. \/ stale' = {} /\ pc' = "flush" /\ sector_num' = -1
      \/ pc' = "populate" /\ sector_num' = 0
  BY Zenon DEF mirror_start
<1>3. 0 \in Chunk /\ \A c \in Chunk : c >= 0
  BY ConstantsAssumption DEF Chunk
<1>4. TypeOK'
  BY <1>1, <1>2, <1>3, Zenon DEF Inv, TypeOK
<1>5. Control' /\ Overtaken' /\ Ready'
  BY <1>1, <1>2, <1>3, Zenon DEF Control, Loop, Overtaken, Ready
<1>6. NoChangeForgotten'
  BY <1>1, <1>2, <1>3, Zenon DEF NoChangeForgotten, Accounted
<1>7. ~Pivots
  BY <1>1, Zenon DEF Pivots
<1> QED
  BY <1>4, <1>5, <1>6, <1>7, Zenon DEF Inv, Clean

\* A command that changes nothing but flags while the job is not asleep.
LEMMA FlagsStep ==
  ASSUME Inv, RestTypes',
         UNCHANGED <<stale, wr, budget, on_source_error, on_target_error, synced,
                     pc, busy, sector_num, buf, tracking, dirty, exit, pivoted, event>>,
         should_complete' => should_complete \/ synced
  PROVE  Inv' /\ Clean
<1>1. TypeOK'
  BY DEF Inv, TypeOK, RestTypes
<1>2. Control' /\ Overtaken' /\ Ready'
  BY Zenon DEF Inv, Control, Overtaken, Ready, Reports, Landed
<1>3. NoChangeForgotten'
  BY Zenon DEF Inv, NoChangeForgotten, Accounted, Landed
<1> QED
  BY <1>1, <1>2, <1>3, NoPivot, Zenon DEF Inv, Clean

\* The commands that resume the job.
LEMMA ResumeStep ==
  ASSUME Inv, NEW c, block_job_resume(c), cancelled' \in BOOLEAN,
         should_complete' \in BOOLEAN, should_complete' => should_complete \/ synced
  PROVE  Inv' /\ Clean
<1>1. /\ paused' = FALSE /\ iostatus' = "ok"
      /\ UNCHANGED <<stale, wr, budget, on_source_error, on_target_error, synced>>
  BY Zenon DEF block_job_resume, iostatus_reset, mirrorVars
<1>2. RestTypes'
  BY <1>1, InvTypes, Zenon DEF RestTypes
<1>3. CASE busy
  <2>1. UNCHANGED <<pc, busy, sector_num, buf, tracking, dirty, exit, pivoted, event>>
    BY <1>3, Zenon DEF block_job_resume, exitVars
  <2> QED
    BY <1>1, <1>2, <2>1, FlagsStep, Zenon
<1>4. CASE ~busy
  <2>1. after_sleep(c, dirty)
    BY <1>4, Zenon DEF block_job_resume
  <2>2. tracking /\ pc \in {"sleep", "paused"}
    BY <1>4, Zenon DEF Inv, Control, Loop
  <2> QED
    BY <1>1, <1>2, <2>1, <2>2, WakeStep, Zenon
<1> QED
  BY <1>3, <1>4, Zenon

\* Every command of the user.
LEMMA UserStep ==
  ASSUME Inv, User
  PROVE  Inv' /\ Clean
<1> USE InvTypes
<1>1. ASSUME NEW m, NEW src \in Policies, NEW tgt \in Policies,
             NEW alloc \in SUBSET Chunk, mirror_start(m, src, tgt, alloc)
      PROVE  Inv' /\ Clean
  BY <1>1, StartStep, Zenon
<1>2. CASE qmp_block_job_pause
  <2>1. /\ paused' = TRUE
        /\ UNCHANGED <<stale, tracking, dirty, wr, budget, cancelled, iostatus,
                       on_source_error, on_target_error, pc, busy, synced,
                       should_complete, sector_num, buf, exit, pivoted, event>>
    BY <1>2, Zenon DEF qmp_block_job_pause, deviceVars, mirrorVars, runVars, exitVars
  <2>2. RestTypes'
    BY <2>1, Zenon DEF RestTypes
  <2> QED
    BY <2>1, <2>2, FlagsStep, Zenon
<1>3. CASE qmp_block_job_resume
  <2>1. /\ block_job_resume(cancelled)
        /\ cancelled' = cancelled /\ should_complete' = should_complete
    BY <1>3, Zenon DEF qmp_block_job_resume
  <2>2. cancelled' \in BOOLEAN /\ should_complete' \in BOOLEAN
    BY <2>1, Zenon DEF RestTypes
  <2> QED
    BY <2>1, <2>2, ResumeStep, Zenon
<1>4. CASE qmp_block_job_cancel
  <2>1. /\ block_job_resume(TRUE)
        /\ cancelled' = TRUE /\ should_complete' = should_complete
    BY <1>4, Zenon DEF qmp_block_job_cancel
  <2>2. cancelled' \in BOOLEAN /\ should_complete' \in BOOLEAN
    BY <2>1, Zenon DEF RestTypes
  <2> QED
    BY <2>1, <2>2, ResumeStep, Zenon
<1>5. CASE qmp_block_job_complete
  <2>1. /\ block_job_resume(cancelled) /\ synced
        /\ cancelled' = cancelled /\ should_complete' = TRUE
    BY <1>5, Zenon DEF qmp_block_job_complete, can_complete
  <2>2. cancelled' \in BOOLEAN /\ should_complete' \in BOOLEAN
    BY <2>1, Zenon DEF RestTypes
  <2> QED
    BY <2>1, <2>2, ResumeStep, Zenon
<1> QED
  BY <1>1, <1>2, <1>3, <1>4, <1>5, Zenon DEF User

-----------------------------------------------------------------------------
(* The theorems *)

\* The invariant holds before the job starts ...
LEMMA InvInit == Init => Inv
<1> SUFFICES ASSUME Init PROVE Inv
  BY Zenon
<1>1. 0 \in Chunk
  BY ConstantsAssumption DEF Chunk
<1>2. /\ tracking \in BOOLEAN /\ paused \in BOOLEAN /\ cancelled \in BOOLEAN
      /\ busy \in BOOLEAN /\ synced \in BOOLEAN /\ should_complete \in BOOLEAN
      /\ pivoted \in BOOLEAN
  BY Zenon DEF Init
<1>3. wr \in [Writer -> [st : {"idle", "pending", "landed"}, chunk : Chunk]]
  BY <1>1, Zenon DEF Init, Idle
<1>4. budget \in 0 .. MaxWrites
  BY ConstantsAssumption DEF Init
<1>5. TypeOK
  BY <1>1, <1>2, <1>3, <1>4, Zenon DEF Init, TypeOK
<1>6. Control /\ NoChangeForgotten /\ Overtaken /\ Ready
  BY Zenon DEF Init, Control, Loop, NoChangeForgotten, Overtaken, Ready
<1> QED
  BY <1>5, <1>6, Zenon DEF Inv

\* ... and every step keeps it and pivots only to a complete copy.
LEMMA InvNext == Inv /\ [Next]_vars => Inv' /\ Clean
<1> SUFFICES ASSUME Inv, [Next]_vars PROVE Inv' /\ Clean
  BY Zenon
<1>1. CASE Next
  BY <1>1, GuestStep, JobStep, UserStep, Zenon DEF Next
<1>2. CASE UNCHANGED vars
  <2>1. UNCHANGED <<stale, wr, budget, on_source_error, on_target_error, synced,
                    pc, busy, sector_num, buf, tracking, dirty, exit, pivoted, event,
                    paused, cancelled, iostatus, should_complete>>
    BY <1>2, Zenon DEF vars, deviceVars, userVars, mirrorVars, runVars, exitVars
  <2>2. RestTypes'
    BY <2>1, InvTypes, Zenon DEF RestTypes
  <2> QED
    BY <2>1, <2>2, FlagsStep, Zenon
<1> QED
  BY <1>1, <1>2, Zenon

\* The job's place in its loop, its bitmap and its buffer agree with what the
\* target holds.
THEOREM InvHolds == Spec => []Inv
<1> QED
  BY InvInit, InvNext, PTL DEF Spec

\* Every variable keeps its type, and the bitmap is used only while it exists.
THEOREM TypeCorrect == Spec => []TypeOK
<1>1. Inv => TypeOK
  BY Zenon DEF Inv
<1> QED
  BY <1>1, InvHolds, PTL

\* While the job runs no change of the source is forgotten, whatever guest
\* writes overlap the copies and whatever errors occur.
THEOREM NoChangeIsForgotten == Spec => []NoChangeForgotten
<1>1. Inv => NoChangeForgotten
  BY Zenon DEF Inv
<1> QED
  BY <1>1, InvHolds, PTL

\* bdrv_swap gives the guest a device that holds all it wrote, if errors are
\* reported and the target is not reopened first.
THEOREM PivotsAreClean == Spec => PivotIsClean
<1>1. Inv /\ [Next]_vars =>
        [~pivoted /\ pivoted' /\ pc # "reopen" /\ Reports => stale' = {}]_vars
  BY InvNext, Zenon DEF Clean, Pivots
<1> QED
  BY <1>1, InvHolds, PTL DEF Spec, PivotIsClean
=============================================================================
