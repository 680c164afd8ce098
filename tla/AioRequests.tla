---------------------------- MODULE AioRequests ----------------------------
(***************************************************************************)
(* What the block layer relies on when it hands a function to an           *)
(* asynchronous engine (thread_pool_submit_aio and its AIOCB): the         *)
(* function runs at most once, its result reaches the callback exactly     *)
(* once and unchanged, a cancelled request runs neither, and the AIOCB is  *)
(* reusable only after that.  Nothing here knows of threads, queues,       *)
(* semaphores or notifiers.                                                *)
(***************************************************************************)
CONSTANTS Req,     \* the AIOCBs
          Ret      \* the results of a request's function

VARIABLES phase,   \* the point in its life each AIOCB has reached
          result,  \* what its function returned
          given    \* the callbacks that are running, with their argument

vars == <<phase, result, given>>

Phase == {"free", "submitted", "running", "finished", "callback", "cancelled"}

Init == /\ phase = [r \in Req |-> "free"]
        /\ result \in [Req -> Ret]
        /\ given = {}

Move(r, from, to) == /\ phase[r] \in from
                     /\ phase' = [phase EXCEPT ![r] = to]

Submit(r) == Move(r, {"free"}, "submitted") /\ UNCHANGED <<result, given>>

Begin(r)  == Move(r, {"submitted"}, "running") /\ UNCHANGED <<result, given>>

Return(r) == /\ phase[r] = "running"
             /\ \E v \in Ret : result' = [result EXCEPT ![r] = v]
             /\ UNCHANGED <<phase, given>>

Finish(r) == Move(r, {"running"}, "finished") /\ UNCHANGED <<result, given>>

Cancel(r) == Move(r, {"submitted"}, "cancelled") /\ UNCHANGED <<result, given>>

Call(r) == /\ Move(r, {"finished"}, "callback")
           /\ given' = given \cup {<<r, result[r]>>}
           /\ UNCHANGED result

\* "finished" may be released directly: a request submitted without callback.
Release(r) == /\ Move(r, {"callback", "cancelled", "finished"}, "free")
              /\ given' = {g \in given : g[1] # r}
              /\ UNCHANGED result

Next == \E r \in Req : \/ Submit(r) \/ Begin(r) \/ Return(r) \/ Finish(r)
                       \/ Cancel(r) \/ Call(r)  \/ Release(r)

Spec == Init /\ [][Next]_vars
=============================================================================
