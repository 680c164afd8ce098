CONSTANTS
  Req = {r1, r2}
  Thread = {t1, t2}
  Ret = {v1, v2}
  max_threads = 2
  MaxNest = 2
  NoReq = NoReq
SPECIFICATION FairSpec
INVARIANTS TypeOK TokensMatchQueue ThreadsAccounted NoLostCompletion
PROPERTIES ImplementsAioRequests EveryRequestCompletes
