-------------------------- MODULE MCBlockRequests --------------------------
(***************************************************************************)
(* Three requests, each a read, a copy-on-read or a write of sector 0 or   *)
(* of sectors 1 and 2, with clusters of two sectors: the two regions are   *)
(* disjoint and share a cluster.  Which request is which does not matter,  *)
(* so the types are given in order.                                        *)
(***************************************************************************)
EXTENDS BlockRequests, TLC

CONSTANTS r1, r2, r3

MCReq == {r1, r2, r3}

Types == <<[kind |-> "read", region |-> {0}], [kind |-> "read", region |-> {1, 2}],
           [kind |-> "cor", region |-> {0}], [kind |-> "cor", region |-> {1, 2}],
           [kind |-> "write", region |-> {0}], [kind |-> "write", region |-> {1, 2}]>>

MCSetups ==
  LET Ordered == {t \in [1 .. 3 -> DOMAIN Types] : t[1] <= t[2] /\ t[2] <= t[3]}
  IN  {r1 :> Types[t[1]] @@ r2 :> Types[t[2]] @@ r3 :> Types[t[3]] : t \in Ordered}
=============================================================================
