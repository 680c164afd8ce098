---------------------------- MODULE MCQcow2Meta ----------------------------
(* Qcow2Meta for TLC: guest clusters and host clusters are interchangeable. *)
EXTENDS Qcow2Meta, TLC

Symmetry == Permutations(Guest) \cup Permutations(Cluster)

\* A host that crashes under an image with accurate refcounts, also with a file
\* whose requests fail, and such a file under an image with lazy refcounts.
CrashOrFail ==
  {[lazy |-> FALSE, fails |-> FALSE, crashes |-> TRUE, ops |-> 9],
   [lazy |-> FALSE, fails |-> TRUE, crashes |-> TRUE, ops |-> 4],
   [lazy |-> TRUE, fails |-> TRUE, crashes |-> FALSE, ops |-> 4]}

\* A host that crashes under an image with lazy refcounts.
LazyCrash == {[lazy |-> TRUE, fails |-> FALSE, crashes |-> TRUE, ops |-> 3]}
=============================================================================
