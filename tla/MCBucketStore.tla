----------------------------- MODULE MCBucketStore -----------------------------
(***************************************************************************)
(* Three operations on one key: operations on different keys share nothing *)
(* but the bucket, and of that the first to create it makes an end.        *)
(***************************************************************************)
EXTENDS BucketStore, Naturals, FiniteSets, TLC

CONSTANTS o1, o2, o3

MCOps      == {o1, o2, o3}
MCKeys     == {"a"}
\* At most one operation only reads: readers disturb no one.
MCRequests == {r \in [MCOps -> [kind : Kinds, key : MCKeys]] :
                 Cardinality({o \in MCOps : r[o].kind \in {"exists", "get"} \cup URLs}) <= 1}

\* The operations differ in nothing but their requests.
OpSymmetry == Permutations(MCOps)
================================================================================
