------------------------------ MODULE MCFileStore ------------------------------
(***************************************************************************)
(* Three operations on two keys, one of which ("a") is the directory of    *)
(* the other ("a/b").  Three are what the hard cases take: two to race and *)
(* one to change, or to read, what they race for.                          *)
(***************************************************************************)
EXTENDS FileStore, FiniteSets, TLC

CONSTANTS o1, o2, o3

MCKeys      == {"a", "a/b"}
MCAncestors == [k \in MCKeys |-> IF k = "a/b" THEN {"a"} ELSE {}]
MCOps       == {o1, o2, o3}

\* At most two of them save: the third deletes or reads.  Readers disturb no one.
Some(r, kinds) == {o \in MCOps : r[o].kind \in kinds}
MCRequests == {r \in [MCOps -> [kind : Kinds, key : MCKeys]] :
                 /\ Cardinality(Some(r, Saves)) <= 2
                 /\ Cardinality(Some(r, {"exists", "get"})) <= 1}

\* The operations differ in nothing but their requests.
OpSymmetry == Permutations(MCOps)
================================================================================
