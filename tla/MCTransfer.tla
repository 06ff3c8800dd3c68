------------------------------ MODULE MCTransfer -------------------------------
(***************************************************************************)
(* One upload, of any body of at most three pieces, by any backend; or two *)
(* downloads of objects of at most three pieces to one destination.        *)
(***************************************************************************)
EXTENDS Transfer, TLC

CONSTANTS u1, d1, d2, n1

MCUploads      == {u1}
MCDownloads    == {d1, d2}
MCDestinations == {n1}

\* A body stands at its beginning unless it can be moved, and one that never ends
\* has neither a length nor an end to seek.
Bodies == {b \in Input : /\ ~b.seeks => b.start = 0
                         /\ b.endless => ~b.seeks /\ ~b.sized}
NoBody == CHOOSE b \in Bodies : TRUE

MCCalls ==
  {[called |-> {u1}, input |-> (u1 :> b), size |-> (u1 :> n @@ d1 :> 0 @@ d2 :> 0)] :
     b \in Bodies, n \in Sizes}
  \cup
  {[called |-> {d1, d2}, input |-> (u1 :> NoBody), size |-> (u1 :> 0 @@ d1 :> m @@ d2 :> n)] :
     m \in {0, 3}, n \in Sizes}
================================================================================
