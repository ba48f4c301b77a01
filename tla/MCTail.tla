-------------------------------- MODULE MCTail --------------------------------
(* Two pairs of rows with equal timestamps, and a page of two.             *)
EXTENDS Tail

CONSTANTS r1, r2, r3, r4

MCRow == {r1, r2, r3, r4}
MCTs  == [r \in MCRow |-> IF r \in {r1, r2} THEN 1 ELSE 2]
==============================================================================
