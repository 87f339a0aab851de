------------------------------ MODULE MCBitmaps ------------------------------
(* Instances of BitmapMachine: two short strings for the refinement, one    *)
(* longer string for the ranges of BITCOUNT.                                *)
EXTENDS BitmapMachine

CONSTANTS k1, k2

MCSourceLists == {<<k1>>, <<k1, k2>>, <<k2, k1, k2>>}

MCOneSource == {<<k1>>}

MCValues == {<<>>, <<[b \in BitPos |-> 1]>>}

===============================================================================
