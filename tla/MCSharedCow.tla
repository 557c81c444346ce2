---------------------------- MODULE MCSharedCow ----------------------------
(* Values of the constants for model checking SharedCowString, and with it *)
(* SharedCow: two handles in one segment, two in the heap; contents of     *)
(* sizes 0 to 2.                                                           *)
EXTENDS SharedCowString, TLC

CONSTANTS h1, h2, h3, h4, segment, heap, b1, b2, b3, b4, b5

MCHome == [h \in Handle |-> IF h \in {h3, h4} THEN heap ELSE segment]
MCContents == {<<>>, <<"x">>, <<"y">>, <<"x", "y">>}
CowSymmetry == Permutations(Block) \cup Permutations({h1, h2})
                 \cup Permutations({h3, h4})
=============================================================================
