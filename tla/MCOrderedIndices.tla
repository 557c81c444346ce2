--------------------------- MODULE MCOrderedIndices ---------------------------
(* The order of the indices for the run of OrderedIndices, and a bound on  *)
(* the elements of the lists, below which states are not continued.        *)
EXTENDS OrderedIndices

TwoIndices == <<"name", "owner">>

MaxListed == 2
FewListed == Height(old_values) + Height(removed_values) <= MaxListed
===============================================================================
