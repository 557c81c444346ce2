----------------------------- MODULE MCMappedFile -----------------------------
(* Arguments and contents for the runs of MappedFile. *)
EXTENDS MappedFile

CONSTANTS p1, p2

Args(W, D, M, S) == [writable : W, allow_dirty : D, mode : M, size : S]

Vals == {0, 1, 2}
Bits == {0, 1}

(* Writers and readers of every mode and two sizes; who reads into memory  *)
(* may leave the size at its default, 0.                                   *)
Careful == Args({TRUE}, {FALSE}, Mode, {1, 2})
             \cup Args({FALSE}, {FALSE}, {"mapped"}, {0})
             \cup Args({FALSE}, {FALSE}, {"heap"}, {0, 1, 2})

(* For constructions that run at the same time: those whose steps differ,  *)
(* and writers that do not mind the flag.                                  *)
Racing == Args({TRUE}, {FALSE}, {"mapped", "heap"}, {1, 2})
            \cup Args({TRUE}, {TRUE}, {"mapped"}, {1, 2})
            \cup Args({FALSE}, {FALSE}, {"heap"}, {0, 2})
===============================================================================
