-------------------------- MODULE MCFileIngestion --------------------------
(***************************************************************************)
(* Instances of FileIngestion for TLC, and the chunker over bounded texts. *)
(***************************************************************************)
EXTENDS FileIngestion, Chunker, TLC

CONSTANTS f1, f2, s1, s2, j1, j2, b1, c1, c2

\* Clients are interchangeable, the jobs are taken in order.
Symmetry == Permutations(Clients)

\* All texts of at most seven runes, and all sizes up to four with all
\* overlaps up to the size and one beyond it.
ASSUME TextsChunked ==
    \A total \in 0 .. 7, size \in 1 .. 4, overlap \in 0 .. 5 :
      \A spaces \in SUBSET (0 .. total - 1) :
        ChunksOK(total, spaces, size, overlap)

=============================================================================
