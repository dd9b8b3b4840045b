------------------------- MODULE MCEmbeddingReindex -------------------------
(* Instances of EmbeddingReindex for TLC: two pods, one job or two. *)
EXTENDS EmbeddingReindex, TLC

CONSTANTS p1, p2, j1, j2

PodNames == {p1, p2}
JobNames == {j1, j2}
JobSymmetry == Permutations(JobNames)
=============================================================================
