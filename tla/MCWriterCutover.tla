--------------------------- MODULE MCWriterCutover ---------------------------
(* Two processes over one scope; the second batch leaves a dangling reference. *)
EXTENDS WriterCutover, TLC

CONSTANTS p1, p2

SoundCutoffs == {1, 3}
TwoValues == {0, 1}
Processes == Permutations({p1, p2})
=============================================================================
