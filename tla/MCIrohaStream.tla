--------------------------- MODULE MCIrohaStream ---------------------------
(* Instances on which TLC checks IrohaStream. *)
EXTENDS IrohaStream, TLC

CONSTANTS p1, p2

ProcSymmetry == Permutations({p1, p2})
=============================================================================
