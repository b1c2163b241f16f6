----------------------------- MODULE MCDisplay -----------------------------
(* Two interchangeable animations for TLC. *)
EXTENDS Display, TLC

CONSTANTS p1, p2

Twins == Permutations({p1, p2})
=============================================================================
