--------------------------- MODULE MCKernelModules ---------------------------
(* Instances of KernelModules: three device modules and two loads of memory. *)
EXTENDS KernelModules, TLC

\* Chunks and major numbers are interchangeable: no property names one.
MCSymmetry == Permutations(Chunks) \cup Permutations(Majors)
=============================================================================
