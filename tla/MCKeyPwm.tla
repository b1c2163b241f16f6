------------------------------ MODULE MCKeyPwm ------------------------------
(* Instances of KeyPwm: a parent, its worker, and the orphans of a crash. *)
EXTENDS KeyPwm, TLC

\* The hardware as a run of the program that ended in the dark leaves it.
MCLeftDuty == {0}

\* Process ids are interchangeable: no property names one.
MCSymmetry == Permutations(Pids)
=============================================================================
