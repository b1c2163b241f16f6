-------------------------------- MODULE Rotor --------------------------------
(***************************************************************************)
(* What drv/06motor_step promises: once the program has hold of the rotor, *)
(* the rotor goes from detent to detent in one direction, one at a time,   *)
(* and does not stop; a failure makes it let go.                           *)
(***************************************************************************)
EXTENDS Integers

VARIABLE pos  \* the detent, 1..4, or 0 while the program has no hold

RotorInit == pos = 0

Take == pos = 0 /\ pos' \in 1..4

Advance == pos # 0 /\ pos' = (pos % 4) + 1

LetGo == pos # 0 /\ pos' = 0

RotorNext == Take \/ Advance \/ LetGo

RotorSpec == RotorInit /\ [][RotorNext]_pos

RotorProgress == WF_pos(Take) /\ WF_pos(Advance)
=============================================================================
