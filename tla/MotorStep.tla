------------------------------ MODULE MotorStep ------------------------------
(***************************************************************************)
(* drv/06motor_step: a four-coil stepper motor driven through the sysfs    *)
(* value files of four GPIOs.  The program switches the four pads to GPIO  *)
(* and only reports when that fails.  Each phase writes all four files,    *)
(* one after the other, ignores what the writes return, and rests.  One    *)
(* step is one pad or one write.  The coils of the program before this one *)
(* may still be driven, because nothing switches them off when it is       *)
(* killed.                                                                 *)
(***************************************************************************)
EXTENDS Integers

CONSTANTS
  MaxFaults,  \* bound: calls of gpio_mode and writes of sysfs files that fail
  MaxCrash    \* bound: how often the program is killed

ASSUME MotorAssumption == MaxFaults \in Nat /\ MaxCrash \in Nat

\* gpio4_11, gpio5_12, gpio5_13 and gpio5_14; also the phases, by the coil
\* each one drives.
Coils == 1..4

VARIABLES
  pc,       \* "mux", "setup", "write", "rest" or "dead"
  phase,    \* the coil the running phase drives
  i,        \* the next of the four pads or files of the set-up or the phase
  pads,     \* coils whose pad is switched to GPIO, and stays so when a program ends
  on,       \* on[c]: the GPIO of coil c is high
  rotor,    \* the detent of the rotor
  dirty,    \* history: a write of the running phase failed
  held,     \* history: the rotor has followed the program to a rest, and no write failed since
  faults, crashes

motorVars == <<pc, phase, i, pads, on, rotor, dirty, held, faults, crashes>>

\* A GPIO drives its coil through its pad.
Driven == {c \in pads : on[c]}

-----------------------------------------------------------------------------
(* The motor.                                                               *)

\* The detents next to r, and r.
Near(r) == {r, (r % 4) + 1, ((r + 2) % 4) + 1}

\* A coil driven alone pulls the rotor from the detents next to it; from the
\* opposite one the rotor may also stay.  Otherwise the rotor holds.
Pulled(coils, r) ==
  IF \E c \in Coils : coils = {c}
  THEN coils \cup (IF coils \subseteq Near(r) THEN {} ELSE {r})
  ELSE {r}

\* A GPIO changes and the rotor follows the coils.
Switch(c, v) ==
  /\ on' = [on EXCEPT ![c] = v]
  /\ pads' = pads
  /\ rotor' \in Pulled(Driven', rotor)

-----------------------------------------------------------------------------
(* The program.                                                             *)

\* Mutants: the last phase is the end, and a wrong step.
NextPhaseOnce(p) == IF p = 4 THEN 4 ELSE p + 1
NextPhaseTwo(p) == ((p + 1) % 4) + 1

NextPhase(p) == (p % 4) + 1

\* Mutant: the files are written in the other order.
FileReversed(k) == 5 - k

\* The coil of the k-th write of a phase.
File(k) == k

\* motor_step_init: gpio_mode switches a pad; a failure is only reported.
SwitchPad ==
  /\ pc = "mux"
  /\ \/ /\ pads' = pads \cup {File(i)}
        /\ on' = on
        /\ rotor' \in Pulled(Driven', rotor)
        /\ UNCHANGED faults
     \/ /\ faults < MaxFaults
        /\ faults' = faults + 1
        /\ UNCHANGED <<pads, on, rotor>>
  /\ i' = (i % 4) + 1
  /\ pc' = IF i = 4 THEN "setup" ELSE "mux"
  /\ UNCHANGED <<phase, dirty, held, crashes>>

\* "direction" is set to "out", which drives the pin low; an error ends the
\* program.
SetUp ==
  /\ pc = "setup"
  /\ \/ /\ Switch(File(i), FALSE)
        /\ i' = (i % 4) + 1
        /\ pc' = IF i = 4 THEN "write" ELSE "setup"
        /\ UNCHANGED faults
     \/ /\ faults < MaxFaults
        /\ faults' = faults + 1
        /\ pc' = "dead"
        /\ UNCHANGED <<i, pads, on, rotor>>
  /\ UNCHANGED <<phase, dirty, held, crashes>>

\* Mutant: a phase only drives its own coil and leaves the other three alone.
WriteValueLazily ==
  /\ pc = "write"
  /\ \/ /\ IF File(i) = phase THEN Switch(File(i), TRUE) ELSE UNCHANGED <<pads, on, rotor>>
        /\ held' = (held \/ (i = 4 /\ ~dirty /\ pads = Coils /\ {rotor'} = Driven'))
        /\ UNCHANGED <<dirty, faults>>
     \/ /\ faults < MaxFaults
        /\ faults' = faults + 1
        /\ dirty' = TRUE
        /\ held' = FALSE
        /\ UNCHANGED <<pads, on, rotor>>
  /\ i' = (i % 4) + 1
  /\ pc' = IF i = 4 THEN "rest" ELSE "write"
  /\ UNCHANGED <<phase, crashes>>

\* The write of one value file, or its failure, which main() ignores.
WriteValue ==
  /\ pc = "write"
  /\ \/ /\ Switch(File(i), File(i) = phase)
        /\ held' = (held \/ (i = 4 /\ ~dirty /\ pads = Coils /\ {rotor'} = Driven'))
        /\ UNCHANGED <<dirty, faults>>
     \/ /\ faults < MaxFaults
        /\ faults' = faults + 1
        /\ dirty' = TRUE
        /\ held' = FALSE
        /\ UNCHANGED <<pads, on, rotor>>
  /\ i' = (i % 4) + 1
  /\ pc' = IF i = 4 THEN "rest" ELSE "write"
  /\ UNCHANGED <<phase, crashes>>

\* usleep(20000)
Rest ==
  /\ pc = "rest"
  /\ pc' = "write"
  /\ phase' = NextPhase(phase)
  /\ dirty' = FALSE
  /\ UNCHANGED <<i, pads, on, rotor, held, faults, crashes>>

\* The program is killed; its pads and GPIOs stay as they are.
Kill ==
  /\ pc # "dead"
  /\ crashes < MaxCrash
  /\ crashes' = crashes + 1
  /\ pc' = "dead"
  /\ held' = FALSE
  /\ UNCHANGED <<phase, i, pads, on, rotor, dirty, faults>>

Restart ==
  /\ pc = "dead"
  /\ pc' = "mux"
  /\ phase' = 1
  /\ i' = 1
  /\ dirty' = FALSE
  /\ UNCHANGED <<pads, on, rotor, held, faults, crashes>>

-----------------------------------------------------------------------------
MotorInit ==
  /\ pc = "mux"
  /\ phase = 1
  /\ i = 1
  /\ pads \in SUBSET Coils
  /\ on \in [Coils -> BOOLEAN]
  /\ rotor \in Coils
  /\ dirty = FALSE
  /\ held = FALSE
  /\ faults = 0
  /\ crashes = 0

Main == SwitchPad \/ SetUp \/ WriteValue \/ Rest

MotorNext == Main \/ Kill \/ Restart

MotorSpec == MotorInit /\ [][MotorNext]_motorVars

\* A running program is scheduled.
MotorFairness == WF_motorVars(Main)

MotorFairSpec == MotorSpec /\ MotorFairness

-----------------------------------------------------------------------------
(* Properties.                                                              *)

\* The phase and the write under way are one of the four.
MotorTypeOK ==
  /\ pc \in {"mux", "setup", "write", "rest", "dead"}
  /\ phase \in Coils
  /\ i \in Coils
  /\ pads \subseteq Coils
  /\ on \in [Coils -> BOOLEAN]
  /\ rotor \in Coils
  /\ dirty \in BOOLEAN
  /\ held \in BOOLEAN
  /\ faults \in 0..MaxFaults
  /\ crashes \in 0..MaxCrash

\* A phase whose writes all succeed ends with exactly its coil driven, or none
\* when its pad could not be switched, whatever earlier failures, or the program
\* killed before, left driven.
CleanPhaseIsExact == pc = "rest" /\ ~dirty => Driven = {phase} \cap pads

\* The order of the writes breaks before it makes, except from the last phase
\* to the first, where two neighbours are driven at once: never three coils,
\* never two opposite ones.
OverlapOnlyAtWrap ==
  pc \in {"write", "rest"} /\ faults = 0 => Driven \in {{}, {1, 4}} \cup {{c} : c \in Coils}

\* The coils and the rotor turn the motor as Rotor says, whatever coils and
\* detent the program found: it never turns back once it has hold of the rotor,
\* and loses its hold only when a write fails or it is killed.  A program with a
\* pad that could not be switched never has hold of the rotor.
R == INSTANCE Rotor WITH pos <- IF held THEN rotor ELSE 0
TurnsForward == R!RotorSpec

\* A program that is not killed for ever gets hold of the rotor again and keeps
\* it turning, if its four pads are switched.  The program goes on when they are
\* not, and then the motor may stand still although no write fails.
KeepsTurning == <>[](pc # "dead" /\ pads = Coils) => R!RotorProgress
=============================================================================
