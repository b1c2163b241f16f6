------------------------------- MODULE LedPwm -------------------------------
(***************************************************************************)
(* drv/04pwm/led_pwm.c: the set-up of two PWM controllers through sysfs    *)
(* (pwm_init) and the endless brightness ramp a forked worker runs         *)
(* (pwm_open).  The kernel's PWM sysfs interface is external and modelled  *)
(* from how the code uses it.                                              *)
(***************************************************************************)
EXTENDS Integers, FiniteSets, Sequences

CONSTANTS
  Pids,      \* the process ids fork() may hand out
  DutyMax,   \* PWM_DUTY2 in units of (duty2 - duty1) / 1000: 1000 in the code
  Fast,      \* the larger of the two values of step in key.c: 10 in the code
  Node0,     \* number in the name of the node for channel 0 of pwmchip2
  LeftDuty,  \* duty cycles an earlier run may have left in the hardware
  Faults     \* whether an open or a write that could succeed may fail

ASSUME DutyAssumption ==
  /\ DutyMax \in Nat \ {0}
  /\ Fast \in Nat \ {0, 1}
  /\ DutyMax % Fast = 0
  /\ LeftDuty \subseteq 0..DutyMax
ASSUME EnvironmentAssumption ==
  /\ Node0 \in {0, 2}
  /\ Faults \in BOOLEAN

Chips == {0, 2}
Attrs == {"period", "duty_cycle", "enable"}

\* enum PWMX, and the two values key.c gives to "step".
PWM0 == 0
PWM2 == 1
PWM0_2 == 2
Modes == {PWM0, PWM2, PWM0_2}
Steps == {1, Fast}

VARIABLES
  nodes,  \* <<chip, n>> such that /sys/class/pwm/pwmchip<chip>/pwm<n> exists
  chan,   \* chan[c]: the attributes of node <<c, c>>, the only one configured
  muxed,  \* whether gpio_mode has enabled the controllers and muxed both pads
  ipc,    \* progress of pwm_init: 0 .. InitDone
  ramp    \* ramp[p]: process p, a worker inside pwm_open unless it is "free"

pwmVars == <<nodes, chan, muxed, ipc, ramp>>

-----------------------------------------------------------------------------
(* The kernel's side of an attribute write, and pwm_config.                 *)

\* The PWM core refuses a duty cycle that is negative or longer than the period
\* and refuses to enable a channel that has no period.
Accepts(n, attr, val) ==
  \/ attr = "period" /\ val >= chan[n]["duty_cycle"]
  \/ attr = "duty_cycle" /\ chan[n]["period"] # 0 /\ val \in 0..chan[n]["period"]
  \/ attr = "enable" /\ chan[n]["period"] # 0

\* pwm_config(attr, val, n) = ret.  Only a failing open is an error: a write
\* that fails is reported on stderr and the function still returns 0.
PwmConfig(attr, val, n, ret) ==
  \/ /\ ret = -1
     /\ <<n, n>> \notin nodes \/ Faults
     /\ UNCHANGED chan
  \/ /\ ret = 0
     /\ <<n, n>> \in nodes
     /\ ~Accepts(n, attr, val) \/ Faults
     /\ UNCHANGED chan
  \/ /\ ret = 0
     /\ <<n, n>> \in nodes
     /\ Accepts(n, attr, val)
     /\ chan' = [chan EXCEPT ![n] = [@ EXCEPT ![attr] = val]]

-----------------------------------------------------------------------------
(* pwm_init.                                                                *)

\* The six calls of pwm_config, in order; their results are ignored.
InitWrites == << <<"period", DutyMax, 0>>, <<"period", DutyMax, 2>>,
                 <<"duty_cycle", 0, 0>>,   <<"duty_cycle", 0, 2>>,
                 <<"enable", 1, 0>>,       <<"enable", 1, 2>> >>
InitDone == 9

\* Three calls of gpio_mode whose results are ignored.
PwmInitMux ==
  /\ ipc = 0
  /\ \/ muxed' = TRUE
     \/ Faults /\ UNCHANGED muxed
  /\ ipc' = 1
  /\ UNCHANGED <<nodes, chan, ramp>>

\* "0" (PWM0_CHANNEL) is written to the export file of chip c, for both chips.
ExportedNode(c) == <<c, IF c = 0 THEN 0 ELSE Node0>>

\* Export unless the path pwmchip<c>/pwm<c> exists.  A failing open or write
\* (the channel is exported already) makes pwm_init return -1 at once.
PwmInitExport(c, at) ==
  /\ ipc = at
  /\ \/ /\ <<c, c>> \in nodes
        /\ ipc' = at + 1
        /\ UNCHANGED nodes
     \/ /\ <<c, c>> \notin nodes
        /\ ExportedNode(c) \notin nodes
        /\ nodes' = nodes \cup {ExportedNode(c)}
        /\ ipc' = at + 1
     \/ /\ <<c, c>> \notin nodes
        /\ ExportedNode(c) \in nodes \/ Faults
        /\ ipc' = InitDone
        /\ UNCHANGED nodes
  /\ UNCHANGED <<chan, muxed, ramp>>

PwmInitWrite ==
  /\ ipc \in 3..8
  /\ \E ret \in {-1, 0} :
       LET w == InitWrites[ipc - 2] IN PwmConfig(w[1], w[2], w[3], ret)
  /\ ipc' = ipc + 1
  /\ UNCHANGED <<nodes, muxed, ramp>>

PwmInit ==
  \/ PwmInitMux
  \/ PwmInitExport(0, 1)
  \/ PwmInitExport(2, 2)
  \/ PwmInitWrite

-----------------------------------------------------------------------------
(* pwm_open: the ramp of worker p.                                          *)

Free == [st |-> "free", mode |-> PWM0, step |-> 1, duty |-> 0, up |-> TRUE,
         at |-> "start"]

\* A worker at the head of pwm_open(m, s).
Fresh(m, s) == [Free EXCEPT !.st = "running", !.mode = m, !.step = s]

\* The process exits (st = "zombie") and waits to be reaped; where it stopped
\* no longer matters.
Exited == [Free EXCEPT !.st = "zombie"]

Running(p) == ramp[p].st = "running"

\* Mutant: the first write parks the chip the mode drives.
FirstWriteSwapped(w) == CASE w.mode = PWM0 -> <<0, DutyMax>>
                          [] w.mode = PWM2 -> <<2, DutyMax>>
                          [] OTHER         -> <<0, w.duty>>

\* Mutant: the second write sends PWM_DUTY2, like the first one, not dutys.
SecondWriteFull(w) == <<IF w.mode = PWM0 THEN 0 ELSE 2, DutyMax>>

\* <<chip, duty>> of the two writes of a round.
FirstWrite(w) == CASE w.mode = PWM0 -> <<2, DutyMax>>
                   [] w.mode = PWM2 -> <<0, DutyMax>>
                   [] OTHER         -> <<0, w.duty>>
SecondWrite(w) == <<IF w.mode = PWM0 THEN 0 ELSE 2, w.duty>>

NextDuty(w) == IF w.up THEN w.duty + w.step ELSE w.duty - w.step

\* The end of usleep, or the entry to the loop, and the next duty.
RampStep(p) ==
  /\ Running(p)
  /\ ramp[p].at \in {"start", "sleep"}
  /\ ramp' = [ramp EXCEPT ![p] =
                [@ EXCEPT !.duty = NextDuty(ramp[p]), !.at = "first"]]
  /\ UNCHANGED <<nodes, chan, muxed, ipc>>

\* Mutant: the result of the first write is ignored, like in pwm_init.
RampFirstUnchecked(p) ==
  /\ Running(p)
  /\ ramp[p].at = "first"
  /\ LET w == FirstWrite(ramp[p])
     IN \E ret \in {-1, 0} : PwmConfig("duty_cycle", w[2], w[1], ret)
  /\ ramp' = [ramp EXCEPT ![p] = [@ EXCEPT !.at = "second"]]
  /\ UNCHANGED <<nodes, muxed, ipc>>

\* The first write of the round; the worker exits if pwm_config says -1.
RampFirst(p) ==
  /\ Running(p)
  /\ ramp[p].at = "first"
  /\ LET w == FirstWrite(ramp[p]) IN
       \/ /\ PwmConfig("duty_cycle", w[2], w[1], -1)
          /\ ramp' = [ramp EXCEPT ![p] = Exited]
       \/ /\ PwmConfig("duty_cycle", w[2], w[1], 0)
          /\ ramp' = [ramp EXCEPT ![p] = [@ EXCEPT !.at = "second"]]
  /\ UNCHANGED <<nodes, muxed, ipc>>

\* Mutant: the test at PWM_DUTY2 is one step late.
TurnedLate(w) == IF w.duty = 0 THEN TRUE
                 ELSE IF w.duty \notin 0..DutyMax THEN FALSE
                 ELSE w.up

\* The direction the ramp takes after a round, two tests in sequence.  duty is
\* unsigned in the code: below 0 it would be a huge value.
Turned(w) == IF w.duty = 0 THEN TRUE
             ELSE IF w.duty \notin 0..(DutyMax - 1) THEN FALSE
             ELSE w.up

\* The second write, the two tests that turn the ramp, and the start of usleep.
RampSecond(p) ==
  /\ Running(p)
  /\ ramp[p].at = "second"
  /\ LET w == SecondWrite(ramp[p]) IN
       \/ /\ PwmConfig("duty_cycle", w[2], w[1], -1)
          /\ ramp' = [ramp EXCEPT ![p] = Exited]
       \/ /\ PwmConfig("duty_cycle", w[2], w[1], 0)
          /\ ramp' = [ramp EXCEPT ![p] = [@ EXCEPT !.up = Turned(ramp[p]),
                                                   !.at = "sleep"]]
  /\ UNCHANGED <<nodes, muxed, ipc>>

Ramp(p) == RampStep(p) \/ RampFirst(p) \/ RampSecond(p)

-----------------------------------------------------------------------------
(* One caller: pwm_init, then one worker in any mode.                       *)

\* What earlier runs of the program, or an administrator, left in a channel.
Attributes(per, duty, en) ==
  [a \in Attrs |-> CASE a = "period"     -> per
                     [] a = "duty_cycle" -> duty
                     [] OTHER            -> en]

Left(c) ==
  {Attributes(0, 0, 0)} \cup
  {Attributes(DutyMax, l[1], l[2]) :
     l \in IF <<c, c>> \in nodes THEN LeftDuty \X {0, 1} ELSE {}}

PwmLeftovers ==
  /\ nodes \in SUBSET {<<0, 0>>, ExportedNode(2), <<2, 2>>}
  /\ \E left0 \in Left(0), left2 \in Left(2) :
       chan = [c \in Chips |-> IF c = 0 THEN left0 ELSE left2]
  /\ muxed = FALSE

PwmStart ==
  /\ PwmLeftovers
  /\ ipc = 0
  /\ ramp = [p \in Pids |-> Free]

Open(p) ==
  /\ ipc = InitDone
  /\ \A q \in Pids : ramp[q] = Free
  /\ \E m \in Modes, s \in Steps : ramp' = [ramp EXCEPT ![p] = Fresh(m, s)]
  /\ UNCHANGED <<nodes, chan, muxed, ipc>>

PwmNext == PwmInit \/ \E p \in Pids : Open(p) \/ Ramp(p)

PwmFairness ==
  /\ WF_pwmVars(PwmInit)
  /\ WF_pwmVars(\E p \in Pids : Open(p))
  /\ \A p \in Pids : WF_pwmVars(Ramp(p))

PwmSpec == PwmStart /\ [][PwmNext]_pwmVars /\ PwmFairness

-----------------------------------------------------------------------------
(* Properties.                                                              *)

Worker == [st : {"free", "running", "zombie"}, mode : Modes, step : Steps,
           duty : Int, up : BOOLEAN, at : {"start", "first", "second", "sleep"}]

\* Every variable stays within the values the C types and sysfs allow; a duty
\* is any integer here, RampInRange says which ones occur.
PwmTypeOK ==
  /\ nodes \subseteq Chips \X Chips
  /\ chan \in [Chips -> [Attrs -> 0..DutyMax]]
  /\ muxed \in BOOLEAN
  /\ ipc \in 0..InitDone
  /\ ramp \in [Pids -> Worker]

\* The ramp of pwm_open neither passes PWM_DUTY2, which the PWM core would
\* refuse while pwm_config says nothing, nor wraps the unsigned duty below 0:
\* the turn at the end of a round always comes before the step that would.
RampInRange == \A p \in Pids : Running(p) => ramp[p].duty \in 0..DutyMax

\* A worker that got through a round has found both nodes: each of the three
\* modes writes to both chips and exits at the first -1 of pwm_config.
RoundNeedsBothNodes ==
  \A p \in Pids : Running(p) /\ ramp[p].at = "sleep" => \A c \in Chips : <<c, c>> \in nodes

\* The chips whose brightness ramps in a mode; the other one is parked at
\* PWM_DUTY2.
Driven(m) == CASE m = PWM0 -> {0} [] m = PWM2 -> {2} [] OTHER -> Chips

ShowsRound(p) ==
  /\ muxed
  /\ \A c \in Chips :
       /\ chan[c]["enable"] = 1
       /\ chan[c]["duty_cycle"] =
            IF c \in Driven(ramp[p].mode) THEN ramp[p].duty ELSE DutyMax

\* While a worker sleeps between rounds the hardware shows what the round
\* wrote: the pads are muxed, both channels enabled, and no write was silently
\* refused, whatever an earlier run left.  Only an I/O fault can break it.
RoundIsShown ==
  \A p \in Pids :
     ~Faults /\ Running(p) /\ ramp[p].at = "sleep" => ShowsRound(p)

\* An LED a worker drives, seen dark (seen full), is full (dark) again later:
\* the ramp never sticks between its two ends.
Breathes ==
  \A p \in Pids, c \in Chips :
    LET drives == Running(p) /\ c \in Driven(ramp[p].mode)
        level  == chan[c]["duty_cycle"]
    IN /\ drives /\ level = 0 ~> ~drives \/ level = DutyMax
       /\ drives /\ level = DutyMax ~> ~drives \/ level = 0
=============================================================================
