------------------------------ MODULE Ultrasonic ------------------------------
(***************************************************************************)
(* drv/07ultrasonic: the loop that triggers an ultrasonic sensor and times *)
(* its echo.  The program looks at tv_nsec only, so its clock starts again *)
(* at 0 every second.  Time passes between any two steps: the program can  *)
(* be preempted anywhere.                                                  *)
(***************************************************************************)
EXTENDS Integers

CONSTANTS
  Second,   \* ticks of tv_nsec before it starts again
  Pulse,    \* ticks the trigger pulse must last; 10 microseconds
  Nap,      \* ticks of the sleep after each round; 10 milliseconds
  EchoMax,  \* bound: ticks of the longest echo
  MaxFaults \* bound: writes of the trigger and reads of the echo that fail

ASSUME UltrasonicAssumption ==
  /\ {Pulse, Nap, EchoMax} \subseteq Nat \ {0}
  /\ Second \in Nat /\ MaxFaults \in Nat
  /\ Pulse + 1 < Second /\ Nap < Second /\ EchoMax < Second

VARIABLES
  pc,       \* "high", "stamp", "spin", "low", "poll", "read" or "nap"
  now,      \* tv_nsec of the clock
  start, end,
  nap,      \* ticks left to sleep
  pending,  \* the value file has an event
  sensor,   \* "idle", "armed" or "echo": the level of gpio4_5 is high in "echo"
  flight,   \* ticks since the echo's rising edge
  pulse,    \* ticks gpio4_4 is high, up to Pulse + 1
  low,      \* gpio4_4 is low
  short,    \* history: the round's pulse was too short for the sensor
  refused,  \* history: the round has no pulse because a write of gpio4_4 failed
  stale,    \* history: end is from before the clock's last rollover
  from,     \* history: the event start was stamped at
  since,    \* history: ticks since start was stamped, up to Second
  printed,  \* the distance the last round printed, 0 when it printed none
  faults

ultraVars == <<pc, now, start, end, nap, pending, sensor, flight, pulse, low,
               short, refused, stale, from, since, printed, faults>>

world == <<now, pending, sensor, flight>>
stamps == <<start, end, stale, from, since>>
trigger == <<pulse, low, short, refused>>

\* What end holds before its first stamp.
Garbage == {-Second, 2 * Second}

-----------------------------------------------------------------------------
(* The program.                                                             *)

StampStart(what) ==
  /\ start' = now
  /\ from' = what
  /\ since' = 0
  /\ UNCHANGED <<end, stale>>

StampEnd ==
  /\ end' = now
  /\ stale' = FALSE
  /\ UNCHANGED <<start, from, since>>

\* One call fails, of those the program does not look at.
Fault == faults < MaxFaults /\ faults' = faults + 1

\* gpio_write(pptr4_4, "value", "1"), whose failure goes unnoticed: the line
\* stays as it is.
High ==
  /\ pc = "high"
  /\ pc' = "stamp"
  /\ \/ low' = FALSE /\ pulse' = (IF low THEN 0 ELSE pulse) /\ UNCHANGED faults
     \/ Fault /\ UNCHANGED <<low, pulse>>
  /\ refused' = low'
  /\ printed' = 0
  /\ UNCHANGED <<world, stamps, nap, short>>

Stamp ==
  /\ pc = "stamp"
  /\ pc' = "spin"
  /\ StampStart("trigger")
  /\ UNCHANGED <<world, trigger, nap, printed, faults>>

\* Mutant: the program looks at the clock once.
SpinOnce ==
  /\ pc = "spin"
  /\ pc' = "low"
  /\ StampEnd
  /\ UNCHANGED <<world, trigger, nap, printed, faults>>

\* Mutant: end is not read again while the loop runs.
SpinFrozen ==
  /\ pc = "spin"
  /\ \/ end - start <= Pulse /\ stale /\ StampEnd /\ UNCHANGED pc
     \/ end - start > Pulse /\ pc' = "low" /\ UNCHANGED stamps
  /\ UNCHANGED <<world, trigger, nap, printed, faults>>

\* The loop tests the difference of end, which may be of an earlier round, and
\* start before it looks at the clock.
Spin ==
  /\ pc = "spin"
  /\ \/ end - start <= Pulse /\ StampEnd /\ UNCHANGED pc
     \/ end - start > Pulse /\ pc' = "low" /\ UNCHANGED stamps
  /\ UNCHANGED <<world, trigger, nap, printed, faults>>

\* gpio_write(pptr4_4, "value", "0"), whose failure goes unnoticed: the end of
\* a long enough pulse arms an idle sensor.
Low ==
  /\ pc = "low"
  /\ pc' = "poll"
  /\ \/ low' = TRUE /\ UNCHANGED <<refused, faults>>
     \/ Fault /\ refused' = TRUE /\ UNCHANGED low
  /\ short' = (~low /\ pulse < Pulse)
  /\ sensor' = IF sensor = "idle" /\ ~refused' /\ ~short' THEN "armed" ELSE sensor
  /\ UNCHANGED <<now, pending, flight, stamps, nap, pulse, printed>>

Poll ==
  /\ pc = "poll"
  /\ pending
  /\ pc' = "read"
  /\ UNCHANGED <<world, stamps, trigger, nap, printed, faults>>

\* Mutant: the sign is ignored.
DistanceUnsigned(e, s) == IF e < s THEN s - e ELSE e - s

\* 0 stands for what is not printed; the scale is left out.
Distance(e, s) == IF e > s THEN e - s ELSE 0

\* lseek, read, and the stamp the level asks for; when one of the two calls
\* fails, the empty buffer counts as level 0, and the event may stay.
Read ==
  /\ pc = "read"
  /\ pc' = "nap"
  /\ nap' = Nap
  /\ \/ pending' = FALSE /\ sensor = "echo" /\ StampStart("rise") /\ UNCHANGED <<printed, faults>>
     \/ /\ \/ pending' = FALSE /\ sensor # "echo" /\ UNCHANGED faults
           \/ pending' \in BOOLEAN /\ Fault
        /\ StampEnd
        /\ printed' = Distance(now, start)
  /\ UNCHANGED <<now, sensor, flight, trigger>>

\* Mutant: the sensor is triggered once, before the loop.
WakeUntriggered ==
  /\ pc = "nap"
  /\ nap = 0
  /\ pc' = "poll"
  /\ printed' = 0
  /\ UNCHANGED <<world, stamps, trigger, nap, faults>>

Wake ==
  /\ pc = "nap"
  /\ nap = 0
  /\ pc' = "high"
  /\ UNCHANGED <<world, stamps, trigger, nap, printed, faults>>

Main == High \/ Stamp \/ Spin \/ Low \/ Poll \/ Read \/ Wake

-----------------------------------------------------------------------------
(* Time and the sensor.                                                     *)

Tick ==
  /\ ~(sensor = "echo" /\ flight = EchoMax)
  /\ now' = (now + 1) % Second
  /\ nap' = IF nap > 0 THEN nap - 1 ELSE 0
  /\ flight' = IF sensor = "echo" THEN flight + 1 ELSE flight
  /\ pulse' = IF ~low /\ pulse <= Pulse THEN pulse + 1 ELSE pulse
  /\ stale' = (stale \/ now' = 0)
  /\ since' = IF since < Second THEN since + 1 ELSE since
  /\ UNCHANGED <<pc, start, end, pending, sensor, low, short, refused, from, printed, faults>>

\* Both edges of gpio4_5 raise the event.
Rise ==
  /\ sensor = "armed"
  /\ sensor' = "echo"
  /\ flight' = 0
  /\ pending' = TRUE
  /\ UNCHANGED <<pc, now, stamps, trigger, nap, printed, faults>>

Fall ==
  /\ sensor = "echo"
  /\ flight > 0
  /\ sensor' = "idle"
  /\ pending' = TRUE
  /\ UNCHANGED <<pc, now, flight, stamps, trigger, nap, printed, faults>>

-----------------------------------------------------------------------------
\* The set-up has read the value file, or failed to and gone on with the event of
\* its opening; the sensor may still be busy with a trigger from before, and end
\* is not initialized.
UltraInit ==
  /\ pc = "high"
  /\ now = 0
  /\ start = 0
  /\ end \in Garbage
  /\ nap = 0
  /\ pending \in BOOLEAN
  /\ sensor \in {"idle", "armed", "echo"}
  /\ flight = 0
  /\ pulse = 0
  /\ low = TRUE
  /\ short = FALSE
  /\ refused = FALSE
  /\ stale = TRUE
  /\ from = "none"
  /\ since = 0
  /\ printed = 0
  /\ faults = 0

UltraNext == Main \/ Tick \/ Rise \/ Fall

UltraSpec == UltraInit /\ [][UltraNext]_ultraVars

\* The program is scheduled, time passes and the sensor answers.  The second in
\* which the spin samples the clock has nothing to do with when the program is
\* preempted, so it does not miss the end of every second for ever.
UltraFairSpec ==
  /\ UltraSpec
  /\ WF_ultraVars(Main)
  /\ WF_ultraVars(Tick)
  /\ WF_ultraVars(Rise \/ Fall)
  /\ SF_ultraVars(Spin /\ now - start > Pulse)

-----------------------------------------------------------------------------
(* Properties.                                                              *)

\* The stamps are times of the clock, or garbage before the first stamp.
UltraTypeOK ==
  /\ pc \in {"high", "stamp", "spin", "low", "poll", "read", "nap"}
  /\ now \in 0..Second - 1
  /\ start \in 0..Second - 1
  /\ end \in 0..Second - 1 \cup Garbage
  /\ nap \in 0..Nap
  /\ pending \in BOOLEAN
  /\ sensor \in {"idle", "armed", "echo"}
  /\ flight \in 0..EchoMax
  /\ pulse \in 0..Pulse + 1
  /\ {low, short, refused, stale} \subseteq BOOLEAN
  /\ from \in {"none", "trigger", "rise"}
  /\ since \in 0..Second
  /\ printed \in 0..Second - 1
  /\ faults \in 0..MaxFaults

\* The spin holds the trigger high long enough for the sensor, if the write that
\* raises it succeeded, unless end was never stamped or the second began anew
\* after it was.
PulseLongEnough == pc = "low" /\ ~low /\ pulse < Pulse => stale

\* The program waits for an event that cannot come only after such a short
\* pulse, or when the sysfs refused to raise or to lower the trigger in this
\* round: an answer to an earlier trigger, which the sensor was still busy with,
\* is never lost, and a failed round costs nothing in the next one.
WaitsForEcho == pc = "poll" /\ ~pending /\ sensor = "idle" => short \/ refused

\* The spin ends, however often the second ends first, unless start was stamped
\* in the last ticks of a second: then no tv_nsec is ever large enough.
SpinEnds == (pc = "spin" /\ start + Pulse + 1 < Second) ~> (pc = "low")

\* What is printed is the time since the round's own trigger, never since an
\* earlier one or since the echo's rising edge: a second that ends in between
\* suppresses the line and never falsifies it, unless the stamps are a whole
\* second apart.
PrintedIsElapsed ==
  [][pc = "read" /\ printed' > 0 =>
       from = "trigger" /\ (printed' = since \/ since = Second)]_ultraVars
=============================================================================
