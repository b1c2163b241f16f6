--------------------------- MODULE UltrasonicProofs ---------------------------
(***************************************************************************)
(* Proofs about Ultrasonic, for every length of the second, the pulse, the *)
(* sleep and the echo, and any number of failing calls.  They rest on one  *)
(* fact: whatever seconds end between two looks at tv_nsec, the clock is   *)
(* start plus the ticks since its stamp, at most one second apart.         *)
(***************************************************************************)
EXTENDS Ultrasonic, TLAPS

USE UltrasonicAssumption DEF UltrasonicAssumption

\* UltraTypeOK, one conjunct per variable.
UltraTypes ==
  /\ pc \in {"high", "stamp", "spin", "low", "poll", "read", "nap"}
  /\ now \in 0..Second - 1 /\ start \in 0..Second - 1
  /\ end \in 0..Second - 1 \cup Garbage
  /\ nap \in 0..Nap
  /\ pending \in BOOLEAN
  /\ sensor \in {"idle", "armed", "echo"}
  /\ flight \in 0..EchoMax
  /\ pulse \in 0..Pulse + 1
  /\ low \in BOOLEAN /\ short \in BOOLEAN /\ refused \in BOOLEAN /\ stale \in BOOLEAN
  /\ from \in {"none", "trigger", "rise"}
  /\ since \in 0..Second
  /\ printed \in 0..Second - 1
  /\ faults \in 0..MaxFaults

\* The clock and the ticks since start was stamped.
Elapsed == since < Second => now = start + since \/ now = start + since - Second

\* An end of this second is not in its future.
EndPassed == stale \/ end <= now

\* A trigger that is high has been so at least since start was stamped, and one
\* that is low in spite of the write is known to have no pulse.
HeldHigh ==
  /\ pc \in {"stamp", "spin", "low"} => (refused <=> low)
  /\ pc \in {"spin", "low"} /\ ~low /\ pulse <= Pulse => since <= pulse

\* What the spin has established when it is left.
SpunEnough == pc = "low" => end - start > Pulse

\* Until the round's line is printed, start is of the round's own trigger.
OwnTrigger ==
  /\ pc \in {"stamp", "spin", "low", "poll", "read"} => printed = 0
  /\ pc \in {"spin", "low", "poll", "read"} => from = "trigger"

UltraInv ==
  UltraTypes /\ Elapsed /\ EndPassed /\ HeldHigh /\ SpunEnough /\ OwnTrigger /\ WaitsForEcho

-----------------------------------------------------------------------------
LEMMA UltraInitHolds == UltraInit => UltraInv
<1> SUFFICES ASSUME UltraInit PROVE UltraInv
  OBVIOUS
<1>1. UltraTypes
  <2>1. /\ pending \in BOOLEAN /\ low \in BOOLEAN /\ short \in BOOLEAN /\ refused \in BOOLEAN
        /\ stale \in BOOLEAN
    BY DEF UltraInit
  <2>2. /\ pc = "high" /\ now = 0 /\ start = 0 /\ end \in Garbage /\ nap = 0
        /\ sensor \in {"idle", "armed", "echo"}
        /\ flight = 0 /\ pulse = 0 /\ from = "none" /\ since = 0 /\ printed = 0
        /\ faults = 0
    BY DEF UltraInit
  <2>3. QED
    BY <2>1, <2>2 DEF UltraTypes
<1>2. Elapsed /\ EndPassed
  <2>1. stale
    BY DEF UltraInit
  <2>2. start = 0 /\ since = 0 /\ now = 0
    BY DEF UltraInit
  <2>3. Elapsed
    BY <2>2 DEF Elapsed
  <2>4. QED
    BY <2>1, <2>3 DEF EndPassed
<1>3. pc = "high" /\ printed = 0
  BY DEF UltraInit
<1>4. HeldHigh /\ SpunEnough /\ OwnTrigger /\ WaitsForEcho
  BY <1>3 DEF HeldHigh, SpunEnough, OwnTrigger, WaitsForEcho
<1>5. QED
  BY <1>1, <1>2, <1>3, <1>4 DEF UltraInv

LEMMA HighStep == UltraInv /\ High => UltraInv'
<1> SUFFICES ASSUME UltraInv, High PROVE UltraInv'
  OBVIOUS
<1>1. low' \in BOOLEAN /\ refused' \in BOOLEAN /\ (refused' <=> low')
  BY DEF High, UltraInv, UltraTypes
<1>2. UltraTypes'
  <2>1. pulse' \in 0..Pulse + 1 /\ faults' \in 0..MaxFaults
    BY DEF High, Fault, UltraInv, UltraTypes
  <2>2. QED
    BY <1>1, <2>1 DEF High, UltraInv, UltraTypes, world, stamps
<1>3. Elapsed' /\ SpunEnough' /\ OwnTrigger' /\ WaitsForEcho'
  BY DEF High, UltraInv, Elapsed, SpunEnough, OwnTrigger, WaitsForEcho, world, stamps
<1>4. EndPassed' /\ HeldHigh'
  BY <1>1 DEF High, UltraInv, EndPassed, HeldHigh, world, stamps
<1>5. QED
  BY <1>2, <1>3, <1>4 DEF UltraInv

LEMMA StampStep == UltraInv /\ Stamp => UltraInv'
BY DEF Stamp, StampStart, UltraInv, UltraTypes, Elapsed, EndPassed, HeldHigh, SpunEnough,
       OwnTrigger, WaitsForEcho, world, stamps, trigger

LEMMA SpinStep == UltraInv /\ Spin => UltraInv'
<1> SUFFICES ASSUME UltraInv, Spin PROVE UltraInv'
  OBVIOUS
<1>1. CASE end - start <= Pulse /\ StampEnd /\ UNCHANGED pc
  <2>1. stale' \in BOOLEAN
    BY <1>1 DEF StampEnd
  <2>2. UltraTypes'
    BY <1>1, <2>1 DEF Spin, StampEnd, UltraInv, UltraTypes, world, trigger
  <2>3. EndPassed'
    BY <1>1 DEF Spin, StampEnd, UltraInv, UltraTypes, EndPassed, world
  <2>4. QED
    BY <1>1, <2>2, <2>3 DEF Spin, StampEnd, UltraInv, Elapsed, HeldHigh, SpunEnough,
                            OwnTrigger, WaitsForEcho, world, trigger
<1>2. CASE end - start > Pulse /\ pc' = "low" /\ UNCHANGED stamps
  BY <1>2 DEF Spin, UltraInv, UltraTypes, Elapsed, EndPassed, HeldHigh, SpunEnough,
              OwnTrigger, WaitsForEcho, world, stamps, trigger
<1>3. QED
  BY <1>1, <1>2 DEF Spin

LEMMA LowStep == UltraInv /\ Low => UltraInv'
<1> SUFFICES ASSUME UltraInv, Low PROVE UltraInv'
  OBVIOUS
<1>1. /\ short' \in BOOLEAN /\ low' \in BOOLEAN /\ refused' \in BOOLEAN
      /\ sensor' \in {"idle", "armed", "echo"} /\ faults' \in 0..MaxFaults
  <2>1. short' = (~low /\ pulse < Pulse)
    BY DEF Low
  <2>2. sensor' \in {"idle", "armed", "echo"}
    BY DEF Low, UltraInv, UltraTypes
  <2>3. low' \in BOOLEAN /\ refused' \in BOOLEAN
    BY DEF Low, UltraInv, UltraTypes
  <2>4. faults' \in 0..MaxFaults
    BY DEF Low, Fault, UltraInv, UltraTypes
  <2>5. QED
    BY <2>1, <2>2, <2>3, <2>4
<1>2. WaitsForEcho'
  BY <1>1 DEF Low, UltraInv, UltraTypes, WaitsForEcho
<1>3. UltraTypes'
  BY <1>1 DEF Low, UltraInv, UltraTypes, stamps
<1>4. EndPassed'
  BY DEF Low, UltraInv, EndPassed, stamps
<1>5. QED
  BY <1>2, <1>3, <1>4 DEF Low, UltraInv, Elapsed, HeldHigh, SpunEnough, OwnTrigger, stamps

LEMMA PollStep == UltraInv /\ Poll => UltraInv'
BY DEF Poll, UltraInv, UltraTypes, Elapsed, EndPassed, HeldHigh, SpunEnough, OwnTrigger,
       WaitsForEcho, world, stamps, trigger

\* What is printed, if anything, is the time since start.
LEMMA ReadPrints ==
  ASSUME UltraInv, Read, printed' > 0
  PROVE  from = "trigger" /\ (printed' = since \/ since = Second)
<1>1. printed' = Distance(now, start) /\ from = "trigger"
  BY DEF Read, UltraInv, UltraTypes, OwnTrigger
<1>2. now > start /\ printed' = now - start
  BY <1>1 DEF Distance, UltraInv, UltraTypes
<1>3. QED
  BY <1>1, <1>2 DEF UltraInv, UltraTypes, Elapsed

LEMMA ReadStep == UltraInv /\ Read => UltraInv'
<1> SUFFICES ASSUME UltraInv, Read PROVE UltraInv'
  OBVIOUS
<1>4. pending' \in BOOLEAN
  BY DEF Read
<1>1. CASE StampStart("rise") /\ UNCHANGED <<printed, faults>>
  <2>2. UltraTypes'
    BY <1>1, <1>4 DEF Read, StampStart, UltraInv, UltraTypes, trigger
  <2>3. EndPassed'
    BY <1>1 DEF Read, StampStart, UltraInv, EndPassed
  <2>4. Elapsed'
    BY <1>1 DEF Read, StampStart, UltraInv, UltraTypes, Elapsed
  <2>5. QED
    BY <1>1, <2>2, <2>3, <2>4 DEF Read, StampStart, UltraInv, HeldHigh, SpunEnough,
                                  OwnTrigger, WaitsForEcho, trigger
<1>2. CASE StampEnd /\ printed' = Distance(now, start) /\ (Fault \/ UNCHANGED faults)
  <2>1. Distance(now, start) \in 0..Second - 1 /\ faults' \in 0..MaxFaults
    BY <1>2 DEF Distance, Fault, UltraInv, UltraTypes
  <2>2. stale' \in BOOLEAN
    BY <1>2 DEF StampEnd
  <2>3. UltraTypes'
    BY <1>2, <1>4, <2>1, <2>2 DEF Read, StampEnd, UltraInv, UltraTypes, trigger
  <2>4. EndPassed'
    BY <1>2 DEF Read, StampEnd, UltraInv, UltraTypes, EndPassed
  <2>5. QED
    BY <1>2, <2>3, <2>4 DEF Read, StampEnd, UltraInv, Elapsed, HeldHigh, SpunEnough,
                            OwnTrigger, WaitsForEcho, trigger
<1>3. QED
  BY <1>1, <1>2 DEF Read

LEMMA WakeStep == UltraInv /\ Wake => UltraInv'
BY DEF Wake, UltraInv, UltraTypes, Elapsed, EndPassed, HeldHigh, SpunEnough, OwnTrigger,
       WaitsForEcho, world, stamps, trigger

\* The clock moves on by one, or starts again.
LEMMA Clock ==
  ASSUME NEW n \in 0..Second - 1
  PROVE  (n + 1) % Second = IF n + 1 = Second THEN 0 ELSE n + 1
OBVIOUS

LEMMA TickStep == UltraInv /\ Tick => UltraInv'
<1> SUFFICES ASSUME UltraInv, Tick PROVE UltraInv'
  OBVIOUS
<1>1. now' = IF now + 1 = Second THEN 0 ELSE now + 1
  BY Clock DEF Tick, UltraInv, UltraTypes
<1>2. UltraTypes'
  <2>1. now' \in 0..Second - 1 /\ nap' \in 0..Nap /\ pulse' \in 0..Pulse + 1 /\ since' \in 0..Second
    BY <1>1 DEF Tick, UltraInv, UltraTypes
  <2>2. flight' \in 0..EchoMax
    BY DEF Tick, UltraInv, UltraTypes
  <2>3. stale' \in BOOLEAN
    BY DEF Tick, UltraInv, UltraTypes
  <2>4. QED
    BY <2>1, <2>2, <2>3 DEF Tick, UltraInv, UltraTypes
<1>3. Elapsed'
  BY <1>1 DEF Tick, UltraInv, UltraTypes, Elapsed
<1>4. EndPassed'
  <2>1. SUFFICES ASSUME ~stale' PROVE end' <= now'
    BY DEF EndPassed
  <2>2. ~stale /\ now' # 0 /\ end' = end
    BY <2>1 DEF Tick
  <2>3. end <= now /\ now' = now + 1
    BY <1>1, <2>2 DEF UltraInv, EndPassed
  <2>4. QED
    BY <2>2, <2>3 DEF UltraInv, UltraTypes, Garbage
<1>5. HeldHigh'
  <2>1. UNCHANGED <<pc, low, refused>> /\ HeldHigh /\ since' \in Int /\ since' <= since + 1
    BY DEF Tick, UltraInv, UltraTypes
  <2>2. pc \in {"spin", "low"} /\ ~low /\ pulse' <= Pulse => pulse' = pulse + 1 /\ since <= pulse
    BY <2>1 DEF Tick, UltraInv, UltraTypes, HeldHigh
  <2>3. QED
    BY <2>1, <2>2 DEF UltraInv, UltraTypes, HeldHigh
<1>6. SpunEnough' /\ OwnTrigger'
  BY DEF Tick, UltraInv, SpunEnough, OwnTrigger
<1>7. WaitsForEcho'
  BY DEF Tick, UltraInv, WaitsForEcho
<1>8. QED
  BY <1>2, <1>3, <1>4, <1>5, <1>6, <1>7 DEF UltraInv

LEMMA SensorStep == UltraInv /\ (Rise \/ Fall) => UltraInv'
<1>1. UltraInv /\ Rise => UltraInv'
  BY DEF Rise, UltraInv, UltraTypes, Elapsed, EndPassed, HeldHigh, SpunEnough, OwnTrigger,
         WaitsForEcho, stamps, trigger
<1>2. UltraInv /\ Fall => UltraInv'
  BY DEF Fall, UltraInv, UltraTypes, Elapsed, EndPassed, HeldHigh, SpunEnough, OwnTrigger,
         WaitsForEcho, stamps, trigger
<1>3. QED
  BY <1>1, <1>2

LEMMA UltraInvariant == UltraSpec => []UltraInv
<1>1. UltraInv /\ [UltraNext]_ultraVars => UltraInv'
  <2> SUFFICES ASSUME UltraInv, [UltraNext]_ultraVars PROVE UltraInv'
    OBVIOUS
  <2>1. CASE UNCHANGED ultraVars
    BY <2>1 DEF ultraVars, world, stamps, trigger, UltraInv, UltraTypes, Elapsed, EndPassed,
                HeldHigh, SpunEnough, OwnTrigger, WaitsForEcho
  <2>2. CASE Main
    BY <2>2, HighStep, StampStep, SpinStep, LowStep, PollStep, ReadStep, WakeStep DEF Main
  <2>3. QED
    BY <2>1, <2>2, TickStep, SensorStep DEF UltraNext
<1>2. QED
  BY <1>1, UltraInitHolds, PTL DEF UltraSpec

-----------------------------------------------------------------------------
\* For all lengths: the stamps are times of the clock, or the garbage end holds
\* before its first stamp, and no counter of the loop leaves its range.
THEOREM UltraTypeCorrect == UltraSpec => []UltraTypeOK
<1>1. UltraInv => UltraTypeOK
  BY DEF UltraInv, UltraTypes, UltraTypeOK
<1>2. QED
  BY <1>1, UltraInvariant, PTL

\* For all lengths, and whatever writes and reads fail: the spin of main() never
\* lowers a raised trigger too early, unless end was never stamped or the second
\* began anew after it was.
THEOREM PulseIsLongEnough == UltraSpec => []PulseLongEnough
<1>1. UltraInv => PulseLongEnough
  <2> SUFFICES ASSUME UltraInv, pc = "low", ~low, pulse < Pulse, ~stale PROVE FALSE
    BY DEF PulseLongEnough
  <2>1. since <= pulse /\ end <= now /\ end - start > Pulse
    BY DEF UltraInv, UltraTypes, HeldHigh, EndPassed, SpunEnough
  <2>2. now > start + since
    BY <2>1 DEF UltraInv, UltraTypes
  <2>3. QED
    BY <2>1, <2>2 DEF UltraInv, UltraTypes, Elapsed
<1>2. QED
  BY <1>1, UltraInvariant, PTL

\* For all lengths, and whatever writes and reads fail: main() waits for an event
\* that cannot come only after a pulse that was too short or was refused in the
\* same round; the answer to an earlier trigger is never lost.
THEOREM EchoIsAwaited == UltraSpec => []WaitsForEcho
<1>1. UltraInv => WaitsForEcho
  BY DEF UltraInv
<1>2. QED
  BY <1>1, UltraInvariant, PTL

\* For all lengths: a printed distance is the time since the round's own trigger,
\* unless the two stamps are a whole second apart.
THEOREM PrintsElapsed == UltraSpec => PrintedIsElapsed
<1>1. UltraInv /\ [UltraNext]_ultraVars =>
        [pc = "read" /\ printed' > 0 =>
           from = "trigger" /\ (printed' = since \/ since = Second)]_ultraVars
  <2> SUFFICES ASSUME UltraInv, UltraNext, pc = "read", printed' > 0
               PROVE  from = "trigger" /\ (printed' = since \/ since = Second)
    OBVIOUS
  <2>1. printed = 0
    BY DEF UltraInv, OwnTrigger
  <2>2. Read
    BY <2>1 DEF UltraInv, UltraTypes, UltraNext, Main, High, Stamp, Spin, Low, Poll, Wake, Tick,
                Rise, Fall
  <2>3. QED
    BY <2>2, ReadPrints
<1>2. QED
  BY <1>1, UltraInvariant, PTL DEF UltraSpec, PrintedIsElapsed
=============================================================================
