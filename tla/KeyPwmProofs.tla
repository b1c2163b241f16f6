---------------------------- MODULE KeyPwmProofs ----------------------------
(***************************************************************************)
(* Proofs about LedPwm and KeyPwm, for any number of processes, crashes    *)
(* and faults, and any period and step.  The ramp stays between its two    *)
(* ends, and a round needs the nodes of both controllers.  The parent      *)
(* keeps exactly one child it knows, kills nothing else, shows the current *)
(* settings, and implements the safety part of Dimmer.                     *)
(***************************************************************************)
EXTENDS KeyPwm, FiniteSetTheorems, TLAPS

-----------------------------------------------------------------------------
(* LedPwm.                                                                  *)

\* The inductive invariant behind RampInRange, for the state w of one worker:
\* its duty is a multiple of its step within 0 .. DutyMax, and when the next
\* thing it does is to step, it is not yet at the end it moves to.
OnGrid(w) == \E k \in Nat : w.duty = k * w.step
RampOK(w) ==
  /\ w.duty \in 0..DutyMax
  /\ OnGrid(w)
  /\ w.at \in {"start", "sleep"} =>
       /\ w.up => w.duty < DutyMax
       /\ ~w.up => 0 < w.duty
RampInv == \A p \in Pids : RampOK(ramp[p])

\* The inductive invariant behind RoundNeedsBothNodes.  A worker past its first
\* write has found the node of the chip it wrote to.
FoundNodes(w) ==
  /\ w.at = "second" => <<FirstWrite(w)[1], FirstWrite(w)[1]>> \in nodes
  /\ w.at = "sleep"  => \A c \in Chips : <<c, c>> \in nodes
NodesInv == \A p \in Pids : FoundNodes(ramp[p])

PwmInv == PwmTypeOK /\ RampInv /\ NodesInv

-----------------------------------------------------------------------------
(* Arithmetic of the grid a ramp moves on.                                  *)

\* Two multiples of s that differ, differ by at least s.
LEMMA GridUp ==
  ASSUME NEW a \in Nat, NEW b \in Nat, NEW s \in Nat \ {0}, a * s < b * s
  PROVE  a * s + s <= b * s /\ a * s + s = (a + 1) * s
<1>1. a < b
  <2>1. SUFFICES ASSUME b <= a PROVE FALSE
    OBVIOUS
  <2>2. PICK d \in Nat : a = b + d
    <3>1. a - b \in Nat /\ a = b + (a - b)
      BY <2>1
    <3>2. QED
      BY <3>1
  <2>3. a * s = b * s + d * s /\ d * s >= 0
    BY <2>2
  <2>4. QED
    BY <2>3
<1>2. PICK d \in Nat : b = a + 1 + d
  <2>1. b - a - 1 \in Nat /\ b = a + 1 + (b - a - 1)
    BY <1>1
  <2>2. QED
    BY <2>1
<1>3. b * s = a * s + s + d * s /\ d * s >= 0
  BY <1>2
<1>4. QED
  BY <1>3

\* A positive multiple of s is at least s.
LEMMA GridDown ==
  ASSUME NEW a \in Nat, NEW s \in Nat \ {0}, 0 < a * s
  PROVE  0 <= a * s - s /\ a - 1 \in Nat /\ a * s - s = (a - 1) * s
<1>1. a # 0
  OBVIOUS
<1>2. a - 1 \in Nat /\ a * s - s = (a - 1) * s
  BY <1>1
<1>3. QED
  BY <1>2

\* Both steps of key.c divide the range of the ramp.
LEMMA StepsDivide ==
  ASSUME NEW s \in Steps
  PROVE  s \in Nat \ {0} /\ \E b \in Nat : DutyMax = b * s
<1>1. CASE s = 1
  <2>1. DutyMax \in Nat /\ DutyMax = DutyMax * 1
    BY DutyAssumption
  <2>2. QED
    BY <1>1, <2>1
<1>2. CASE s = Fast
  <2>1. Fast \in Nat \ {0} /\ DutyMax \in Nat /\ DutyMax % Fast = 0
    BY DutyAssumption
  <2>2. DutyMax = Fast * (DutyMax \div Fast) + (DutyMax % Fast)
    BY <2>1
  <2>3. DutyMax \div Fast \in Nat
    BY <2>1
  <2>4. DutyMax = (DutyMax \div Fast) * Fast
    BY <2>1, <2>2, <2>3
  <2>5. QED
    BY <1>2, <2>1, <2>3, <2>4
<1>3. QED
  BY <1>1, <1>2 DEF Steps

-----------------------------------------------------------------------------
(* Steps of one worker and of pwm_init.                                     *)

\* A worker that is forked, exits or is reaped is in a good state.
LEMMA WorkerStates ==
  ASSUME NEW m \in Modes, NEW s \in Steps
  PROVE  \A w \in {Free, Exited, Fresh(m, s)} : w \in Worker /\ RampOK(w) /\ FoundNodes(w)
<1>1. DutyMax \in Nat \ {0} /\ s \in Nat \ {0} /\ PWM0 \in Modes /\ 1 \in Steps
  BY DutyAssumption DEF Steps, Modes
<1>2. SUFFICES ASSUME NEW w \in {Free, Exited, Fresh(m, s)}
               PROVE  w \in Worker /\ RampOK(w) /\ FoundNodes(w)
  OBVIOUS
<1>3. w \in Worker /\ w.at = "start" /\ w.up = TRUE /\ w.duty = 0
  <2>1. CASE w = Free
    BY <1>1, <2>1 DEF Free, Worker
  <2>2. CASE w = Exited
    <3>1. w = [st |-> "zombie", mode |-> PWM0, step |-> 1, duty |-> 0, up |-> TRUE,
               at |-> "start"]
      BY <2>2 DEF Exited, Free
    <3>2. QED
      BY <1>1, <3>1 DEF Worker
  <2>3. CASE w = Fresh(m, s)
    <3>1. w = [st |-> "running", mode |-> m, step |-> s, duty |-> 0, up |-> TRUE,
               at |-> "start"]
      BY <2>3 DEF Fresh, Free
    <3>2. QED
      BY <1>1, <3>1 DEF Worker
  <2>4. QED
    BY <2>1, <2>2, <2>3
<1>4. w.step \in Steps
  BY <1>3 DEF Worker
<1>6. OnGrid(w)
  <2>1. w.step \in Int
    BY <1>4, StepsDivide
  <2>2. 0 \in Nat /\ w.duty = 0 * w.step
    BY <1>3, <2>1
  <2>3. QED
    BY <2>2 DEF OnGrid
<1>7. QED
  BY <1>1, <1>3, <1>6 DEF RampOK, FoundNodes

\* pwm_config keeps the channels within their types, and finds the node of the
\* channel it says 0 for.
LEMMA ConfigTyped ==
  ASSUME PwmTypeOK, NEW attr \in Attrs, NEW val \in Int, NEW n \in Chips, NEW ret,
         attr # "duty_cycle" => val \in 0..DutyMax,
         PwmConfig(attr, val, n, ret)
  PROVE  /\ chan' \in [Chips -> [Attrs -> 0..DutyMax]]
         /\ ret = 0 => <<n, n>> \in nodes
<1>1. chan \in [Chips -> [Attrs -> 0..DutyMax]] /\ DutyMax \in Nat
  BY DutyAssumption DEF PwmTypeOK
<1>2. CASE chan' = [chan EXCEPT ![n] = [@ EXCEPT ![attr] = val]] /\ Accepts(n, attr, val)
  <2>1. val \in 0..DutyMax
    <3>1. CASE attr = "duty_cycle"
      <4>1. chan[n]["period"] \in 0..DutyMax
        BY <1>1 DEF Attrs
      <4>2. val \in 0..chan[n]["period"]
        BY <1>2, <3>1 DEF Accepts
      <4>3. QED
        BY <1>1, <4>1, <4>2
    <3>2. QED
      BY <3>1
  <2>2. [chan[n] EXCEPT ![attr] = val] \in [Attrs -> 0..DutyMax]
    BY <1>1, <2>1
  <2>3. QED
    BY <1>1, <1>2, <2>2 DEF PwmConfig
<1>3. CASE UNCHANGED chan
  BY <1>1, <1>3 DEF PwmConfig
<1>4. QED
  BY <1>2, <1>3 DEF PwmConfig

\* The step of the ramp keeps the duty on the grid and between the ends.
LEMMA StepInRange ==
  ASSUME NEW w \in Worker, RampOK(w), w.at \in {"start", "sleep"},
         NEW d, d = NextDuty(w)
  PROVE  d \in 0..DutyMax /\ \E k \in Nat : d = k * w.step
<1>1. w.step \in Steps /\ w.up \in BOOLEAN
  BY DEF Worker
<1>2. w.step \in Nat \ {0} /\ DutyMax \in Nat
  BY <1>1, StepsDivide, DutyAssumption
<1>3. PICK b \in Nat : DutyMax = b * w.step
  BY <1>1, StepsDivide
<1>4. PICK k \in Nat : w.duty = k * w.step
  BY DEF RampOK, OnGrid
<1>5. w.duty \in 0..DutyMax
  BY DEF RampOK
<1>6. CASE w.up
  <2>1. k * w.step < b * w.step
    BY <1>3, <1>4, <1>6 DEF RampOK
  <2>2. k * w.step + w.step <= b * w.step /\ k * w.step + w.step = (k + 1) * w.step
    BY <1>2, <2>1, GridUp
  <2>3. d = w.duty + w.step /\ d <= DutyMax /\ d = (k + 1) * w.step
    BY <1>3, <1>4, <1>6, <2>2 DEF NextDuty
  <2>4. d \in 0..DutyMax
    BY <1>2, <1>5, <2>3
  <2>5. QED
    BY <2>3, <2>4
<1>7. CASE ~w.up
  <2>1. 0 < k * w.step
    BY <1>4, <1>7 DEF RampOK
  <2>2. 0 <= k * w.step - w.step /\ k - 1 \in Nat /\ k * w.step - w.step = (k - 1) * w.step
    BY <1>2, <2>1, GridDown
  <2>3. d = w.duty - w.step /\ 0 <= d /\ d = (k - 1) * w.step
    BY <1>4, <1>7, <2>2 DEF NextDuty
  <2>4. d \in 0..DutyMax
    BY <1>2, <1>5, <2>3
  <2>5. QED
    BY <2>2, <2>3, <2>4
<1>8. QED
  BY <1>1, <1>6, <1>7

\* A worker that replaces ramp[p] by a good state keeps the invariant, as long
\* as no node disappears.
LEMMA OneWorkerMoves ==
  ASSUME PwmInv, NEW p \in Pids, NEW w \in Worker, RampOK(w), FoundNodes(w),
         ramp' = [ramp EXCEPT ![p] = w], nodes' = nodes,
         chan' \in [Chips -> [Attrs -> 0..DutyMax]], muxed' = muxed, ipc' = ipc
  PROVE  PwmInv'
<1>1. ramp \in [Pids -> Worker] /\ RampInv /\ NodesInv /\ PwmTypeOK
  BY DEF PwmInv, PwmTypeOK
<1>2. \A q \in Pids : ramp'[q] = IF q = p THEN w ELSE ramp[q]
  BY <1>1
<1>3. PwmTypeOK'
  BY <1>1 DEF PwmTypeOK
<1>4. RampInv'
  BY <1>1, <1>2 DEF RampInv, RampOK, OnGrid
<1>5. NodesInv'
  BY <1>1, <1>2 DEF NodesInv, FoundNodes, FirstWrite
<1>6. QED
  BY <1>3, <1>4, <1>5 DEF PwmInv

\* Every step of a worker keeps the invariant.
LEMMA RampPreserves ==
  ASSUME PwmInv, NEW p \in Pids, Ramp(p)
  PROVE  PwmInv'
<1> DEFINE w == ramp[p]
<1>1. /\ PwmTypeOK /\ w \in Worker /\ RampOK(w) /\ FoundNodes(w)
      /\ w.mode \in Modes /\ w.step \in Steps /\ w.duty \in Int /\ w.up \in BOOLEAN
  BY DEF PwmInv, PwmTypeOK, RampInv, NodesInv, Worker
<1>2. Exited \in Worker /\ RampOK(Exited) /\ FoundNodes(Exited)
  BY <1>1, WorkerStates
<1>3. DutyMax \in Nat \ {0}
  BY DutyAssumption
<1>4. CASE RampStep(p)
  <2> DEFINE d == NextDuty(w)
             v == [w EXCEPT !.duty = d, !.at = "first"]
  <2>1. w.at \in {"start", "sleep"} /\ ramp' = [ramp EXCEPT ![p] = v]
    BY <1>4 DEF RampStep
  <2>2. d \in 0..DutyMax /\ \E k \in Nat : d = k * w.step
    BY <1>1, <2>1, StepInRange
  <2>3. v \in Worker /\ v.duty = d /\ v.at = "first" /\ v.step = w.step
    <3>1. d \in Int
      BY <1>3, <2>2
    <3>2. QED
      BY <1>1, <3>1 DEF Worker
  <2>4. RampOK(v) /\ FoundNodes(v)
    BY <2>2, <2>3 DEF RampOK, OnGrid, FoundNodes
  <2>5. UNCHANGED <<nodes, chan, muxed, ipc>>
    BY <1>4 DEF RampStep
  <2>6. chan' \in [Chips -> [Attrs -> 0..DutyMax]]
    BY <1>1, <2>5 DEF PwmTypeOK
  <2>7. QED
    BY <2>1, <2>3, <2>4, <2>5, <2>6, OneWorkerMoves
<1>5. CASE RampFirst(p)
  <2> DEFINE n == FirstWrite(w)[1]
             val == FirstWrite(w)[2]
             v == [w EXCEPT !.at = "second"]
  <2>1. n \in Chips /\ val \in Int
    BY <1>1, <1>3 DEF FirstWrite, Chips, Modes, PWM0, PWM2, PWM0_2
  <2>2. UNCHANGED <<nodes, muxed, ipc>>
    BY <1>5 DEF RampFirst
  <2>3. CASE PwmConfig("duty_cycle", val, n, -1) /\ ramp' = [ramp EXCEPT ![p] = Exited]
    <3>1. chan' \in [Chips -> [Attrs -> 0..DutyMax]]
      BY <1>1, <2>1, <2>3, ConfigTyped DEF Attrs
    <3>2. QED
      BY <1>2, <2>2, <2>3, <3>1, OneWorkerMoves
  <2>4. CASE PwmConfig("duty_cycle", val, n, 0) /\ ramp' = [ramp EXCEPT ![p] = v]
    <3>1. chan' \in [Chips -> [Attrs -> 0..DutyMax]] /\ <<n, n>> \in nodes
      BY <1>1, <2>1, <2>4, ConfigTyped DEF Attrs
    <3>2. v \in Worker /\ v.duty = w.duty /\ v.at = "second" /\ v.step = w.step /\ v.mode = w.mode
      BY <1>1 DEF Worker
    <3>3. FirstWrite(v) = FirstWrite(w)
      BY <3>2 DEF FirstWrite
    <3>4. RampOK(v) /\ FoundNodes(v)
      BY <1>1, <3>1, <3>2, <3>3 DEF RampOK, OnGrid, FoundNodes
    <3>5. QED
      BY <2>2, <2>4, <3>1, <3>2, <3>4, OneWorkerMoves
  <2>5. QED
    BY <1>5, <2>3, <2>4 DEF RampFirst
<1>6. CASE RampSecond(p)
  <2> DEFINE n == SecondWrite(w)[1]
             val == SecondWrite(w)[2]
             v == [w EXCEPT !.up = Turned(w), !.at = "sleep"]
  <2>1. n \in Chips /\ val \in Int
    BY <1>1 DEF SecondWrite, Chips
  <2>2. UNCHANGED <<nodes, muxed, ipc>> /\ w.at = "second"
    BY <1>6 DEF RampSecond
  <2>3. CASE PwmConfig("duty_cycle", val, n, -1) /\ ramp' = [ramp EXCEPT ![p] = Exited]
    <3>1. chan' \in [Chips -> [Attrs -> 0..DutyMax]]
      BY <1>1, <2>1, <2>3, ConfigTyped DEF Attrs
    <3>2. QED
      BY <1>2, <2>2, <2>3, <3>1, OneWorkerMoves
  <2>4. CASE PwmConfig("duty_cycle", val, n, 0) /\ ramp' = [ramp EXCEPT ![p] = v]
    <3>1. chan' \in [Chips -> [Attrs -> 0..DutyMax]] /\ <<n, n>> \in nodes
      BY <1>1, <2>1, <2>4, ConfigTyped DEF Attrs
    <3>2. Turned(w) \in BOOLEAN
      BY <1>1 DEF Turned
    <3>3. v \in Worker /\ v.duty = w.duty /\ v.at = "sleep" /\ v.step = w.step /\ v.up = Turned(w)
      BY <1>1, <3>2 DEF Worker
    <3>4. RampOK(v)
      BY <1>1, <1>3, <3>3 DEF RampOK, OnGrid, Turned
    <3>5. \A c \in Chips : <<c, c>> \in nodes
      BY <1>1, <2>2, <3>1 DEF FoundNodes, FirstWrite, SecondWrite, Chips, Modes, PWM0, PWM2, PWM0_2
    <3>6. FoundNodes(v)
      BY <3>3, <3>5 DEF FoundNodes
    <3>7. QED
      BY <2>2, <2>4, <3>1, <3>3, <3>4, <3>6, OneWorkerMoves
  <2>5. QED
    BY <1>6, <2>3, <2>4 DEF RampSecond
<1>7. QED
  BY <1>4, <1>5, <1>6 DEF Ramp

\* pwm_init keeps the invariant: it leaves the workers alone and only adds nodes.
LEMMA InitPreserves ==
  ASSUME PwmInv, PwmInit
  PROVE  PwmInv'
<1>1. PwmTypeOK /\ ramp' = ramp
  BY DEF PwmInv, PwmInit, PwmInitMux, PwmInitExport, PwmInitWrite
<1>2. PwmTypeOK' /\ nodes \subseteq nodes'
  <2>1. CASE PwmInitMux
    <3>1. ipc' = 1 /\ UNCHANGED <<nodes, chan, ramp>> /\ muxed' \in BOOLEAN
      BY <1>1, <2>1 DEF PwmInitMux, PwmTypeOK
    <3>2. QED
      BY <1>1, <3>1 DEF PwmTypeOK, InitDone
  <2>2. CASE PwmInitExport(0, 1) \/ PwmInitExport(2, 2)
    BY <1>1, <2>2, EnvironmentAssumption
       DEF PwmInitExport, PwmTypeOK, InitDone, ExportedNode, Chips
  <2>3. CASE PwmInitWrite
    <3> DEFINE i == InitWrites[ipc - 2]
    <3>1. ipc \in 3..8 /\ UNCHANGED <<nodes, muxed, ramp>> /\ ipc' = ipc + 1
      BY <2>3 DEF PwmInitWrite
    <3>2. PICK ret \in {-1, 0} : PwmConfig(i[1], i[2], i[3], ret)
      BY <2>3 DEF PwmInitWrite
    <3>3. i[1] \in Attrs /\ i[2] \in 0..DutyMax /\ i[3] \in Chips
      <4>1. ipc = 3 \/ ipc = 4 \/ ipc = 5 \/ ipc = 6 \/ ipc = 7 \/ ipc = 8
        BY <3>1
      <4>2. QED
        BY <4>1, DutyAssumption DEF InitWrites, Attrs, Chips
    <3>4. i[2] \in Int
      BY <3>3
    <3>5. chan' \in [Chips -> [Attrs -> 0..DutyMax]]
      BY <1>1, <3>2, <3>3, <3>4, ConfigTyped
    <3>6. QED
      BY <1>1, <3>1, <3>5 DEF PwmTypeOK, InitDone
  <2>4. QED
    BY <2>1, <2>2, <2>3 DEF PwmInit
<1>3. RampInv'
  BY <1>1 DEF PwmInv, RampInv, RampOK, OnGrid
<1>4. NodesInv'
  BY <1>1, <1>2 DEF PwmInv, NodesInv, FoundNodes, FirstWrite
<1>5. QED
  BY <1>2, <1>3, <1>4 DEF PwmInv

-----------------------------------------------------------------------------
(* The specification.                                                       *)

LEMMA StartHolds == PwmStart => PwmInv
<1>1. SUFFICES ASSUME PwmStart PROVE PwmInv
  OBVIOUS
<1>2. PWM0 \in Modes /\ 1 \in Steps /\ DutyMax \in Nat \ {0}
  BY DutyAssumption DEF Modes, Steps
<1>3. Free \in Worker /\ RampOK(Free) /\ FoundNodes(Free)
  BY <1>2, WorkerStates
<1>4. ramp = [p \in Pids |-> Free]
  BY <1>1 DEF PwmStart
<1>5. nodes \subseteq Chips \X Chips
  BY <1>1, EnvironmentAssumption DEF PwmStart, PwmLeftovers, ExportedNode, Chips
<1>6. chan \in [Chips -> [Attrs -> 0..DutyMax]]
  <2>1. PICK left0 \in Left(0), left2 \in Left(2) :
          chan = [c \in Chips |-> IF c = 0 THEN left0 ELSE left2]
    BY <1>1 DEF PwmStart, PwmLeftovers
  <2>2. \A x, y, z \in 0..DutyMax : Attributes(x, y, z) \in [Attrs -> 0..DutyMax]
    BY DEF Attributes, Attrs
  <2>3. \A c \in Chips : Left(c) \subseteq [Attrs -> 0..DutyMax]
    <3>1. SUFFICES ASSUME NEW c \in Chips, NEW a \in Left(c)
                   PROVE  a \in [Attrs -> 0..DutyMax]
      OBVIOUS
    <3>2. \/ a = Attributes(0, 0, 0)
          \/ \E l \in LeftDuty \X {0, 1} : a = Attributes(DutyMax, l[1], l[2])
      BY DEF Left
    <3>3. CASE a = Attributes(0, 0, 0)
      BY <1>2, <2>2, <3>3
    <3>4. ASSUME NEW l \in LeftDuty \X {0, 1}, a = Attributes(DutyMax, l[1], l[2])
          PROVE  a \in [Attrs -> 0..DutyMax]
      <4>1. DutyMax \in 0..DutyMax /\ l[1] \in 0..DutyMax /\ l[2] \in 0..DutyMax
        <5>1. l[1] \in LeftDuty /\ (l[2] = 0 \/ l[2] = 1)
          OBVIOUS
        <5>2. LeftDuty \subseteq 0..DutyMax
          BY DutyAssumption
        <5>3. l[1] \in 0..DutyMax
          BY <5>1, <5>2
        <5>4. QED
          BY <1>2, <5>1, <5>3
      <4>2. QED
        BY <2>2, <3>4, <4>1
    <3>5. QED
      BY <3>2, <3>3, <3>4
  <2>4. left0 \in [Attrs -> 0..DutyMax] /\ left2 \in [Attrs -> 0..DutyMax]
    BY <2>3 DEF Chips
  <2>5. QED
    BY <2>1, <2>4
<1>7. muxed \in BOOLEAN /\ ipc = 0
  BY <1>1 DEF PwmStart, PwmLeftovers
<1>8. PwmTypeOK
  BY <1>3, <1>4, <1>5, <1>6, <1>7 DEF PwmTypeOK, InitDone
<1>9. QED
  BY <1>3, <1>4, <1>8 DEF PwmInv, RampInv, NodesInv

LEMMA NextPreserves == PwmInv /\ [PwmNext]_pwmVars => PwmInv'
<1>1. SUFFICES ASSUME PwmInv, [PwmNext]_pwmVars PROVE PwmInv'
  OBVIOUS
<1>2. CASE PwmInit
  BY <1>1, <1>2, InitPreserves
<1>3. ASSUME NEW p \in Pids, Open(p) PROVE PwmInv'
  <2>1. PICK m \in Modes, s \in Steps : ramp' = [ramp EXCEPT ![p] = Fresh(m, s)]
    BY <1>3 DEF Open
  <2>2. Fresh(m, s) \in Worker /\ RampOK(Fresh(m, s)) /\ FoundNodes(Fresh(m, s))
    BY WorkerStates
  <2>3. UNCHANGED <<nodes, chan, muxed, ipc>>
    BY <1>3 DEF Open
  <2>4. chan' \in [Chips -> [Attrs -> 0..DutyMax]]
    BY <1>1, <2>3 DEF PwmInv, PwmTypeOK
  <2>5. QED
    BY <1>1, <2>1, <2>2, <2>3, <2>4, OneWorkerMoves
<1>4. ASSUME NEW p \in Pids, Ramp(p) PROVE PwmInv'
  BY <1>1, <1>4, RampPreserves
<1>5. CASE UNCHANGED pwmVars
  BY <1>1, <1>5 DEF pwmVars, PwmInv, PwmTypeOK, RampInv, RampOK, OnGrid, NodesInv,
                    FoundNodes, FirstWrite
<1>6. QED
  BY <1>1, <1>2, <1>3, <1>4, <1>5 DEF PwmNext

\* The variables of led_pwm.c and of the hardware keep their types.
THEOREM PwmTypeCorrect == PwmSpec => []PwmTypeOK
<1>1. PwmInv => PwmTypeOK
  BY DEF PwmInv
<1>2. QED
  BY StartHolds, NextPreserves, <1>1, PTL DEF PwmSpec

\* For every period and every step of the ramp that divides it, the duty never
\* passes PWM_DUTY2 and never wraps below 0, and no worker gets through a round
\* without the nodes of both controllers.
THEOREM RampIsSafe == PwmSpec => [](RampInRange /\ RoundNeedsBothNodes)
<1>1. PwmInv => RampInRange /\ RoundNeedsBothNodes
  BY DEF PwmInv, RampInv, RampOK, RampInRange, NodesInv, FoundNodes, RoundNeedsBothNodes
<1>2. QED
  BY StartHolds, NextPreserves, <1>1, PTL DEF PwmSpec

-----------------------------------------------------------------------------
(* KeyPwm.                                                                  *)

\* The pid the parent will kill is its child, unless the last fork failed.
PidIsChild ==
  kpc \in {"poll", "key", "kill"} => pid \in Children \/ (pid = -1 /\ Children = {})

\* An orphan is a process until init reaps it.
OrphansExist == \A p \in orphans : ramp[p].st # "free"

\* What the invariant says of the process table.
TableInv == OneWorker /\ PidIsChild /\ OrphansExist /\ WorkerShowsSettings

MainTypeOK ==
  /\ kpc \in {"setup", "fork", "poll", "key", "kill", "wait", "dead"}
  /\ pwmx \in Modes
  /\ step \in Steps
  /\ pid \in Pids \cup {-1}
  /\ revents \subseteq Keys
  /\ edges \subseteq Keys
  /\ sig \subseteq Pids
  /\ orphans \subseteq Pids
  /\ crashes \in 0..MaxCrash

\* The inductive invariant: hardware and ramps, the variables of main(), and
\* the process table.
KeyInv == PwmInv /\ MainTypeOK /\ TableInv

LEMMA KeyInitHolds == KeyInit => KeyInv
<1>1. SUFFICES ASSUME KeyInit PROVE KeyInv
  OBVIOUS
<1>2. PwmInv
  BY <1>1, StartHolds DEF KeyInit
<1>3. ramp = [p \in Pids |-> Free]
  BY <1>1 DEF KeyInit, PwmStart
<1>4. Children = {}
  BY <1>3 DEF Children, Free
<1>5. TableInv
  BY <1>1, <1>4 DEF KeyInit, TableInv, OneWorker, PidIsChild, OrphansExist,
                    WorkerShowsSettings
<1>6. MainTypeOK
  BY <1>1, ProcessAssumption DEF KeyInit, MainTypeOK, Modes, Steps
<1>7. QED
  BY <1>2, <1>5, <1>6 DEF KeyInv

-----------------------------------------------------------------------------
(* One lemma per action.                                                    *)

\* Starting, ending or reaping process p keeps the ramps in their range.
LEMMA ProcessMoves ==
  ASSUME PwmInv, NEW p \in Pids, NEW m \in Modes, NEW s \in Steps,
         NEW w \in {Free, Exited, Fresh(m, s)},
         ramp' = [ramp EXCEPT ![p] = w], UNCHANGED <<nodes, chan, muxed, ipc>>
  PROVE  PwmInv'
<1>1. w \in Worker /\ RampOK(w) /\ FoundNodes(w)
  BY WorkerStates
<1>2. chan' \in [Chips -> [Attrs -> 0..DutyMax]]
  BY DEF PwmInv, PwmTypeOK
<1>3. QED
  BY <1>1, <1>2, OneWorkerMoves

\* The ramp of a worker that runs on or exits: it changes no other process and
\* not the arguments it was started with.
LEMMA RampFrame ==
  ASSUME PwmInv, NEW p \in Pids, Ramp(p)
  PROVE  /\ ramp[p].st = "running"
         /\ \A q \in Pids : q # p => ramp'[q] = ramp[q]
         /\ \/ ramp'[p].st = "zombie"
            \/ /\ ramp'[p].st = "running"
               /\ ramp'[p].mode = ramp[p].mode
               /\ ramp'[p].step = ramp[p].step
<1> DEFINE w == ramp[p]
<1>1. ramp \in [Pids -> Worker] /\ w \in Worker
  BY DEF PwmInv, PwmTypeOK
<1>2. Exited.st = "zombie"
  BY DEF Exited, Free
<1>3. CASE RampStep(p)
  <2>1. w.st = "running" /\ ramp' = [ramp EXCEPT ![p] =
                              [w EXCEPT !.duty = NextDuty(w), !.at = "first"]]
    BY <1>3 DEF RampStep, Running
  <2>2. QED
    BY <1>1, <2>1 DEF Worker
<1>4. CASE RampFirst(p)
  <2>1. /\ w.st = "running"
        /\ \/ ramp' = [ramp EXCEPT ![p] = Exited]
           \/ ramp' = [ramp EXCEPT ![p] = [w EXCEPT !.at = "second"]]
    BY <1>4 DEF RampFirst, Running
  <2>2. QED
    BY <1>1, <1>2, <2>1 DEF Worker
<1>5. CASE RampSecond(p)
  <2>1. /\ w.st = "running"
        /\ \/ ramp' = [ramp EXCEPT ![p] = Exited]
           \/ ramp' = [ramp EXCEPT ![p] = [w EXCEPT !.up = Turned(w), !.at = "sleep"]]
    BY <1>5 DEF RampSecond, Running
  <2>2. QED
    BY <1>1, <1>2, <2>1 DEF Worker
<1>6. QED
  BY <1>3, <1>4, <1>5 DEF Ramp

LEMMA WorkPreserves ==
  ASSUME KeyInv, NEW p \in Pids, Work(p)
  PROVE  KeyInv'
<1>1. Ramp(p) /\ UNCHANGED <<kpc, pwmx, step, pid, revents, edges, sig, orphans, crashes>>
  BY DEF Work, mainVars
<1>2. PwmInv'
  BY <1>1, RampPreserves DEF KeyInv
<1>3. MainTypeOK'
  BY <1>1 DEF KeyInv, MainTypeOK
<1>4. Children' = Children
  BY <1>1, RampFrame DEF KeyInv, Children
<1>5. OrphansExist'
  BY <1>1, RampFrame DEF KeyInv, TableInv, OrphansExist, MainTypeOK
<1>6. WorkerShowsSettings'
  BY <1>1, <1>4, RampFrame DEF KeyInv, TableInv, WorkerShowsSettings, Children, Running
<1>7. OneWorker' /\ PidIsChild'
  BY <1>1, <1>4 DEF KeyInv, TableInv, OneWorker, PidIsChild
<1>8. QED
  BY <1>2, <1>3, <1>5, <1>6, <1>7 DEF KeyInv, TableInv

LEMMA InitPwmPreserves ==
  ASSUME KeyInv, InitPwm
  PROVE  KeyInv'
<1>1. PwmInit /\ UNCHANGED <<kpc, pwmx, step, pid, revents, edges, sig, orphans, crashes>>
  BY DEF InitPwm, mainVars
<1>2. PwmInv'
  BY <1>1, InitPreserves DEF KeyInv
<1>3. ramp' = ramp
  BY <1>1 DEF PwmInit, PwmInitMux, PwmInitExport, PwmInitWrite
<1>4. Children' = Children
  BY <1>1, <1>3 DEF Children
<1>5. QED
  BY <1>1, <1>2, <1>3, <1>4
     DEF KeyInv, MainTypeOK, TableInv, OneWorker, PidIsChild, OrphansExist,
         WorkerShowsSettings, Running

\* An action that leaves the hardware and the workers alone.
LEMMA Quiet ==
  ASSUME KeyInv, UNCHANGED <<nodes, chan, muxed, ramp>>, ipc' \in 0..InitDone
  PROVE  PwmInv' /\ (orphans' = orphans => Children' = Children /\ OrphansExist')
BY DEF KeyInv, TableInv, PwmInv, PwmTypeOK, RampInv, RampOK, OnGrid, NodesInv, FoundNodes,
       FirstWrite, Children, OrphansExist

\* A process that starts, exits or is reaped outside the ramp.
LEMMA ForkPreserves ==
  ASSUME KeyInv, Fork
  PROVE  KeyInv'
<1>1. /\ kpc = "fork" /\ kpc' = IF revents = {} THEN "poll" ELSE "key"
      /\ UNCHANGED <<nodes, chan, muxed, ipc, pwmx, step, revents, edges, sig, orphans, crashes>>
  BY DEF Fork
<1>2. /\ PwmInv /\ MainTypeOK /\ TableInv /\ Children = {} /\ pwmx \in Modes /\ step \in Steps
      /\ ramp \in [Pids -> Worker]
  BY <1>1 DEF KeyInv, TableInv, OneWorker, MainTypeOK, PwmInv, PwmTypeOK
<1>3. ASSUME NEW p \in Pids, ramp[p].st = "free", pid' = p,
             ramp' = [ramp EXCEPT ![p] = Fresh(pwmx, step)]
      PROVE  KeyInv'
  <2>1. PwmInv'
    BY <1>1, <1>2, <1>3, ProcessMoves
  <2>2. /\ Fresh(pwmx, step).st = "running" /\ Fresh(pwmx, step).mode = pwmx
        /\ Fresh(pwmx, step).step = step
    BY DEF Fresh, Free
  <2>3. p \notin orphans
    BY <1>2, <1>3 DEF TableInv, OrphansExist
  <2>4. \A q \in Pids : ramp'[q] = IF q = p THEN Fresh(pwmx, step) ELSE ramp[q]
    BY <1>2, <1>3
  <2>5. Children' = {p}
    BY <1>1, <1>2, <2>2, <2>3, <2>4 DEF Children
  <2>6. MainTypeOK'
    BY <1>1, <1>2, <1>3 DEF MainTypeOK
  <2>7. OrphansExist'
    BY <1>1, <1>2, <2>3, <2>4 DEF TableInv, OrphansExist, MainTypeOK
  <2>8. WorkerShowsSettings'
    BY <1>1, <2>2, <2>4, <2>5 DEF WorkerShowsSettings
  <2>9. OneWorker' /\ PidIsChild'
    BY <1>1, <1>3, <2>5 DEF OneWorker, PidIsChild
  <2>10. QED
    BY <2>1, <2>6, <2>7, <2>8, <2>9 DEF KeyInv, TableInv
<1>4. CASE pid' = -1 /\ UNCHANGED ramp
  <2>1. PwmInv' /\ Children' = {} /\ OrphansExist'
    <3>1. ipc' \in 0..InitDone
      BY <1>1, <1>2 DEF PwmInv, PwmTypeOK
    <3>2. QED
      BY <1>1, <1>2, <1>4, <3>1, Quiet
  <2>2. MainTypeOK'
    BY <1>1, <1>2, <1>4 DEF MainTypeOK
  <2>3. OneWorker' /\ PidIsChild' /\ WorkerShowsSettings'
    BY <1>4, <2>1 DEF OneWorker, PidIsChild, WorkerShowsSettings
  <2>4. QED
    BY <2>1, <2>2, <2>3 DEF KeyInv, TableInv
<1>5. QED
  BY <1>3, <1>4 DEF Fork

LEMMA WaitPreserves ==
  ASSUME KeyInv, Wait
  PROVE  KeyInv'
<1>1. /\ kpc' = "fork"
      /\ UNCHANGED <<nodes, chan, muxed, ipc, pwmx, step, pid, revents, edges, orphans, crashes>>
  BY DEF Wait
<1>2. /\ PwmInv /\ MainTypeOK /\ TableInv /\ PWM0 \in Modes /\ 1 \in Steps
      /\ ramp \in [Pids -> Worker]
  BY DEF KeyInv, PwmInv, PwmTypeOK, Modes, Steps
<1>3. ASSUME NEW p \in Children, ramp' = [ramp EXCEPT ![p] = Free], sig' = sig \ {p}
      PROVE  KeyInv'
  <2>1. p \in Pids /\ Children \subseteq {pid} /\ p \notin orphans /\ Free.st = "free"
    BY <1>2, <1>3 DEF Children, TableInv, OneWorker, Free
  <2>2. PwmInv'
    BY <1>1, <1>2, <1>3, <2>1, ProcessMoves
  <2>3. \A q \in Pids : ramp'[q] = IF q = p THEN Free ELSE ramp[q]
    BY <1>2, <1>3, <2>1
  <2>4. Children' = {}
    BY <1>1, <1>3, <2>1, <2>3 DEF Children
  <2>5. MainTypeOK'
    BY <1>1, <1>2, <1>3 DEF MainTypeOK
  <2>6. OrphansExist'
    BY <1>1, <1>2, <2>1, <2>3 DEF TableInv, OrphansExist, MainTypeOK
  <2>7. OneWorker' /\ PidIsChild' /\ WorkerShowsSettings'
    BY <1>1, <2>4 DEF OneWorker, PidIsChild, WorkerShowsSettings
  <2>8. QED
    BY <2>2, <2>5, <2>6, <2>7 DEF KeyInv, TableInv
<1>4. CASE Children = {} /\ UNCHANGED <<ramp, sig>>
  <2>1. PwmInv' /\ Children' = {} /\ OrphansExist'
    <3>1. ipc' \in 0..InitDone
      BY <1>1, <1>2 DEF PwmInv, PwmTypeOK
    <3>2. QED
      BY <1>1, <1>2, <1>4, <3>1, Quiet
  <2>2. MainTypeOK'
    BY <1>1, <1>2, <1>4 DEF MainTypeOK
  <2>3. OneWorker' /\ PidIsChild' /\ WorkerShowsSettings'
    BY <1>1, <2>1 DEF OneWorker, PidIsChild, WorkerShowsSettings
  <2>4. QED
    BY <2>1, <2>2, <2>3 DEF KeyInv, TableInv
<1>5. QED
  BY <1>3, <1>4 DEF Wait

LEMMA DiePreserves ==
  ASSUME KeyInv, NEW p \in Pids, Die(p)
  PROVE  KeyInv'
<1>1. /\ ramp' = [ramp EXCEPT ![p] = Exited] /\ Running(p) /\ sig' = sig \ {p}
      /\ UNCHANGED <<nodes, chan, muxed, ipc, kpc, pwmx, step, pid, revents, edges, orphans, crashes>>
  BY DEF Die, mainVars
<1>2. /\ PwmInv /\ MainTypeOK /\ TableInv /\ PWM0 \in Modes /\ 1 \in Steps
      /\ ramp \in [Pids -> Worker] /\ Exited.st = "zombie" /\ ramp[p].st = "running"
  BY <1>1 DEF KeyInv, PwmInv, PwmTypeOK, Modes, Steps, Exited, Free, Running
<1>3. PwmInv'
  BY <1>1, <1>2, ProcessMoves
<1>4. \A q \in Pids : ramp'[q] = IF q = p THEN Exited ELSE ramp[q]
  BY <1>1, <1>2
<1>5. Children' = Children
  BY <1>1, <1>2, <1>4 DEF Children
<1>6. MainTypeOK'
  BY <1>1, <1>2 DEF MainTypeOK
<1>7. OrphansExist' /\ WorkerShowsSettings'
  BY <1>1, <1>2, <1>4, <1>5
     DEF TableInv, OrphansExist, MainTypeOK, WorkerShowsSettings, Running, Children
<1>8. OneWorker' /\ PidIsChild'
  BY <1>1, <1>2, <1>5 DEF TableInv, OneWorker, PidIsChild
<1>9. QED
  BY <1>3, <1>6, <1>7, <1>8 DEF KeyInv, TableInv

LEMMA InitReapsPreserves ==
  ASSUME KeyInv, NEW p \in Pids, InitReaps(p)
  PROVE  KeyInv'
<1>1. /\ ramp' = [ramp EXCEPT ![p] = Free] /\ p \in orphans
      /\ sig' = sig \ {p} /\ orphans' = orphans \ {p}
      /\ UNCHANGED <<nodes, chan, muxed, ipc, kpc, pwmx, step, pid, revents, edges, crashes>>
  BY DEF InitReaps, mainVars
<1>2. /\ PwmInv /\ MainTypeOK /\ TableInv /\ PWM0 \in Modes /\ 1 \in Steps
      /\ ramp \in [Pids -> Worker] /\ Free.st = "free"
  BY <1>1 DEF KeyInv, PwmInv, PwmTypeOK, Modes, Steps, Free
<1>3. PwmInv'
  BY <1>1, <1>2, ProcessMoves
<1>4. \A q \in Pids : ramp'[q] = IF q = p THEN Free ELSE ramp[q]
  BY <1>1, <1>2
<1>5. Children' = Children
  BY <1>1, <1>2, <1>4 DEF Children
<1>6. MainTypeOK'
  BY <1>1, <1>2 DEF MainTypeOK
<1>7. OrphansExist' /\ WorkerShowsSettings'
  BY <1>1, <1>2, <1>4, <1>5
     DEF TableInv, OrphansExist, MainTypeOK, WorkerShowsSettings, Running, Children
<1>8. OneWorker' /\ PidIsChild'
  BY <1>1, <1>2, <1>5 DEF TableInv, OneWorker, PidIsChild
<1>9. QED
  BY <1>3, <1>6, <1>7, <1>8 DEF KeyInv, TableInv

\* The steps of main() that move no process, and the press of a key.
LEMMA MainPreserves ==
  ASSUME KeyInv, SetUp \/ Poll \/ HandleKey \/ Kill \/ \E k \in Keys : Press(k)
  PROVE  KeyInv'
<1>1. UNCHANGED <<nodes, chan, muxed, ipc, ramp, pid, orphans, crashes>>
  BY DEF SetUp, Poll, HandleKey, Kill, Press, pwmVars, mainVars
<1>2. MainTypeOK /\ TableInv /\ ipc \in 0..InitDone
  BY DEF KeyInv, PwmInv, PwmTypeOK
<1>3. PwmInv' /\ Children' = Children /\ OrphansExist'
  BY <1>1, <1>2, Quiet
<1>4. CASE SetUp
  BY <1>1, <1>2, <1>3, <1>4
     DEF SetUp, KeyInv, MainTypeOK, TableInv, OneWorker, PidIsChild, WorkerShowsSettings,
         Modes, Steps
<1>5. CASE Poll
  BY <1>1, <1>2, <1>3, <1>5
     DEF Poll, KeyInv, MainTypeOK, TableInv, OneWorker, PidIsChild, WorkerShowsSettings,
         Running
<1>6. CASE HandleKey
  <2>1. pwmx' \in Modes /\ step' \in Steps
    BY <1>2, <1>6 DEF HandleKey, MainTypeOK, Modes, Steps, PWM0, PWM2, PWM0_2
  <2>2. kpc' = "kill" /\ kpc = "key" /\ UNCHANGED sig /\ revents' \subseteq revents
        /\ edges' \subseteq edges
    BY <1>6 DEF HandleKey
  <2>3. QED
    BY <1>1, <1>2, <1>3, <2>1, <2>2
       DEF KeyInv, MainTypeOK, TableInv, OneWorker, PidIsChild, WorkerShowsSettings
<1>7. CASE Kill
  BY <1>1, <1>2, <1>3, <1>7
     DEF Kill, Targets, KeyInv, MainTypeOK, TableInv, OneWorker, PidIsChild,
         WorkerShowsSettings
<1>8. CASE \E k \in Keys : Press(k)
  BY <1>1, <1>2, <1>3, <1>8
     DEF Press, mainVars, KeyInv, MainTypeOK, TableInv, OneWorker, PidIsChild,
         WorkerShowsSettings, Running
<1>9. QED
  BY <1>4, <1>5, <1>6, <1>7, <1>8

\* The parent dies, or is started again.
LEMMA CrashPreserves ==
  ASSUME KeyInv, Crash \/ Restart
  PROVE  KeyInv'
<1>1. UNCHANGED <<nodes, chan, muxed, ramp, pwmx, step, pid, edges>>
  BY DEF Crash, Restart, pwmVars
<1>2. MainTypeOK /\ TableInv /\ ipc \in 0..InitDone
  BY DEF KeyInv, PwmInv, PwmTypeOK
<1>3. PwmInv'
  <2>1. ipc' \in 0..InitDone
    BY <1>2 DEF Crash, Restart, pwmVars, InitDone
  <2>2. QED
    BY <1>1, <2>1, Quiet
<1>4. CASE Crash
  <2>1. kpc' = "dead" /\ orphans' = orphans \cup Children /\ crashes' \in 0..MaxCrash
        /\ sig' \subseteq Pids /\ UNCHANGED revents
    BY <1>2, <1>4, ProcessAssumption DEF Crash, MainTypeOK, Children
  <2>2. Children' = {}
    BY <1>1, <2>1 DEF Children
  <2>3. MainTypeOK'
    BY <1>1, <1>2, <2>1 DEF MainTypeOK, Children
  <2>4. TableInv'
    BY <1>1, <1>2, <2>1, <2>2
       DEF TableInv, OneWorker, PidIsChild, OrphansExist, WorkerShowsSettings, Children
  <2>5. QED
    BY <1>3, <2>3, <2>4 DEF KeyInv
<1>5. CASE Restart
  <2>1. kpc = "dead" /\ kpc' = "setup" /\ revents' = {} /\ UNCHANGED <<sig, orphans, crashes>>
    BY <1>5 DEF Restart
  <2>2. Children' = Children
    BY <1>1, <2>1 DEF Children
  <2>3. MainTypeOK'
    BY <1>1, <1>2, <2>1 DEF MainTypeOK
  <2>4. TableInv'
    BY <1>1, <1>2, <2>1, <2>2
       DEF TableInv, OneWorker, PidIsChild, OrphansExist, WorkerShowsSettings
  <2>5. QED
    BY <1>3, <2>3, <2>4 DEF KeyInv
<1>6. QED
  BY <1>4, <1>5

LEMMA KeyNextPreserves == KeyInv /\ [KeyNext]_keyVars => KeyInv'
<1>1. SUFFICES ASSUME KeyInv, [KeyNext]_keyVars PROVE KeyInv'
  OBVIOUS
<1>2. CASE Main
  BY <1>1, <1>2, InitPwmPreserves, ForkPreserves, WaitPreserves, MainPreserves DEF Main
<1>3. ASSUME NEW p \in Pids, Work(p) \/ Die(p) \/ InitReaps(p) PROVE KeyInv'
  BY <1>1, <1>3, WorkPreserves, DiePreserves, InitReapsPreserves
<1>4. CASE \E k \in Keys : Press(k)
  BY <1>1, <1>4, MainPreserves
<1>5. CASE Crash \/ Restart
  BY <1>1, <1>5, CrashPreserves
<1>6. CASE UNCHANGED keyVars
  <2>1. ipc' \in 0..InitDone /\ UNCHANGED <<nodes, chan, muxed, ramp, orphans>>
    BY <1>1, <1>6 DEF keyVars, pwmVars, KeyInv, PwmInv, PwmTypeOK
  <2>2. PwmInv' /\ Children' = Children /\ OrphansExist'
    BY <1>1, <2>1, Quiet
  <2>3. QED
    BY <1>1, <1>6, <2>2
       DEF keyVars, pwmVars, mainVars, KeyInv, MainTypeOK, TableInv, OneWorker, PidIsChild,
           WorkerShowsSettings, Running
<1>7. QED
  BY <1>1, <1>2, <1>3, <1>4, <1>5, <1>6 DEF KeyNext

-----------------------------------------------------------------------------
(* The specification.                                                       *)

\* main(), its workers and the process table keep their types.
THEOREM KeyTypeCorrect == KeySpec => []KeyTypeOK
<1>1. KeyInv => KeyTypeOK
  BY DEF KeyInv, PwmInv, MainTypeOK, KeyTypeOK
<1>2. QED
  BY KeyInitHolds, KeyNextPreserves, <1>1, PTL DEF KeySpec

\* However often the parent crashes and whatever fails, it never loses track of a
\* child.
THEOREM WorkersAreTracked == KeySpec => []OneWorker
<1>1. KeyInv => OneWorker
  BY DEF KeyInv, TableInv
<1>2. QED
  BY KeyInitHolds, KeyNextPreserves, <1>1, PTL DEF KeySpec

\* Nor does its kill ever reach a stranger by a stale pid.
THEOREM KillsOwnChild == KeySpec => []KillHitsOwnChild
<1>1. KeyInv => KillHitsOwnChild
  BY DEF KeyInv, TableInv, PidIsChild, KillHitsOwnChild
<1>2. QED
  BY KeyInitHolds, KeyNextPreserves, <1>1, PTL DEF KeySpec

\* And the worker it polls beside shows the current settings.
THEOREM WorkerIsCurrent == KeySpec => []WorkerShowsSettings
<1>1. KeyInv => WorkerShowsSettings
  BY DEF KeyInv, TableInv
<1>2. QED
  BY KeyInitHolds, KeyNextPreserves, <1>1, PTL DEF KeySpec

\* Every crash orphans one worker at most.
OrphansCounted == IsFiniteSet(orphans) /\ Cardinality(orphans) <= crashes

LEMMA OrphansAreCounted == KeySpec => []OrphansCounted
<1>1. KeyInit => OrphansCounted
  BY FS_EmptySet DEF KeyInit, OrphansCounted
<1>2. KeyInv /\ OrphansCounted /\ [KeyNext]_keyVars => OrphansCounted'
  <2> SUFFICES ASSUME KeyInv, OrphansCounted, [KeyNext]_keyVars PROVE OrphansCounted'
    OBVIOUS
  <2>1. crashes \in Nat /\ Children \subseteq {pid}
    BY ProcessAssumption DEF KeyInv, MainTypeOK, TableInv, OneWorker, ProcessAssumption
  <2>2. Cardinality(orphans) \in Nat
    BY FS_CardinalityType DEF OrphansCounted
  <2>3. CASE Crash
    <3>1. orphans' = orphans \/ orphans' = orphans \cup {pid}
      BY <2>1, <2>3 DEF Crash
    <3>2. crashes' = crashes + 1
      BY <2>3 DEF Crash
    <3>3. CASE orphans' = orphans
      BY <2>1, <2>2, <3>2, <3>3 DEF OrphansCounted
    <3>4. CASE orphans' = orphans \cup {pid}
      BY <2>1, <2>2, <3>2, <3>4, FS_AddElement DEF OrphansCounted
    <3>5. QED
      BY <3>1, <3>3, <3>4
  <2>4. CASE \E p \in Pids : InitReaps(p)
    <3>1. PICK p \in Pids : orphans' = orphans \ {p}
      BY <2>4 DEF InitReaps
    <3>2. crashes' = crashes
      BY <2>4 DEF InitReaps
    <3>3. QED
      BY <2>1, <2>2, <3>1, <3>2, FS_RemoveElement DEF OrphansCounted
  <2>5. CASE UNCHANGED <<orphans, crashes>>
    BY <2>5 DEF OrphansCounted
  <2>6. QED
    BY <2>3, <2>4, <2>5 DEF KeyNext, keyVars, Main, InitPwm, SetUp, Fork, Poll, HandleKey, Kill,
       Wait, Work, Die, Press, Restart
<1>3. QED
  BY KeyInitHolds, KeyNextPreserves, <1>1, <1>2, PTL DEF KeySpec

\* However often the parent crashes, the LEDs have one driver per run at most.
THEOREM DriversAreBounded == KeySpec => []DriversBounded
<1>1. KeyInv /\ OrphansCounted => DriversBounded
  <2> SUFFICES ASSUME KeyInv, OrphansCounted PROVE DriversBounded
    OBVIOUS
  <2> DEFINE Drivers == {p \in Pids : Running(p)}
  <2>1. Drivers \subseteq orphans \cup Children
    BY DEF Running, Children
  <2>2. crashes \in Nat /\ Children \subseteq {pid} /\ (kpc = "dead" => Children = {})
    BY ProcessAssumption DEF KeyInv, MainTypeOK, TableInv, OneWorker, ProcessAssumption
  <2>3. Cardinality(orphans) \in Nat
    BY FS_CardinalityType DEF OrphansCounted
  <2>4. CASE kpc = "dead"
    <3>1. IsFiniteSet(Drivers) /\ Cardinality(Drivers) <= Cardinality(orphans)
      BY <2>1, <2>2, <2>4, FS_Subset DEF OrphansCounted
    <3>2. Cardinality(Drivers) \in Nat
      BY <3>1, FS_CardinalityType
    <3>3. QED
      BY <2>2, <2>3, <2>4, <3>1, <3>2 DEF OrphansCounted, DriversBounded
  <2>5. CASE kpc # "dead"
    <3>1. /\ IsFiniteSet(orphans \cup {pid})
          /\ Cardinality(orphans \cup {pid}) \in Nat
          /\ Cardinality(orphans \cup {pid}) <= Cardinality(orphans) + 1
      BY <2>3, FS_AddElement, FS_CardinalityType DEF OrphansCounted
    <3>2. Drivers \subseteq orphans \cup {pid}
      BY <2>1, <2>2
    <3>3. IsFiniteSet(Drivers) /\ Cardinality(Drivers) <= Cardinality(orphans \cup {pid})
      BY <3>1, <3>2, FS_Subset
    <3>4. Cardinality(Drivers) \in Nat
      BY <3>3, FS_CardinalityType
    <3>5. QED
      BY <2>2, <2>3, <2>5, <3>1, <3>3, <3>4 DEF OrphansCounted, DriversBounded
  <2>6. QED
    BY <2>4, <2>5
<1>2. QED
  BY KeyInitHolds, KeyNextPreserves, OrphansAreCounted, <1>1, PTL DEF KeySpec

\* A ramp stays in its range however many workers were started, killed or left
\* as orphans, and none gets through a round without both nodes.
THEOREM RampsAreSafe == KeySpec => [](RampInRange /\ RoundNeedsBothNodes)
<1>1. KeyInv => RampInRange /\ RoundNeedsBothNodes
  BY DEF KeyInv, PwmInv, RampInv, RampOK, RampInRange, NodesInv, FoundNodes,
         RoundNeedsBothNodes
<1>2. QED
  BY KeyInitHolds, KeyNextPreserves, <1>1, PTL DEF KeySpec

-----------------------------------------------------------------------------
(* What a sleeping worker shows.                                            *)

BothNodes == \A c \in Chips : <<c, c>> \in nodes

\* How far pwm_init has come.  Without both nodes its writes may be missing, but
\* no worker gets through a round then.
PwmIsSetUp ==
  /\ ipc >= 1 => muxed
  /\ BothNodes =>
       /\ ipc >= 4 => chan[0]["period"] = DutyMax
       /\ ipc >= 5 => chan[2]["period"] = DutyMax
       /\ ipc >= 8 => chan[0]["enable"] = 1
       /\ ipc >= 9 => chan[2]["enable"] = 1

\* What worker p has written of its round is in the hardware.
Written(p) ==
  Running(p) =>
    /\ BothNodes /\ ramp[p].at = "second" =>
         chan[FirstWrite(ramp[p])[1]]["duty_cycle"] = FirstWrite(ramp[p])[2]
    /\ ramp[p].at = "sleep" => ShowsRound(p)

\* Without faults and crashes the parent lives, and is past pwm_init once it forks;
\* the one worker that runs is its child, so nobody else writes.
SilentInv ==
  ~Faults /\ crashes = 0 =>
    /\ kpc # "dead" /\ orphans = {} /\ (kpc # "setup" => ipc = InitDone)
    /\ PwmIsSetUp
    /\ \A p \in Pids : Written(p)

LEMMA SilentInitHolds == KeyInit => SilentInv
<1> SUFFICES ASSUME KeyInit PROVE SilentInv
  OBVIOUS
<1>1. kpc = "setup" /\ orphans = {} /\ ipc = 0 /\ ramp = [p \in Pids |-> Free]
  BY DEF KeyInit, PwmStart
<1>2. PwmIsSetUp
  BY <1>1 DEF PwmIsSetUp
<1>3. \A p \in Pids : Written(p)
  BY <1>1 DEF Written, Running, Free
<1>4. QED
  BY <1>1, <1>2, <1>3 DEF SilentInv

\* Whoever runs is the child named by pid, and nobody does while pwm_init runs.
LEMMA OneRuns ==
  ASSUME KeyInv, orphans = {}, NEW p \in Pids, Running(p)
  PROVE  p = pid /\ kpc \notin {"setup", "fork", "dead"}
<1>1. p \in Children
  BY DEF Running, Children
<1>2. QED
  BY <1>1 DEF KeyInv, TableInv, OneWorker

\* Without faults a duty within the period is always written when the node exists.
LEMMA DutyIsWritten ==
  ASSUME PwmTypeOK, ~Faults, NEW n \in Chips, NEW val \in 0..DutyMax,
         chan[n]["period"] = DutyMax, PwmConfig("duty_cycle", val, n, 0)
  PROVE  chan' = [chan EXCEPT ![n] = [@ EXCEPT !["duty_cycle"] = val]]
<1>1. Accepts(n, "duty_cycle", val)
  BY DutyAssumption DEF Accepts
<1>2. QED
  BY <1>1 DEF PwmConfig

\* The two writes of a round go to different chips, and set what ShowsRound expects.
LEMMA RoundWrites ==
  ASSUME NEW w \in Worker
  PROVE  /\ FirstWrite(w)[1] \in Chips /\ SecondWrite(w)[1] \in Chips
         /\ FirstWrite(w)[1] # SecondWrite(w)[1]
         /\ SecondWrite(w)[1] \in Driven(w.mode) /\ SecondWrite(w)[2] = w.duty
         /\ FirstWrite(w)[2] = IF FirstWrite(w)[1] \in Driven(w.mode) THEN w.duty ELSE DutyMax
         /\ \A c \in Chips : c = FirstWrite(w)[1] \/ c = SecondWrite(w)[1]
<1>1. w.mode = 0 \/ w.mode = 1 \/ w.mode = 2
  BY DEF Worker, Modes, PWM0, PWM2, PWM0_2
<1>2. CASE w.mode = 0
  <2>1. FirstWrite(w) = <<2, DutyMax>> /\ SecondWrite(w) = <<0, w.duty>> /\ Driven(w.mode) = {0}
    BY <1>2 DEF FirstWrite, SecondWrite, Driven, PWM0, PWM2
  <2>2. QED
    BY <2>1 DEF Chips
<1>3. CASE w.mode = 1
  <2>1. FirstWrite(w) = <<0, DutyMax>> /\ SecondWrite(w) = <<2, w.duty>> /\ Driven(w.mode) = {2}
    BY <1>3 DEF FirstWrite, SecondWrite, Driven, PWM0, PWM2
  <2>2. QED
    BY <2>1 DEF Chips
<1>4. CASE w.mode = 2
  <2>1. FirstWrite(w) = <<0, w.duty>> /\ SecondWrite(w) = <<2, w.duty>> /\ Driven(w.mode) = Chips
    BY <1>4 DEF FirstWrite, SecondWrite, Driven, PWM0, PWM2
  <2>2. QED
    BY <2>1 DEF Chips
<1>5. QED
  BY <1>1, <1>2, <1>3, <1>4

\* A worker's step shows what it writes.
LEMMA WorkIsShown ==
  ASSUME KeyInv, NodesInv', NEW p \in Pids, Work(p), ~Faults, ipc = InitDone,
         PwmIsSetUp, Written(p)
  PROVE  PwmIsSetUp' /\ Written(p)'
<1> DEFINE w == ramp[p]
<1>1. /\ PwmTypeOK /\ w \in Worker /\ ramp \in [Pids -> Worker] /\ RampOK(w) /\ Ramp(p)
      /\ DutyMax \in Nat \ {0} /\ w.duty \in 0..DutyMax
      /\ chan \in [Chips -> [Attrs -> 0..DutyMax]]
  BY DutyAssumption DEF Work, KeyInv, PwmInv, PwmTypeOK, RampInv, RampOK
<1>2. UNCHANGED <<nodes, muxed, ipc>> /\ Running(p)
  BY <1>1 DEF Ramp, RampStep, RampFirst, RampSecond
<1>3. muxed
  BY DEF PwmIsSetUp, InitDone
<1>4. ASSUME BothNodes
      PROVE  /\ \A c \in Chips : chan[c]["period"] = DutyMax /\ chan[c]["enable"] = 1
  BY <1>4 DEF PwmIsSetUp, InitDone, Chips
<1>5. ASSUME NEW n \in Chips, NEW val \in 0..DutyMax,
             UNCHANGED chan \/ chan' = [chan EXCEPT ![n] = [@ EXCEPT !["duty_cycle"] = val]]
      PROVE  PwmIsSetUp'
  <2>1. \A c \in Chips : chan'[c]["period"] = chan[c]["period"] /\ chan'[c]["enable"] = chan[c]["enable"]
    BY <1>1, <1>5 DEF Attrs
  <2>2. 0 \in Chips /\ 2 \in Chips
    BY DEF Chips
  <2>3. QED
    BY <1>2, <2>1, <2>2 DEF PwmIsSetUp, BothNodes
<1>6. CASE RampStep(p)
  <2>1. /\ UNCHANGED chan
        /\ ramp' = [ramp EXCEPT ![p] = [w EXCEPT !.duty = NextDuty(w), !.at = "first"]]
    BY <1>6 DEF RampStep
  <2>2. ramp'[p].at = "first"
    BY <1>1, <2>1 DEF Worker
  <2>3. 0 \in Chips /\ 0 \in 0..DutyMax
    BY <1>1 DEF Chips
  <2>4. QED
    BY <1>5, <2>1, <2>2, <2>3 DEF Written
<1>7. CASE RampFirst(p)
  <2> DEFINE n == FirstWrite(w)[1]
             val == FirstWrite(w)[2]
  <2>1. n \in Chips /\ val \in 0..DutyMax
    BY <1>1, RoundWrites
  <2>2. UNCHANGED chan \/ chan' = [chan EXCEPT ![n] = [@ EXCEPT !["duty_cycle"] = val]]
    BY <1>7 DEF RampFirst, PwmConfig
  <2>3. PwmIsSetUp'
    BY <1>5, <2>1, <2>2
  <2>4. CASE ramp' = [ramp EXCEPT ![p] = Exited]
    BY <1>1, <2>3, <2>4 DEF Written, Running, Exited, Free
  <2>5. CASE PwmConfig("duty_cycle", val, n, 0) /\ ramp' = [ramp EXCEPT ![p] = [@ EXCEPT !.at = "second"]]
    <3>1. ramp'[p].at = "second" /\ FirstWrite(ramp'[p]) = FirstWrite(w)
      BY <1>1, <2>5 DEF Worker, FirstWrite
    <3>2. ASSUME BothNodes PROVE chan'[n]["duty_cycle"] = val
      <4>1. chan' = [chan EXCEPT ![n] = [@ EXCEPT !["duty_cycle"] = val]]
        BY <1>1, <1>4, <2>1, <2>5, <3>2, DutyIsWritten
      <4>2. QED
        BY <1>1, <2>1, <4>1 DEF Attrs
    <3>3. BothNodes' = BothNodes
      BY <1>2 DEF BothNodes
    <3>4. Written(p)'
      BY <3>1, <3>2, <3>3 DEF Written
    <3>5. QED
      BY <2>3, <3>4
  <2>6. QED
    BY <1>7, <2>4, <2>5 DEF RampFirst
<1>8. CASE RampSecond(p)
  <2> DEFINE n == SecondWrite(w)[1]
             f == FirstWrite(w)[1]
  <2>1. n \in Chips /\ SecondWrite(w)[2] = w.duty /\ f \in Chips /\ f # n
    BY <1>1, RoundWrites
  <2>2. UNCHANGED chan \/ chan' = [chan EXCEPT ![n] = [@ EXCEPT !["duty_cycle"] = w.duty]]
    BY <1>8, <2>1 DEF RampSecond, PwmConfig
  <2>3. PwmIsSetUp'
    BY <1>1, <1>5, <2>1, <2>2
  <2>4. CASE ramp' = [ramp EXCEPT ![p] = Exited]
    BY <1>1, <2>3, <2>4 DEF Written, Running, Exited, Free
  <2>5. CASE /\ PwmConfig("duty_cycle", w.duty, n, 0)
             /\ ramp' = [ramp EXCEPT ![p] = [@ EXCEPT !.up = Turned(w), !.at = "sleep"]]
    <3>1. /\ ramp'[p].at = "sleep" /\ ramp'[p].mode = w.mode /\ ramp'[p].duty = w.duty
          /\ w.at = "second"
      BY <1>1, <1>8, <2>5 DEF Worker, RampSecond
    <3>2. BothNodes
      BY <1>2, <3>1 DEF NodesInv, FoundNodes, BothNodes
    <3>3. chan' = [chan EXCEPT ![n] = [@ EXCEPT !["duty_cycle"] = w.duty]]
      BY <1>1, <1>4, <2>1, <2>5, <3>2, DutyIsWritten
    <3>4. chan[f]["duty_cycle"] = FirstWrite(w)[2]
      BY <1>2, <3>1, <3>2 DEF Written
    <3>5. chan'[n]["duty_cycle"] = w.duty /\ chan'[f]["duty_cycle"] = FirstWrite(w)[2]
      BY <1>1, <2>1, <3>3, <3>4 DEF Attrs
    <3>6. \A c \in Chips : chan'[c]["duty_cycle"] = IF c \in Driven(w.mode) THEN w.duty ELSE DutyMax
      BY <1>1, <3>5, RoundWrites
    <3>7. \A c \in Chips : chan'[c]["enable"] = 1
      BY <1>1, <1>4, <2>1, <3>2, <3>3 DEF Attrs
    <3>8. ShowsRound(p)'
      BY <1>2, <1>3, <3>1, <3>6, <3>7 DEF ShowsRound
    <3>9. QED
      BY <2>3, <3>1, <3>8 DEF Written
  <2>6. QED
    BY <1>8, <2>1, <2>4, <2>5 DEF RampSecond
<1>9. QED
  BY <1>1, <1>6, <1>7, <1>8 DEF Ramp

\* Without faults every write of pwm_init whose node exists is accepted: the period
\* comes before the duty and the enable.
LEMMA InitWritesLand ==
  ASSUME KeyInv, PwmInit, ~Faults, PwmIsSetUp
  PROVE  PwmIsSetUp'
<1>1. /\ PwmTypeOK /\ ipc \in 0..9 /\ DutyMax \in Nat \ {0} /\ 0 \in Chips /\ 2 \in Chips
      /\ chan \in [Chips -> [Attrs -> 0..DutyMax]]
  BY DutyAssumption DEF KeyInv, PwmInv, PwmTypeOK, InitDone, Chips
<1>2. CASE PwmInitMux
  <2>1. muxed' /\ ipc' = 1
    BY <1>2 DEF PwmInitMux
  <2>2. QED
    BY <2>1 DEF PwmIsSetUp
<1>3. CASE PwmInitExport(0, 1) \/ PwmInitExport(2, 2)
  <2>1. muxed' = muxed /\ (ipc = 1 \/ ipc = 2)
    BY <1>3 DEF PwmInitExport
  <2>2. ipc' \in 2..3 \/ ~BothNodes'
    <3>1. CASE PwmInitExport(0, 1)
      BY <3>1 DEF PwmInitExport, ExportedNode
    <3>2. CASE PwmInitExport(2, 2)
      <4>1. ipc' = 3 \/ (<<2, 2>> \notin nodes /\ nodes' = nodes)
        BY <3>2 DEF PwmInitExport
      <4>2. QED
        BY <1>1, <4>1 DEF BothNodes
    <3>3. QED
      BY <1>3, <3>1, <3>2
  <2>3. muxed
    BY <2>1 DEF PwmIsSetUp
  <2>4. QED
    BY <2>1, <2>2, <2>3 DEF PwmIsSetUp
<1>4. CASE PwmInitWrite
  <2>1. ipc \in 3..8 /\ UNCHANGED <<nodes, muxed>> /\ ipc' = ipc + 1
    BY <1>4 DEF PwmInitWrite
  <2>2. muxed' /\ BothNodes' = BothNodes
    BY <2>1 DEF PwmIsSetUp, BothNodes
  <2>3. CASE ~BothNodes
    BY <2>2, <2>3 DEF PwmIsSetUp
  <2>4. CASE BothNodes
    <3> DEFINE w == InitWrites[ipc - 2]
    <3>1. PICK ret \in {-1, 0} : PwmConfig(w[1], w[2], w[3], ret)
      BY <1>4 DEF PwmInitWrite
    <3>2. /\ ipc = 3 => w = <<"period", DutyMax, 0>>
          /\ ipc = 4 => w = <<"period", DutyMax, 2>>
          /\ ipc = 5 => w = <<"duty_cycle", 0, 0>>
          /\ ipc = 6 => w = <<"duty_cycle", 0, 2>>
          /\ ipc = 7 => w = <<"enable", 1, 0>>
          /\ ipc = 8 => w = <<"enable", 1, 2>>
      BY DEF InitWrites
    <3>3. ipc = 3 \/ ipc = 4 \/ ipc = 5 \/ ipc = 6 \/ ipc = 7 \/ ipc = 8
      BY <2>1
    <3>4. w[1] \in Attrs /\ w[3] \in Chips
      BY <1>1, <3>2, <3>3 DEF Attrs
    <3>5. \A c \in Chips : chan[c]["duty_cycle"] \in 0..DutyMax
      BY <1>1 DEF Attrs
    <3>6. Accepts(w[3], w[1], w[2])
      <4>1. CASE ipc \in 3..4
        BY <1>1, <3>2, <3>3, <3>5, <4>1 DEF Accepts
      <4>2. CASE ipc \in 5..8
        BY <1>1, <2>4, <3>2, <3>3, <4>2 DEF Accepts, PwmIsSetUp
      <4>3. QED
        BY <2>1, <4>1, <4>2
    <3>7. <<w[3], w[3]>> \in nodes
      BY <2>4, <3>4 DEF BothNodes
    <3>8. chan' = [chan EXCEPT ![w[3]] = [@ EXCEPT ![w[1]] = w[2]]]
      BY <3>1, <3>6, <3>7 DEF PwmConfig
    <3>9. /\ chan'[w[3]][w[1]] = w[2]
          /\ \A c \in Chips, a \in Attrs : c # w[3] \/ a # w[1] => chan'[c][a] = chan[c][a]
      BY <1>1, <3>4, <3>8
    <3>10. "period" \in Attrs /\ "enable" \in Attrs
      BY DEF Attrs
    <3>11. /\ ipc = 3 \/ ipc >= 4 => chan'[0]["period"] = DutyMax
           /\ ipc = 4 \/ ipc >= 5 => chan'[2]["period"] = DutyMax
           /\ ipc = 7 \/ ipc >= 8 => chan'[0]["enable"] = 1
           /\ ipc = 8 => chan'[2]["enable"] = 1
      <4>1. ipc = 3 \/ ipc >= 4 => chan'[0]["period"] = DutyMax
        BY <1>1, <2>4, <3>2, <3>3, <3>9, <3>10 DEF PwmIsSetUp
      <4>2. ipc = 4 \/ ipc >= 5 => chan'[2]["period"] = DutyMax
        BY <1>1, <2>4, <3>2, <3>3, <3>9, <3>10 DEF PwmIsSetUp
      <4>3. ipc = 7 \/ ipc >= 8 => chan'[0]["enable"] = 1
        BY <1>1, <2>4, <3>2, <3>3, <3>9, <3>10 DEF PwmIsSetUp
      <4>4. ipc = 8 => chan'[2]["enable"] = 1
        BY <1>1, <3>2, <3>9, <3>10
      <4>5. QED
        BY <4>1, <4>2, <4>3, <4>4
    <3>12. QED
      BY <2>1, <2>2, <3>11 DEF PwmIsSetUp
  <2>5. QED
    BY <2>3, <2>4
<1>5. QED
  BY <1>2, <1>3, <1>4 DEF PwmInit

\* A worker that did not run before, or goes on as it is, breaks nothing.
LEMMA OthersAreSilent ==
  ASSUME NEW p \in Pids, Written(p), UNCHANGED <<nodes, chan, muxed>>,
         ramp'[p] = ramp[p] \/ ramp'[p].st # "running" \/ ramp'[p].at = "start"
  PROVE  Written(p)'
<1>1. CASE ramp'[p] = ramp[p]
  BY <1>1 DEF Written, Running, ShowsRound, BothNodes, FirstWrite
<1>2. CASE ramp'[p].st # "running"
  BY <1>2 DEF Written, Running
<1>3. CASE ramp'[p].at = "start"
  BY <1>3 DEF Written
<1>4. QED
  BY <1>1, <1>2, <1>3

LEMMA SilentNextPreserves == KeyInv /\ KeyInv' /\ SilentInv /\ [KeyNext]_keyVars => SilentInv'
<1> SUFFICES ASSUME KeyInv, KeyInv', SilentInv, [KeyNext]_keyVars, ~Faults, crashes' = 0
             PROVE  /\ kpc' # "dead" /\ orphans' = {} /\ (kpc' # "setup" => ipc' = InitDone)
                    /\ PwmIsSetUp' /\ \A p \in Pids : Written(p)'
  BY DEF SilentInv
<1>1. crashes = 0 /\ ~Crash
  <2>1. Crash => crashes \in Nat /\ crashes' = crashes + 1
    BY ProcessAssumption DEF Crash, KeyInv, MainTypeOK
  <2>2. ~Crash => crashes' = crashes
    BY DEF KeyNext, keyVars, Main, InitPwm, SetUp, Fork, Poll, HandleKey, Kill, Wait, Work,
           Die, InitReaps, Press, Restart
  <2>3. QED
    BY <2>1, <2>2
<1>2. /\ kpc # "dead" /\ orphans = {} /\ (kpc # "setup" => ipc = InitDone)
      /\ PwmIsSetUp /\ \A p \in Pids : Written(p)
  BY <1>1 DEF SilentInv
<1>3. ramp \in [Pids -> Worker] /\ NodesInv'
  BY DEF KeyInv, PwmInv, PwmTypeOK
<1>4. CASE InitPwm
  <2>1. PwmInit /\ kpc = "setup" /\ UNCHANGED <<kpc, orphans, ramp>>
    BY <1>4 DEF InitPwm, mainVars, PwmInit, PwmInitMux, PwmInitExport, PwmInitWrite
  <2>2. PwmIsSetUp'
    BY <1>2, <2>1, InitWritesLand
  <2>3. ASSUME NEW p \in Pids PROVE ~Running(p)'
    BY <1>2, <2>1, OneRuns DEF Running
  <2>4. \A p \in Pids : Written(p)'
    BY <2>3 DEF Written
  <2>5. QED
    BY <1>2, <2>1, <2>2, <2>4
<1>5. ASSUME NEW p \in Pids, Work(p)
      PROVE  /\ kpc' # "dead" /\ orphans' = {} /\ (kpc' # "setup" => ipc' = InitDone)
             /\ PwmIsSetUp' /\ \A q \in Pids : Written(q)'
  <2>1. /\ UNCHANGED <<kpc, orphans, ipc>> /\ Running(p)
        /\ \A q \in Pids : q # p => ramp'[q] = ramp[q]
    BY <1>5, RampFrame DEF Work, mainVars, KeyInv, Running, Ramp, RampStep, RampFirst, RampSecond
  <2>2. p = pid /\ ipc = InitDone
    BY <1>2, <2>1, OneRuns
  <2>3. PwmIsSetUp' /\ Written(p)'
    BY <1>2, <1>3, <1>5, <2>2, WorkIsShown
  <2>4. ASSUME NEW q \in Pids, q # p PROVE Written(q)'
    <3>1. ~Running(q)
      BY <1>2, <2>2, <2>4, OneRuns
    <3>2. QED
      BY <2>1, <2>4, <3>1 DEF Written, Running
  <2>5. QED
    BY <1>2, <2>1, <2>3, <2>4
<1>6. CASE SetUp \/ Fork \/ Poll \/ HandleKey \/ Kill \/ Wait \/ (\E p \in Pids : Die(p) \/ InitReaps(p))
           \/ (\E k \in Keys : Press(k)) \/ UNCHANGED keyVars
  <2>1. UNCHANGED <<nodes, chan, muxed, ipc>>
    BY <1>6 DEF SetUp, Fork, Poll, HandleKey, Kill, Wait, Die, InitReaps, Press, pwmVars, keyVars
  <2>2. orphans' = {}
    BY <1>2, <1>6 DEF SetUp, Fork, Poll, HandleKey, Kill, Wait, Die, InitReaps, Press, keyVars
  <2>3. kpc' # "dead" /\ (kpc' # "setup" => ipc' = InitDone)
    BY <1>2, <1>6, <2>1
       DEF SetUp, Fork, Poll, HandleKey, Kill, Wait, Die, InitReaps, Press, mainVars, keyVars
  <2>4. PwmIsSetUp'
    BY <1>2, <2>1 DEF PwmIsSetUp, BothNodes
  <2>5. ASSUME NEW p \in Pids
        PROVE  ramp'[p] = ramp[p] \/ ramp'[p].st # "running" \/ ramp'[p].at = "start"
    <3>1. /\ Free.st # "running" /\ Exited.st # "running"
          /\ \A m, s : Fresh(m, s).at = "start"
      BY DEF Free, Exited, Fresh
    <3>2. \/ ramp' = ramp
          \/ \E q \in Pids : \E w : /\ ramp' = [ramp EXCEPT ![q] = w]
                                    /\ w.st # "running" \/ w.at = "start"
      <4>1. CASE SetUp \/ Poll \/ HandleKey \/ Kill \/ (\E k \in Keys : Press(k)) \/ UNCHANGED keyVars
        BY <4>1 DEF SetUp, Poll, HandleKey, Kill, Press, pwmVars, keyVars
      <4>2. CASE Fork
        BY <3>1, <4>2 DEF Fork
      <4>3. CASE Wait
        BY <3>1, <4>3 DEF Wait, Children
      <4>4. CASE \E q \in Pids : Die(q) \/ InitReaps(q)
        BY <3>1, <4>4 DEF Die, InitReaps
      <4>5. QED
        BY <1>6, <4>1, <4>2, <4>3, <4>4
    <3>3. QED
      BY <1>3, <3>2
  <2>6. \A p \in Pids : Written(p)'
    BY <1>2, <2>1, <2>5, OthersAreSilent
  <2>7. QED
    BY <2>2, <2>3, <2>4, <2>6
<1>7. ~Restart
  BY <1>2 DEF Restart
<1>8. QED
  BY <1>1, <1>4, <1>5, <1>6, <1>7 DEF KeyNext, Main

\* As long as no parent crashed and no access fails, a sleeping worker sees in the
\* hardware what its round wrote, however often keys have replaced it.
THEOREM WorkersAreSilent == KeySpec => []ReplacedWorkerIsSilent
<1>1. SilentInv => ReplacedWorkerIsSilent
  BY DEF SilentInv, Written, ReplacedWorkerIsSilent, RoundIsShown
<1>2. QED
  BY KeyInitHolds, KeyNextPreserves, SilentInitHolds, SilentNextPreserves, <1>1, PTL DEF KeySpec

-----------------------------------------------------------------------------
(* Refinement of the safety part of Dimmer.                                 *)

\* With at most one child, CHOOSE has one candidate.
LEMMA ShownOne ==
  ASSUME NEW r, NEW ps, NEW q, ps \subseteq {q}
  PROVE  /\ q \in ps /\ r[q].st = "running" => Shown(r, ps) = <<r[q].mode, r[q].step>>
         /\ q \notin ps \/ r[q].st # "running" => Shown(r, ps) = <<>>
<1>1. ASSUME q \in ps, r[q].st = "running"
      PROVE  Shown(r, ps) = <<r[q].mode, r[q].step>>
  <2>1. \A p \in ps : p = q
    OBVIOUS
  <2>2. (CHOOSE p \in ps : r[p].st = "running") = q
    BY <1>1, <2>1
  <2>3. QED
    BY <1>1, <2>2 DEF Shown
<1>2. ASSUME q \notin ps \/ r[q].st # "running"
      PROVE  Shown(r, ps) = <<>>
  BY <1>2 DEF Shown
<1>3. QED
  BY <1>1, <1>2

\* The lights that were left on are the same when the same orphans run on.
LEMMA LeftStays ==
  ASSUME \A q : q \in orphans' /\ ramp'[q].st = "running"
                   <=> q \in orphans /\ ramp[q].st = "running",
         \A q : q \in orphans /\ ramp[q].st = "running" =>
                  ramp'[q].mode = ramp[q].mode /\ ramp'[q].step = ramp[q].step
  PROVE  LeftOn' = LeftOn
<1>1. {q \in orphans : Running(q)}' = {q \in orphans : Running(q)}
  BY DEF Running
<1>2. \A q \in {p \in orphans : Running(p)} :
        <<ramp'[q].mode, ramp'[q].step>> = <<ramp[q].mode, ramp[q].step>>
  BY DEF Running
<1>3. QED
  BY <1>1, <1>2 DEF LeftOn

\* Every step of the program is a step of the dimmer or leaves it as it is.
LEMMA StepSimulates ==
  ASSUME KeyInv, KeyInv', [KeyNext]_keyVars
  PROVE  [D!DimmerNext]_<<pwmx, step, Lit, LeftOn>>
<1> DEFINE shows(r, p) == <<r[p].mode, r[p].step>>
<1>1. /\ TableInv /\ Children \subseteq {pid} /\ MainTypeOK
      /\ ramp \in [Pids -> Worker] /\ ramp' \in [Pids -> Worker]
      /\ Children' \subseteq {pid'}
  BY DEF KeyInv, TableInv, OneWorker, PwmInv, PwmTypeOK
<1>2. \A m, s : <<m, s>> # <<>>
  OBVIOUS
<1> DEFINE on(q) == q \in orphans /\ ramp[q].st = "running"
<1>0. UNCHANGED <<ramp, orphans>> => UNCHANGED LeftOn
  BY LeftStays
<1>3. CASE UNCHANGED <<ramp, orphans>> /\ UNCHANGED <<pwmx, step>>
  BY <1>0, <1>3 DEF Lit, Children
<1>4. CASE SetUp
  <2>1. Children = {} /\ Children' = {} /\ UNCHANGED <<ramp, orphans>>
    BY <1>1, <1>4 DEF SetUp, TableInv, OneWorker, pwmVars, Children
  <2>2. Lit = <<>> /\ Lit' = <<>>
    BY <2>1 DEF Lit, Shown
  <2>3. QED
    BY <1>0, <1>4, <2>1, <2>2 DEF SetUp, PWM0, D!DimmerNext, D!Reset, D!Dark
<1>5. CASE HandleKey
  <2>1. Lit' = Lit /\ LeftOn' = LeftOn /\ kpc = "key"
    BY <1>0, <1>5 DEF HandleKey, pwmVars, Lit, Children
  <2>2. Lit \in {<<>>, <<pwmx, step>>}
    <3>1. CASE pid \in Children /\ ramp[pid].st = "running"
      BY <1>1, <2>1, <3>1, ShownOne DEF Lit, TableInv, WorkerShowsSettings, Running
    <3>2. CASE pid \notin Children \/ ramp[pid].st # "running"
      BY <1>1, <3>2, ShownOne DEF Lit
    <3>3. QED
      BY <3>1, <3>2
  <2>3. ~D!Stale
    BY <2>2 DEF D!Stale, D!Dark, D!Settings
  <2>4. QED
    BY <1>5, <2>1, <2>3 DEF HandleKey, D!DimmerNext, D!PressSpeed, D!PressMode
<1>6. CASE Fork
  <2>1. Children = {} /\ UNCHANGED <<pwmx, step, orphans>>
    BY <1>1, <1>6 DEF Fork, TableInv, OneWorker
  <2>2. Lit = <<>>
    BY <2>1 DEF Lit, Shown
  <2>3. ASSUME NEW p \in Pids, ramp[p].st = "free", pid' = p,
               ramp' = [ramp EXCEPT ![p] = Fresh(pwmx, step)]
        PROVE  Lit' = <<pwmx, step>> /\ LeftOn' = LeftOn
    <3>1. /\ ramp'[p].st = "running" /\ ramp'[p].mode = pwmx /\ ramp'[p].step = step
      BY <1>1, <2>3 DEF Fresh, Free
    <3>2. p \in Children'
      BY <1>1, <2>1, <2>3, <3>1 DEF Children, TableInv, OrphansExist
    <3>3. Lit' = <<pwmx, step>>
      BY <1>1, <2>3, <3>1, <3>2, ShownOne DEF Lit
    <3>4. p \notin orphans /\ \A q \in orphans : ramp'[q] = ramp[q]
      BY <1>1, <2>3 DEF TableInv, OrphansExist
    <3>5. LeftOn' = LeftOn
      BY <2>1, <3>4, LeftStays
    <3>6. QED
      BY <3>3, <3>5
  <2>4. CASE UNCHANGED ramp
    BY <1>0, <2>1, <2>4 DEF Lit, Children
  <2>5. CASE Lit' = <<pwmx, step>> /\ LeftOn' = LeftOn
    BY <2>1, <2>2, <2>5 DEF D!DimmerNext, D!LightUp, D!Dark, D!Settings
  <2>6. QED
    BY <1>6, <2>3, <2>4, <2>5 DEF Fork
<1>7. CASE Wait \/ \E p \in Pids : InitReaps(p)
  <2>1. UNCHANGED <<pwmx, step, pid>>
    BY <1>7 DEF Wait, InitReaps, mainVars
  <2>2. \A q \in Pids : (q \in Children' /\ ramp'[q].st = "running"
                           <=> q \in Children /\ ramp[q].st = "running")
                        /\ (q \in Children' => ramp'[q] = ramp[q])
    <3>1. Free.st = "free"
      BY DEF Free
    <3>2. QED
      BY <1>1, <1>7, <3>1 DEF Wait, InitReaps, Children
  <2>3. Lit' = Lit
    <3>1. CASE pid \in Children' /\ ramp'[pid].st = "running"
      <4>1. pid \in Pids
        BY <3>1 DEF Children
      <4>2. QED
        BY <1>1, <2>1, <2>2, <3>1, <4>1, ShownOne DEF Lit
    <3>2. CASE ~(pid \in Children' /\ ramp'[pid].st = "running")
      <4>1. ~(pid \in Children /\ ramp[pid].st = "running")
        BY <2>2, <3>2 DEF Children
      <4>2. QED
        BY <1>1, <2>1, <3>2, <4>1, ShownOne DEF Lit
    <3>3. QED
      BY <3>1, <3>2
  <2>4. LeftOn' = LeftOn
    <3>1. Free.st = "free"
      BY DEF Free
    <3>2. orphans \subseteq Pids
      BY <1>1 DEF MainTypeOK
    <3>3. /\ \A q : q \in orphans' /\ ramp'[q].st = "running" <=> on(q)
          /\ \A q : on(q) => ramp'[q] = ramp[q]
      BY <1>1, <1>7, <3>1, <3>2 DEF Wait, InitReaps, Children
    <3>4. QED
      BY <3>3, LeftStays
  <2>5. QED
    BY <2>1, <2>3, <2>4
<1>11. orphans \subseteq Pids
  BY <1>1 DEF MainTypeOK
<1>8. ASSUME NEW p \in Pids, Work(p) \/ Die(p)
      PROVE  [D!DimmerNext]_<<pwmx, step, Lit, LeftOn>>
  <2>1. UNCHANGED <<pwmx, step, pid, orphans>>
    BY <1>8 DEF Work, Die, mainVars
  <2>2. /\ ramp[p].st = "running"
        /\ \A q \in Pids : q # p => ramp'[q] = ramp[q]
        /\ \/ ramp'[p].st = "zombie"
           \/ ramp'[p].st = "running" /\ shows(ramp', p) = shows(ramp, p)
    <3>1. CASE Work(p)
      BY <3>1, RampFrame DEF Work, KeyInv
    <3>2. CASE Die(p)
      BY <1>1, <3>2 DEF Die, Running, Exited, Free
    <3>3. QED
      BY <1>8, <3>1, <3>2
  <2>3. Children' = Children
    BY <2>1, <2>2 DEF Children
  <2>4. CASE p \in Children
    <3>1. p = pid /\ Lit = shows(ramp, p)
      BY <1>1, <2>2, <2>4, ShownOne DEF Lit
    <3>2. Lit' \in {<<>>, shows(ramp, p)}
      BY <1>1, <2>1, <2>2, <2>3, <2>4, <3>1, ShownOne DEF Lit
    <3>3. LeftOn' = LeftOn
      <4>1. p \notin orphans
        BY <2>4 DEF Children
      <4>2. QED
        BY <2>1, <2>2, <4>1, <1>11, LeftStays
    <3>4. QED
      BY <1>2, <2>1, <3>1, <3>2, <3>3 DEF D!DimmerNext, D!GoOut, D!Dark
  <2>5. CASE p \notin Children
    <3>1. \A q \in Children : ramp'[q] = ramp[q]
      BY <2>2, <2>5 DEF Children
    <3>2. Lit' = Lit
      BY <1>1, <2>1, <2>3, <3>1, ShownOne DEF Lit
    <3>3. on(p)
      BY <2>2, <2>5 DEF Children
    <3>4. CASE ramp'[p].st = "running" /\ shows(ramp', p) = shows(ramp, p)
      <4>1. LeftOn' = LeftOn
        BY <2>1, <2>2, <3>3, <3>4, <1>11, LeftStays
      <4>2. QED
        BY <2>1, <3>2, <4>1
    <3>5. CASE ramp'[p].st = "zombie"
      <4>1. {q \in orphans : Running(q)}' = {q \in orphans : Running(q)} \ {p}
        BY <2>1, <2>2, <3>5, <1>11 DEF Running
      <4>2. \A q \in {r \in orphans : Running(r)} \ {p} :
              <<ramp'[q].mode, ramp'[q].step>> = <<ramp[q].mode, ramp[q].step>>
        BY <2>2, <1>11
      <4>3. p \in DOMAIN LeftOn
        BY <3>3 DEF LeftOn, Running
      <4>4. LeftOn' = [q \in DOMAIN LeftOn \ {p} |-> LeftOn[q]]
        BY <4>1, <4>2 DEF LeftOn
      <4>5. QED
        BY <2>1, <3>2, <4>3, <4>4 DEF D!DimmerNext, D!LeftGoesOut
    <3>6. QED
      BY <2>2, <3>4, <3>5
  <2>6. QED
    BY <2>4, <2>5
<1>9. CASE Crash
  <2>1. /\ UNCHANGED <<pwmx, step, ramp>> /\ Children' = {}
        /\ orphans' = orphans \cup Children
    BY <1>1, <1>9 DEF Crash, pwmVars, Children
  <2>2. Lit' = <<>>
    BY <2>1 DEF Lit, Shown
  <2>3. CASE pid \in Children /\ ramp[pid].st = "running"
    <3>1. Lit = shows(ramp, pid) /\ pid \notin orphans /\ pid \in Pids
      BY <1>1, <2>3, ShownOne DEF Lit, Children
    <3>2. {q \in orphans : Running(q)}' = {q \in orphans : Running(q)} \cup {pid}
      BY <1>1, <2>1, <2>3 DEF Running
    <3>3. pid \notin DOMAIN LeftOn
      BY <3>1 DEF LeftOn
    <3>4. LeftOn' = [q \in DOMAIN LeftOn \cup {pid} |-> IF q = pid THEN Lit ELSE LeftOn[q]]
      BY <2>1, <3>1, <3>2 DEF LeftOn
    <3>5. QED
      BY <1>2, <2>1, <2>2, <3>1, <3>3, <3>4 DEF D!DimmerNext, D!Abandon, D!Dark
  <2>4. CASE pid \notin Children \/ ramp[pid].st # "running"
    <3>1. Lit = <<>>
      BY <1>1, <2>4, ShownOne DEF Lit
    <3>2. LeftOn' = LeftOn
      BY <1>1, <2>1, <2>4, LeftStays
    <3>3. QED
      BY <2>1, <2>2, <3>1, <3>2
  <2>5. QED
    BY <2>3, <2>4
<1>10. CASE InitPwm \/ Poll \/ Kill \/ Restart \/ (\E k \in Keys : Press(k)) \/ UNCHANGED keyVars
  <2>1. UNCHANGED <<ramp, orphans, pwmx, step>>
    BY <1>10 DEF InitPwm, PwmInit, PwmInitMux, PwmInitExport, PwmInitWrite, Poll, Kill,
                 Restart, Press, pwmVars, mainVars, keyVars
  <2>2. QED
    BY <1>3, <2>1
<1>12. QED
  BY <1>4, <1>5, <1>6, <1>7, <1>8, <1>9, <1>10 DEF KeyNext, Main

\* key.c implements the dimmer: whatever crashes, the settings never change
\* while an older one is still shown, the light never jumps from one pair of
\* settings to another without going out, and an orphan's light keeps the
\* settings it had until it goes out.
THEOREM KeyImplementsDimmer == KeySpec => ImplementsDimmerSafely
<1>1. KeyInit => D!DimmerInit
  <2>1. SUFFICES ASSUME KeyInit PROVE D!DimmerInit
    OBVIOUS
  <2>2. Children = {}
    BY <2>1 DEF KeyInit, PwmStart, Children, Free
  <2>3. QED
    BY <2>1, <2>2 DEF KeyInit, D!DimmerInit, D!Dark, Lit, LeftOn, Shown, PWM0
<1>2. KeyInv /\ KeyInv' /\ [KeyNext]_keyVars => [D!DimmerNext]_<<pwmx, step, Lit, LeftOn>>
  BY StepSimulates
<1>3. QED
  BY KeyInitHolds, KeyNextPreserves, <1>1, <1>2, PTL DEF KeySpec, ImplementsDimmerSafely
=============================================================================
