--------------------------- MODULE MotorStepProofs ---------------------------
(***************************************************************************)
(* Proofs about MotorStep, for any number of failing calls, kills and      *)
(* restarts: a clean phase is exact, coils overlap only at the wrap, and   *)
(* the rotor turns as Rotor says.                                          *)
(***************************************************************************)
EXTENDS MotorStep, TLAPS

\* The coil the phase before phase p drives.
Before(p) == IF p = 1 THEN 4 ELSE p - 1

\* What the writes of a phase have done so far: the coils behind i are those of
\* the phase, unless a write failed.
CleanInv ==
  /\ ~dirty /\ pc = "write" => \A c \in Coils : c < i => (on[c] <=> c = phase)
  /\ ~dirty /\ pc = "rest"  => \A c \in Coils : on[c] <=> c = phase
  /\ pc = "rest" => i = 1
  /\ pc \in {"mux", "setup"} => phase = 1 /\ ~dirty
  /\ dirty => faults > 0

\* The coils from i on are still those of the phase before, or of the set-up.
OverlapInv ==
  faults = 0 =>
    /\ pc = "setup" => \A c \in Coils : c < i => ~on[c]
    /\ pc = "write" => \/ \A c \in Coils : c >= i => (on[c] <=> c = Before(phase))
                       \/ phase = 1 /\ \A c \in Coils : c >= i => ~on[c]

\* A program that has hold of the rotor has its four pads, and knows coils and
\* rotor exactly: the rotor moves in the write of the phase's coil, or, in the
\* first phase, in the one that switches off the last coil.
HoldInv ==
  held =>
    /\ pc \in {"write", "rest"} /\ ~dirty /\ pads = Coils
    /\ pc = "rest" => rotor = phase
    /\ pc = "write" =>
         /\ \A c \in Coils : c >= i => (on[c] <=> c = Before(phase))
         /\ rotor = IF phase # 1 /\ phase < i THEN phase ELSE Before(phase)

MotorInv == MotorTypeOK /\ CleanInv /\ OverlapInv /\ HoldInv

-----------------------------------------------------------------------------
(* The rotor.                                                               *)

\* The rotor stays on the four detents, whatever coils are driven.
LEMMA PulledIsDetent ==
  ASSUME NEW S \in SUBSET Coils, NEW r \in Coils, NEW x \in Pulled(S, r)
  PROVE  x \in Coils
  BY DEF Pulled

\* One coil next to the rotor pulls it there.
LEMMA PulledByNeighbour ==
  ASSUME NEW c \in Coils, NEW r \in Coils, NEW x \in Pulled({c}, r), c \in Near(r)
  PROVE  x = c
  BY DEF Pulled

\* Without a coil, or with two, the rotor holds.
LEMMA PulledByNone ==
  ASSUME NEW S, NEW r, NEW x \in Pulled(S, r), S = {} \/ S = {1, 4}
  PROVE  x = r
<1>1. ~ \E c \in Coils : S = {c}
  BY DEF Coils
<1>2. QED
  BY <1>1 DEF Pulled

\* The neighbours the phases rely on.
LEMMA PhaseNear ==
  ASSUME NEW p \in Coils
  PROVE  /\ p \in Near(p)
         /\ Before(p) \in Coils
         /\ p \in Near(Before(p))
         /\ Before(p) \in Near(Before(p))
         /\ NextPhase(p) \in Coils
         /\ Before(NextPhase(p)) = p
         /\ p = (Before(p) % 4) + 1
  BY DEF Coils, Near, Before, NextPhase

-----------------------------------------------------------------------------
(* The initial states and the types.                                        *)

LEMMA MotorInitHolds == MotorInit => MotorInv
<1> SUFFICES ASSUME MotorInit PROVE MotorInv
  OBVIOUS
<1>1. dirty \in BOOLEAN /\ held \in BOOLEAN /\ ~dirty /\ ~held /\ pads \subseteq Coils /\ on \in [Coils -> BOOLEAN]
  BY DEF MotorInit
<1>2. MotorTypeOK
  BY <1>1, MotorAssumption DEF MotorAssumption, MotorInit, MotorTypeOK, Coils
<1>3. CleanInv /\ OverlapInv /\ HoldInv
  BY <1>1 DEF MotorInit, CleanInv, OverlapInv, HoldInv, Coils
<1>4. QED
  BY <1>2, <1>3 DEF MotorInv

LEMMA MotorTypeStep ==
  ASSUME MotorTypeOK, [MotorNext]_motorVars
  PROVE  MotorTypeOK'
<1> USE MotorAssumption DEF MotorAssumption
<1>s. ASSUME NEW c \in Coils, NEW v \in BOOLEAN, Switch(c, v)
      PROVE  on' \in [Coils -> BOOLEAN] /\ rotor' \in Coils /\ pads' \subseteq Coils
  <2>1. on' \in [Coils -> BOOLEAN]
    BY <1>s DEF Switch, MotorTypeOK
  <2>2. Driven' \in SUBSET Coils /\ pads' \subseteq Coils
    BY <1>s DEF Driven, Switch, MotorTypeOK
  <2>3. QED
    BY <1>s, <2>1, <2>2, PulledIsDetent DEF Switch, MotorTypeOK
<1>b. dirty' \in BOOLEAN /\ held' \in BOOLEAN
  BY DEF MotorTypeOK, MotorNext, Main, SwitchPad, SetUp, WriteValue, Rest, Kill, Restart, motorVars
<1>f. i \in Coils /\ File(i) = i /\ (i % 4) + 1 \in Coils
  BY DEF MotorTypeOK, File, Coils
<1>1. CASE SetUp
  <2>1. CASE Switch(File(i), FALSE) /\ i' = (i % 4) + 1
             /\ pc' = (IF i = 4 THEN "write" ELSE "setup") /\ UNCHANGED faults
    BY <1>1, <1>f, <1>s, <2>1 DEF SetUp, MotorTypeOK
  <2>2. CASE faults < MaxFaults /\ faults' = faults + 1 /\ pc' = "dead"
             /\ UNCHANGED <<i, pads, on, rotor>>
    BY <1>1, <2>2 DEF SetUp, MotorTypeOK
  <2>3. QED
    BY <1>1, <2>1, <2>2 DEF SetUp
<1>2. CASE WriteValue
  <2>1. CASE Switch(File(i), File(i) = phase) /\ UNCHANGED <<dirty, faults>>
    <3>1. (File(i) = phase) \in BOOLEAN
      OBVIOUS
    <3>2. on' \in [Coils -> BOOLEAN] /\ rotor' \in Coils /\ pads' \subseteq Coils
      BY <1>f, <1>s, <2>1, <3>1
    <3>3. QED
      BY <1>2, <1>b, <1>f, <2>1, <3>2 DEF WriteValue, MotorTypeOK
  <2>2. CASE faults < MaxFaults /\ faults' = faults + 1 /\ dirty' = TRUE /\ held' = FALSE
             /\ UNCHANGED <<pads, on, rotor>>
    BY <1>2, <1>b, <1>f, <2>2 DEF WriteValue, MotorTypeOK
  <2>3. QED
    BY <1>2, <2>1, <2>2 DEF WriteValue
<1>3. CASE Rest
  BY <1>3, PhaseNear DEF Rest, MotorTypeOK
<1>4. CASE Kill
  BY <1>4, <1>b DEF Kill, MotorTypeOK
<1>5. CASE Restart
  BY <1>5, <1>b DEF Restart, MotorTypeOK, Coils
<1>6. CASE UNCHANGED motorVars
  BY <1>6 DEF motorVars, MotorTypeOK
<1>7. CASE SwitchPad
  <2>1. pads' \subseteq Coils /\ on' \in [Coils -> BOOLEAN] /\ faults' \in 0..MaxFaults
    BY <1>7, <1>f DEF SwitchPad, MotorTypeOK
  <2>2. Driven' \in SUBSET Coils
    BY <2>1 DEF Driven
  <2>3. rotor' \in Coils
    BY <1>7, <2>2, PulledIsDetent DEF SwitchPad, MotorTypeOK
  <2>4. QED
    BY <1>7, <1>b, <1>f, <2>1, <2>3 DEF SwitchPad, MotorTypeOK
<1>8. QED
  BY <1>1, <1>2, <1>3, <1>4, <1>5, <1>6, <1>7 DEF MotorNext, Main
-----------------------------------------------------------------------------
(* What a write has done.                                                   *)

\* The two outcomes of a write of a phase, file by file.
LEMMA WriteEffect ==
  ASSUME MotorTypeOK, WriteValue
  PROVE  /\ pc = "write" /\ phase' = phase /\ pads' = pads
         /\ i' = (IF i = 4 THEN 1 ELSE i + 1)
         /\ pc' = (IF i = 4 THEN "rest" ELSE "write")
         /\ \/ /\ \A c \in Coils : on'[c] <=> (IF c = i THEN i = phase ELSE on[c])
               /\ rotor' \in Pulled(Driven', rotor)
               /\ held' <=> (held \/ (i = 4 /\ ~dirty /\ pads = Coils /\ {rotor'} = Driven'))
               /\ dirty' = dirty /\ faults' = faults
            \/ dirty' /\ ~held' /\ faults' = faults + 1
<1>1. i \in Coils /\ i' = (IF i = 4 THEN 1 ELSE i + 1)
  BY DEF MotorTypeOK, WriteValue, Coils
<1>2. CASE Switch(File(i), File(i) = phase) /\ UNCHANGED <<dirty, faults>>
           /\ held' = (held \/ (i = 4 /\ ~dirty /\ pads = Coils /\ {rotor'} = Driven'))
  <2>1. on \in [Coils -> BOOLEAN] /\ on' = [on EXCEPT ![i] = (i = phase)]
    BY <1>2 DEF Switch, File, MotorTypeOK
  <2>2. \A c \in Coils : on'[c] <=> (IF c = i THEN i = phase ELSE on[c])
    BY <1>1, <2>1
  <2>3. rotor' \in Pulled(Driven', rotor) /\ pads' = pads
    BY <1>2 DEF Switch
  <2>4. QED
    BY <1>1, <1>2, <2>2, <2>3 DEF WriteValue
<1>3. CASE /\ faults < MaxFaults /\ faults' = faults + 1 /\ dirty' = TRUE /\ held' = FALSE
           /\ UNCHANGED <<pads, on, rotor>>
  BY <1>1, <1>3 DEF WriteValue
<1>4. QED
  BY <1>2, <1>3 DEF WriteValue

\* Switching a pad changes no GPIO, and the phases have not begun.
LEMMA SwitchPadEffect ==
  ASSUME MotorTypeOK, SwitchPad
  PROVE  /\ pc = "mux" /\ phase' = phase /\ dirty' = dirty /\ held' = held /\ on' = on
         /\ i' = (IF i = 4 THEN 1 ELSE i + 1)
         /\ pc' = (IF i = 4 THEN "setup" ELSE "mux")
         /\ faults' = faults \/ faults' = faults + 1
  BY DEF MotorTypeOK, SwitchPad, Coils

\* The set-up switches one coil off, or ends.
LEMMA SetUpEffect ==
  ASSUME MotorTypeOK, SetUp
  PROVE  /\ pc = "setup" /\ phase' = phase /\ dirty' = dirty /\ held' = held
         /\ \/ /\ \A c \in Coils : on'[c] <=> (c # i /\ on[c])
               /\ i' = (IF i = 4 THEN 1 ELSE i + 1)
               /\ pc' = (IF i = 4 THEN "write" ELSE "setup")
               /\ faults' = faults
            \/ pc' = "dead" /\ faults' = faults + 1
<1>1. i \in Coils /\ (i % 4) + 1 = (IF i = 4 THEN 1 ELSE i + 1)
  BY DEF MotorTypeOK, Coils
<1>2. CASE Switch(File(i), FALSE) /\ i' = (i % 4) + 1
           /\ pc' = (IF i = 4 THEN "write" ELSE "setup") /\ UNCHANGED faults
  <2>1. on \in [Coils -> BOOLEAN] /\ on' = [on EXCEPT ![i] = FALSE]
    BY <1>2 DEF Switch, File, MotorTypeOK
  <2>2. \A c \in Coils : on'[c] <=> (c # i /\ on[c])
    BY <1>1, <2>1
  <2>3. QED
    BY <1>1, <1>2, <2>2 DEF SetUp
<1>3. CASE faults' = faults + 1 /\ pc' = "dead"
  BY <1>3 DEF SetUp
<1>4. QED
  BY <1>2, <1>3 DEF SetUp

-----------------------------------------------------------------------------
(* The three parts of the invariant are preserved.                          *)

LEMMA CleanStep ==
  ASSUME MotorInv, [MotorNext]_motorVars
  PROVE  CleanInv'
<1>t. MotorTypeOK /\ CleanInv /\ i \in 1..4 /\ faults \in Nat
  BY DEF MotorInv, MotorTypeOK, Coils
<1>1. CASE SetUp
  BY <1>t, <1>1, SetUpEffect DEF CleanInv, Coils
<1>2. CASE WriteValue
  BY <1>t, <1>2, WriteEffect DEF CleanInv, Coils
<1>3. CASE Rest
  BY <1>t, <1>3 DEF Rest, CleanInv, Coils
<1>4. CASE Kill
  BY <1>t, <1>4 DEF Kill, CleanInv
<1>5. CASE Restart
  BY <1>t, <1>5 DEF Restart, CleanInv
<1>6. CASE UNCHANGED motorVars
  BY <1>t, <1>6 DEF motorVars, CleanInv
<1>7. CASE SwitchPad
  BY <1>t, <1>7, SwitchPadEffect DEF CleanInv, Coils
<1>8. QED
  BY <1>1, <1>2, <1>3, <1>4, <1>5, <1>6, <1>7 DEF MotorNext, Main

LEMMA OverlapStep ==
  ASSUME MotorInv, [MotorNext]_motorVars
  PROVE  OverlapInv'
<1>t. MotorTypeOK /\ CleanInv /\ OverlapInv /\ i \in 1..4 /\ faults \in Nat
  BY DEF MotorInv, MotorTypeOK, Coils
<1>1. CASE SetUp
  BY <1>t, <1>1, SetUpEffect DEF OverlapInv, CleanInv, Coils
<1>2. CASE WriteValue
  BY <1>t, <1>2, WriteEffect DEF OverlapInv, Coils
<1>3. CASE Rest
  <2>1. phase \in Coils /\ phase' = NextPhase(phase) /\ Before(phase') = phase
    BY <1>t, <1>3, PhaseNear DEF Rest, MotorTypeOK
  <2>2. faults = 0 => \A c \in Coils : on[c] <=> c = phase
    BY <1>t, <1>3 DEF Rest, CleanInv
  <2>3. QED
    BY <1>t, <1>3, <2>1, <2>2 DEF Rest, OverlapInv
<1>4. CASE Kill
  BY <1>t, <1>4 DEF Kill, OverlapInv
<1>5. CASE Restart
  BY <1>t, <1>5 DEF Restart, OverlapInv, Coils
<1>6. CASE UNCHANGED motorVars
  BY <1>t, <1>6 DEF motorVars, OverlapInv
<1>7. CASE SwitchPad
  BY <1>t, <1>7, SwitchPadEffect DEF OverlapInv, CleanInv, Coils
<1>8. QED
  BY <1>1, <1>2, <1>3, <1>4, <1>5, <1>6, <1>7 DEF MotorNext, Main
-----------------------------------------------------------------------------
(* The hold on the rotor.                                                   *)

\* A write by a program that has hold of the rotor leaves the coils of the phase
\* up to i and those of the phase before past it, and moves the rotor at most to
\* the coil of the phase.
LEMMA HeldWrite ==
  ASSUME MotorInv, held, pc = "write",
         \A c \in Coils : on'[c] <=> (IF c = i THEN i = phase ELSE on[c]),
         pads' = pads, rotor' \in Pulled(Driven', rotor)
  PROVE  /\ \A c \in Coils : on'[c] <=> (IF c <= i THEN c = phase ELSE c = Before(phase))
         /\ rotor' = IF (phase # 1 /\ phase <= i) \/ i = 4 THEN phase ELSE Before(phase)
         /\ rotor' # rotor => rotor = Before(phase) /\ rotor' = phase
<1> DEFINE S == Driven'
           b == Before(phase)
<1>s. S = {c \in Coils : on'[c]}
  BY DEF Driven, MotorInv, HoldInv
<1>1. /\ i \in Coils /\ phase \in Coils /\ rotor \in Coils /\ ~dirty
      /\ \A c \in Coils : c < i => (on[c] <=> c = phase)
      /\ \A c \in Coils : c >= i => (on[c] <=> c = b)
      /\ rotor = IF phase # 1 /\ phase < i THEN phase ELSE b
  BY DEF MotorInv, MotorTypeOK, CleanInv, HoldInv
<1>2. \A c \in Coils : on'[c] <=> (IF c <= i THEN c = phase ELSE c = b)
  BY <1>1 DEF Coils
<1>3. /\ phase \in Near(phase) /\ b \in Coils /\ phase \in Near(b) /\ b \in Near(b)
      /\ b = IF phase = 1 THEN 4 ELSE phase - 1
  BY <1>1, PhaseNear DEF Before
<1> HIDE DEF b, S
<1>4. CASE phase # 1 /\ i < b
  <2>1. S = {b}
    BY <1>s, <1>1, <1>2, <1>3, <1>4 DEF Coils
  <2>2. rotor = b
    BY <1>1, <1>3, <1>4 DEF Coils
  <2>3. rotor' = b
    BY <1>3, <2>1, <2>2, PulledByNeighbour DEF S
  <2>4. QED
    BY <1>1, <1>2, <1>3, <1>4, <2>2, <2>3 DEF b, Coils
<1>5. CASE phase # 1 /\ i = b
  <2>1. S = {}
    BY <1>s, <1>1, <1>2, <1>3, <1>5 DEF Coils
  <2>2. rotor' = rotor
    BY <2>1, PulledByNone DEF S
  <2>3. QED
    BY <1>1, <1>2, <1>3, <1>5, <2>2 DEF b, Coils
<1>6. CASE phase # 1 /\ i >= phase
  <2>1. S = {phase}
    BY <1>s, <1>1, <1>2, <1>3, <1>6 DEF Coils
  <2>2. rotor \in {b, phase}
    BY <1>1
  <2>3. rotor' = phase
    BY <1>1, <1>3, <2>1, <2>2, PulledByNeighbour DEF S
  <2>4. QED
    BY <1>1, <1>2, <1>3, <1>6, <2>2, <2>3 DEF b, Coils
<1>7. CASE phase = 1 /\ i # 4
  <2>1. S = {1, 4}
    BY <1>s, <1>1, <1>2, <1>3, <1>7 DEF Coils
  <2>2. rotor' = rotor
    BY <2>1, PulledByNone DEF S
  <2>3. QED
    BY <1>1, <1>2, <1>3, <1>7, <2>2 DEF b, Coils
<1>8. CASE phase = 1 /\ i = 4
  <2>1. S = {phase}
    BY <1>s, <1>1, <1>2, <1>3, <1>8 DEF Coils
  <2>2. rotor' = phase
    BY <1>1, <1>3, <1>8, <2>1, PulledByNeighbour DEF S
  <2>3. QED
    BY <1>1, <1>2, <1>3, <1>8, <2>2 DEF b, Coils
<1>9. QED
  BY <1>1, <1>3, <1>4, <1>5, <1>6, <1>7, <1>8 DEF Coils

LEMMA HoldStep ==
  ASSUME MotorInv, [MotorNext]_motorVars
  PROVE  HoldInv'
<1>t. MotorTypeOK /\ CleanInv /\ HoldInv /\ i \in 1..4 /\ phase \in Coils
  BY DEF MotorInv, MotorTypeOK, Coils
<1>1. CASE SetUp
  BY <1>t, <1>1, SetUpEffect DEF HoldInv
<1>2. CASE WriteValue
  <2>1. CASE held /\ held'
    BY <1>t, <1>2, <2>1, WriteEffect, HeldWrite DEF HoldInv, Coils
  <2>2. CASE ~held /\ held'
    <3>1. /\ i = 4 /\ ~dirty /\ ~dirty' /\ pc' = "rest" /\ phase' = phase
          /\ {rotor'} = Driven' /\ pads = Coils /\ pads' = Coils
          /\ \A c \in Coils : on'[c] <=> c = phase
      BY <1>t, <1>2, <2>2, WriteEffect DEF CleanInv, Coils
    <3>2. rotor' = phase
      BY <1>t, <3>1 DEF Driven
    <3>3. QED
      BY <3>1, <3>2 DEF HoldInv
  <2>3. QED
    BY <2>1, <2>2 DEF HoldInv
<1>3. CASE Rest
  <2>1. phase' = NextPhase(phase) /\ Before(phase') = phase /\ phase' \in Coils
    BY <1>t, <1>3, PhaseNear DEF Rest
  <2>2. i = 1 /\ i' = 1 /\ (held => \A c \in Coils : on[c] <=> c = phase)
    BY <1>t, <1>3 DEF Rest, CleanInv, HoldInv
  <2>3. QED
    BY <1>t, <1>3, <2>1, <2>2 DEF Rest, HoldInv, Coils
<1>4. CASE Kill
  BY <1>4 DEF Kill, HoldInv
<1>5. CASE Restart
  BY <1>t, <1>5 DEF Restart, HoldInv
<1>6. CASE UNCHANGED motorVars
  BY <1>t, <1>6 DEF motorVars, HoldInv
<1>7. CASE SwitchPad
  BY <1>t, <1>7, SwitchPadEffect DEF HoldInv
<1>8. QED
  BY <1>1, <1>2, <1>3, <1>4, <1>5, <1>6, <1>7 DEF MotorNext, Main

-----------------------------------------------------------------------------
(* The theorems.                                                            *)

LEMMA MotorNextPreserves == MotorInv /\ [MotorNext]_motorVars => MotorInv'
  BY MotorTypeStep, CleanStep, OverlapStep, HoldStep DEF MotorInv

LEMMA MotorInvariant == MotorSpec => []MotorInv
  BY MotorInitHolds, MotorNextPreserves, PTL DEF MotorSpec

\* The phase, the write under way and the motor stay what they are, and the
\* bounds hold.
THEOREM MotorTypeCorrect == MotorSpec => []MotorTypeOK
<1>1. MotorInv => MotorTypeOK
  BY DEF MotorInv
<1>2. QED
  BY <1>1, MotorInvariant, PTL

\* However often pads and writes fail and the program is killed, a phase whose
\* own four writes succeed ends with exactly its coil driven, if it has its pad.
THEOREM MotorCleanPhaseIsExact == MotorSpec => []CleanPhaseIsExact
<1>1. MotorInv => CleanPhaseIsExact
  <2> SUFFICES ASSUME MotorInv, pc = "rest", ~dirty PROVE Driven = {phase} \cap pads
    BY DEF CleanPhaseIsExact
  <2>1. phase \in Coils /\ pads \subseteq Coils /\ \A c \in Coils : on[c] <=> c = phase
    BY DEF MotorInv, MotorTypeOK, CleanInv
  <2>2. QED
    BY <2>1 DEF Driven
<1>2. QED
  BY <1>1, MotorInvariant, PTL

\* As long as no write fails, at most one coil is driven, or the first and the
\* last, neighbours round the motor.
THEOREM MotorOverlapOnlyAtWrap == MotorSpec => []OverlapOnlyAtWrap
<1>1. MotorInv => OverlapOnlyAtWrap
  <2> SUFFICES ASSUME MotorInv, pc \in {"write", "rest"}, faults = 0
               PROVE  Driven \in {{}, {1, 4}} \cup {{c} : c \in Coils}
    BY DEF OverlapOnlyAtWrap
  <2> DEFINE High == {c \in Coils : on[c]}
  <2>1. /\ phase \in Coils /\ i \in Coils /\ ~dirty /\ High \subseteq Coils
        /\ \A c \in Coils : c \in High <=> on[c]
    BY DEF MotorInv, MotorTypeOK, CleanInv
  <2>6. Driven \subseteq High
    BY DEF Driven, MotorInv, MotorTypeOK
  <2> HIDE DEF High
  <2>7. SUFFICES High \in {{}, {1, 4}} \cup {{c} : c \in Coils}
    <3>1. CASE High = {1, 4}
      <4>1. Driven \in {{}, {1}, {4}, {1, 4}}
        BY <2>6, <3>1
      <4>2. QED
        BY <4>1 DEF Coils
    <3>2. QED
      BY <2>6, <2>7, <3>1
  <2>2. CASE pc = "rest"
    <3>1. High = {phase}
      BY <2>1, <2>2 DEF MotorInv, CleanInv
    <3>2. QED
      BY <2>1, <3>1
  <2>3. CASE pc = "write"
    <3>1. \A c \in Coils : c < i => (c \in High <=> c = phase)
      BY <2>1, <2>3 DEF MotorInv, CleanInv
    <3>2. CASE \A c \in Coils : c >= i => (c \in High <=> c = Before(phase))
      <4>1. CASE phase = 1
        <5>1. Before(phase) = 4
          BY <4>1 DEF Before
        <5>2. /\ 4 \in High /\ 2 \notin High /\ 3 \notin High
              /\ 1 \in High <=> i # 1
          BY <2>1, <3>1, <3>2, <4>1, <5>1 DEF Coils
        <5>3. High \subseteq {1, 4}
          BY <2>1, <5>2 DEF Coils
        <5>4. High = {4} \/ High = {1, 4}
          BY <5>2, <5>3
        <5>5. QED
          BY <5>4 DEF Coils
      <4>2. CASE phase # 1
        <5>1. Before(phase) = phase - 1 /\ Before(phase) \in Coils
          BY <2>1, <4>2 DEF Before, Coils
        <5>2. \A c \in Coils : c \in High <=> \/ c = phase /\ phase < i
                                              \/ c = Before(phase) /\ i < phase
          <6> TAKE c \in Coils
          <6>1. CASE c < i
            BY <2>1, <3>1, <5>1, <6>1 DEF Coils
          <6>2. CASE c >= i
            BY <2>1, <3>2, <5>1, <6>2 DEF Coils
          <6>3. QED
            BY <2>1, <6>1, <6>2 DEF Coils
        <5>3. CASE i = phase
          <6>1. High = {}
            BY <2>1, <5>2, <5>3 DEF Coils
          <6>2. QED
            BY <6>1
        <5>4. CASE phase < i
          <6>1. \A c \in Coils : c \in High <=> c = phase
            <7> TAKE c \in Coils
            <7>1. ~(i < phase)
              BY <2>1, <5>4 DEF Coils
            <7>2. QED
              BY <5>2, <5>4, <7>1
          <6>2. QED
            BY <2>1, <6>1
        <5>5. CASE i < phase
          <6>1. \A c \in Coils : c \in High <=> c = Before(phase)
            BY <2>1, <5>2, <5>5 DEF Coils
          <6>2. QED
            BY <2>1, <5>1, <6>1
        <5>6. QED
          BY <2>1, <5>3, <5>4, <5>5 DEF Coils
      <4>3. QED
        BY <4>1, <4>2
    <3>3. CASE phase = 1 /\ \A c \in Coils : c >= i => ~on[c]
      <4>1. \A c \in Coils : c \in High <=> c = phase /\ i # 1
        BY <2>1, <3>1, <3>3 DEF Coils
      <4>2. High = IF i = 1 THEN {} ELSE {phase}
        BY <2>1, <4>1
      <4>3. QED
        BY <2>1, <4>2
    <3>4. QED
      BY <2>3, <3>2, <3>3, <2>1 DEF MotorInv, OverlapInv
  <2>4. QED
    BY <2>2, <2>3
<1>2. QED
  BY <1>1, MotorInvariant, PTL

\* The detent the program has hold of, for Rotor.
Pos == IF held THEN rotor ELSE 0

\* Every step is one of the rotor's, or leaves it.
LEMMA MotorStepTurns ==
  ASSUME MotorInv, MotorInv', [MotorNext]_motorVars
  PROVE  [R!RotorNext]_Pos
<1>t. MotorTypeOK /\ CleanInv /\ HoldInv /\ rotor \in 1..4 /\ rotor' \in 1..4
  BY DEF MotorInv, MotorTypeOK, Coils
<1>1. CASE ~held /\ ~held'
  BY <1>1 DEF Pos
<1>2. CASE ~held /\ held'
  BY <1>t, <1>2 DEF Pos, R!RotorNext, R!Take
<1>3. CASE held /\ ~held'
  BY <1>t, <1>3 DEF Pos, R!RotorNext, R!LetGo
<1>4. CASE held /\ held'
  <2>1. CASE rotor' = rotor
    BY <1>4, <2>1 DEF Pos
  <2>2. CASE rotor' # rotor
    <3>1. WriteValue
      <4>1. ~SetUp /\ ~SwitchPad
        BY <1>t, <1>4 DEF HoldInv, SetUp, SwitchPad
      <4>2. QED
        BY <2>2, <4>1 DEF MotorNext, Main, Rest, Kill, Restart, motorVars
    <3>2. rotor = Before(phase) /\ rotor' = phase
      BY <1>t, <1>4, <2>2, <3>1, WriteEffect, HeldWrite
    <3>3. phase = (Before(phase) % 4) + 1
      BY <1>t, PhaseNear DEF MotorTypeOK
    <3>4. QED
      BY <1>t, <1>4, <3>2, <3>3 DEF Pos, R!RotorNext, R!Advance
  <2>3. QED
    BY <2>1, <2>2
<1>5. QED
  BY <1>1, <1>2, <1>3, <1>4

\* Whatever coils and detent the program found, and whatever fails, the motor
\* turns one detent at a time and in one direction while the program has hold
\* of it.
THEOREM MotorImplementsRotor == MotorSpec => TurnsForward
<1>1. MotorInit => R!RotorInit
  BY DEF MotorInit, R!RotorInit
<1>2. MotorInv /\ MotorInv' /\ [MotorNext]_motorVars
        => [R!RotorNext]_(IF held THEN rotor ELSE 0)
  BY MotorStepTurns DEF Pos
<1>3. QED
  BY MotorInvariant, <1>1, <1>2, PTL DEF MotorSpec, TurnsForward, R!RotorSpec
=============================================================================
