---------------------------- MODULE SteeringProofs ----------------------------
(***************************************************************************)
(* Proofs about Steering, for every version the controller may report and  *)
(* every number of late and lost answers.  The inductive invariant says    *)
(* what the unread halves of answers are: with one answer late the program *)
(* stays one answer, or half an answer, behind for the rest of its script, *)
(* and still takes no other answer for that of a servo at rest.            *)
(***************************************************************************)
EXTENDS Steering, SequenceTheorems, TLAPS

\* SteeringTypeOK, with the script's length in place.
SteeringTypes ==
  /\ turn \in Turns
  /\ pc \in 0..10
  /\ phase \in {"open", "send", "read", "test", "exit"}
  /\ phase \in {"send", "read", "test"} => pc \in 1..9
  /\ word \in Nat /\ rx \in Seq(Nat) /\ wire \in Seq(Nat)
  /\ pos \in Positions /\ target \in Positions
  /\ button \in BOOLEAN /\ pressed \in BOOLEAN /\ torn \in BOOLEAN
  /\ led \in {"LED_ON", "LED_OFF"}
  /\ late \in 0..MaxLate /\ lost \in 0..MaxLost

\* The halves of answers the program has not read.
Stream == rx \o wire

\* No more than one answer was late or something was lost: what the two theorems
\* about the motion allow.
OnceAtMost == late + lost <= 1

Running == phase \in {"send", "read", "test"}
Turning == pc \in {5, 7}
Waiting == pc \in {6, 8}

\* The halves that are left between two commands: none, the answer that was late,
\* or its second half.
Left == IF late = 0 THEN 0 ELSE IF torn THEN 1 ELSE 2

\* What the controller sent last, and what the next read brings when all is there.
Latest == IF Len(Stream) = 0 THEN word ELSE Stream[Len(Stream)]
Coming == IF Len(Stream) >= 2 THEN Stream[2] ELSE word

\* A status that lets the program go on is one of a servo at rest.
Rests(v) == v = 0 => pos = target

InStep ==
  OnceAtMost /\ Running =>
    /\ late = 0 => ~torn
    /\ phase # "read" => Len(Stream) = Left
    /\ phase = "read" => Len(Stream) = Left + 2 \/ (late = 0 /\ lost = 1 /\ Len(Stream) = 0)
    /\ phase = "read" /\ torn => Stream[2] = Header

\* The answer to a turn cannot be taken for a servo at rest.
TurnAnswered ==
  OnceAtMost /\ lost = 0 /\ ~torn /\ Turning /\ phase \in {"read", "test"} => Latest # 0

\* Whatever the waiting loops read is of the turn before them.
StatusTrue ==
  OnceAtMost /\ Waiting /\ Running =>
    /\ lost = 0 /\ ~torn => Rests(Latest)
    /\ phase = "read" => Rests(Coming)
    /\ phase = "read" /\ late = 0 /\ lost = 0 => Rests(word)
    /\ phase = "test" => Rests(word)

Aimed ==
  lost = 0 =>
    /\ (pc = 5 /\ phase \in {"read", "test"}) \/ pc = 6 \/ (pc = 7 /\ phase = "send") =>
         target = Position[turn]
    /\ (pc = 7 /\ phase \in {"read", "test"}) \/ pc >= 8 => target = Position["DEGREE0"]

Stopped == OnceAtMost /\ GoesOn => pos = target

KeyAsked ==
  /\ button => pressed
  /\ late = 0 /\ lost = 0 =>
       /\ pc = 2 /\ phase = "read" => (Coming # 0 => pressed)
       /\ pc = 2 /\ phase = "test" => (word # 0 => pressed)
       /\ pc > 2 => pressed

Fresh == phase = "open" => pc = 0 /\ wire = <<>> /\ late = 0 /\ lost = 0 /\ ~torn

SteeringInv ==
  SteeringTypes /\ Fresh /\ InStep /\ TurnAnswered /\ StatusTrue /\ Aimed /\ Stopped /\ KeyAsked

-----------------------------------------------------------------------------
(* The script and the stream of answers.                                    *)

LEMMA TurnsAre == Turns = {"DEGREE0", "DEGREE90", "DEGREE180"}
BY DEF Turns, Position

LEMMA PositionsAre ==
  /\ \A t \in Turns : Position[t] \in Positions /\ Position[t] \in Nat /\ Position[t] # 0
  /\ Positions \subseteq Nat \ {0}
<1>1. ASSUME NEW t \in Turns PROVE Position[t] \in Nat /\ Position[t] # 0
  BY TurnsAre DEF Position
<1>2. QED
  BY <1>1 DEF Positions

LEMMA ScriptIs ==
  ASSUME turn \in Turns
  PROVE  /\ Len(Script) = 9 /\ DOMAIN Script = 1..9
         /\ Script[2] = "BUTTON_READ" /\ Script[5] = turn /\ Script[7] = "DEGREE0"
         /\ \A i \in 1..9 : Script[i] = "BUTTON_READ" <=> i = 2
         /\ \A i \in 1..9 : Script[i] = "STAT_READ" <=> i \in {6, 8}
         /\ \A i \in 1..9 : Script[i] \in Turns <=> i \in {5, 7}
<1>1. /\ Script[1] = "VERSION" /\ Script[2] = "BUTTON_READ" /\ Script[3] = "LED_ON"
      /\ Script[4] = "SPEED0" /\ Script[5] = turn /\ Script[6] = "STAT_READ"
      /\ Script[7] = "DEGREE0" /\ Script[8] = "STAT_READ" /\ Script[9] = "LED_OFF"
      /\ Len(Script) = 9 /\ DOMAIN Script = 1..9
  BY DEF Script
<1> HIDE DEF Script
<1>2. ASSUME NEW i \in 1..9
      PROVE  /\ Script[i] = "BUTTON_READ" <=> i = 2
             /\ Script[i] = "STAT_READ" <=> i \in {6, 8}
             /\ Script[i] \in Turns <=> i \in {5, 7}
  BY <1>1, TurnsAre
<1>3. QED
  BY <1>1, <1>2

LEMMA Associative ==
  ASSUME NEW s \in Seq(Nat), NEW t \in Seq(Nat), NEW u \in Seq(Nat)
  PROVE  (s \o t) \o u = s \o (t \o u)
BY ConcatAssociative

\* What is left of an input queue when a read has taken an answer.
LEMMA RestOf ==
  ASSUME NEW s \in Seq(Nat), Len(s) >= 2
  PROVE  /\ SubSeq(s, 3, Len(s)) \in Seq(Nat)
         /\ Len(SubSeq(s, 3, Len(s))) = Len(s) - 2
         /\ \A i \in 1..Len(s) - 2 : SubSeq(s, 3, Len(s))[i] = s[i + 2]
<1>1. SubSeq(s, 3, Len(s)) \in Seq(Nat)
  OBVIOUS
<1>2. \A i \in 1..Len(s) - 2 : SubSeq(s, 3, Len(s))[i] = s[i + 2]
  OBVIOUS
<1>3. Len(SubSeq(s, 3, Len(s))) = Len(s) - 2
  <2>1. Len(s) \in Nat
    OBVIOUS
  <2>2. Len(s) = 2 \/ Len(s) >= 3
    <3>1. \A n \in Nat : n >= 2 => n = 2 \/ n >= 3
      OBVIOUS
    <3>2. QED
      BY <2>1, <3>1, Zenon
  <2>3. CASE Len(s) = 2
    BY <2>3, SubSeqEmpty
  <2>4. CASE Len(s) >= 3
    BY <2>4
  <2>5. QED
    BY <2>2, <2>3, <2>4, Zenon
<1>4. QED
  BY <1>1, <1>2, <1>3

LEMMA StreamIs ==
  ASSUME rx \in Seq(Nat), wire \in Seq(Nat)
  PROVE  /\ Stream \in Seq(Nat) /\ Len(Stream) = Len(rx) + Len(wire)
         /\ Len(rx) \in Nat /\ Len(wire) \in Nat
         /\ \A i \in 1..Len(rx) : Stream[i] = rx[i]
BY ConcatProperties DEF Stream

LEMMA DeliverKeeps ==
  ASSUME rx \in Seq(Nat), wire \in Seq(Nat), Deliver
  PROVE  rx' \in Seq(Nat) /\ wire' \in Seq(Nat) /\ Stream' = Stream
<1>1. PICK n \in {1, 2} : /\ n <= Len(wire)
                          /\ rx' = rx \o SubSeq(wire, 1, n)
                          /\ wire' = SubSeq(wire, n + 1, Len(wire))
  BY DEF Deliver
<1>2. SubSeq(wire, 1, n) \in Seq(Nat) /\ SubSeq(wire, n + 1, Len(wire)) \in Seq(Nat)
  BY <1>1
<1>3. SubSeq(wire, 1, n) \o SubSeq(wire, n + 1, Len(wire)) = SubSeq(wire, 1, Len(wire))
  <2>1. /\ 1 \in 1..Len(wire) + 1 /\ n \in (1 - 1)..Len(wire) /\ Len(wire) \in n..Len(wire)
    BY <1>1
  <2>2. QED
    BY <2>1, ConcatAdjacentSubSeq, Zenon
<1>4. SubSeq(wire, 1, Len(wire)) = wire
  BY SubSeqFull
<1>5. (rx \o SubSeq(wire, 1, n)) \o SubSeq(wire, n + 1, Len(wire))
        = rx \o (SubSeq(wire, 1, n) \o SubSeq(wire, n + 1, Len(wire)))
  BY <1>2, Associative
<1>6. rx' \in Seq(Nat)
  BY <1>1, <1>2, ConcatProperties, Zenon
<1>7. QED
  BY <1>1, <1>2, <1>3, <1>4, <1>5, <1>6 DEF Stream

LEMMA SendAppends ==
  ASSUME rx \in Seq(Nat), wire \in Seq(Nat), UNCHANGED rx, NEW h \in Nat, NEW v \in Nat,
         wire' = wire \o <<h, v>>
  PROVE  /\ wire' \in Seq(Nat) /\ Len(Stream') = Len(Stream) + 2 /\ Len(Stream) \in Nat
         /\ \A i \in 1..Len(Stream) : Stream'[i] = Stream[i]
         /\ Stream'[Len(Stream) + 1] = h /\ Stream'[Len(Stream) + 2] = v
<1>1. <<h, v>> \in Seq(Nat) /\ Len(<<h, v>>) = 2 /\ <<h, v>>[1] = h /\ <<h, v>>[2] = v
  OBVIOUS
<1>2. Stream' = Stream \o <<h, v>> /\ Stream \in Seq(Nat) /\ wire' \in Seq(Nat)
  <2>1. (rx \o wire) \o <<h, v>> = rx \o (wire \o <<h, v>>)
    BY <1>1, Associative
  <2>2. rx \o wire \in Seq(Nat) /\ wire \o <<h, v>> \in Seq(Nat)
    BY <1>1, ConcatProperties, Zenon
  <2>3. QED
    BY <2>1, <2>2 DEF Stream
<1>3. /\ Len(Stream') = Len(Stream) + 2 /\ Len(Stream) \in Nat
      /\ \A i \in 1..Len(Stream) + 2 :
           Stream'[i] = IF i <= Len(Stream) THEN Stream[i] ELSE <<h, v>>[i - Len(Stream)]
  BY <1>1, <1>2, ConcatProperties
<1>4. QED
  BY <1>1, <1>2, <1>3

LEMMA ReadTakes ==
  ASSUME rx \in Seq(Nat), wire \in Seq(Nat), UNCHANGED wire,
         rx' = IF Len(rx) >= 2 THEN SubSeq(rx, 3, Len(rx)) ELSE <<>>
  PROVE  /\ rx' \in Seq(Nat)
         /\ Len(rx) >= 2 => /\ Len(Stream') = Len(Stream) - 2
                            /\ \A i \in 1..Len(Stream) - 2 : Stream'[i] = Stream[i + 2]
         /\ Len(rx) < 2 => Stream' = wire
<1>1. Len(rx) < 2 => rx' \in Seq(Nat) /\ Stream' = wire
  BY ConcatEmptySeq DEF Stream
<1>2. ASSUME Len(rx) >= 2
      PROVE  /\ rx' \in Seq(Nat)
             /\ Len(Stream') = Len(Stream) - 2
             /\ \A i \in 1..Len(Stream) - 2 : Stream'[i] = Stream[i + 2]
  <2>1. rx' = SubSeq(rx, 3, Len(rx)) /\ Len(rx) \in Nat /\ Len(wire) \in Nat
    BY <1>2
  <2>2. rx' \in Seq(Nat) /\ Len(rx') = Len(rx) - 2 /\ \A i \in 1..Len(rx) - 2 : rx'[i] = rx[i + 2]
    BY <1>2, <2>1, RestOf
  <2>3. /\ Len(Stream) = Len(rx) + Len(wire)
        /\ \A i \in 1..Len(rx) + Len(wire) :
             Stream[i] = IF i <= Len(rx) THEN rx[i] ELSE wire[i - Len(rx)]
    BY ConcatProperties DEF Stream
  <2>4. /\ Len(Stream') = Len(rx') + Len(wire)
        /\ \A i \in 1..Len(rx') + Len(wire) :
             Stream'[i] = IF i <= Len(rx') THEN rx'[i] ELSE wire[i - Len(rx')]
    BY <2>2, ConcatProperties DEF Stream
  <2>5. ASSUME NEW i \in 1..Len(Stream) - 2 PROVE Stream'[i] = Stream[i + 2]
    <3>1. i \in 1..Len(rx') + Len(wire) /\ i + 2 \in 1..Len(rx) + Len(wire)
      BY <2>1, <2>2, <2>3
    <3>2. CASE i <= Len(rx')
      <4>1. i + 2 <= Len(rx) /\ i \in 1..Len(rx) - 2
        BY <2>1, <2>2, <3>1, <3>2
      <4>2. Stream'[i] = rx'[i] /\ Stream[i + 2] = rx[i + 2]
        BY <2>3, <2>4, <3>1, <3>2, <4>1
      <4>3. QED
        BY <2>2, <4>1, <4>2
    <3>3. CASE i > Len(rx')
      <4>1. (i + 2) - Len(rx) = i - Len(rx') /\ ~(i + 2 <= Len(rx)) /\ ~(i <= Len(rx'))
        <5>1. Len(rx') = Len(rx) - 2 /\ Len(rx') \in Int /\ Len(rx) \in Int /\ i \in Int
          BY <2>1, <2>2, <3>1
        <5>2. \A j, a, b \in Int :
                a = b - 2 /\ j > a => (j + 2) - b = j - a /\ ~(j + 2 <= b) /\ ~(j <= a)
          OBVIOUS
        <5>3. QED
          BY <3>3, <5>1, <5>2, Zenon
      <4>2. Stream'[i] = wire[i - Len(rx')] /\ Stream[i + 2] = wire[(i + 2) - Len(rx)]
        BY <2>3, <2>4, <3>1, <4>1
      <4>3. QED
        BY <4>1, <4>2
    <3>4. QED
      BY <2>2, <3>1, <3>2, <3>3
  <2>6. QED
    BY <2>1, <2>2, <2>3, <2>4, <2>5
<1>3. Len(rx) \in Nat
  OBVIOUS
<1>4. Len(rx) < 2 \/ Len(rx) >= 2
  BY <1>3
<1>5. QED
  BY <1>1, <1>2, <1>4

-----------------------------------------------------------------------------
(* One lemma per action.                                                    *)

LEMMA SteeringInitHolds == SteeringInit => SteeringInv
<1> SUFFICES ASSUME SteeringInit PROVE SteeringInv
  OBVIOUS
<1>1. SteeringTypes
  <2>1. torn \in BOOLEAN /\ button \in BOOLEAN /\ pressed \in BOOLEAN
    BY DEF SteeringInit
  <2>2. rx \in Seq(Nat) /\ wire \in Seq(Nat)
    <3>1. <<>> \in Seq(Nat) /\ <<Header, 1>> \in Seq(Nat)
      BY DEF Header
    <3>2. QED
      BY <3>1 DEF SteeringInit
  <2>3. QED
    BY <2>1, <2>2, SteeringAssumption DEF SteeringInit, SteeringTypes, SteeringAssumption
<1>2. phase = "open" /\ pc = 0 /\ ~torn /\ late = 0 /\ lost = 0 /\ wire = <<>>
  BY DEF SteeringInit
<1>3. button => pressed
  BY DEF SteeringInit
<1>4. Fresh /\ InStep /\ TurnAnswered /\ StatusTrue /\ Aimed /\ Stopped /\ KeyAsked
  BY <1>2, <1>3 DEF Fresh, InStep, TurnAnswered, StatusTrue, Aimed, Stopped, KeyAsked, GoesOn,
                    Running, Turning, Waiting
<1>5. QED
  BY <1>1, <1>4 DEF SteeringInv

\* A step of neither the program nor the wire, that lets a servo at rest rest.
LEMMA OutsideStep ==
  ASSUME SteeringInv, UNCHANGED <<program, target, late, lost, torn>>, Stream' = Stream,
         wire = <<>> => wire' = <<>>,
         SteeringTypes', pos = target => pos' = target, button' => pressed', pressed => pressed'
  PROVE  SteeringInv'
<1>1. Latest' = Latest /\ Coming' = Coming
  BY DEF Latest, Coming, program
<1>2. Running' = Running /\ Turning' = Turning /\ Waiting' = Waiting /\ OnceAtMost' = OnceAtMost
      /\ GoesOn' = GoesOn
  BY DEF Running, Turning, Waiting, OnceAtMost, GoesOn, program
<1>3. Fresh'
  BY DEF SteeringInv, Fresh, program
<1>4. InStep'
  BY <1>2 DEF SteeringInv, InStep, Left, program
<1>5. TurnAnswered'
  BY <1>1, <1>2 DEF SteeringInv, TurnAnswered, program
<1>6. StatusTrue'
  <2>1. \A v : Rests(v) => Rests(v)'
    BY DEF Rests
  <2>2. Rests(Latest) => Rests(Latest)'
    BY <1>1 DEF Rests
  <2>3. Rests(Coming) => Rests(Coming)'
    BY <1>1 DEF Rests
  <2>4. Rests(word) => Rests(word)'
    BY DEF Rests, program
  <2>5. QED
    BY <1>2, <2>2, <2>3, <2>4 DEF SteeringInv, StatusTrue, program
<1>7. Aimed'
  BY DEF SteeringInv, Aimed, program
<1>8. Stopped'
  BY <1>2 DEF SteeringInv, Stopped
<1>9. KeyAsked'
  BY <1>1 DEF SteeringInv, KeyAsked, program
<1>10. QED
  BY <1>3, <1>4, <1>5, <1>6, <1>7, <1>8, <1>9 DEF SteeringInv

LEMMA DeliverStep == SteeringInv /\ Deliver => SteeringInv'
<1> SUFFICES ASSUME SteeringInv, Deliver PROVE SteeringInv'
  OBVIOUS
<1>1. rx' \in Seq(Nat) /\ wire' \in Seq(Nat) /\ Stream' = Stream
  BY DeliverKeeps DEF SteeringInv, SteeringTypes
<1>2. UNCHANGED <<program, controller, pressed, late, lost, torn>> /\ wire # <<>>
  BY DEF Deliver
<1>3. SteeringTypes'
  BY <1>1, <1>2 DEF SteeringInv, SteeringTypes, program, controller
<1>4. button' => pressed'
  BY <1>2 DEF SteeringInv, KeyAsked, controller
<1>5. QED
  BY <1>1, <1>2, <1>3, <1>4, OutsideStep DEF controller

LEMMA ServoStep == SteeringInv /\ ServoStops => SteeringInv'
<1> SUFFICES ASSUME SteeringInv, ServoStops PROVE SteeringInv'
  OBVIOUS
<1>1. UNCHANGED <<program, rx, wire, target, button, pressed, led, late, lost, torn>> /\ pos' = target
  BY DEF ServoStops
<1>2. Stream' = Stream
  BY <1>1 DEF Stream
<1>3. SteeringTypes'
  BY <1>1 DEF SteeringInv, SteeringTypes, program
<1>4. button' => pressed'
  BY <1>1 DEF SteeringInv, KeyAsked
<1>5. QED
  BY <1>1, <1>2, <1>3, <1>4, OutsideStep

LEMMA PressStep == SteeringInv /\ Press => SteeringInv'
<1> SUFFICES ASSUME SteeringInv, Press PROVE SteeringInv'
  OBVIOUS
<1>1. UNCHANGED <<program, rx, wire, pos, target, led, late, lost, torn>> /\ button' /\ pressed'
      /\ button' \in BOOLEAN /\ pressed' \in BOOLEAN
  BY DEF Press
<1>2. Stream' = Stream
  BY <1>1 DEF Stream
<1>3. SteeringTypes'
  BY <1>1 DEF SteeringInv, SteeringTypes, program
<1>4. QED
  BY <1>1, <1>2, <1>3, OutsideStep

LEMMA OpenStep == SteeringInv /\ Open => SteeringInv'
<1> SUFFICES ASSUME SteeringInv, Open PROVE SteeringInv'
  OBVIOUS
<1>1. phase = "open" /\ pc = 0 /\ wire = <<>> /\ late = 0 /\ lost = 0 /\ ~torn
  BY DEF Open, SteeringInv, Fresh
<1>2. UNCHANGED <<turn, word, wire, controller, pressed, late, lost, torn>>
  BY DEF Open
<1>3. \/ phase' = "send" /\ pc' = 1 /\ rx' = <<>>
      \/ phase' = "exit" /\ pc' = 0 /\ rx' = rx
  BY <1>1 DEF Open
<1>4. SteeringTypes'
  <2>1. <<>> \in Seq(Nat)
    OBVIOUS
  <2>2. /\ pc' \in {0, 1}  /\ phase' \in {"send", "exit"}
        /\ phase' = "send" => pc' = 1
        /\ rx' \in Seq(Nat)
    BY <1>3, <2>1 DEF SteeringInv, SteeringTypes
  <2>3. QED
    BY <1>2, <2>2 DEF SteeringInv, SteeringTypes, controller
<1>5. ~torn' /\ late' = 0 /\ lost' = 0 /\ pc' \in {0, 1} /\ phase' \in {"send", "exit"}
  BY <1>1, <1>2, <1>3
<1>6. phase' = "send" => Stream' = <<>> /\ Len(Stream') = 0
  BY <1>1, <1>2, <1>3 DEF Stream
<1>7. InStep'
  BY <1>5, <1>6 DEF InStep, Left, Running
<1>8. Fresh' /\ TurnAnswered' /\ StatusTrue' /\ Aimed' /\ Stopped'
  BY <1>5 DEF Fresh, TurnAnswered, StatusTrue, Aimed, Stopped, GoesOn, Turning, Waiting
<1>9. KeyAsked'
  <2>1. button' => pressed'
    BY <1>2 DEF SteeringInv, KeyAsked, controller
  <2>2. pc' # 2 /\ ~(pc' > 2)
    BY <1>5
  <2>3. QED
    BY <2>1, <2>2, Zenon DEF KeyAsked
<1>10. QED
  BY <1>4, <1>7, <1>8, <1>9 DEF SteeringInv

\* What a command does to the controller, and what it is answered.
LEMMA CommandIs ==
  ASSUME SteeringTypes, phase = "send", Execute(Command)
  PROVE  /\ pos' = pos /\ target' \in Positions /\ button' \in BOOLEAN
         /\ led' \in {"LED_ON", "LED_OFF"}
         /\ button' => button
         /\ pc = 5 => target' = Position[turn]
         /\ pc = 7 => target' = Position["DEGREE0"]
         /\ ~Turning => target' = target
<1>1. /\ Script[5] = turn /\ Script[7] = "DEGREE0" /\ pc \in 1..9
      /\ Script[pc] \in Turns <=> pc \in {5, 7}
  BY ScriptIs DEF SteeringTypes
<1>2. target' = IF Command \in Turns THEN Position[Command] ELSE target
  BY DEF Execute
<1>3. target' \in Positions
  BY <1>2, PositionsAre DEF SteeringTypes
<1>4. button' \in BOOLEAN /\ (button' => button)
  BY DEF Execute
<1>5. QED
  BY <1>1, <1>2, <1>3, <1>4 DEF Execute, Command, SteeringTypes, Turning

LEMMA AnswerIs ==
  ASSUME SteeringTypes, phase = "send"
  PROVE  /\ Value(Command) \in Nat
         /\ Turning => Value(Command) # 0
         /\ Waiting => Rests(Value(Command))
         /\ pc = 2 => (Value(Command) # 0 => button)
<1>1. /\ Script[2] = "BUTTON_READ" /\ Script[5] = turn /\ Script[7] = "DEGREE0" /\ pc \in 1..9
      /\ Script[pc] = "STAT_READ" <=> pc \in {6, 8}
      /\ Script[pc] \in Turns <=> pc \in {5, 7}
  BY ScriptIs DEF SteeringTypes
<1>2. Command \in Turns => Value(Command) = Position[Command]
  BY TurnsAre DEF Value
<1>3. Command = "STAT_READ" => Value(Command) = IF pos # target THEN 1 ELSE 0
  BY TurnsAre DEF Value
<1>4. Command = "BUTTON_READ" => Value(Command) = IF button THEN 1 ELSE 0
  BY TurnsAre DEF Value
<1>5. Value(Command) \in Nat
  BY PositionsAre, SteeringAssumption DEF Value, SteeringAssumption
<1>6. Turning => Value(Command) # 0
  BY <1>1, <1>2, PositionsAre DEF Turning, Command
<1>7. Waiting => Rests(Value(Command))
  BY <1>1, <1>3 DEF Waiting, Command, Rests
<1>8. pc = 2 => (Value(Command) # 0 => button)
  BY <1>1, <1>4 DEF Command
<1>9. QED
  BY <1>5, <1>6, <1>7, <1>8

LEMMA AnsweredStep ==
  ASSUME SteeringInv, phase = "send", Execute(Command),
         wire' = wire \o <<Header, Value(Command)>>, phase' = "read",
         UNCHANGED <<turn, pc, word, rx, pressed, late, lost, torn>>
  PROVE  SteeringInv'
<1> DEFINE v == Value(Command)
<1>1. /\ v \in Nat /\ Header \in Nat /\ Header # 0
      /\ Turning => v # 0
      /\ Waiting => Rests(v)
      /\ pc = 2 => (v # 0 => button)
  BY AnswerIs DEF SteeringInv, Header
<1> HIDE DEF v
<1>2. /\ pos' = pos /\ target' \in Positions /\ button' \in BOOLEAN
      /\ led' \in {"LED_ON", "LED_OFF"}
      /\ button' => button
      /\ pc = 5 => target' = Position[turn]
      /\ pc = 7 => target' = Position["DEGREE0"]
      /\ ~Turning => target' = target
  BY CommandIs DEF SteeringInv
<1>3. PICK n \in Nat :
        /\ n = Len(Stream) /\ Len(Stream') = n + 2 /\ wire' \in Seq(Nat)
        /\ \A i \in 1..n : Stream'[i] = Stream[i]
        /\ Stream'[n + 1] = Header /\ Stream'[n + 2] = v
  BY <1>1, SendAppends DEF SteeringInv, SteeringTypes, v
<1>4. SteeringTypes'
  BY <1>2, <1>3 DEF SteeringInv, SteeringTypes
<1>5. OnceAtMost => /\ late = 0 => ~torn
                    /\ n = Left
  BY <1>3 DEF SteeringInv, InStep, Running
<1>6. Latest' = v /\ Coming' = Stream'[2]
  BY <1>3 DEF Latest, Coming
<1>7. /\ n = 0 => Coming' = v /\ Latest = word
      /\ n = 1 => Coming' = Header
      /\ n = 2 => Coming' = Latest
  <2>1. CASE n = 0
    <3>1. Stream'[2] = v
      BY <1>3, <2>1
    <3>2. QED
      BY <1>3, <1>6, <2>1, <3>1 DEF Latest
  <2>2. CASE n = 1
    <3>1. Stream'[2] = Header
      BY <1>3, <2>2
    <3>2. QED
      BY <1>6, <2>2, <3>1
  <2>3. CASE n = 2
    <3>1. Stream'[2] = Stream[2]
      BY <1>3, <2>3
    <3>2. QED
      BY <1>3, <1>6, <2>3, <3>1 DEF Latest
  <2>4. QED
    BY <2>1, <2>2, <2>3
<1>8. InStep'
  BY <1>3, <1>5, <1>6, <1>7 DEF InStep, OnceAtMost, Left
<1>9. TurnAnswered'
  BY <1>1, <1>6 DEF TurnAnswered, Turning
<1>10. StatusTrue'
  <2>1. SUFFICES ASSUME OnceAtMost, Waiting
                 PROVE  Rests(Latest)' /\ Rests(Coming)' /\ (late = 0 /\ lost = 0 => Rests(word)')
    BY DEF StatusTrue, OnceAtMost, Waiting
  <2>2. target' = target
    BY <1>2, <2>1 DEF Turning, Waiting
  <2>3. Rests(v) /\ (lost = 0 /\ ~torn => Rests(Latest))
    BY <1>1, <2>1 DEF SteeringInv, StatusTrue, Running
  <2>4. Rests(Latest)'
    BY <1>2, <1>6, <2>2, <2>3 DEF Rests
  <2>5. late = 0 /\ lost = 0 => Rests(word)'
    BY <1>2, <1>5, <1>7, <2>1, <2>2, <2>3 DEF Rests, Left
  <2>6. Rests(Coming)'
    <3>1. CASE late = 0
      BY <1>2, <1>5, <1>7, <2>1, <2>2, <2>3, <3>1 DEF Rests, Left
    <3>2. CASE late # 0 /\ torn
      BY <1>1, <1>5, <1>7, <2>1, <3>2 DEF Rests, Left
    <3>3. CASE late # 0 /\ ~torn
      <4>1. lost = 0
        BY <2>1, <3>3 DEF OnceAtMost, SteeringInv, SteeringTypes
      <4>2. n = 2 /\ Rests(Latest)
        BY <1>5, <2>1, <2>3, <3>3, <4>1 DEF Left
      <4>3. QED
        BY <1>2, <1>7, <2>2, <4>2 DEF Rests
    <3>4. QED
      BY <3>1, <3>2, <3>3
  <2>7. QED
    BY <2>4, <2>5, <2>6
<1>11. Aimed'
  BY <1>2 DEF SteeringInv, SteeringTypes, Aimed, Turning
<1>12. Stopped'
  BY <1>2 DEF SteeringInv, SteeringTypes, Stopped, GoesOn, Turning, OnceAtMost
<1>13. KeyAsked'
  <2>1. button' => pressed'
    BY <1>2 DEF SteeringInv, KeyAsked
  <2>2. late = 0 /\ lost = 0 /\ pc = 2 => (Coming' # 0 => pressed)
    BY <1>1, <1>5, <1>7 DEF SteeringInv, KeyAsked, OnceAtMost, Left
  <2>3. late = 0 /\ lost = 0 /\ pc > 2 => pressed
    BY DEF SteeringInv, KeyAsked
  <2>4. QED
    BY <2>1, <2>2, <2>3 DEF KeyAsked
<1>14. QED
  BY <1>4, <1>8, <1>9, <1>10, <1>11, <1>12, <1>13 DEF SteeringInv, Fresh

LEMMA LostStep ==
  ASSUME SteeringInv, phase = "send", phase' \in {"read", "test"},
         Execute(Command) \/ UNCHANGED controller, lost < MaxLost, lost' = lost + 1,
         UNCHANGED <<turn, pc, word, rx, wire, pressed, late, torn>>
  PROVE  SteeringInv'
<1>1. /\ pos' = pos /\ target' \in Positions /\ button' \in BOOLEAN
      /\ led' \in {"LED_ON", "LED_OFF"}
      /\ button' => button
      /\ ~Turning => target' = target
  <2>1. CASE Execute(Command)
    BY <2>1, CommandIs DEF SteeringInv
  <2>2. CASE UNCHANGED controller
    BY <2>2 DEF SteeringInv, SteeringTypes, controller
  <2>3. QED
    BY <2>1, <2>2
<1>2. lost \in Nat /\ lost' \in 1..MaxLost /\ late \in Nat /\ pc \in 1..9
  BY SteeringAssumption DEF SteeringInv, SteeringTypes, SteeringAssumption
<1>3. SteeringTypes'
  BY <1>1, <1>2 DEF SteeringInv, SteeringTypes
<1>4. Stream' = Stream
  BY DEF Stream
<1>5. OnceAtMost' => late = 0 /\ lost = 0 /\ lost' = 1
  BY <1>2 DEF OnceAtMost
<1>6. OnceAtMost' => OnceAtMost
  BY <1>2 DEF OnceAtMost
<1>7. OnceAtMost' => Len(Stream) = 0 /\ ~torn /\ Latest = word
  BY <1>5, <1>6 DEF SteeringInv, InStep, Left, Running, Latest
<1>8. OnceAtMost' => Latest' = word /\ Coming' = word
  BY <1>4, <1>7 DEF Latest, Coming
<1>9. InStep'
  BY <1>4, <1>5, <1>7 DEF InStep, Left
<1>10. TurnAnswered' /\ Aimed'
  BY <1>2 DEF TurnAnswered, Aimed
<1>11. StatusTrue'
  <2>1. SUFFICES ASSUME OnceAtMost', Waiting
                 PROVE  Rests(Latest)' /\ Rests(Coming)' /\ Rests(word)'
    BY DEF StatusTrue, Waiting
  <2>2. Rests(Latest)
    BY <1>5, <1>6, <1>7, <2>1 DEF SteeringInv, StatusTrue, Running
  <2>3. target' = target
    BY <1>1, <2>1 DEF Turning, Waiting
  <2>4. word = 0 => pos' = target'
    BY <1>1, <1>7, <2>1, <2>2, <2>3 DEF Rests
  <2>5. QED
    BY <1>8, <2>1, <2>4 DEF Rests
<1>12. Stopped'
  BY <1>1, <1>2, <1>6 DEF SteeringInv, Stopped, GoesOn, Turning
<1>13. KeyAsked'
  <2>1. button' => pressed'
    BY <1>1 DEF SteeringInv, KeyAsked
  <2>2. lost' # 0
    BY <1>2
  <2>3. QED
    BY <2>1, <2>2 DEF KeyAsked
<1>14. QED
  BY <1>3, <1>9, <1>10, <1>11, <1>12, <1>13 DEF SteeringInv, Fresh

LEMMA SendStep == SteeringInv /\ Send => SteeringInv'
<1> SUFFICES ASSUME SteeringInv, Send PROVE SteeringInv'
  OBVIOUS
<1>1. CASE /\ Execute(Command) /\ wire' = wire \o <<Header, Value(Command)>>
           /\ phase' = "read" /\ UNCHANGED lost
  BY <1>1, AnsweredStep DEF Send
<1>2. CASE /\ lost < MaxLost /\ lost' = lost + 1 /\ UNCHANGED wire
           /\ \/ Execute(Command) /\ phase' = "read"
              \/ UNCHANGED controller /\ phase' \in {"read", "test"}
  BY <1>2, LostStep DEF Send
<1>3. QED
  BY <1>1, <1>2 DEF Send

\* A read that finds all there is takes what is coming.
LEMMA TimelyRead ==
  ASSUME SteeringInv, Read, wire = <<>>
  PROVE  SteeringInv'
<1>1. /\ phase = "read" /\ phase' = "test" /\ late' = late /\ torn' = (torn \/ Len(rx) % 2 = 1)
      /\ word' = IF Len(rx) >= 2 THEN rx[2] ELSE word
      /\ rx' = IF Len(rx) >= 2 THEN SubSeq(rx, 3, Len(rx)) ELSE <<>>
      /\ UNCHANGED <<turn, pc, wire, controller, pressed, lost>>
  BY DEF Read
<1>2. PICK n \in Nat : n = Len(rx) /\ n = Len(Stream)
  BY StreamIs DEF SteeringInv, SteeringTypes
<1>3. /\ rx' \in Seq(Nat)
      /\ n >= 2 => /\ Len(Stream') = n - 2
                   /\ \A i \in 1..n - 2 : Stream'[i] = Stream[i + 2]
      /\ n < 2 => Len(Stream') = 0
  BY <1>1, <1>2, ReadTakes DEF SteeringInv, SteeringTypes
<1>4. n >= 2 => rx[2] = Stream[2] /\ rx[2] \in Nat
  BY <1>2, StreamIs DEF SteeringInv, SteeringTypes
<1>5. word' = Coming
  BY <1>1, <1>2, <1>4 DEF Coming
<1>6. torn' \in BOOLEAN /\ (torn => torn') /\ (torn' /\ ~torn => n % 2 = 1)
  BY <1>1, <1>2
<1>7. word' \in Nat
  BY <1>1, <1>2, <1>4 DEF SteeringInv, SteeringTypes
<1>8. SteeringTypes'
  BY <1>1, <1>3, <1>6, <1>7 DEF SteeringInv, SteeringTypes, controller
<1>9. OnceAtMost' = OnceAtMost
  BY <1>1 DEF OnceAtMost
<1>10. OnceAtMost => /\ late = 0 => ~torn
                     /\ n = Left + 2 \/ (late = 0 /\ lost = 1 /\ n = 0)
  BY <1>1, <1>2 DEF SteeringInv, InStep, Running
<1>11. OnceAtMost => (torn' => torn) /\ Len(Stream') = Left
  <2>1. ASSUME OnceAtMost, late = 0 PROVE ~torn' /\ Len(Stream') = 0
    <3>1. n \in {0, 2} /\ ~torn
      BY <1>10, <2>1 DEF Left
    <3>2. n % 2 # 1 /\ Len(Stream') = 0
      BY <1>3, <3>1
    <3>3. QED
      BY <1>6, <3>1, <3>2
  <2>2. ASSUME OnceAtMost, late # 0, torn PROVE Len(Stream') = 1
    <3>1. n = 3
      BY <1>10, <2>2 DEF Left
    <3>2. QED
      BY <1>3, <3>1
  <2>3. ASSUME OnceAtMost, late # 0, ~torn PROVE ~torn' /\ Len(Stream') = 2
    <3>1. n = 4
      BY <1>10, <2>3 DEF Left
    <3>2. n % 2 # 1 /\ Len(Stream') = 2
      BY <1>3, <3>1
    <3>3. QED
      BY <1>6, <2>3, <3>2
  <2>4. QED
    BY <2>1, <2>2, <2>3 DEF Left
<1>12. OnceAtMost /\ lost = 0 /\ ~torn => Latest' = Latest
  <2>1. SUFFICES ASSUME OnceAtMost, lost = 0, ~torn PROVE Latest' = Latest
    OBVIOUS
  <2>2. CASE late = 0
    <3>1. n = 2 /\ Len(Stream') = 0
      BY <1>10, <1>11, <2>1, <2>2 DEF Left
    <3>2. Latest = Stream[2] /\ Latest' = word' /\ Coming = Stream[2]
      BY <1>2, <3>1 DEF Latest, Coming
    <3>3. QED
      BY <1>5, <3>2
  <2>3. CASE late # 0
    <3>1. n = 4 /\ Len(Stream') = 2
      BY <1>10, <1>11, <2>1, <2>3 DEF Left
    <3>2. Latest = Stream[4] /\ Latest' = Stream'[2]
      BY <1>2, <3>1 DEF Latest
    <3>3. Stream'[2] = Stream[4]
      BY <1>3, <3>1
    <3>4. QED
      BY <3>2, <3>3
  <2>4. QED
    BY <2>2, <2>3
<1>13. InStep'
  BY <1>1, <1>6, <1>9, <1>10, <1>11 DEF InStep, Left
<1>14. TurnAnswered'
  BY <1>1, <1>6, <1>9, <1>12 DEF SteeringInv, TurnAnswered, Turning
<1>15. StatusTrue'
  <2>1. SUFFICES ASSUME OnceAtMost, Waiting
                 PROVE  (lost = 0 /\ ~torn => Rests(Latest)') /\ Rests(word)'
    BY <1>1, <1>6, <1>9 DEF StatusTrue, Waiting
  <2>2. (lost = 0 /\ ~torn => Rests(Latest)) /\ Rests(Coming)
    BY <1>1, <2>1 DEF SteeringInv, StatusTrue, Running
  <2>3. QED
    BY <1>1, <1>5, <1>12, <2>1, <2>2 DEF Rests, controller
<1>16. Aimed' /\ Stopped'
  BY <1>1, <1>9 DEF SteeringInv, SteeringTypes, Aimed, Stopped, GoesOn, controller
<1>17. KeyAsked'
  BY <1>1, <1>5 DEF SteeringInv, KeyAsked, controller
<1>18. QED
  BY <1>1, <1>8, <1>13, <1>14, <1>15, <1>16, <1>17 DEF SteeringInv, Fresh

\* A read that comes too early takes nothing, or spoils the answer.
LEMMA EarlyRead ==
  ASSUME SteeringInv, Read, wire # <<>>
  PROVE  SteeringInv'
<1>1. /\ phase = "read" /\ phase' = "test" /\ late' = late + 1 /\ late < MaxLate
      /\ torn' = (torn \/ Len(rx) % 2 = 1)
      /\ word' = IF Len(rx) >= 2 THEN rx[2] ELSE word
      /\ rx' = IF Len(rx) >= 2 THEN SubSeq(rx, 3, Len(rx)) ELSE <<>>
      /\ UNCHANGED <<turn, pc, wire, controller, pressed, lost>>
  BY DEF Read
<1>2. PICK r \in Nat, w \in Nat : r = Len(rx) /\ w = Len(wire) /\ r + w = Len(Stream)
  BY StreamIs DEF SteeringInv, SteeringTypes
<1>3. w # 0
  BY <1>2 DEF SteeringInv, SteeringTypes
<1>4. rx' \in Seq(Nat) /\ (r < 2 => Stream' = wire)
  BY <1>1, <1>2, ReadTakes DEF SteeringInv, SteeringTypes
<1>5. r >= 2 => rx[2] \in Nat
  BY <1>2 DEF SteeringInv, SteeringTypes
<1>6. torn' \in BOOLEAN /\ (torn => torn') /\ (torn' /\ ~torn => r % 2 = 1) /\ (r % 2 = 1 => torn')
  BY <1>1, <1>2
<1>7. word' \in Nat
  BY <1>1, <1>2, <1>5 DEF SteeringInv, SteeringTypes
<1>8. late \in Nat /\ lost \in Nat /\ late' \in 1..MaxLate
  BY <1>1, SteeringAssumption DEF SteeringInv, SteeringTypes, SteeringAssumption
<1>9. SteeringTypes'
  BY <1>1, <1>4, <1>6, <1>7, <1>8 DEF SteeringInv, SteeringTypes, controller
<1>10. OnceAtMost' => OnceAtMost /\ late = 0 /\ lost = 0 /\ late' = 1
  BY <1>1, <1>8 DEF OnceAtMost
<1>11. OnceAtMost' => ~torn /\ r + w = 2
  <2>1. SUFFICES ASSUME OnceAtMost' PROVE ~torn /\ r + w = 2
    OBVIOUS
  <2>2. OnceAtMost /\ late = 0 /\ lost = 0
    BY <1>10, <2>1
  <2>3. ~torn /\ Len(Stream) = Left + 2
    BY <1>1, <2>2 DEF SteeringInv, InStep, Running
  <2>4. Left = 0
    BY <2>2 DEF Left
  <2>5. QED
    BY <1>2, <2>3, <2>4
<1>12. OnceAtMost' => \/ r = 0 /\ w = 2 /\ ~torn'
                      \/ r = 1 /\ w = 1 /\ torn'
  <2>1. SUFFICES ASSUME OnceAtMost' PROVE (r = 0 /\ w = 2 /\ ~torn') \/ (r = 1 /\ w = 1 /\ torn')
    OBVIOUS
  <2>2. (r = 0 /\ w = 2) \/ (r = 1 /\ w = 1)
    BY <1>3, <1>11, <2>1
  <2>3. r = 0 => r % 2 # 1
    OBVIOUS
  <2>4. r = 1 => r % 2 = 1
    OBVIOUS
  <2>5. QED
    BY <1>6, <1>11, <2>1, <2>2, <2>3, <2>4
<1>13. OnceAtMost' => Stream' = wire /\ word' = word
  <2>1. OnceAtMost' => r < 2
    BY <1>12
  <2>2. QED
    BY <1>1, <1>2, <1>4, <2>1
<1>14. OnceAtMost' /\ ~torn' => Latest' = Latest
  <2>1. SUFFICES ASSUME OnceAtMost', ~torn' PROVE Latest' = Latest
    OBVIOUS
  <2>2. r = 0
    BY <1>12, <2>1
  <2>3. rx = <<>>
    <3>1. Len(rx) = 0 /\ rx \in Seq(Nat)
      BY <1>2, <2>2 DEF SteeringInv, SteeringTypes
    <3>2. QED
      BY <3>1
  <2>4. Stream = wire
    BY <2>3, ConcatEmptySeq DEF Stream, SteeringInv, SteeringTypes
  <2>5. QED
    BY <1>13, <2>1, <2>4 DEF Latest
<1>15. InStep'
  BY <1>1, <1>2, <1>10, <1>12, <1>13 DEF InStep, Left
<1>16. TurnAnswered'
  BY <1>1, <1>10, <1>11, <1>14 DEF SteeringInv, TurnAnswered, Turning
<1>17. StatusTrue'
  <2>1. SUFFICES ASSUME OnceAtMost', Waiting
                 PROVE  (~torn' => Rests(Latest)') /\ Rests(word)'
    BY <1>1, <1>8 DEF StatusTrue, Waiting
  <2>2. Rests(Latest) /\ Rests(word)
    BY <1>1, <1>10, <1>11, <2>1 DEF SteeringInv, StatusTrue, Running
  <2>3. QED
    BY <1>1, <1>13, <1>14, <2>1, <2>2 DEF Rests, controller
<1>18. Aimed' /\ Stopped'
  BY <1>1, <1>10 DEF SteeringInv, SteeringTypes, Aimed, Stopped, GoesOn, controller
<1>19. KeyAsked'
  <2>1. button' => pressed'
    BY <1>1 DEF SteeringInv, KeyAsked, controller
  <2>2. late' # 0
    BY <1>8
  <2>3. QED
    BY <2>1, <2>2 DEF KeyAsked
<1>20. QED
  BY <1>1, <1>9, <1>15, <1>16, <1>17, <1>18, <1>19 DEF SteeringInv, Fresh

LEMMA TestStep == SteeringInv /\ Test => SteeringInv'
<1> SUFFICES ASSUME SteeringInv, Test PROVE SteeringInv'
  OBVIOUS
<1>1. /\ phase = "test" /\ pc \in 1..9
      /\ UNCHANGED <<turn, word, rx, wire, controller, pressed, late, lost, torn>>
  BY DEF Test, SteeringInv, SteeringTypes
<1>2. /\ Finished = 10
      /\ Again <=> (pc = 2 /\ word = 0) \/ (pc \in {6, 8} /\ word # 0)
  <2>1. /\ Len(Script) = 9
        /\ Script[pc] = "BUTTON_READ" <=> pc = 2
        /\ Script[pc] = "STAT_READ" <=> pc \in {6, 8}
    BY <1>1, ScriptIs DEF SteeringInv, SteeringTypes
  <2>2. Again <=> (pc = 2 /\ word = 0) \/ (pc \in {6, 8} /\ word # 0)
    BY <2>1 DEF Again, Command
  <2>3. QED
    BY <2>1, <2>2 DEF Finished
<1>3. /\ pc' = IF Again THEN pc ELSE pc + 1
      /\ phase' = IF pc' = 10 THEN "exit" ELSE "send"
  BY <1>2 DEF Test
<1>4. \/ pc' = pc /\ phase' = "send" /\ pc = 2
      \/ pc' = pc /\ phase' = "send" /\ pc \in {6, 8}
      \/ /\ pc' = pc + 1 /\ (pc = 2 => word # 0) /\ (pc \in {6, 8} => word = 0)
         /\ phase' = IF pc = 9 THEN "exit" ELSE "send"
  BY <1>1, <1>2, <1>3
<1>5. SteeringTypes'
  BY <1>1, <1>4 DEF SteeringInv, SteeringTypes, controller
<1>6. Stream' = Stream /\ Latest' = Latest /\ OnceAtMost' = OnceAtMost
  BY <1>1 DEF Stream, Latest, OnceAtMost
<1>7. InStep'
  BY <1>1, <1>4, <1>6 DEF SteeringInv, InStep, Running, Left
<1>8. TurnAnswered' /\ Fresh'
  BY <1>4 DEF TurnAnswered, Fresh
<1>9. StatusTrue'
  <2>1. SUFFICES ASSUME OnceAtMost, Waiting', lost = 0, ~torn PROVE Rests(Latest)'
    BY <1>1, <1>4, <1>6 DEF StatusTrue
  <2>2. CASE Waiting
    BY <1>1, <1>6, <2>1, <2>2 DEF SteeringInv, StatusTrue, Running, Rests, controller
  <2>3. CASE ~Waiting
    <3>1. Turning
      BY <1>1, <1>4, <2>1, <2>3 DEF Waiting, Turning
    <3>2. Latest # 0
      BY <1>1, <2>1, <3>1 DEF SteeringInv, TurnAnswered
    <3>3. QED
      BY <1>6, <3>2 DEF Rests
  <2>4. QED
    BY <2>2, <2>3
<1>10. Aimed'
  BY <1>1, <1>4 DEF SteeringInv, Aimed, controller
<1>11. Stopped'
  <2>1. SUFFICES ASSUME OnceAtMost, GoesOn' PROVE pos = target
    BY <1>1, <1>6 DEF Stopped, controller
  <2>2. CASE pc \in {6, 8} /\ word = 0
    BY <1>1, <2>1, <2>2 DEF SteeringInv, StatusTrue, Waiting, Running, Rests
  <2>3. CASE pc = 9
    BY <2>1, <2>3 DEF SteeringInv, Stopped, GoesOn
  <2>4. QED
    BY <1>1, <1>4, <2>1, <2>2, <2>3 DEF GoesOn
<1>12. KeyAsked'
  <2>1. button' => pressed'
    BY <1>1 DEF SteeringInv, KeyAsked, controller
  <2>2. late = 0 /\ lost = 0 /\ pc' > 2 => pressed
    BY <1>1, <1>4 DEF SteeringInv, KeyAsked
  <2>3. phase' \notin {"read", "test"}
    BY <1>4
  <2>4. QED
    BY <1>1, <2>1, <2>2, <2>3 DEF KeyAsked
<1>13. QED
  BY <1>5, <1>7, <1>8, <1>9, <1>10, <1>11, <1>12 DEF SteeringInv

LEMMA SteeringInvariant == SteeringSpec => []SteeringInv
<1>1. SteeringInv /\ [SteeringNext]_steeringVars => SteeringInv'
  <2> SUFFICES ASSUME SteeringInv, [SteeringNext]_steeringVars PROVE SteeringInv'
    OBVIOUS
  <2>1. CASE UNCHANGED steeringVars
    <3>1. UNCHANGED <<program, controller, rx, wire, pressed, late, lost, torn>> /\ Stream' = Stream
      BY <2>1 DEF steeringVars, Stream
    <3>2. SteeringTypes'
      BY <3>1 DEF SteeringInv, SteeringTypes, program, controller
    <3>3. button' => pressed'
      BY <3>1 DEF SteeringInv, KeyAsked, controller
    <3>4. QED
      BY <3>1, <3>2, <3>3, OutsideStep DEF controller
  <2>2. CASE SteeringNext
    BY <2>2, OpenStep, SendStep, TimelyRead, EarlyRead, TestStep, DeliverStep, ServoStep, PressStep
       DEF SteeringNext, Program
  <2>3. QED
    BY <2>1, <2>2
<1>2. QED
  BY <1>1, SteeringInitHolds, PTL DEF SteeringSpec

-----------------------------------------------------------------------------
\* For every version and any number of late and lost answers: the variables keep
\* their types, and a command that is sent is in the script.
THEOREM SteeringTypeCorrect == SteeringSpec => []SteeringTypeOK
<1>1. SteeringInv => SteeringTypeOK
  <2> SUFFICES ASSUME SteeringInv PROVE SteeringTypeOK
    OBVIOUS
  <2>1. Len(Script) = 9 /\ DOMAIN Script = 1..9
    BY ScriptIs DEF SteeringInv, SteeringTypes
  <2>2. Finished = 10
    BY <2>1 DEF Finished
  <2>3. QED
    BY <2>1, <2>2 DEF SteeringInv, SteeringTypes, SteeringTypeOK
<1>2. QED
  BY <1>1, SteeringInvariant, PTL

\* For every version: without a late or lost answer, main() gets past its button
\* loop only after key3 was pressed.
THEOREM KeyIsAwaited == SteeringSpec => []WaitsForKey
<1>1. SteeringInv => WaitsForKey
  BY DEF SteeringInv, KeyAsked, WaitsForKey
<1>2. QED
  BY <1>1, SteeringInvariant, PTL

\* For every version and any number of later faults: as long as no more than one
\* answer was late and nothing lost, the servo is at rest where the last turn sent
\* it when main() starts the way back, and when it leaves its second waiting loop.
THEOREM MotionIsAwaited == SteeringSpec => []WaitsForMotion
<1>1. SteeringInv => WaitsForMotion
  <2> SUFFICES ASSUME SteeringInv, GoesOn, late <= 1, lost = 0
               PROVE  /\ pos = target
                      /\ pos = IF pc = 7 THEN Position[turn] ELSE Position["DEGREE0"]
    BY DEF WaitsForMotion
  <2>1. OnceAtMost
    BY DEF OnceAtMost, SteeringInv, SteeringTypes
  <2>2. pos = target
    BY <2>1 DEF SteeringInv, Stopped
  <2>3. QED
    BY <2>2 DEF SteeringInv, SteeringTypes, Aimed, GoesOn
<1>2. QED
  BY <1>1, SteeringInvariant, PTL

\* For every version: one lost command, write or answer never lets main() go on
\* while the servo moves.
THEOREM OneLossStopsFirst == SteeringSpec => []StopsFirst
<1>1. SteeringInv => StopsFirst
  <2> SUFFICES ASSUME SteeringInv, GoesOn, late = 0, lost <= 1 PROVE pos = target
    BY DEF StopsFirst
  <2>1. OnceAtMost
    BY DEF OnceAtMost, SteeringInv, SteeringTypes
  <2>2. QED
    BY <2>1 DEF SteeringInv, Stopped
<1>2. QED
  BY <1>1, SteeringInvariant, PTL
=============================================================================
