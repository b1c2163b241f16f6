------------------------------ MODULE Steering ------------------------------
(***************************************************************************)
(* drv/05uart/uart_steering.c: a fixed script of 8-byte commands to a      *)
(* servo controller.  After each command the program sleeps 5 ms and reads *)
(* up to 8 bytes without waiting (VMIN = VTIME = 0); a short read is only  *)
(* reported and leaves the buffer of the previous answer in place.  The    *)
(* controller is external and modelled from the comments of the command    *)
(* table and the bytes the program tests.                                  *)
(***************************************************************************)
EXTENDS Integers, Sequences

CONSTANTS
  Version,  \* buf[4] << 8 | buf[5] of the answer to VERSION
  Split,    \* whether the two halves of an answer may arrive apart
  MaxLate,  \* bound: how often an answer misses the 5 ms before the read
  MaxLost   \* bound: how often a command, its write or its answer is lost

ASSUME SteeringAssumption ==
  /\ Version \in Nat \ {0}
  /\ Split \in BOOLEAN
  /\ MaxLate \in Nat
  /\ MaxLost \in Nat

\* The position each DEGREE command carries in bytes 4 and 5.
Position == [DEGREE0 |-> 500, DEGREE90 |-> 1500, DEGREE180 |-> 2500]
Turns == DOMAIN Position
Positions == {Position[t] : t \in Turns}

VARIABLES
  turn,     \* the DEGREE command argv[2] asks for
  pc,       \* index into Script; 0 before uart_setting
  phase,    \* what main() does next: "open", "send", "read", "test", "exit"
  word,     \* buf[4] << 8 | buf[5]
  rx,       \* halves of answers in the tty's input queue
  wire,     \* halves of answers on the way
  pos,      \* where the servo is
  target,   \* where it was told to go: it moves while pos # target
  button,   \* key3 was pressed since the controller last reported it
  led,      \* the controller's user LED
  pressed,  \* key3 was pressed at some time
  late,     \* reads that came before the answer
  lost,     \* commands, writes and answers lost
  torn      \* history: a read found half an answer, the stream is out of step

program == <<turn, pc, phase, word>>
controller == <<pos, target, button, led>>
steeringVars == <<program, rx, wire, controller, pressed, late, lost, torn>>

\* Mutant: the last command is LED_ON again.
ScriptLedOn == <<"VERSION", "BUTTON_READ", "LED_ON", "SPEED0", turn,
                 "STAT_READ", "DEGREE0", "STAT_READ", "LED_ON">>

\* The commands main() sends, in order.  The two loops at lines 307 and 324
\* are left before their first round.
Script == <<"VERSION", "BUTTON_READ", "LED_ON", "SPEED0", turn, "STAT_READ",
            "DEGREE0", "STAT_READ", "LED_OFF">>
Finished == Len(Script) + 1
Command == Script[pc]

-----------------------------------------------------------------------------
(* The controller.                                                          *)

\* Bytes 0 and 1 of any answer: what buf[4] << 8 | buf[5] becomes when the
\* halves are read out of step.
Header == 259

\* A read is answered with the value, a write is echoed.
Value(cmd) ==
  CASE cmd = "VERSION"     -> Version
    [] cmd = "BUTTON_READ" -> IF button THEN 1 ELSE 0
    [] cmd = "STAT_READ"   -> IF pos # target THEN 1 ELSE 0
    [] cmd = "LED_ON"      -> 1
    [] cmd \in Turns       -> Position[cmd]
    [] OTHER               -> 0

Execute(cmd) ==
  /\ target' = IF cmd \in Turns THEN Position[cmd] ELSE target
  /\ button' = (button /\ cmd # "BUTTON_READ")
  /\ led' = IF cmd \in {"LED_ON", "LED_OFF"} THEN cmd ELSE led
  /\ UNCHANGED pos

Deliver ==
  /\ wire # <<>>
  /\ \E n \in IF Split THEN {1, 2} ELSE {2} :
       /\ n <= Len(wire)
       /\ rx' = rx \o SubSeq(wire, 1, n)
       /\ wire' = SubSeq(wire, n + 1, Len(wire))
  /\ UNCHANGED <<program, controller, pressed, late, lost, torn>>

ServoStops ==
  /\ pos # target
  /\ pos' = target
  /\ UNCHANGED <<program, rx, wire, target, button, led, pressed, late, lost, torn>>

Press ==
  /\ ~button
  /\ button' = TRUE
  /\ pressed' = TRUE
  /\ UNCHANGED <<program, rx, wire, pos, target, led, late, lost, torn>>

-----------------------------------------------------------------------------
(* The program.                                                             *)

\* Mutant: no tcflush.
OpenUnflushed ==
  /\ phase = "open"
  /\ phase' = "send"
  /\ pc' = 1
  /\ UNCHANGED <<turn, word, rx, wire, controller, pressed, late, lost, torn>>

\* uart_open and uart_setting: what an earlier run left in the input queue is
\* flushed; any failure ends in exit, for a bad descriptor fails tcgetattr.
Open ==
  /\ phase = "open"
  /\ \/ /\ phase' = "send"
        /\ pc' = 1
        /\ rx' = <<>>
     \/ /\ phase' = "exit"
        /\ UNCHANGED <<pc, rx>>
  /\ UNCHANGED <<turn, word, wire, controller, pressed, late, lost, torn>>

\* The write in steering_ctrl and what becomes of the command.  A write that
\* is not complete skips the read.
Send ==
  /\ phase = "send"
  /\ \/ /\ Execute(Command)
        /\ wire' = wire \o <<Header, Value(Command)>>
        /\ phase' = "read"
        /\ UNCHANGED lost
     \/ /\ lost < MaxLost
        /\ lost' = lost + 1
        /\ \/ Execute(Command) /\ phase' = "read"
           \/ UNCHANGED controller /\ phase' \in {"read", "test"}
        /\ UNCHANGED wire
  /\ UNCHANGED <<turn, pc, word, rx, pressed, late, torn>>

\* The read 5 ms later: up to 8 bytes, whatever they answer.
Read ==
  /\ phase = "read"
  /\ wire = <<>> \/ late < MaxLate
  /\ late' = IF wire = <<>> THEN late ELSE late + 1
  /\ word' = IF Len(rx) >= 2 THEN rx[2] ELSE word
  /\ rx' = IF Len(rx) >= 2 THEN SubSeq(rx, 3, Len(rx)) ELSE <<>>
  /\ torn' = (torn \/ Len(rx) % 2 = 1)
  /\ phase' = "test"
  /\ UNCHANGED <<turn, pc, wire, controller, pressed, lost>>

\* Mutants: the status is read only once; the first of the two waiting loops,
\* at lines 307 and 324, starts with ret = 0xffff as the second one does.
AgainOnce == Command = "BUTTON_READ" /\ word = 0
AgainDeadLoop == \/ Command = "BUTTON_READ" /\ word = 0
                 \/ Command \in Turns /\ word # 65532
                 \/ Command = "STAT_READ" /\ word # 0

\* Whether main() repeats the command: the button loop and the two loops that
\* wait for the motion to end.
Again == \/ Command = "BUTTON_READ" /\ word = 0
         \/ Command = "STAT_READ" /\ word # 0

\* No usleep(100000) follows VERSION and the last DEGREE0; everywhere else the
\* answer has arrived before the next command.
Rested == pc \in {1, 7} \/ wire = <<>>

Test ==
  /\ phase = "test"
  /\ Rested
  /\ pc' = IF Again THEN pc ELSE pc + 1
  /\ phase' = IF pc' = Finished THEN "exit" ELSE "send"
  /\ UNCHANGED <<turn, word, rx, wire, controller, pressed, late, lost, torn>>

Program == Open \/ Send \/ Read \/ Test

-----------------------------------------------------------------------------
\* buf is not initialised, and an earlier run may have left an answer.
SteeringInit ==
  /\ turn \in Turns
  /\ pc = 0
  /\ phase = "open"
  /\ word \in {0, 1}
  /\ rx \in {<<>>, <<Header, 1>>}
  /\ wire = <<>>
  /\ pos \in Positions
  /\ target = pos
  /\ button \in BOOLEAN
  /\ led = "LED_OFF"
  /\ pressed = button
  /\ late = 0
  /\ lost = 0
  /\ torn = FALSE

SteeringNext == Program \/ Deliver \/ ServoStops \/ Press

\* The program is scheduled, bytes on the wire and the moving servo arrive,
\* and the user answers the prompt.
SteeringSpec ==
  /\ SteeringInit
  /\ [][SteeringNext]_steeringVars
  /\ WF_steeringVars(Program)
  /\ WF_steeringVars(Deliver)
  /\ WF_steeringVars(ServoStops)
  /\ WF_steeringVars(Press)

-----------------------------------------------------------------------------
(* Properties.                                                              *)

\* The variables keep their types, and a command that is sent is in the script.
SteeringTypeOK ==
  /\ turn \in Turns
  /\ pc \in 0..Finished
  /\ phase \in {"open", "send", "read", "test", "exit"}
  /\ phase \in {"send", "read", "test"} => pc \in DOMAIN Script
  /\ word \in Nat
  /\ rx \in Seq(Nat)
  /\ wire \in Seq(Nat)
  /\ pos \in Positions /\ target \in Positions
  /\ button \in BOOLEAN /\ pressed \in BOOLEAN
  /\ led \in {"LED_ON", "LED_OFF"}
  /\ late \in 0..MaxLate
  /\ lost \in 0..MaxLost
  /\ torn \in BOOLEAN

\* The prompt asks for key3: unless an answer was late or lost, the program gets
\* past the button loop only after the key was pressed.
WaitsForKey == pc > 2 /\ late = 0 /\ lost = 0 => pressed

\* The way back has started, or the program has left its second waiting loop.
GoesOn == (pc = 7 /\ phase = "send") \/ pc >= 9

\* The program waits for the servo before each of the two: it is at rest at the
\* requested angle before the way back and at 0 degrees in the end.  One late
\* answer, which shifts all later ones by one, does not break it; two may.
WaitsForMotion ==
  GoesOn /\ late <= 1 /\ lost = 0 =>
    pos = target /\ pos = IF pc = 7 THEN Position[turn] ELSE Position["DEGREE0"]

\* One lost command, write or answer may keep the servo where it is, but never
\* lets the program go on while it moves.
StopsFirst == GoesOn /\ late = 0 /\ lost <= 1 => pos = target

\* Past uart_setting the program always ends, whatever is late or lost: each of
\* its loops is left, unless a read finds half an answer.
Ends == phase = "send" ~> phase = "exit" \/ torn

\* When nothing is lost it ends at the end of the script, with the user LED off.
Completes ==
  phase = "send" ~> \/ phase = "exit" /\ pc = Finished /\ led = "LED_OFF"
                    \/ lost > 0 \/ torn
=============================================================================
