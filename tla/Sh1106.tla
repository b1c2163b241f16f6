------------------------------- MODULE Sh1106 -------------------------------
(***************************************************************************)
(* drv/09sh1106: the driver of an OLED display (i2c_sh1106.c) and the      *)
(* program that plays an animation on it (app/sh1106_app.c).  Every byte   *)
(* is an I2C transfer of its own whose result is ignored, and no lock      *)
(* keeps two processes' transfers apart: one step is one transfer.         *)
(***************************************************************************)
EXTENDS Integers, Sequences

CONSTANTS
  Procs,     \* processes that run sh1106_app
  Pages,     \* pages of a frame; 8
  Cols,      \* columns of a frame; 128
  RamCols,   \* columns of the display's memory; 132
  Nibble,    \* columns the low column command selects among; 16
  Frames,    \* frames of the animation; 58
  MaxRuns,   \* bound: how often sh1106_app is started
  MaxFaults  \* bound: transfers that fail

ASSUME Sh1106Assumption ==
  /\ {Pages, Cols, RamCols, Nibble, Frames} \subseteq Nat \ {0}
  /\ Cols % Nibble = 0 /\ Cols < RamCols
  /\ MaxRuns \in Nat /\ MaxFaults \in Nat

\* The byte of frame f for page g and column c, and a byte of no frame.
Byte(f, g, c) == <<f, g, c>>
Other == <<>>
Bytes == {Byte(t[1], t[2], t[3]) : t \in (0..Frames - 1) \X (0..Pages - 1) \X (0..Cols - 1)}

\* The bytes of oled_init in their order, by what each does where the display expects
\* a command.  "two" and "pump" (the charge pump's) wait for the next byte as their
\* parameter; a parameter taken for a command is "nop", or moves the column pointer.
InitCmds == <<"off", "low", "high", "nop", "page", "two", "nop", "nop", "nop",
              "two", "nop", "nop", "two", "low", "two", "nop", "two", "column",
              "two", "nop", "two", "column", "two", "nop", "pump", "enable", "on">>

VARIABLES
  at,     \* at[p]: "closed", "init", "ready" between two writes, or "write"
  step,   \* step[p]: the next transfer of oled_init, or of the page being written
  row,    \* row[p]: the page p writes
  frame,  \* frame[p]: the frame p writes, or the next one
  on, pump,  \* the display: switched on, and its charge pump, without which it is dark
  waiting,   \* the command that takes the next command byte as its parameter, or "none"
  page, col, ram,  \* the display's address pointers and its memory
  wired,  \* the pins of the bus are switched to the I2C controller
  alone,  \* history: alone[p]: no other process made a transfer since p's write began
  lost,   \* history: lost[p]: pages of p's last write that a transfer failed on
  eaten,  \* history: eaten[p]: those of which a command was taken for a parameter
  unlit,  \* history: unlit[p]: of p's last four transfers of oled_init one failed, or
          \* another process made a transfer between them
  runs,   \* processes started
  faults

device == <<on, pump, waiting, page, col, ram>>
sh1106Vars == <<at, step, row, frame, device, wired, alone, lost, eaten, unlit, runs, faults>>

-----------------------------------------------------------------------------
(* The display.                                                             *)

Obey(c, arg) ==
  /\ waiting = "none"
  /\ waiting' = IF c \in {"two", "pump"} THEN c ELSE "none"
  /\ on' = CASE c = "off" -> FALSE [] c = "on" -> TRUE [] OTHER -> on
  /\ page' = IF c = "page" THEN arg ELSE page
  /\ col' \in CASE c = "low"  -> {col - (col % Nibble)}
               [] c = "high" -> {col % Nibble}
               [] c \in {"column", "enable"} -> 0..RamCols - 1
               [] OTHER      -> {col}
  /\ UNCHANGED <<pump, ram>>

\* The byte is taken for a parameter; of the pump's, one bit decides.
Eat(c) ==
  /\ waiting # "none"
  /\ waiting' = "none"
  /\ pump' \in CASE waiting = "two" -> {pump}
                [] c = "enable"    -> {TRUE}
                [] OTHER           -> BOOLEAN
  /\ UNCHANGED <<on, page, col, ram>>

Command(c, arg) == Obey(c, arg) \/ Eat(c)

\* The column pointer moves on and stops at the last column.  Whether a command goes
\* on waiting for its parameter is not known.
Data(b) ==
  /\ ram' = [ram EXCEPT ![page] = [@ EXCEPT ![col] = b]]
  /\ col' = IF col < RamCols - 1 THEN col + 1 ELSE col
  /\ waiting' \in {waiting, "none"}
  /\ UNCHANGED <<on, pump, page>>

\* The transfers that light the display: the last four of oled_init.
Lighting(p) == at[p] = "init" /\ step[p] \in 24..27

\* Nobody else's write is alone any more, and nobody else's lighting undisturbed.
Meddle(p, failed) ==
  /\ alone' = [q \in Procs |-> q = p /\ alone[q]]
  /\ unlit' = [q \in Procs |-> unlit[q] \/ (Lighting(q) /\ IF q = p THEN failed ELSE step[q] > 24)]

\* A transfer over the wired bus may fail.
Fail == wired /\ faults < MaxFaults /\ faults' = faults + 1 /\ UNCHANGED device

\* A transfer before the pins are switched goes nowhere.
Nowhere == ~wired /\ UNCHANGED <<device, faults>>

\* Mutant: the pins are left as they are.
WireForgotten == UNCHANGED sh1106Vars

\* sh1106_pad_mux, once it has its region; the ADC module's does the same.
Wire ==
  /\ wired' = TRUE
  /\ UNCHANGED <<at, step, row, frame, device, alone, lost, eaten, unlit, runs, faults>>

-----------------------------------------------------------------------------
(* The driver.                                                              *)

LastCommand(p) == step[p] = Len(InitCmds)

\* sh1106_open: oled_init.
OledInit(p) ==
  /\ at[p] = "init"
  /\ \/ wired /\ Command(InitCmds[step[p]], 0) /\ Meddle(p, FALSE) /\ UNCHANGED faults
     \/ Fail /\ Meddle(p, TRUE)
     \/ Nowhere /\ Meddle(p, FALSE)
  /\ IF LastCommand(p)
     THEN step' = [step EXCEPT ![p] = 1] /\ at' = [at EXCEPT ![p] = "ready"]
     ELSE step' = [step EXCEPT ![p] = @ + 1] /\ UNCHANGED at
  /\ UNCHANGED <<row, frame, wired, lost, eaten, runs>>

\* Mutant: only the first page sets the column.
TransferColumnOnce(p) ==
  CASE step[p] = 1 -> Command("page", row[p])
    [] step[p] = 2 -> Command(IF row[p] = 0 THEN "low" ELSE "nop", 0)
    [] step[p] = 3 -> Command(IF row[p] = 0 THEN "high" ELSE "nop", 0)
    [] OTHER       -> Data(Byte(frame[p], row[p], step[p] - 4))

\* The transfers of one page: three commands and its bytes.
Transfer(p) ==
  CASE step[p] = 1 -> Command("page", row[p])
    [] step[p] = 2 -> Command("low", 0)
    [] step[p] = 3 -> Command("high", 0)
    [] OTHER       -> Data(Byte(frame[p], row[p], step[p] - 4))

LastPage(p) == row[p] = Pages - 1

\* What follows the last transfer of a page: the next page, or the end of the
\* write and the program's next frame.
PageDone(p) ==
  /\ step' = [step EXCEPT ![p] = 1]
  /\ IF LastPage(p)
     THEN /\ row' = [row EXCEPT ![p] = 0]
          /\ at' = [at EXCEPT ![p] = "ready"]
          /\ frame' = [frame EXCEPT ![p] = @ + 1]
     ELSE /\ row' = [row EXCEPT ![p] = @ + 1]
          /\ UNCHANGED <<at, frame>>

\* sh1106_write, called with one frame.
Write(p) ==
  /\ at[p] = "write"
  /\ \/ /\ wired /\ Transfer(p)
        /\ eaten' = IF waiting # "none" /\ step[p] <= 3
                    THEN [eaten EXCEPT ![p] = @ \cup {row[p]}] ELSE eaten
        /\ UNCHANGED <<lost, faults>>
     \/ /\ Fail \/ Nowhere
        /\ lost' = [lost EXCEPT ![p] = @ \cup {row[p]}]
        /\ UNCHANGED eaten
  /\ IF step[p] < 3 + Cols
     THEN step' = [step EXCEPT ![p] = @ + 1] /\ UNCHANGED <<at, row, frame>>
     ELSE PageDone(p)
  /\ Meddle(p, FALSE)
  /\ UNCHANGED <<wired, runs>>

-----------------------------------------------------------------------------
(* The program.                                                             *)

Open(p) ==
  /\ at[p] = "closed"
  /\ runs < MaxRuns
  /\ runs' = runs + 1
  /\ at' = [at EXCEPT ![p] = "init"]
  /\ unlit' = [unlit EXCEPT ![p] = FALSE]
  /\ UNCHANGED <<step, row, frame, device, wired, alone, lost, eaten, faults>>

Show(p) ==
  /\ at[p] = "ready"
  /\ frame[p] < Frames
  /\ at' = [at EXCEPT ![p] = "write"]
  /\ alone' = [alone EXCEPT ![p] = TRUE]
  /\ lost' = [lost EXCEPT ![p] = {}]
  /\ eaten' = [eaten EXCEPT ![p] = {}]
  /\ UNCHANGED <<step, row, frame, device, wired, unlit, runs, faults>>

\* The animation is over, or the program is killed: a signal does not interrupt
\* the transfers of a write.
Exit(p) ==
  /\ at[p] = "ready"
  /\ at' = [at EXCEPT ![p] = "closed"]
  /\ frame' = [frame EXCEPT ![p] = 0]
  /\ alone' = [alone EXCEPT ![p] = FALSE]
  /\ lost' = [lost EXCEPT ![p] = {}]
  /\ eaten' = [eaten EXCEPT ![p] = {}]
  /\ UNCHANGED <<step, row, device, wired, unlit, runs, faults>>

-----------------------------------------------------------------------------
Sh1106Init ==
  /\ at = [p \in Procs |-> "closed"]
  /\ step = [p \in Procs |-> 1]
  /\ row = [p \in Procs |-> 0]
  /\ frame = [p \in Procs |-> 0]
  /\ on = FALSE /\ pump = FALSE
  /\ waiting = "none"
  /\ page = 0
  /\ col = 0
  /\ ram = [g \in 0..Pages - 1 |-> [c \in 0..RamCols - 1 |-> Other]]
  /\ wired = FALSE
  /\ alone = [p \in Procs |-> FALSE]
  /\ lost = [p \in Procs |-> {}]
  /\ eaten = [p \in Procs |-> {}]
  /\ unlit = [p \in Procs |-> FALSE]
  /\ runs = 0
  /\ faults = 0

Sh1106Next ==
  \/ Wire
  \/ \E p \in Procs : OledInit(p) \/ Write(p) \/ Open(p) \/ Show(p) \/ Exit(p)

Sh1106Spec == Sh1106Init /\ [][Sh1106Next]_sh1106Vars

-----------------------------------------------------------------------------
(* Properties.                                                              *)

\* Every process is at a transfer of its call, and the pointers stay inside the
\* display's memory.
Sh1106TypeOK ==
  /\ at \in [Procs -> {"closed", "init", "ready", "write"}]
  /\ step \in [Procs -> 1..3 + Cols + Len(InitCmds)]
  /\ row \in [Procs -> 0..Pages - 1]
  /\ frame \in [Procs -> 0..Frames]
  /\ page \in 0..Pages - 1
  /\ col \in 0..RamCols - 1
  /\ ram \in [0..Pages - 1 -> [0..RamCols - 1 -> Bytes \cup {Other}]]
  /\ waiting \in {"none", "two", "pump"}
  /\ {lost, eaten} \subseteq [Procs -> SUBSET (0..Pages - 1)]
  /\ runs \in 0..MaxRuns
  /\ faults \in 0..MaxFaults

\* A write that no other process met shows its frame, wherever earlier writes and
\* openings, complete or disturbed, left the pointers.  A transfer that fails, that
\* comes before the pins are switched, or that the display takes for the parameter of
\* a command somebody left unfinished, spoils its own page and the page before it at
\* most; and only the first page can meet such a command, unless a transfer is lost.
FrameLandsExactly ==
  \A p \in Procs : at[p] = "ready" /\ frame[p] > 0 /\ alone[p] =>
    /\ lost[p] = {} => eaten[p] \subseteq {0}
    /\ \A g \in 0..Pages - 1 :
         \/ g \in lost[p] \cup eaten[p] \/ g + 1 \in lost[p] \cup eaten[p]
         \/ \A c \in 0..Cols - 1 : ram[g][c] = Byte(frame[p] - 1, g, c)
=============================================================================
