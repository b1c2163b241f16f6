---------------------------- MODULE DisplayProofs ----------------------------
(***************************************************************************)
(* Proofs about Sh1106 and Display, for every number of processes, every   *)
(* size of the display and its frames, and every number of failed          *)
(* transfers.  The inductive invariant of Sh1106 follows one write through *)
(* its pages: which pages are right already, and which page the display's  *)
(* pointer cannot be on when a command has failed.                         *)
(***************************************************************************)
EXTENDS Display, TLAPS

USE Sh1106Assumption DEF Sh1106Assumption

\* Sh1106TypeOK, and the types of the histories.
ShTypes ==
  /\ at \in [Procs -> {"closed", "init", "ready", "write"}]
  /\ step \in [Procs -> Nat]
  /\ row \in [Procs -> 0..Pages - 1]
  /\ frame \in [Procs -> 0..Frames]
  /\ page \in 0..Pages - 1
  /\ col \in 0..RamCols - 1
  /\ ram \in [0..Pages - 1 -> [0..RamCols - 1 -> Bytes \cup {Other}]]
  /\ alone \in [Procs -> BOOLEAN]
  /\ unlit \in [Procs -> BOOLEAN]
  /\ lost \in [Procs -> SUBSET (0..Pages - 1)]
  /\ eaten \in [Procs -> SUBSET (0..Pages - 1)]
  /\ waiting \in {"none", "two", "pump"}
  /\ runs \in 0..MaxRuns
  /\ faults \in 0..MaxFaults

\* Where a process is in its call.
Place(p) ==
  /\ at[p] = "write" => step[p] \in 1..3 + Cols /\ frame[p] < Frames
  /\ at[p] = "init" => step[p] \in 1..27
  /\ at[p] \in {"closed", "ready"} => step[p] = 1
  /\ at[p] # "write" => row[p] = 0
  /\ at[p] \in {"closed", "init"} => frame[p] = 0

\* Page g shows frame f; or a transfer that missed the display may have spoilt it.
Right(g, f) == \A c \in 0..Cols - 1 : ram[g][c] = Byte(f, g, c)
Missed(p) == lost[p] \cup eaten[p]
Spoilt(p, g) == g \in Missed(p) \/ g + 1 \in Missed(p)

\* The pages p has written are right, the pointer is on none of them, and the
\* page p writes is right as far as it has come.
Behind(p) == \A g \in 0..row[p] - 1 : Spoilt(p, g) \/ Right(g, frame[p])
PointerOff(p) ==
  \A g \in 0..row[p] - 1 : (step[p] = 1 => g + 1 < row[p]) => Spoilt(p, g) \/ page # g
AtWork(p) ==
  row[p] \notin Missed(p) =>
    /\ step[p] >= 2 => page = row[p]
    /\ step[p] = 3 => col % Nibble = 0
    /\ step[p] >= 4 => /\ col = step[p] - 4
                       /\ \A c \in 0..step[p] - 5 : ram[row[p]][c] = Byte(frame[p], row[p], c)

\* The first transfer ends what another opening has left waiting.
Heard(p) ==
  lost[p] = {} => /\ eaten[p] \subseteq {0}
                  /\ row[p] # 0 \/ step[p] # 1 => waiting = "none"

Writing(p) ==
  at[p] = "write" /\ alone[p] => Behind(p) /\ PointerOff(p) /\ AtWork(p) /\ Heard(p)

Shown(p) ==
  at[p] = "ready" /\ frame[p] > 0 /\ alone[p] =>
    /\ lost[p] = {} => eaten[p] \subseteq {0}
    /\ \A g \in 0..Pages - 1 : Spoilt(p, g) \/ Right(g, frame[p] - 1)

ShInv == ShTypes /\ \A p \in Procs : Place(p) /\ Writing(p) /\ Shown(p)

-----------------------------------------------------------------------------
(* The column pointer.                                                      *)

\* The low command leaves a column whose low nibble is 0.
LEMMA LowNibble ==
  ASSUME NEW a \in Nat, NEW n \in Nat \ {0}
  PROVE  (a - (a % n)) % n = 0 /\ a % n \in 0..n - 1 /\ a % n <= a
<1>1. a = n * (a \div n) + (a % n) /\ a \div n \in Nat /\ a % n \in 0..n - 1 /\ a % n <= a
  OBVIOUS
<1>2. (n * (a \div n)) % n = 0
  BY <1>1
<1>3. a - (a % n) = n * (a \div n)
  BY <1>1
<1>4. QED
  BY <1>1, <1>2, <1>3

LEMMA Divisor ==
  ASSUME NEW a \in Nat \ {0}, NEW n \in Nat \ {0}, a % n = 0
  PROVE  n <= a
OBVIOUS

LEMMA Sizes == Nibble <= Cols /\ Nibble < RamCols
<1>1. Nibble \in Nat \ {0} /\ Cols \in Nat \ {0} /\ RamCols \in Nat /\ Cols < RamCols
  OBVIOUS
<1>2. Cols % Nibble = 0
  OBVIOUS
<1>3. Nibble <= Cols
  <2> HIDE DEF Sh1106Assumption
  <2>1. Nibble \in Nat \ {0} /\ Cols \in Nat \ {0} /\ Cols % Nibble = 0
    BY <1>1, <1>2
  <2>2. QED
    BY <2>1, Divisor, Zenon
<1>4. QED
  BY <1>1, <1>3

\* What a byte does to the display where it expects a command, and where it does not.
LEMMA ObeyIs ==
  ASSUME ShTypes, NEW c, NEW arg \in 0..Pages - 1, Obey(c, arg)
  PROVE  /\ page' \in 0..Pages - 1 /\ col' \in 0..RamCols - 1 /\ ram' = ram /\ pump' = pump
         /\ waiting' \in {"none", "two", "pump"}
         /\ c \in {"low", "high", "page"} => waiting' = "none"
         /\ c = "page" => page' = arg
         /\ c # "page" => page' = page
         /\ c = "low" => col' % Nibble = 0
         /\ c = "high" => col' = col % Nibble
<1>1. /\ col \in Nat /\ col % Nibble \in 0..Nibble - 1 /\ col % Nibble <= col
      /\ (col - (col % Nibble)) % Nibble = 0
  <2>1. col \in Nat /\ Nibble \in Nat \ {0}
    BY DEF ShTypes
  <2>2. QED
    <3> HIDE DEF Sh1106Assumption
    <3>1. QED
      BY <2>1, LowNibble, Zenon
<1>2. /\ c = "low" => col' = col - (col % Nibble)
      /\ c = "high" => col' = col % Nibble
      /\ c \notin {"low", "high"} => col' = col \/ col' \in 0..RamCols - 1
  BY DEF Obey
<1>3. col' \in 0..RamCols - 1
  BY <1>1, <1>2, Sizes DEF ShTypes
<1>4. /\ ram' = ram /\ pump' = pump /\ page' = IF c = "page" THEN arg ELSE page
      /\ waiting' = IF c \in {"two", "pump"} THEN c ELSE "none"
  BY DEF Obey
<1>5. QED
  <2> HIDE DEF Sh1106Assumption
  <2>1. page' \in 0..Pages - 1
    BY <1>4 DEF ShTypes
  <2>2. QED
    BY <1>1, <1>2, <1>3, <1>4, <2>1

LEMMA CommandIs ==
  ASSUME ShTypes, NEW c, NEW arg \in 0..Pages - 1, Command(c, arg)
  PROVE  /\ page' \in 0..Pages - 1 /\ col' \in 0..RamCols - 1 /\ ram' = ram
         /\ waiting' \in {"none", "two", "pump"}
         /\ waiting # "none" => UNCHANGED <<page, col>> /\ waiting' = "none"
         /\ waiting = "none" => Obey(c, arg)
<1>1. CASE Obey(c, arg)
  <2>1. waiting = "none"
    BY <1>1 DEF Obey
  <2>2. QED
    <3> HIDE DEF Sh1106Assumption
    <3>1. QED
      BY <1>1, <2>1, ObeyIs, Zenon
<1>2. CASE Eat(c)
  BY <1>2 DEF Eat, ShTypes
<1>3. QED
  BY <1>1, <1>2 DEF Command

LEMMA InitCommands ==
  /\ Len(InitCmds) = 27
  /\ InitCmds[24] = "nop" /\ InitCmds[25] = "pump" /\ InitCmds[26] = "enable" /\ InitCmds[27] = "on"
BY DEF InitCmds

-----------------------------------------------------------------------------
(* Steps that leave the display alone.                                      *)

LEMMA ShInitHolds == Sh1106Init => ShInv
<1> SUFFICES ASSUME Sh1106Init PROVE ShInv
  OBVIOUS
<1>1. ShTypes
  BY DEF Sh1106Init, ShTypes
<1>2. ASSUME NEW p \in Procs PROVE Place(p) /\ Writing(p) /\ Shown(p)
  BY DEF Sh1106Init, Place, Writing, Shown
<1>3. QED
  BY <1>1, <1>2 DEF ShInv

\* A process whose own state a step leaves alone, and the display too.
LEMMA Untouched ==
  ASSUME ShInv, NEW p \in Procs, UNCHANGED <<page, col, ram>>,
         at'[p] = at[p], step'[p] = step[p], row'[p] = row[p], frame'[p] = frame[p],
         alone'[p] = alone[p], lost'[p] = lost[p], eaten'[p] = eaten[p], waiting' = waiting
  PROVE  Place(p)' /\ Writing(p)' /\ Shown(p)'
BY DEF ShInv, Place, Writing, Shown, Behind, PointerOff, AtWork, Heard, Spoilt, Missed, Right

\* A process whose write another one's transfer has met.
LEMMA Met ==
  ASSUME ShInv, NEW p \in Procs, at'[p] = at[p], step'[p] = step[p], row'[p] = row[p],
         frame'[p] = frame[p], ~alone'[p]
  PROVE  Place(p)' /\ Writing(p)' /\ Shown(p)'
BY DEF ShInv, Place, Writing, Shown

LEMMA OpenStep == ASSUME ShInv, NEW p \in Procs, Open(p) PROVE ShInv'
<1>1. /\ at[p] = "closed" /\ at' = [at EXCEPT ![p] = "init"] /\ runs' = runs + 1 /\ runs < MaxRuns
      /\ unlit' = [unlit EXCEPT ![p] = FALSE]
      /\ UNCHANGED <<step, row, frame, waiting, page, col, ram, alone, lost, eaten, faults>>
  BY DEF Open, device
<1>2. ShTypes'
  BY <1>1 DEF ShInv, ShTypes
<1>3. ASSUME NEW q \in Procs, q # p PROVE Place(q)' /\ Writing(q)' /\ Shown(q)'
  BY <1>1, <1>3, Untouched DEF ShInv, ShTypes
<1>4. Place(p)' /\ Writing(p)' /\ Shown(p)'
  BY <1>1 DEF ShInv, ShTypes, Place, Writing, Shown
<1>5. QED
  BY <1>2, <1>3, <1>4 DEF ShInv

LEMMA ExitStep == ASSUME ShInv, NEW p \in Procs, Exit(p) PROVE ShInv'
<1>1. /\ at[p] = "ready" /\ at' = [at EXCEPT ![p] = "closed"]
      /\ frame' = [frame EXCEPT ![p] = 0] /\ alone' = [alone EXCEPT ![p] = FALSE]
      /\ lost' = [lost EXCEPT ![p] = {}] /\ eaten' = [eaten EXCEPT ![p] = {}]
      /\ UNCHANGED <<step, row, waiting, page, col, ram, unlit, runs, faults>>
  BY DEF Exit, device
<1>2. ShTypes'
  BY <1>1 DEF ShInv, ShTypes
<1>3. ASSUME NEW q \in Procs, q # p PROVE Place(q)' /\ Writing(q)' /\ Shown(q)'
  BY <1>1, <1>3, Untouched DEF ShInv, ShTypes
<1>4. Place(p)' /\ Writing(p)' /\ Shown(p)'
  BY <1>1 DEF ShInv, ShTypes, Place, Writing, Shown
<1>5. QED
  BY <1>2, <1>3, <1>4 DEF ShInv

\* A write begins with nothing behind it.
LEMMA ShowStep == ASSUME ShInv, NEW p \in Procs, Show(p) PROVE ShInv'
<1>1. /\ at[p] = "ready" /\ frame[p] < Frames /\ at' = [at EXCEPT ![p] = "write"]
      /\ alone' = [alone EXCEPT ![p] = TRUE] /\ lost' = [lost EXCEPT ![p] = {}]
      /\ eaten' = [eaten EXCEPT ![p] = {}]
      /\ UNCHANGED <<step, row, frame, waiting, page, col, ram, unlit, runs, faults>>
  BY DEF Show, device
<1>2. ShTypes'
  BY <1>1 DEF ShInv, ShTypes
<1>3. ASSUME NEW q \in Procs, q # p PROVE Place(q)' /\ Writing(q)' /\ Shown(q)'
  BY <1>1, <1>3, Untouched DEF ShInv, ShTypes
<1>4. step[p] = 1 /\ row[p] = 0
  BY <1>1 DEF ShInv, Place
<1>5. /\ at'[p] = "write" /\ step'[p] = 1 /\ row'[p] = 0 /\ frame'[p] = frame[p]
      /\ eaten'[p] = {}
  BY <1>1, <1>4 DEF ShInv, ShTypes
<1>6. Place(p)'
  BY <1>1, <1>5 DEF Place
<1>7. Behind(p)' /\ PointerOff(p)' /\ AtWork(p)' /\ Heard(p)'
  BY <1>5 DEF Behind, PointerOff, AtWork, Heard
<1>8. Writing(p)' /\ Shown(p)'
  BY <1>5, <1>7 DEF Writing, Shown
<1>9. QED
  BY <1>2, <1>3, <1>6, <1>8 DEF ShInv

LEMMA WireStep == ASSUME ShInv, Wire PROVE ShInv'
<1>1. UNCHANGED <<at, step, row, frame, waiting, page, col, ram, alone, lost, eaten, unlit, runs,
                  faults>>
  BY DEF Wire, device
<1>2. ShTypes'
  BY <1>1 DEF ShInv, ShTypes
<1>3. QED
  BY <1>1, <1>2, Untouched DEF ShInv

-----------------------------------------------------------------------------
(* Steps that are a transfer.                                               *)

\* What is left of a write another process's transfer has met: nothing is promised.
LEMMA OthersMet ==
  ASSUME ShInv, NEW p \in Procs, NEW failed \in BOOLEAN, Meddle(p, failed),
         \A q \in Procs : q # p => /\ at'[q] = at[q] /\ step'[q] = step[q]
                                   /\ row'[q] = row[q] /\ frame'[q] = frame[q]
  PROVE  /\ alone' \in [Procs -> BOOLEAN] /\ alone'[p] = alone[p] /\ unlit' \in [Procs -> BOOLEAN]
         /\ \A q \in Procs : q # p => Place(q)' /\ Writing(q)' /\ Shown(q)'
<1>1. alone' \in [Procs -> BOOLEAN] /\ alone'[p] = alone[p]
  BY Zenon DEF Meddle, ShInv, ShTypes
<1>4. unlit' \in [Procs -> BOOLEAN]
  BY Zenon DEF Meddle, ShInv, ShTypes, Lighting
<1>2. ASSUME NEW q \in Procs, q # p PROVE Place(q)' /\ Writing(q)' /\ Shown(q)'
  <2>1. ~alone'[q]
    BY <1>2 DEF Meddle
  <2>2. QED
    BY <1>2, <2>1, Met
<1>3. QED
  BY <1>1, <1>2, <1>4

LEMMA OledInitStep == ASSUME ShInv, NEW p \in Procs, OledInit(p) PROVE ShInv'
<1>1. /\ at[p] = "init" /\ step[p] \in 1..27 /\ frame[p] = 0 /\ row[p] = 0
      /\ UNCHANGED <<row, frame, lost, eaten, runs>>
  BY DEF OledInit, ShInv, Place
<1>m. PICK failed \in BOOLEAN : Meddle(p, failed)
  BY DEF OledInit
<1>2. /\ page' \in 0..Pages - 1 /\ col' \in 0..RamCols - 1 /\ ram' = ram
      /\ waiting' \in {"none", "two", "pump"} /\ faults' \in 0..MaxFaults
  <2>1. CASE wired /\ Command(InitCmds[step[p]], 0) /\ UNCHANGED faults
    <3>1. 0 \in 0..Pages - 1 /\ ShTypes
      BY DEF ShInv
    <3>2. /\ page' \in 0..Pages - 1 /\ col' \in 0..RamCols - 1 /\ ram' = ram
          /\ waiting' \in {"none", "two", "pump"}
      <4> HIDE DEF Sh1106Assumption
      <4>1. QED
        BY <2>1, <3>1, CommandIs, Zenon
    <3>3. QED
      BY <2>1, <3>2 DEF ShInv, ShTypes
  <2>2. CASE Fail
    BY <2>2 DEF Fail, device, ShInv, ShTypes
  <2>3. CASE Nowhere
    BY <2>3 DEF Nowhere, device, ShInv, ShTypes
  <2>4. QED
    BY <2>1, <2>2, <2>3 DEF OledInit
<1>3. \/ step[p] = 27 /\ step' = [step EXCEPT ![p] = 1] /\ at' = [at EXCEPT ![p] = "ready"]
      \/ step[p] # 27 /\ step' = [step EXCEPT ![p] = @ + 1] /\ at' = at
  BY InitCommands DEF OledInit, LastCommand
<1>4. /\ \A q \in Procs : q # p => /\ at'[q] = at[q] /\ step'[q] = step[q]
                                   /\ row'[q] = row[q] /\ frame'[q] = frame[q]
      /\ \/ at'[p] = "ready" /\ step'[p] = 1
         \/ at'[p] = "init" /\ step'[p] = step[p] + 1 /\ step[p] # 27
  BY <1>1, <1>3 DEF ShInv, ShTypes
<1>5. /\ alone' \in [Procs -> BOOLEAN] /\ unlit' \in [Procs -> BOOLEAN]
      /\ \A q \in Procs : q # p => Place(q)' /\ Writing(q)' /\ Shown(q)'
  BY <1>m, <1>4, OthersMet
<1>6. ShTypes'
  <2>1. at' \in [Procs -> {"closed", "init", "ready", "write"}]
    BY <1>3 DEF ShInv, ShTypes
  <2>2. step' \in [Procs -> Nat]
    <3>1. step \in [Procs -> Nat] /\ step[p] + 1 \in Nat
      BY DEF ShInv, ShTypes
    <3>2. QED
      BY <1>3, <3>1
  <2>3. /\ UNCHANGED <<row, frame, lost, eaten, runs>>
        /\ ram' \in [0..Pages - 1 -> [0..RamCols - 1 -> Bytes \cup {Other}]]
    BY <1>1, <1>2 DEF ShInv, ShTypes
  <2>4. QED
    BY <1>2, <1>5, <2>1, <2>2, <2>3 DEF ShInv, ShTypes
<1>7. Place(p)' /\ Writing(p)' /\ Shown(p)'
  <2>1. frame'[p] = 0 /\ row'[p] = 0 /\ at'[p] \in {"ready", "init"}
    BY <1>1, <1>4
  <2>2. at'[p] = "init" => step'[p] \in 1..27
    BY <1>1, <1>4
  <2>3. at'[p] = "ready" => step'[p] = 1
    BY <1>4
  <2>4. QED
    BY <2>1, <2>2, <2>3 DEF Place, Writing, Shown
<1>8. QED
  BY <1>5, <1>6, <1>7 DEF ShInv

\* What a transfer of a write does to the display: a command is obeyed, or taken for
\* a parameter.
LEMMA TransferIs ==
  ASSUME ShInv, NEW p \in Procs, at[p] = "write", Transfer(p)
  PROVE  /\ page' \in 0..Pages - 1 /\ col' \in 0..RamCols - 1
         /\ waiting' \in {"none", "two", "pump"}
         /\ waiting = "none" => waiting' = "none"
         /\ step[p] < 4 => ram' = ram /\ waiting' = "none"
         /\ step[p] < 4 /\ waiting # "none" => UNCHANGED <<page, col>>
         /\ step[p] = 1 /\ waiting = "none" => page' = row[p]
         /\ step[p] = 2 /\ waiting = "none" => page' = page /\ col' % Nibble = 0
         /\ step[p] = 3 /\ waiting = "none" => page' = page /\ col' = col % Nibble
         /\ step[p] >= 4 =>
              /\ page' = page
              /\ ram' = [ram EXCEPT ![page] = [@ EXCEPT ![col] = Byte(frame[p], row[p], step[p] - 4)]]
              /\ col' = IF col < RamCols - 1 THEN col + 1 ELSE col
<1>1. step[p] \in 1..3 + Cols /\ row[p] \in 0..Pages - 1 /\ ShTypes /\ 0 \in 0..Pages - 1
  BY DEF ShInv, ShTypes, Place
<1>2. ASSUME NEW c \in {"page", "low", "high"}, NEW arg \in 0..Pages - 1, Command(c, arg)
      PROVE  /\ page' \in 0..Pages - 1 /\ col' \in 0..RamCols - 1 /\ ram' = ram
             /\ waiting' = "none"
             /\ waiting # "none" => UNCHANGED <<page, col>>
             /\ waiting = "none" /\ c = "page" => page' = arg
             /\ waiting = "none" /\ c # "page" => page' = page
             /\ waiting = "none" /\ c = "low" => col' % Nibble = 0
             /\ waiting = "none" /\ c = "high" => col' = col % Nibble
  <2> HIDE DEF Sh1106Assumption
  <2>1. /\ page' \in 0..Pages - 1 /\ col' \in 0..RamCols - 1 /\ ram' = ram
        /\ waiting # "none" => UNCHANGED <<page, col>> /\ waiting' = "none"
        /\ waiting = "none" => Obey(c, arg)
    BY <1>1, <1>2, CommandIs, Zenon
  <2>2. CASE waiting = "none"
    <3>1. /\ waiting' = "none"
          /\ c = "page" => page' = arg
          /\ c # "page" => page' = page
          /\ c = "low" => col' % Nibble = 0
          /\ c = "high" => col' = col % Nibble
      BY <1>1, <1>2, <2>1, <2>2, ObeyIs, Zenon
    <3>2. QED
      BY <2>1, <2>2, <3>1, Zenon
  <2>3. QED
    BY <2>1, <2>2, Zenon
<1>3. CASE step[p] = 1
  <2>1. Command("page", row[p])
    BY <1>3 DEF Transfer
  <2>2. QED
    BY <1>1, <1>3, <2>1, <1>2
<1>4. CASE step[p] = 2
  <2>1. Command("low", 0)
    BY <1>4 DEF Transfer
  <2>2. QED
    BY <1>1, <1>4, <2>1, <1>2
<1>5. CASE step[p] = 3
  <2>1. Command("high", 0)
    BY <1>5 DEF Transfer
  <2>2. QED
    BY <1>1, <1>5, <2>1, <1>2
<1>6. CASE step[p] >= 4
  <2>1. Data(Byte(frame[p], row[p], step[p] - 4))
    BY <1>1, <1>6 DEF Transfer
  <2>2. /\ page' = page
        /\ ram' = [ram EXCEPT ![page] = [@ EXCEPT ![col] = Byte(frame[p], row[p], step[p] - 4)]]
        /\ col' = IF col < RamCols - 1 THEN col + 1 ELSE col
        /\ waiting' \in {waiting, "none"}
    BY <2>1 DEF Data
  <2>3. page' \in 0..Pages - 1 /\ col' \in 0..RamCols - 1
    BY <1>1, <2>2 DEF ShTypes
  <2>4. QED
    BY <1>1, <1>6, <2>2, <2>3 DEF ShTypes
<1>7. QED
  BY <1>1, <1>3, <1>4, <1>5, <1>6

\* After a transfer that no other process's came between: the pages behind are
\* right, the pointer is on none of them, and the page at work is right up to and
\* with this transfer.
LEMMA Transferred ==
  ASSUME ShInv, NEW p \in Procs, Write(p), alone[p]
  PROVE  /\ \A g \in 0..row[p] - 1 :
              \/ g \in lost'[p] \cup eaten'[p] \/ g + 1 \in lost'[p] \cup eaten'[p]
              \/ \A c \in 0..Cols - 1 : ram'[g][c] = Byte(frame[p], g, c)
         /\ \A g \in 0..row[p] - 1 :
              g \in lost'[p] \cup eaten'[p] \/ g + 1 \in lost'[p] \cup eaten'[p] \/ page' # g
         /\ row[p] \notin lost'[p] \cup eaten'[p] =>
              /\ page' = row[p]
              /\ step[p] = 2 => col' % Nibble = 0
              /\ step[p] >= 3 => /\ col' = step[p] - 3
                                 /\ \A c \in 0..step[p] - 4 : ram'[row[p]][c] = Byte(frame[p], row[p], c)
         /\ lost'[p] = {} => eaten'[p] \subseteq {0} /\ waiting' = "none"
<1>1. /\ at[p] = "write" /\ step[p] \in 1..3 + Cols /\ row[p] \in 0..Pages - 1
      /\ ShTypes /\ Behind(p) /\ PointerOff(p) /\ AtWork(p) /\ Heard(p)
  BY DEF Write, ShInv, ShTypes, Place, Writing
<1>2. CASE (Fail \/ Nowhere) /\ lost' = [lost EXCEPT ![p] = @ \cup {row[p]}] /\ UNCHANGED eaten
  <2>1. lost'[p] = lost[p] \cup {row[p]} /\ UNCHANGED <<page, ram, eaten>>
    BY <1>1, <1>2 DEF Fail, Nowhere, device, ShTypes
  <2>2. QED
    BY <1>1, <2>1 DEF Behind, PointerOff, Spoilt, Missed, Right
<1>4. CASE /\ Transfer(p) /\ UNCHANGED lost /\ waiting # "none" /\ step[p] <= 3
           /\ eaten' = [eaten EXCEPT ![p] = @ \cup {row[p]}]
  <2>1. lost'[p] = lost[p] /\ eaten'[p] = eaten[p] \cup {row[p]}
    BY <1>1, <1>4 DEF ShTypes
  <2>2. UNCHANGED <<page, ram>> /\ waiting' = "none"
    BY <1>1, <1>4, TransferIs
  <2>3. lost[p] = {} => row[p] = 0 /\ eaten[p] \subseteq {0}
    BY <1>1, <1>4 DEF Heard
  <2>4. QED
    BY <1>1, <2>1, <2>2, <2>3 DEF Behind, PointerOff, Spoilt, Missed, Right
<1>3. CASE Transfer(p) /\ UNCHANGED <<lost, eaten>> /\ (waiting = "none" \/ step[p] > 3)
  <2>1. lost'[p] = lost[p] /\ eaten'[p] = eaten[p]
    BY <1>3
  <2>h. lost'[p] = {} => eaten'[p] \subseteq {0} /\ waiting' = "none"
    <3>1. lost[p] = {} => waiting = "none" /\ eaten[p] \subseteq {0}
      BY <1>1, <1>3 DEF Heard
    <3>2. waiting = "none" => waiting' = "none"
      BY <1>1, <1>3, TransferIs
    <3>3. QED
      BY <2>1, <3>1, <3>2
  <2>2. CASE step[p] = 1
    <3>1. page' = row[p] /\ ram' = ram
      BY <1>1, <1>3, <2>2, TransferIs
    <3>2. QED
      BY <1>1, <2>1, <2>h, <2>2, <3>1 DEF Behind, Spoilt, Missed, Right
  <2>3. CASE step[p] = 2
    <3>1. page' = page /\ ram' = ram /\ col' % Nibble = 0
      BY <1>1, <1>3, <2>3, TransferIs
    <3>2. QED
      BY <1>1, <2>1, <2>h, <2>3, <3>1 DEF Behind, PointerOff, AtWork, Spoilt, Missed, Right
  <2>4. CASE step[p] = 3
    <3>1. page' = page /\ ram' = ram /\ col' = col % Nibble
      BY <1>1, <1>3, <2>4, TransferIs
    <3>2. row[p] \notin Missed(p) => page = row[p] /\ col % Nibble = 0
      BY <1>1, <2>4 DEF AtWork
    <3>3. QED
      BY <1>1, <2>1, <2>h, <2>4, <3>1, <3>2 DEF Behind, PointerOff, Spoilt, Missed, Right
  <2>5. CASE step[p] >= 4
    <3>1. /\ page' = page
          /\ ram' = [ram EXCEPT ![page] = [@ EXCEPT ![col] = Byte(frame[p], row[p], step[p] - 4)]]
          /\ col' = IF col < RamCols - 1 THEN col + 1 ELSE col
      BY <1>1, <1>3, <2>5, TransferIs
    <3>2. ASSUME NEW g \in 0..row[p] - 1, ~Spoilt(p, g)
          PROVE  page # g /\ \A c \in 0..Cols - 1 : ram'[g][c] = Byte(frame[p], g, c)
      <4>1. page # g /\ Right(g, frame[p]) /\ g \in 0..Pages - 1
        BY <1>1, <2>5, <3>2 DEF Behind, PointerOff
      <4>2. \A c \in 0..Cols - 1 : ram'[g][c] = Byte(frame[p], g, c)
        <5>1. ram'[g] = ram[g]
          BY <1>1, <3>1, <4>1 DEF ShTypes
        <5>2. QED
          BY <4>1, <5>1 DEF Right
      <4>3. QED
        BY <4>1, <4>2
    <3>3. ASSUME row[p] \notin Missed(p)
          PROVE  /\ page' = row[p] /\ col' = step[p] - 3
                 /\ \A c \in 0..step[p] - 4 : ram'[row[p]][c] = Byte(frame[p], row[p], c)
      <4>1. /\ page = row[p] /\ col = step[p] - 4
            /\ \A c \in 0..step[p] - 5 : ram[row[p]][c] = Byte(frame[p], row[p], c)
        BY <1>1, <2>5, <3>3 DEF AtWork
      <4>2. col < RamCols - 1 /\ col \in 0..RamCols - 1 /\ step[p] - 4 \in Nat
        BY <1>1, <2>5, <4>1
      <4>3. ram'[row[p]] = [ram[row[p]] EXCEPT ![col] = Byte(frame[p], row[p], col)]
        BY <1>1, <3>1, <4>1 DEF ShTypes
      <4>4. \A c \in 0..step[p] - 4 : ram'[row[p]][c] = Byte(frame[p], row[p], c)
        BY <1>1, <4>1, <4>2, <4>3 DEF ShTypes
      <4>5. QED
        BY <1>1, <3>1, <4>1, <4>2, <4>4
    <3>4. QED
      BY <1>1, <2>1, <2>h, <2>5, <3>1, <3>2, <3>3 DEF Spoilt, Missed
  <2>6. QED
    BY <1>1, <2>2, <2>3, <2>4, <2>5
<1>5. QED
  BY <1>1, <1>2, <1>3, <1>4 DEF Write

\* The write goes on: to the page's next transfer, the next page, or its end.
LEMMA WriteStep == ASSUME ShInv, NEW p \in Procs, Write(p) PROVE ShInv'
<1>1. /\ at[p] = "write" /\ step[p] \in 1..3 + Cols /\ row[p] \in 0..Pages - 1
      /\ frame[p] \in 0..Frames - 1 /\ Meddle(p, FALSE) /\ runs' = runs
  <2>1. at[p] = "write" /\ Meddle(p, FALSE) /\ runs' = runs
    BY DEF Write
  <2>2. Place(p) /\ row[p] \in 0..Pages - 1 /\ frame[p] \in 0..Frames
    BY DEF ShInv, ShTypes
  <2>3. QED
    <3>1. step[p] \in 1..3 + Cols /\ frame[p] < Frames
      BY <2>1, <2>2 DEF Place
    <3>2. frame[p] \in 0..Frames - 1
      BY <2>2, <3>1
    <3>3. QED
      BY <2>1, <2>2, <3>1, <3>2, Zenon
<1>2. /\ page' \in 0..Pages - 1 /\ col' \in 0..RamCols - 1
      /\ ram' \in [0..Pages - 1 -> [0..RamCols - 1 -> Bytes \cup {Other}]]
      /\ {lost', eaten'} \subseteq [Procs -> SUBSET (0..Pages - 1)] /\ faults' \in 0..MaxFaults
      /\ waiting' \in {"none", "two", "pump"}
  <2>1. CASE /\ Transfer(p) /\ UNCHANGED <<lost, faults>>
             /\ eaten' \in {eaten, [eaten EXCEPT ![p] = @ \cup {row[p]}]}
    <3>1. /\ page' \in 0..Pages - 1 /\ col' \in 0..RamCols - 1
          /\ waiting' \in {"none", "two", "pump"}
          /\ {lost', eaten'} \subseteq [Procs -> SUBSET (0..Pages - 1)] /\ faults' \in 0..MaxFaults
      <4>1. /\ page' \in 0..Pages - 1 /\ col' \in 0..RamCols - 1
            /\ waiting' \in {"none", "two", "pump"}
        BY <1>1, <2>1, TransferIs
      <4>2. {lost', eaten'} \subseteq [Procs -> SUBSET (0..Pages - 1)] /\ faults' \in 0..MaxFaults
        <5>1. eaten \in [Procs -> SUBSET (0..Pages - 1)] /\ {row[p]} \subseteq 0..Pages - 1
          BY <1>1 DEF ShInv, ShTypes
        <5>2. [eaten EXCEPT ![p] = @ \cup {row[p]}] \in [Procs -> SUBSET (0..Pages - 1)]
          BY <5>1
        <5>3. eaten' \in [Procs -> SUBSET (0..Pages - 1)]
          BY <2>1, <5>1, <5>2
        <5>4. lost' \in [Procs -> SUBSET (0..Pages - 1)] /\ faults' \in 0..MaxFaults
          BY <2>1 DEF ShInv, ShTypes
        <5>5. QED
          BY <5>3, <5>4
      <4>3. QED
        BY <4>1, <4>2
    <3>2. CASE step[p] \in 1..3
      <4>1. ram' = ram
        BY <1>1, <2>1, <3>2, TransferIs
      <4>2. QED
        BY <2>1, <3>1, <4>1 DEF ShInv, ShTypes
    <3>3. CASE step[p] >= 4
      <4>1. ram' = [ram EXCEPT ![page] = [@ EXCEPT ![col] = Byte(frame[p], row[p], step[p] - 4)]]
        BY <1>1, <2>1, <3>3, TransferIs
      <4>2. Byte(frame[p], row[p], step[p] - 4) \in Bytes
        <5>1. step[p] - 4 \in 0..Cols - 1
          BY <1>1, <3>3
        <5>2. PICK t \in (0..Frames - 1) \X (0..Pages - 1) \X (0..Cols - 1) :
                t = <<frame[p], row[p], step[p] - 4>>
          BY <1>1, <5>1
        <5>3. QED
          BY <5>2 DEF Bytes, Byte
      <4>3. QED
        BY <2>1, <3>1, <4>1, <4>2 DEF ShInv, ShTypes
    <3>4. QED
      BY <1>1, <3>2, <3>3
  <2>2. CASE (Fail \/ Nowhere) /\ lost' = [lost EXCEPT ![p] = @ \cup {row[p]}] /\ UNCHANGED eaten
    <3>1. UNCHANGED <<waiting, page, col, ram>> /\ faults' \in 0..MaxFaults
      BY <2>2 DEF Fail, Nowhere, device, ShInv, ShTypes
    <3>2. QED
      BY <1>1, <2>2, <3>1 DEF ShInv, ShTypes
  <2>3. QED
    BY <2>1, <2>2 DEF Write
<1>3. \/ step[p] < 3 + Cols /\ step' = [step EXCEPT ![p] = @ + 1] /\ UNCHANGED <<at, row, frame>>
      \/ /\ step[p] = 3 + Cols /\ row[p] = Pages - 1 /\ step' = [step EXCEPT ![p] = 1]
         /\ row' = [row EXCEPT ![p] = 0] /\ at' = [at EXCEPT ![p] = "ready"]
         /\ frame' = [frame EXCEPT ![p] = @ + 1]
      \/ /\ step[p] = 3 + Cols /\ row[p] < Pages - 1 /\ step' = [step EXCEPT ![p] = 1]
         /\ row' = [row EXCEPT ![p] = @ + 1] /\ UNCHANGED <<at, frame>>
  BY <1>1 DEF Write, PageDone, LastPage
<1>4. /\ at' \in [Procs -> {"closed", "init", "ready", "write"}]
      /\ step' \in [Procs -> Nat]
      /\ row' \in [Procs -> 0..Pages - 1]
      /\ frame' \in [Procs -> 0..Frames]
  <2>1. at' \in [Procs -> {"closed", "init", "ready", "write"}]
    BY <1>3 DEF ShInv, ShTypes
  <2>2. step' \in [Procs -> Nat]
    <3>1. step \in [Procs -> Nat] /\ step[p] + 1 \in Nat
      BY DEF ShInv, ShTypes
    <3>2. QED
      BY <1>3, <3>1
  <2>3. row' \in [Procs -> 0..Pages - 1]
    <3>1. row \in [Procs -> 0..Pages - 1] /\ (row[p] < Pages - 1 => row[p] + 1 \in 0..Pages - 1)
      BY <1>1 DEF ShInv, ShTypes
    <3>2. 0 \in 0..Pages - 1
      OBVIOUS
    <3>3. QED
      BY <1>3, <3>1, <3>2
  <2>4. frame' \in [Procs -> 0..Frames]
    <3>1. frame \in [Procs -> 0..Frames] /\ frame[p] + 1 \in 0..Frames
      BY <1>1 DEF ShInv, ShTypes
    <3>2. QED
      BY <1>3, <3>1
  <2>5. QED
    BY <2>1, <2>2, <2>3, <2>4
<1>5. /\ alone' \in [Procs -> BOOLEAN] /\ alone'[p] = alone[p] /\ unlit' \in [Procs -> BOOLEAN]
      /\ \A q \in Procs : q # p => Place(q)' /\ Writing(q)' /\ Shown(q)'
  <2>1. \A q \in Procs : q # p => /\ at'[q] = at[q] /\ step'[q] = step[q]
                                  /\ row'[q] = row[q] /\ frame'[q] = frame[q]
    BY <1>3 DEF ShInv, ShTypes
  <2>2. QED
    BY <1>1, <2>1, OthersMet
<1>6. ShTypes'
  <2>1. runs' \in 0..MaxRuns
    BY <1>1 DEF ShInv, ShTypes
  <2>2. QED
    BY <1>2, <1>4, <1>5, <2>1 DEF ShTypes
<1>7. CASE step[p] < 3 + Cols /\ step' = [step EXCEPT ![p] = @ + 1] /\ UNCHANGED <<at, row, frame>>
  <2>1. at'[p] = "write" /\ step'[p] = step[p] + 1 /\ row'[p] = row[p] /\ frame'[p] = frame[p]
    BY <1>1, <1>7 DEF ShInv, ShTypes
  <2>2. Place(p)' /\ Shown(p)'
    BY <1>1, <1>7, <2>1 DEF Place, Shown
  <2>3. ASSUME alone[p] PROVE Behind(p)' /\ PointerOff(p)' /\ AtWork(p)' /\ Heard(p)'
    <3>1. Behind(p)'
      BY <2>1, <2>3, Transferred DEF Behind, Spoilt, Missed, Right
    <3>2. PointerOff(p)'
      BY <2>1, <2>3, Transferred DEF PointerOff, Spoilt, Missed
    <3>3. ASSUME row[p] \notin lost'[p] \cup eaten'[p]
          PROVE  /\ page' = row[p]
                 /\ step[p] + 1 = 3 => col' % Nibble = 0
                 /\ step[p] + 1 >= 4 => /\ col' = step[p] + 1 - 4
                                        /\ \A c \in 0..step[p] + 1 - 5 : ram'[row[p]][c] = Byte(frame[p], row[p], c)
      <4>1. /\ page' = row[p]
            /\ step[p] = 2 => col' % Nibble = 0
            /\ step[p] >= 3 => /\ col' = step[p] - 3
                               /\ \A c \in 0..step[p] - 4 : ram'[row[p]][c] = Byte(frame[p], row[p], c)
        BY <2>3, <3>3, Transferred, Zenon
      <4>2. step[p] + 1 - 4 = step[p] - 3 /\ step[p] + 1 - 5 = step[p] - 4
        BY <1>1
      <4>3. step[p] + 1 = 3 <=> step[p] = 2
        BY <1>1
      <4>4. step[p] + 1 >= 4 <=> step[p] >= 3
        BY <1>1
      <4>5. QED
        BY <4>1, <4>2, <4>3, <4>4, Zenon
    <3>4. AtWork(p)'
      BY <1>1, <2>1, <3>3 DEF AtWork, Missed
    <3>6. Heard(p)'
      BY <2>3, Transferred DEF Heard
    <3>5. QED
      BY <3>1, <3>2, <3>4, <3>6
  <2>4. QED
    BY <1>5, <1>6, <2>2, <2>3 DEF ShInv, Writing
<1>8. ASSUME step[p] = 3 + Cols, alone[p]
      PROVE  \A g \in 0..row[p] : \/ g \in lost'[p] \cup eaten'[p] \/ g + 1 \in lost'[p] \cup eaten'[p]
                                 \/ \A c \in 0..Cols - 1 : ram'[g][c] = Byte(frame[p], g, c)
  <2>1. row[p] \notin lost'[p] \cup eaten'[p] => \A c \in 0..Cols - 1 : ram'[row[p]][c] = Byte(frame[p], row[p], c)
    BY <1>8, Transferred
  <2>2. QED
    BY <1>1, <1>8, <2>1, Transferred
<1>9. CASE /\ step[p] = 3 + Cols /\ row[p] < Pages - 1 /\ step' = [step EXCEPT ![p] = 1]
           /\ row' = [row EXCEPT ![p] = @ + 1] /\ UNCHANGED <<at, frame>>
  <2>1. at'[p] = "write" /\ step'[p] = 1 /\ row'[p] = row[p] + 1 /\ frame'[p] = frame[p]
    BY <1>1, <1>9 DEF ShInv, ShTypes
  <2>2. Place(p)' /\ Shown(p)'
    BY <1>1, <2>1 DEF Place, Shown
  <2>3. ASSUME alone[p] PROVE Behind(p)' /\ PointerOff(p)' /\ AtWork(p)' /\ Heard(p)'
    <3>1. Behind(p)'
      <4>1. \A g \in 0..row[p] : \/ g \in lost'[p] \cup eaten'[p] \/ g + 1 \in lost'[p] \cup eaten'[p]
                               \/ \A c \in 0..Cols - 1 : ram'[g][c] = Byte(frame[p], g, c)
        BY <1>8, <1>9, <2>3
      <4>2. row'[p] - 1 = row[p]
        BY <1>1, <2>1
      <4>3. QED
        BY <2>1, <4>1, <4>2 DEF Behind, Spoilt, Missed, Right
    <3>2. PointerOff(p)'
      BY <1>1, <2>1, <2>3, Transferred DEF PointerOff, Spoilt, Missed
    <3>3. AtWork(p)'
      BY <2>1 DEF AtWork
    <3>5. Heard(p)'
      BY <2>3, Transferred DEF Heard
    <3>4. QED
      BY <3>1, <3>2, <3>3, <3>5
  <2>4. QED
    BY <1>5, <1>6, <2>2, <2>3 DEF ShInv, Writing
<1>10. CASE /\ step[p] = 3 + Cols /\ row[p] = Pages - 1 /\ step' = [step EXCEPT ![p] = 1]
            /\ row' = [row EXCEPT ![p] = 0] /\ at' = [at EXCEPT ![p] = "ready"]
            /\ frame' = [frame EXCEPT ![p] = @ + 1]
  <2>1. at'[p] = "ready" /\ step'[p] = 1 /\ row'[p] = 0 /\ frame'[p] - 1 = frame[p]
    BY <1>1, <1>10 DEF ShInv, ShTypes
  <2>2. Place(p)' /\ Writing(p)'
    BY <2>1 DEF Place, Writing
  <2>3. Shown(p)'
    <3>1. ASSUME alone[p] PROVE lost'[p] = {} => eaten'[p] \subseteq {0}
      BY <3>1, Transferred
    <3>2. ASSUME alone[p]
          PROVE  \A g \in 0..Pages - 1 :
                   \/ g \in lost'[p] \cup eaten'[p] \/ g + 1 \in lost'[p] \cup eaten'[p]
                   \/ \A c \in 0..Cols - 1 : ram'[g][c] = Byte(frame[p], g, c)
      <4>1. \A g \in 0..row[p] : \/ g \in lost'[p] \cup eaten'[p] \/ g + 1 \in lost'[p] \cup eaten'[p]
                               \/ \A c \in 0..Cols - 1 : ram'[g][c] = Byte(frame[p], g, c)
        BY <1>8, <1>10, <3>2
      <4>2. row[p] = Pages - 1
        BY <1>10
      <4>3. QED
        BY <4>1, <4>2, Zenon
    <3>3. alone'[p] = alone[p] /\ frame'[p] - 1 = frame[p]
      BY <1>5, <2>1
    <3>4. ASSUME alone'[p]
          PROVE  \A g \in 0..Pages - 1 :
                   \/ g \in lost'[p] \cup eaten'[p] \/ g + 1 \in lost'[p] \cup eaten'[p]
                   \/ \A c \in 0..Cols - 1 : ram'[g][c] = Byte(frame'[p] - 1, g, c)
      <4>1. alone[p]
        BY <3>3, <3>4
      <4>2. QED
        BY <3>2, <3>3, <4>1
    <3>5. alone'[p] => (lost'[p] = {} => eaten'[p] \subseteq {0})
      BY <3>1, <3>3
    <3>6. QED
      <4> SUFFICES ASSUME alone'[p]
                   PROVE  /\ lost'[p] = {} => eaten'[p] \subseteq {0}
                          /\ \A g \in 0..Pages - 1 : Spoilt(p, g)' \/ Right(g, frame[p] - 1)'
        BY DEF Shown
      <4> QED
        BY <3>4, <3>5 DEF Spoilt, Missed, Right
  <2>4. QED
    BY <1>5, <1>6, <2>2, <2>3 DEF ShInv
<1>11. QED
  BY <1>3, <1>7, <1>9, <1>10

-----------------------------------------------------------------------------
(* Sh1106.                                                                  *)

LEMMA ShIsStable == ASSUME ShInv, UNCHANGED sh1106Vars PROVE ShInv'
<1>1. UNCHANGED <<at, step, row, frame, waiting, page, col, ram, alone, lost, eaten, unlit, runs,
                  faults>>
  BY DEF sh1106Vars, device
<1>2. ShTypes'
  BY <1>1 DEF ShInv, ShTypes
<1>3. QED
  BY <1>1, <1>2, Untouched DEF ShInv

LEMMA ShStep == ShInv /\ [Sh1106Next]_sh1106Vars => ShInv'
<1> SUFFICES ASSUME ShInv, [Sh1106Next]_sh1106Vars PROVE ShInv'
  OBVIOUS
<1>1. CASE Wire
  BY <1>1, WireStep
<1>2. ASSUME NEW p \in Procs, OledInit(p) PROVE ShInv'
  BY <1>2, OledInitStep
<1>3. ASSUME NEW p \in Procs, Write(p) PROVE ShInv'
  BY <1>3, WriteStep
<1>4. ASSUME NEW p \in Procs, Open(p) PROVE ShInv'
  BY <1>4, OpenStep
<1>5. ASSUME NEW p \in Procs, Show(p) PROVE ShInv'
  BY <1>5, ShowStep
<1>6. ASSUME NEW p \in Procs, Exit(p) PROVE ShInv'
  BY <1>6, ExitStep
<1>7. CASE UNCHANGED sh1106Vars
  BY <1>7, ShIsStable
<1>8. QED
  BY <1>1, <1>2, <1>3, <1>4, <1>5, <1>6, <1>7 DEF Sh1106Next

LEMMA ShInvIsKept == Sh1106Spec => []ShInv
BY ShInitHolds, ShStep, PTL DEF Sh1106Spec

\* Every process is at a transfer of its call, and the pointers stay inside the
\* display's memory, whatever the processes' transfers do to each other.
THEOREM Sh1106TypeCorrect == Sh1106Spec => []Sh1106TypeOK
<1>1. ShInv => Sh1106TypeOK
  <2> SUFFICES ASSUME ShInv PROVE Sh1106TypeOK
    OBVIOUS
  <2>1. ASSUME NEW p \in Procs PROVE step[p] \in 1..3 + Cols + Len(InitCmds)
    <3>1. Len(InitCmds) = 27
      BY InitCommands
    <3>2. at[p] \in {"closed", "init", "ready", "write"} /\ Place(p)
      BY DEF ShInv, ShTypes
    <3>3. step[p] \in 1..3 + Cols \/ step[p] \in 1..27
      BY <3>2 DEF Place
    <3>4. QED
      BY <3>1, <3>3
  <2>2. step \in [Procs -> 1..3 + Cols + Len(InitCmds)]
    BY <2>1 DEF ShInv, ShTypes
  <2>3. QED
    BY <2>2 DEF ShInv, ShTypes, Sh1106TypeOK
<1>2. QED
  BY ShInvIsKept, <1>1, PTL

LEMMA ShInvIsExact == ShInv => FrameLandsExactly
BY DEF ShInv, Shown, Spoilt, Missed, Right, FrameLandsExactly

\* A write that no other process met shows its frame, except on the pages that a
\* failed transfer, or a command taken for a parameter, spoilt and those before them;
\* and without a lost transfer that is the first page at most: for every number of
\* processes, every size of the display, and every number of failures.
THEOREM FrameIsExact == Sh1106Spec => []FrameLandsExactly
BY ShInvIsKept, ShInvIsExact, PTL

-----------------------------------------------------------------------------
(* Display.                                                                 *)

LEMMA StepOfBoth ==
  [DisplayNext]_displayVars => [Sh1106Next]_sh1106Vars
<1> SUFFICES ASSUME [DisplayNext]_displayVars PROVE [Sh1106Next]_sh1106Vars
  OBVIOUS
<1>1. ASSUME NEW m \in Modules, PadMux(m) PROVE [Sh1106Next]_sh1106Vars
  BY <1>1 DEF PadMux, Sh1106Next
<1>2. ASSUME NEW m \in Modules, OtherDriverStep(m) PROVE [Sh1106Next]_sh1106Vars
  BY <1>2 DEF OtherDriverStep
<1>3. ASSUME NEW p \in Procs, DisplayOpen(p) \/ DisplayExit(p) \/ DisplayCall(p)
      PROVE  [Sh1106Next]_sh1106Vars
  BY <1>3 DEF DisplayOpen, DisplayExit, DisplayCall, Sh1106Next
<1>4. CASE UNCHANGED displayVars
  BY <1>4 DEF displayVars
<1>5. QED
  BY <1>1, <1>2, <1>3, <1>4 DEF DisplayNext

\* Whenever the module's probe makes the device file and switches the pins, the
\* programs' calls do what Sh1106 says of them.
THEOREM DisplayIsSh1106 == DisplaySpec => Sh1106Spec
<1>1. DisplayInit => Sh1106Init
  BY DEF DisplayInit
<1>2. QED
  BY <1>1, StepOfBoth, PTL DEF DisplaySpec, Sh1106Spec

\* So it is for an animation that is started as soon as there is a device file.
THEOREM DisplayedFrameIsExact == DisplaySpec => []FrameLandsExactly
BY DisplayIsSh1106, FrameIsExact, PTL

\* What the switching of the pins needs of the driver's state.
Stages == {"out", "probe", "chrdev", "class", "device", "request", "map", "bound",
           "unbound", "oops", "release", "destroy", "declass", "unregister"}

DriverTypes ==
  /\ stage \in [Modules -> Stages]
  /\ node \subseteq Modules
  /\ early \in [Procs -> BOOLEAN]
  /\ "sh1106" \in node => stage["sh1106"] \in {"request", "map", "bound", "oops", "destroy"}

\* Until the pins are switched, the display's probe has not come past them, and a
\* program is in the driver only while the probe is at its last calls or has died.
Unwired ==
  ~wired =>
    /\ "sh1106" \in Modules =>
         stage["sh1106"] \in {"out", "probe", "chrdev", "class", "device", "request", "map", "oops"}
    /\ \A p \in Procs : at[p] # "closed" =>
         "sh1106" \in Modules /\ stage["sh1106"] \in {"request", "map", "oops"}

\* Lit, with no command waiting that could put the charge pump out; or excused.
Lit == on /\ pump /\ waiting # "pump"
Excused == \E q \in Procs : at[q] = "init" \/ unlit[q] \/ early[q]
LitOrExcused == (\E p \in Procs : at[p] \in {"ready", "write"}) => Lit \/ Excused

\* An opening whose last transfers nothing has disturbed so far.
Opening(p) ==
  at[p] = "init" /\ ~unlit[p] /\ ~early[p] =>
    /\ step[p] = 25 => waiting = "none"
    /\ step[p] = 26 => waiting = "pump"
    /\ step[p] = 27 => waiting = "none" /\ pump

Light == LitOrExcused /\ \A p \in Procs : Opening(p)

DisplayInv == ShInv /\ DriverTypes /\ Unwired /\ Light

LEMMA DriverGo ==
  ASSUME DriverTypes, NEW m \in Modules, NEW from, NEW to \in Stages, Driver!Go(m, from, to)
  PROVE  /\ stage[m] = from /\ stage'[m] = to
         /\ \A n \in Modules : n # m => stage'[n] = stage[n]
         /\ stage' \in [Modules -> Stages]
BY DEF DriverTypes, Driver!Go

LEMMA DisplayInitHolds == DisplayInit => DisplayInv
<1> SUFFICES ASSUME DisplayInit PROVE DisplayInv
  OBVIOUS
<1>1. ShInv
  BY ShInitHolds DEF DisplayInit
<1>2. DriverTypes
  BY DEF DisplayInit, Driver!I2cInit, DriverTypes, Stages
<1>3. Unwired
  BY DEF DisplayInit, Sh1106Init, Driver!I2cInit, Unwired
<1>4. Light
  BY DEF DisplayInit, Sh1106Init, Light, LitOrExcused, Opening
<1>5. QED
  BY <1>1, <1>2, <1>3, <1>4 DEF DisplayInv

LEMMA LightIsStable ==
  ASSUME Light, UNCHANGED <<at, step, unlit, early, on, pump, waiting>>
  PROVE  Light'
BY DEF Light, LitOrExcused, Lit, Excused, Opening

LEMMA PinStep ==
  ASSUME DriverTypes, Unwired, Light, NEW m \in Modules, PadMux(m)
  PROVE  DriverTypes' /\ Unwired' /\ Light'
<1>1. UNCHANGED <<at, step, node, early, unlit, on, pump, waiting>> /\ wired'
  BY DEF PadMux, Driver!SwitchPins, Wire, device
<1>2. stage[m] = "map" /\ stage'[m] = "bound" /\ stage' \in [Modules -> Stages]
      /\ \A n \in Modules : n # m => stage'[n] = stage[n]
  BY DriverGo DEF PadMux, Driver!SwitchPins, Stages
<1>3. DriverTypes'
  BY <1>1, <1>2 DEF DriverTypes
<1>4. Unwired'
  BY <1>1 DEF Unwired
<1>5. Light'
  BY <1>1, LightIsStable
<1>6. QED
  BY <1>3, <1>4, <1>5

\* From which call to which the display's driver can go without switching the pins.
LEMMA DriverMoves ==
  ASSUME DriverTypes, NEW m \in Modules, OtherDriverStep(m)
  PROVE  /\ stage' \in [Modules -> Stages]
         /\ \A n \in Modules : n # m => stage'[n] = stage[n]
         /\ node' \subseteq Modules
         /\ \A n \in Modules : n # m => (n \in node' => n \in node)
         /\ \/ stage[m] \in {"bound", "unbound", "release", "destroy", "declass", "unregister"}
            \/ stage[m] \in {"request", "map"} /\ stage'[m] \in {"map", "oops"}
            \/ /\ stage[m] \in {"out", "probe", "chrdev", "class", "device"}
               /\ stage'[m] \in {"probe", "chrdev", "class", "device", "request"}
            \/ m # "sh1106"
         /\ m = "sh1106" /\ m \in node' =>
              stage'[m] \in {"request", "map", "bound", "oops", "destroy"}
<1>1. CASE Driver!Load(m) \/ Driver!CheckFunctionality(m)
  <2>1. UNCHANGED node
    BY <1>1 DEF Driver!Load, Driver!Insmod, Driver!Bind, Driver!CheckFunctionality
  <2>2. CASE Driver!Load(m)
    BY <2>1, <2>2, DriverGo DEF Driver!Load, Driver!Insmod, Driver!Bind, DriverTypes, Stages
  <2>3. CASE Driver!CheckFunctionality(m)
    BY <2>1, <2>3, DriverGo DEF Driver!CheckFunctionality, DriverTypes, Stages
  <2>4. QED
    BY <1>1, <2>2, <2>3
<1>2. CASE Driver!RegisterChrdev(m)
  BY <1>2, DriverGo DEF Driver!RegisterChrdev, DriverTypes, Stages
<1>3. CASE Driver!ClassCreate(m)
  BY <1>3, DriverGo DEF Driver!ClassCreate, DriverTypes, Stages
<1>4. CASE Driver!DeviceCreate(m)
  BY <1>4, DriverGo DEF Driver!DeviceCreate, DriverTypes, Stages
<1>5. CASE Driver!RequestRegion(m)
  BY <1>5, DriverGo DEF Driver!RequestRegion, DriverTypes, Stages
<1>6. CASE Driver!PinsUnmapped(m)
  BY <1>6, DriverGo DEF Driver!PinsUnmapped, DriverTypes, Stages
<1>7. CASE Driver!Unload(m)
  <2>1. UNCHANGED node /\ Driver!RemoveStart(m) \in Stages
        /\ (m = "sh1106" => Driver!RemoveStart(m) = "destroy")
    BY <1>7 DEF Driver!Unload, Driver!Rmmod, Driver!Unbind, Driver!RemoveStart, Stages
  <2>2. \/ stage[m] = "bound" /\ stage'[m] = Driver!RemoveStart(m)
        \/ stage[m] = "unbound" /\ stage'[m] = "out"
    BY <1>7, <2>1, DriverGo DEF Driver!Unload, Driver!Rmmod, Driver!Unbind, Stages
  <2>3. /\ stage' \in [Modules -> Stages]
        /\ \A n \in Modules : n # m => stage'[n] = stage[n]
    BY <1>7, <2>1, DriverGo DEF Driver!Unload, Driver!Rmmod, Driver!Unbind, Stages
  <2>4. QED
    BY <2>1, <2>2, <2>3 DEF DriverTypes
<1>8. CASE Driver!Remove(m)
  <2>1. CASE Driver!ReleaseRegion(m)
    BY <2>1, DriverGo DEF Driver!ReleaseRegion, DriverTypes, Stages
  <2>2. CASE Driver!DeviceDestroy(m)
    BY <2>2, DriverGo DEF Driver!DeviceDestroy, DriverTypes, Stages
  <2>3. CASE Driver!ClassDestroy(m)
    BY <2>3, DriverGo DEF Driver!ClassDestroy, DriverTypes, Stages
  <2>4. CASE Driver!UnregisterChrdev(m)
    BY <2>4, DriverGo DEF Driver!UnregisterChrdev, DriverTypes, Stages
  <2>5. QED
    BY <1>8, <2>1, <2>2, <2>3, <2>4 DEF Driver!Remove
<1>9. QED
  BY <1>1, <1>2, <1>3, <1>4, <1>5, <1>6, <1>7, <1>8 DEF OtherDriverStep

LEMMA DriverStep ==
  ASSUME DriverTypes, Unwired, Light, NEW m \in Modules, OtherDriverStep(m)
  PROVE  DriverTypes' /\ Unwired' /\ Light'
<1>1. UNCHANGED <<at, step, early, unlit, on, pump, waiting, wired>>
  BY DEF OtherDriverStep, sh1106Vars, device
<1>2. DriverTypes'
  <2>1. "sh1106" \in node' => stage'["sh1106"] \in {"request", "map", "bound", "oops", "destroy"}
    <3>1. CASE m = "sh1106"
      BY <3>1, DriverMoves
    <3>2. CASE m # "sh1106"
      BY <3>2, DriverMoves DEF DriverTypes
    <3>3. QED
      BY <3>1, <3>2
  <2>2. QED
    BY <1>1, <2>1, DriverMoves DEF DriverTypes
<1>3. Unwired'
  <2> SUFFICES ASSUME ~wired'
               PROVE  /\ "sh1106" \in Modules => stage'["sh1106"] \in
                           {"out", "probe", "chrdev", "class", "device", "request", "map", "oops"}
                      /\ \A p \in Procs : at'[p] # "closed" =>
                           "sh1106" \in Modules /\ stage'["sh1106"] \in {"request", "map", "oops"}
    BY DEF Unwired
  <2>1. ~wired
    BY <1>1
  <2>2. CASE m = "sh1106"
    BY <1>1, <2>1, <2>2, DriverMoves DEF Unwired
  <2>3. CASE m # "sh1106"
    BY <1>1, <2>1, <2>3, DriverMoves DEF Unwired
  <2>4. QED
    BY <2>2, <2>3
<1>4. Light'
  BY <1>1, LightIsStable
<1>5. QED
  BY <1>2, <1>3, <1>4

LEMMA OpenIsUnseen ==
  ASSUME ShInv, DriverTypes, Unwired, Light, NEW p \in Procs, DisplayOpen(p)
  PROVE  DriverTypes' /\ Unwired' /\ Light'
<1>1. /\ at[p] = "closed" /\ at' = [at EXCEPT ![p] = "init"] /\ early' = [early EXCEPT ![p] = FALSE]
      /\ unlit' = [unlit EXCEPT ![p] = FALSE]
      /\ UNCHANGED <<step, on, pump, waiting, wired, stage, node>>
      /\ "sh1106" \in node
  BY DEF DisplayOpen, Open, Driver!Open, device
<1>2. DriverTypes'
  BY <1>1 DEF DriverTypes
<1>3. "sh1106" \in Modules /\ (~wired => stage["sh1106"] \in {"request", "map", "oops"})
  BY <1>1 DEF DriverTypes, Unwired
<1>4. Unwired'
  BY <1>1, <1>3 DEF Unwired
<1>5. at'[p] = "init" /\ step[p] = 1
  BY <1>1 DEF ShInv, ShTypes, Place
<1>6. ASSUME NEW q \in Procs PROVE Opening(q)'
  <2>1. CASE q = p
    BY <1>1, <1>5, <2>1 DEF Opening
  <2>2. CASE q # p
    BY <1>1, <2>2 DEF Light, Opening, ShInv, ShTypes, DriverTypes
  <2>3. QED
    BY <2>1, <2>2
<1>7. Light'
  BY <1>5, <1>6 DEF Light, LitOrExcused, Excused
<1>8. QED
  BY <1>2, <1>4, <1>7

\* A process that leaves, or begins a write, is not one that opens the device.
LEMMA ExitIsUnseen ==
  ASSUME ShInv, DriverTypes, Unwired, Light, NEW p \in Procs,
         DisplayExit(p) \/ (Show(p) /\ UNCHANGED early /\ UNCHANGED driverVars)
  PROVE  DriverTypes' /\ Unwired' /\ Light'
<1>1. /\ at[p] = "ready"
      /\ at' = [at EXCEPT ![p] = "closed"] \/ at' = [at EXCEPT ![p] = "write"]
      /\ UNCHANGED <<wired, step, on, pump, waiting, unlit, early, stage, node>>
  BY DEF DisplayExit, Exit, Show, Driver!Close, device, driverVars
<1>2. DriverTypes'
  BY <1>1 DEF DriverTypes
<1>3. /\ at'[p] \in {"closed", "write"} /\ \A q \in Procs : q # p => at'[q] = at[q]
  BY <1>1 DEF ShInv, ShTypes
<1>4. Unwired'
  BY <1>1, <1>3 DEF Unwired
<1>5. Light'
  <2>1. \A q \in Procs : at'[q] = "init" <=> at[q] = "init"
    BY <1>1, <1>3
  <2>2. \A q \in Procs : Opening(q)'
    BY <1>1, <2>1 DEF Light, Opening
  <2>3. LitOrExcused'
    BY <1>1, <1>3, <2>1 DEF Light, LitOrExcused, Lit, Excused
  <2>4. QED
    BY <2>2, <2>3 DEF Light
<1>6. QED
  BY <1>2, <1>4, <1>5

\* A transfer of p is remembered against every other process's opening it parts.
LEMMA OthersOpening ==
  ASSUME ShInv, NEW p \in Procs, NEW failed \in BOOLEAN, Meddle(p, failed),
         NEW q \in Procs, q # p, at'[q] = at[q], step'[q] = step[q], early'[q] = early[q]
  PROVE  /\ Opening(q)'
         /\ unlit[q] => unlit'[q]
<1>1. unlit'[q] = (unlit[q] \/ (Lighting(q) /\ step[q] > 24))
  BY Zenon DEF Meddle
<1>2. at[q] = "init" /\ step[q] \in {25, 26, 27} => unlit'[q]
  <2>1. step[q] \in {25, 26, 27} => step[q] \in 24..27 /\ step[q] > 24
    OBVIOUS
  <2>2. QED
    BY <1>1, <2>1, Zenon DEF Lighting
<1>3. Opening(q)'
  BY <1>2 DEF Opening
<1>4. QED
  BY <1>1, <1>3, Zenon

LEMMA WriteIsUnseen ==
  ASSUME ShInv, DriverTypes, Unwired, Light, NEW p \in Procs,
         Write(p), UNCHANGED early, UNCHANGED driverVars
  PROVE  DriverTypes' /\ Unwired' /\ Light'
<1>1. UNCHANGED <<wired, early, stage, node>> /\ Meddle(p, FALSE)
  BY DEF Write, driverVars
<1>2. DriverTypes'
  BY <1>1 DEF DriverTypes
<1>3. /\ at[p] = "write" /\ at'[p] \in {"ready", "write"}
      /\ \A q \in Procs : q # p => at'[q] = at[q] /\ step'[q] = step[q]
  <2>1. at[p] = "write" /\ (at' = at \/ at' = [at EXCEPT ![p] = "ready"])
        /\ \E k \in Nat : step' = [step EXCEPT ![p] = k]
    <3>1. step[p] + 1 \in Nat
      BY DEF ShInv, ShTypes
    <3>2. QED
      BY <3>1 DEF Write, PageDone
  <2>2. QED
    BY <2>1 DEF ShInv, ShTypes
<1>4. Unwired'
  BY <1>1, <1>3 DEF Unwired
<1>5. Lit => Lit'
  <2>1. CASE Fail \/ Nowhere
    BY <2>1 DEF Fail, Nowhere, device, Lit
  <2>2. CASE Transfer(p)
    <3>1. step[p] \in 1..3 + Cols
      BY DEF Write, ShInv, Place
    <3>2. \/ Command("page", row[p]) \/ Command("low", 0) \/ Command("high", 0)
          \/ Data(Byte(frame[p], row[p], step[p] - 4))
      BY <2>2, <3>1 DEF Transfer
    <3>3. ASSUME NEW c \in {"page", "low", "high"}, NEW arg, Command(c, arg), Lit PROVE Lit'
      BY <3>3 DEF Command, Obey, Eat, Lit, ShInv, ShTypes
    <3>4. ASSUME NEW b, Data(b), Lit PROVE Lit'
      BY <3>4 DEF Data, Lit
    <3>5. QED
      BY <3>2, <3>3, <3>4
  <2>3. QED
    BY <2>1, <2>2 DEF Write
<1>6. ASSUME NEW q \in Procs PROVE Opening(q)' /\ (unlit[q] => unlit'[q])
  <2>1. CASE q = p
    <3>1. unlit'[p] = (unlit[p] \/ (Lighting(p) /\ FALSE))
      BY <1>1, Zenon DEF Meddle
    <3>2. QED
      BY <1>3, <2>1, <3>1 DEF Opening
  <2>2. CASE q # p
    BY <1>1, <1>3, <2>2, OthersOpening
  <2>3. QED
    BY <2>1, <2>2
<1>7. LitOrExcused'
  <2>1. Lit \/ Excused
    BY <1>3 DEF Light, LitOrExcused
  <2>2. CASE Excused
    <3>1. PICK q \in Procs : at[q] = "init" \/ unlit[q] \/ early[q]
      BY <2>2 DEF Excused
    <3>2. at'[q] = "init" \/ unlit'[q] \/ early'[q]
      BY <1>1, <1>3, <1>6, <3>1
    <3>3. QED
      BY <3>2 DEF LitOrExcused, Excused
  <2>3. QED
    BY <1>5, <2>1, <2>2 DEF LitOrExcused
<1>8. QED
  BY <1>2, <1>4, <1>6, <1>7 DEF Light

\* Each of the last four transfers of oled_init does its part, unless it fails or
\* comes too early, and then unlit or early remembers it: the first of them ends
\* whatever command was waiting.
LEMMA LightingIs ==
  ASSUME ShInv, DriverTypes, Unwired, Light, NEW p \in Procs, OledInit(p),
         early' = [early EXCEPT ![p] = @ \/ (Lighting(p) /\ Unswitched)],
         step[p] \in 24..27
  PROVE  \/ unlit'[p] \/ early'[p]
         \/ step[p] = 24 /\ waiting' = "none"
         \/ step[p] = 25 /\ waiting' = "pump"
         \/ step[p] = 26 /\ waiting' = "none" /\ pump'
         \/ step[p] = 27 /\ Lit'
<1>1. at[p] = "init" /\ Lighting(p)
  BY DEF OledInit, Lighting
<1>2. CASE wired /\ Command(InitCmds[step[p]], 0) /\ Meddle(p, FALSE)
  <2>1. unlit'[p] = (unlit[p] \/ FALSE) /\ early'[p] = (early[p] \/ Unswitched)
    BY <1>1, <1>2, Zenon DEF Meddle, DriverTypes
  <2>2. SUFFICES ASSUME ~unlit[p], ~early[p]
                 PROVE  \/ step[p] = 24 /\ waiting' = "none"
                        \/ step[p] = 25 /\ waiting' = "pump"
                        \/ step[p] = 26 /\ waiting' = "none" /\ pump'
                        \/ step[p] = 27 /\ Lit'
    BY <2>1, Zenon
  <2>3. Opening(p) /\ waiting \in {"none", "two", "pump"}
    BY DEF Light, ShInv, ShTypes
  <2>4. CASE step[p] = 24
    <3>1. Command("nop", 0)
      BY <1>2, <2>4, InitCommands
    <3>2. QED
      BY <2>4, <3>1 DEF Command, Obey, Eat
  <2>5. CASE step[p] = 25
    <3>1. Command("pump", 0) /\ waiting = "none"
      BY <1>1, <1>2, <2>2, <2>3, <2>5, InitCommands DEF Opening
    <3>2. QED
      BY <2>5, <3>1 DEF Command, Obey, Eat
  <2>6. CASE step[p] = 26
    <3>1. Command("enable", 0) /\ waiting = "pump"
      BY <1>1, <1>2, <2>2, <2>3, <2>6, InitCommands DEF Opening
    <3>2. QED
      BY <2>6, <3>1 DEF Command, Obey, Eat
  <2>7. CASE step[p] = 27
    <3>1. Command("on", 0) /\ waiting = "none" /\ pump
      BY <1>1, <1>2, <2>2, <2>3, <2>7, InitCommands DEF Opening
    <3>2. QED
      BY <2>7, <3>1 DEF Command, Obey, Eat, Lit
  <2>8. QED
    BY <2>4, <2>5, <2>6, <2>7
<1>3. CASE Meddle(p, TRUE)
  BY <1>1, <1>3, Zenon DEF Meddle
<1>4. CASE Nowhere
  <2>1. Unswitched
    BY <1>1, <1>4 DEF Nowhere, Unwired, Unswitched
  <2>2. early'[p]
    BY <1>1, <2>1, Zenon DEF DriverTypes
  <2>3. QED
    BY <2>2
<1>5. QED
  BY <1>2, <1>3, <1>4 DEF OledInit

LEMMA OledInitIsSeen ==
  ASSUME ShInv, DriverTypes, Unwired, Light, NEW p \in Procs, OledInit(p),
         early' = [early EXCEPT ![p] = @ \/ (Lighting(p) /\ Unswitched)],
         UNCHANGED driverVars
  PROVE  DriverTypes' /\ Unwired' /\ Light'
<1>1. at[p] = "init" /\ step[p] \in 1..27 /\ UNCHANGED <<wired, stage, node>>
  BY DEF OledInit, driverVars, ShInv, Place
<1>2. DriverTypes'
  <2>1. early' \in [Procs -> BOOLEAN]
    BY Zenon DEF DriverTypes, Lighting, Unswitched
  <2>2. QED
    BY <1>1, <2>1 DEF DriverTypes
<1>3. \/ step[p] # 27 /\ at' = at /\ step' = [step EXCEPT ![p] = @ + 1]
      \/ step[p] = 27 /\ at' = [at EXCEPT ![p] = "ready"] /\ step' = [step EXCEPT ![p] = 1]
  BY InitCommands DEF OledInit, LastCommand
<1>4. \A q \in Procs : q # p => at'[q] = at[q] /\ step'[q] = step[q] /\ early'[q] = early[q]
  BY <1>3 DEF ShInv, ShTypes, DriverTypes
<1>5. Unwired'
  BY <1>1, <1>4 DEF Unwired
<1>6. PICK failed \in BOOLEAN : Meddle(p, failed)
  BY DEF OledInit
<1>7. ASSUME NEW q \in Procs, q # p PROVE Opening(q)' /\ (unlit[q] => unlit'[q])
  BY <1>4, <1>6, <1>7, OthersOpening
<1>l. step[p] \in 24..27 =>
        \/ unlit'[p] \/ early'[p]
        \/ step[p] = 24 /\ waiting' = "none"
        \/ step[p] = 25 /\ waiting' = "pump"
        \/ step[p] = 26 /\ waiting' = "none" /\ pump'
        \/ step[p] = 27 /\ Lit'
  BY LightingIs, Zenon
<1>8. Opening(p)' /\ LitOrExcused'
  <2>1. CASE step[p] # 27
    <3>1. at'[p] = "init" /\ step'[p] = step[p] + 1
      BY <1>1, <1>3, <2>1 DEF ShInv, ShTypes
    <3>2. LitOrExcused'
      BY <3>1 DEF LitOrExcused, Excused
    <3>3. CASE step[p] \in {24, 25, 26}
      <4>1. \/ unlit'[p] \/ early'[p]
            \/ step[p] = 24 /\ waiting' = "none"
            \/ step[p] = 25 /\ waiting' = "pump"
            \/ step[p] = 26 /\ waiting' = "none" /\ pump'
        <5>1. step[p] \in 24..27
          BY <3>3
        <5>2. QED
          BY <1>l, <2>1, <5>1, Zenon
      <4>2. QED
        BY <3>1, <3>2, <3>3, <4>1 DEF Opening
    <3>4. CASE step[p] \notin {24, 25, 26}
      <4>1. step'[p] \notin {25, 26, 27}
        BY <1>1, <3>1, <3>4
      <4>2. QED
        BY <3>2, <4>1 DEF Opening
    <3>5. QED
      BY <3>3, <3>4
  <2>2. CASE step[p] = 27
    <3>1. at'[p] = "ready"
      BY <1>1, <1>3, <2>2 DEF ShInv, ShTypes
    <3>2. unlit'[p] \/ early'[p] \/ Lit'
      <4>1. step[p] \in 24..27 /\ step[p] # 24 /\ step[p] # 25 /\ step[p] # 26
        BY <2>2
      <4>2. QED
        BY <1>l, <4>1, Zenon
    <3>3. QED
      BY <3>1, <3>2 DEF Opening, LitOrExcused, Excused
  <2>3. QED
    BY <2>1, <2>2
<1>9. QED
  BY <1>2, <1>5, <1>7, <1>8 DEF Light

LEMMA DisplayNextPreserves == DisplayInv /\ [DisplayNext]_displayVars => DisplayInv'
<1> SUFFICES ASSUME DisplayInv, [DisplayNext]_displayVars PROVE DisplayInv'
  OBVIOUS
<1>1. ShInv /\ DriverTypes /\ Unwired /\ Light
  BY DEF DisplayInv
<1>2. ShInv'
  BY <1>1, StepOfBoth, ShStep
<1>3. DriverTypes' /\ Unwired' /\ Light'
  <2>1. ASSUME NEW m \in Modules, PadMux(m) \/ OtherDriverStep(m)
        PROVE  DriverTypes' /\ Unwired' /\ Light'
    BY <1>1, <2>1, PinStep, DriverStep
  <2>2. ASSUME NEW p \in Procs, DisplayOpen(p) \/ DisplayExit(p)
        PROVE  DriverTypes' /\ Unwired' /\ Light'
    BY <1>1, <2>2, OpenIsUnseen, ExitIsUnseen
  <2>3. ASSUME NEW p \in Procs, DisplayCall(p)
        PROVE  DriverTypes' /\ Unwired' /\ Light'
    BY <1>1, <2>3, OledInitIsSeen, WriteIsUnseen, ExitIsUnseen DEF DisplayCall
  <2>4. CASE UNCHANGED displayVars
    <3>1. UNCHANGED <<at, step, on, pump, waiting, unlit, early, wired, stage, node>>
      BY <2>4 DEF displayVars, sh1106Vars, driverVars, device
    <3>2. QED
      BY <1>1, <3>1, LightIsStable DEF DriverTypes, Unwired
  <2>5. QED
    BY <2>1, <2>2, <2>3, <2>4 DEF DisplayNext
<1>4. QED
  BY <1>2, <1>3 DEF DisplayInv

\* The display is lit while a program shows frames, except in the cases OnWhileShown
\* names: for every number of processes, modules and failures.  The invariant adds
\* which command waits at each of the last transfers of an opening, and where the
\* probe is before the pins are switched.
THEOREM LitWhileShown == DisplaySpec => []OnWhileShown
<1>1. DisplayInv => OnWhileShown
  BY DEF DisplayInv, Light, LitOrExcused, Lit, Excused, OnWhileShown
<1>2. QED
  BY DisplayInitHolds, DisplayNextPreserves, <1>1, PTL DEF DisplaySpec

LEMMA StepOfDriver ==
  DriverTypes /\ [DisplayNext]_displayVars => [Driver!I2cNext]_(Driver!i2cVars)
<1> SUFFICES ASSUME DriverTypes, [DisplayNext]_displayVars
             PROVE  [Driver!I2cNext]_(Driver!i2cVars)
  OBVIOUS
<1>1. ASSUME NEW m \in Modules, PadMux(m) \/ OtherDriverStep(m) PROVE Driver!I2cNext
  BY <1>1 DEF PadMux, OtherDriverStep, Driver!I2cNext, Driver!Probe
<1>2. ASSUME NEW p \in Procs, DisplayOpen(p) PROVE Driver!I2cNext
  <2>1. Driver!Open(p, "sh1106") /\ "sh1106" \in Modules
    BY <1>2 DEF DisplayOpen, Driver!Open, DriverTypes
  <2>2. QED
    BY <2>1 DEF Driver!I2cNext
<1>3. ASSUME NEW p \in Procs, DisplayExit(p) PROVE Driver!I2cNext
  BY <1>3 DEF DisplayExit, Driver!I2cNext
<1>4. ASSUME NEW p \in Procs, DisplayCall(p) PROVE UNCHANGED Driver!i2cVars
  BY <1>4 DEF DisplayCall, driverVars, Driver!i2cVars
<1>5. CASE UNCHANGED displayVars
  BY <1>5 DEF displayVars, driverVars, Driver!i2cVars
<1>6. QED
  BY <1>1, <1>2, <1>3, <1>4, <1>5 DEF DisplayNext

\* The programs use the driver as I2cModules lets them: Display is that module too.
THEOREM DisplayIsI2cModules == DisplaySpec => Driver!I2cSpec
<1>1. DisplayInit => Driver!I2cInit
  BY DEF DisplayInit
<1>2. DisplayInv => DriverTypes
  BY DEF DisplayInv
<1>3. QED
  BY <1>1, <1>2, DisplayInitHolds, DisplayNextPreserves, StepOfDriver, PTL
     DEF DisplaySpec, Driver!I2cSpec
=============================================================================
