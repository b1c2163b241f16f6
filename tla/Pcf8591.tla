------------------------------- MODULE Pcf8591 -------------------------------
(***************************************************************************)
(* drv/08pcf8591: programs (app/pcf8591.c) that show one channel of an     *)
(* analog-digital converter each and repeat it on its one analog output,   *)
(* through the driver (i2c_pcf8591.c), until a thread of theirs that reads *)
(* the keyboard has seen 'q'.  The thread reads one key and ends.  The     *)
(* converter (external) answers a read of one byte with the conversion     *)
(* before and starts the next one, of the channel the read selects.        *)
(***************************************************************************)
EXTENDS Integers, FiniteSets

CONSTANTS
  Apps,      \* processes
  Argument,  \* Argument[a]: the number process a is started with
  Levels,    \* readings of the converter
  BusErrors  \* transfers may fail

ASSUME Pcf8591Assumption ==
  /\ -1 \notin Apps
  /\ Argument \in [Apps -> Nat]
  /\ Levels \subseteq 0..255 /\ Levels # {}
  /\ BusErrors \in BOOLEAN

\* The argument is cut to an unsigned char: 256 selects channel 0.
Channel(a) == Argument[a] % 256

\* The arguments that select a channel; with another one the driver reads
\* nothing and answers 255.
Channels == 0..3

\* The channels in use.
Watched == {Channel(a) : a \in Apps} \cap Channels

\* What a failed transfer leaves: its error number, cut to a byte.
ErrorByte == 256 - 6

VARIABLES
  main,    \* main[a]: "open", "read", "write", "show", "check", "join", "done" or "failed"
  thread,  \* thread[a]: "none", "getchar", "return" or "ended"
  keyVal,  \* keyVal[a]: the global key_val; "nul" before the thread sets it
  first,   \* first[a]: the first key the user of a typed, "nul" before that
  data,    \* data[a]: the byte main() reads, writes and shows
  level,   \* level[c]: what channel c measures
  held,    \* the converter's last conversion
  latest,  \* history: the process whose read made that conversion, -1 if unknown
  sampled, \* history: sampled[a]: what a's channel measured at its last read
  due      \* history: due[a]: what this round's read should answer, -1 if unknown

threads == <<main, thread, keyVal>>
converter == <<level, held>>
history == <<latest, sampled, due>>
pcfVars == <<threads, first, data, converter, history>>

Moves(a, from, to) == main[a] = from /\ main' = [main EXCEPT ![a] = to]

-----------------------------------------------------------------------------
(* The driver and the converter.                                            *)

\* A read of channel c for process a.
Convert(a, c) ==
  /\ data' = [data EXCEPT ![a] = held]
  /\ held' = level[c]
  /\ latest' = a
  /\ due' = [due EXCEPT ![a] = IF latest = a THEN sampled[a] ELSE -1]
  /\ sampled' = [sampled EXCEPT ![a] = level[Channel(a)]]

\* A transfer that fails may have started the conversion before it did.
ConvertFails(a, c) ==
  /\ BusErrors
  /\ data' = [data EXCEPT ![a] = ErrorByte]
  /\ held' \in {held, level[c]}
  /\ latest' = -1
  /\ due' = [due EXCEPT ![a] = -1]
  /\ UNCHANGED sampled

\* Mutant: every process reads channel 0.
PcfReadFirstChannel(a) ==
  \/ Convert(a, 0) \/ ConvertFails(a, 0)

\* pcf8591_read: the byte to be read into selects the channel.
PcfRead(a) ==
  \/ /\ data[a] \in Channels
     /\ Convert(a, data[a]) \/ ConvertFails(a, data[a])
  \/ /\ data[a] \notin Channels
     /\ data' = [data EXCEPT ![a] = 255]
     /\ due' = [due EXCEPT ![a] = -1]
     /\ UNCHANGED <<held, latest, sampled>>

-----------------------------------------------------------------------------
(* The program.                                                             *)

\* open, which ends the program when it fails, pthread_create, whose failure nobody
\* notices, the first delay and the start of the first round.
Start(a) ==
  /\ \/ /\ Moves(a, "open", "read")
        /\ thread' \in {thread, [thread EXCEPT ![a] = "getchar"]}
        /\ data' = [data EXCEPT ![a] = Channel(a)]
     \/ Moves(a, "open", "failed") /\ UNCHANGED <<thread, data>>
  /\ UNCHANGED <<keyVal, first, converter, history>>

\* What read() returns is ignored.
Read(a) ==
  /\ Moves(a, "read", "write")
  /\ PcfRead(a)
  /\ UNCHANGED <<thread, keyVal, first, level>>

\* pcf8591_write sets the analog output, which nothing reads; it starts no
\* conversion, and what write() returns is ignored.
Write(a) ==
  /\ Moves(a, "write", "show")
  /\ UNCHANGED <<thread, keyVal, first, data, converter, history>>

\* Mutant: the key is reset in every round.
ShowForgets(a) ==
  /\ Moves(a, "show", "check")
  /\ keyVal' = [keyVal EXCEPT ![a] = "nul"]
  /\ UNCHANGED <<thread, first, data, converter, history>>

\* printf, and the sleep after it.
Show(a) ==
  /\ Moves(a, "show", "check")
  /\ UNCHANGED <<thread, keyVal, first, data, converter, history>>

\* Every round starts with the argument in data.
Check(a) ==
  /\ \/ keyVal[a] = "q" /\ Moves(a, "check", "join")
     \/ keyVal[a] # "q" /\ Moves(a, "check", "read")
  /\ data' = [data EXCEPT ![a] = IF keyVal[a] = "q" THEN @ ELSE Channel(a)]
  /\ due' = [due EXCEPT ![a] = -1]
  /\ UNCHANGED <<thread, keyVal, first, converter, latest, sampled>>

\* close, pthread_join
Join(a) ==
  /\ thread[a] = "ended"
  /\ Moves(a, "join", "done")
  /\ UNCHANGED <<thread, keyVal, first, data, converter, history>>

Main(a) ==
  Start(a) \/ Read(a) \/ Write(a) \/ Show(a) \/ Check(a) \/ Join(a)

\* key_func: the assignment of key_val, and the return.
GetChar(a) ==
  /\ thread[a] = "getchar"
  /\ first[a] # "nul"
  /\ keyVal' = [keyVal EXCEPT ![a] = first[a]]
  /\ thread' = [thread EXCEPT ![a] = "return"]
  /\ UNCHANGED <<main, first, data, converter, history>>

Return(a) ==
  /\ thread[a] = "return"
  /\ thread' = [thread EXCEPT ![a] = "ended"]
  /\ UNCHANGED <<main, keyVal, first, data, converter, history>>

KeyFunc(a) == GetChar(a) \/ Return(a)

-----------------------------------------------------------------------------
(* The world outside.                                                       *)

\* The terminal keeps its keys in order and the thread reads one: the later
\* ones are read by nobody.
Type(a, k) ==
  /\ first[a] = "nul"
  /\ first' = [first EXCEPT ![a] = k]
  /\ UNCHANGED <<threads, data, converter, history>>

Change(c, v) ==
  /\ level' = [level EXCEPT ![c] = v]
  /\ UNCHANGED <<threads, first, data, held, history>>

-----------------------------------------------------------------------------
PcfInit ==
  /\ main = [a \in Apps |-> "open"]
  /\ thread = [a \in Apps |-> "none"]
  /\ keyVal = [a \in Apps |-> "nul"]
  /\ first = [a \in Apps |-> "nul"]
  /\ data = [a \in Apps |-> 0]
  /\ level \in [Watched -> Levels]
  /\ held \in Levels \cup {128}
  /\ latest = -1
  /\ sampled = [a \in Apps |-> -1]
  /\ due = [a \in Apps |-> -1]

PcfNext ==
  \/ \E a \in Apps : Main(a) \/ KeyFunc(a)
  \/ \E a \in Apps, k \in {"q", "x"} : Type(a, k)
  \/ \E c \in Watched, v \in Levels : Change(c, v)

PcfSpec == PcfInit /\ [][PcfNext]_pcfVars

\* Both threads are scheduled.
PcfFairSpec == PcfSpec /\ \A a \in Apps : WF_pcfVars(Main(a)) /\ WF_pcfVars(KeyFunc(a))

-----------------------------------------------------------------------------
(* Properties.                                                              *)

\* Every thread is at one of its calls, and bytes are bytes.
PcfTypeOK ==
  /\ main \in [Apps -> {"open", "read", "write", "show", "check", "join", "done",
                   "failed"}]
  /\ thread \in [Apps -> {"none", "getchar", "return", "ended"}]
  /\ keyVal \in [Apps -> {"nul", "q", "x"}]
  /\ first \in [Apps -> {"nul", "q", "x"}]
  /\ data \in [Apps -> 0..255]
  /\ level \in [Watched -> Levels]
  /\ held \in 0..255
  /\ latest \in Apps \cup {-1}
  /\ sampled \in [Apps -> Levels \cup {-1}]
  /\ due \in [Apps -> Levels \cup {-1}]

\* A process only ends because the first key of its own user was 'q', and never
\* while its thread still runs.
EndsOnRequest ==
  \A a \in Apps :
    /\ main[a] \in {"join", "done"} => first[a] = "q"
    /\ main[a] = "done" => thread[a] = "ended"

\* A 'q' that is the first key ends the process, whenever it comes: before the
\* thread waits for it, or between two looks at key_val.  Without a thread nothing
\* does.
FirstQuits ==
  \A a \in Apps : (first[a] = "q" /\ thread[a] # "none") ~> (main[a] = "done")

\* What a process shows is what its own channel measured one read before, unless
\* another process read the converter in between or a transfer of one of the two
\* reads failed: then it shows another channel's level or an error number as its own.
ShownIsPrevious ==
  \A a \in Apps : main[a] \in {"write", "show"} /\ due[a] # -1 => data[a] = due[a]
=============================================================================
