------------------------------ MODULE GpioSysfs ------------------------------
(***************************************************************************)
(* How the programs of drv/03button, 04pwm, 06motor_step and 07ultrasonic  *)
(* set up their pins through /sys/class/gpio, which all of them share, and *)
(* how 03button waits for its keys.  Every program is its sequence of      *)
(* sysfs calls; one step is one call.  Nothing orders the calls of two     *)
(* programs: access and the write of export are two steps.                 *)
(***************************************************************************)
EXTENDS Integers, Sequences, SequencesExt

CONSTANTS
  Procs,     \* processes
  Mixes,     \* the ways the processes may be given programs
  MaxFaults  \* bound: calls that fail, and kills

Programs == {"button", "pwm", "motor", "ultrasonic"}

ASSUME GpioAssumption ==
  /\ Mixes \subseteq [Procs -> Programs]
  /\ MaxFaults \in Nat

\* gpio_get: the number of pin num of a group.
GpioGet(group, num) == 496 - 16 * group + num

-----------------------------------------------------------------------------
(* The programs.                                                            *)

\* What a call does, to which pin, and what it writes.
Call(op, pin, val) == [op |-> op, pin |-> pin, val |-> val]

\* access(node); the write of export that follows it is for a missing node only.
Access(pin) == Call("access", pin, "nil")
Export(pin) == Call("export", pin, "nil")
SetEdge(pin, val) == Call("edge", pin, val)
SetDirection(pin, val) == Call("direction", pin, val)
Open(pin) == Call("open", pin, "nil")
\* The read that takes the event every open value file starts with.
FirstRead(pin) == Call("read", pin, "nil")

KeyScript ==
  LET k1 == GpioGet(4, 1)  k2 == GpioGet(4, 3)
  IN  << Access(k1), Export(k1), Access(k2), Export(k2),
         SetEdge(k1, "falling"), SetDirection(k1, "in"), Open(k1),
         SetEdge(k2, "falling"), SetDirection(k2, "in"), Open(k2),
         FirstRead(k1), FirstRead(k2) >>

UltrasonicScript ==
  LET trig == GpioGet(4, 4)  echo == GpioGet(4, 5)
  IN  << Access(trig), Export(trig), Access(echo), Export(echo),
         SetEdge(trig, "none"), SetDirection(trig, "out"),
         SetEdge(echo, "both"), SetDirection(echo, "in"), Open(echo),
         FirstRead(echo) >>

MotorScript ==
  LET a == GpioGet(4, 11)  b == GpioGet(5, 12)  c == GpioGet(5, 13)  d == GpioGet(5, 14)
  IN  << Access(a), Export(a), Access(b), Export(b),
         Access(c), Export(c), Access(d), Export(d),
         SetEdge(a, "none"), SetDirection(a, "out"), SetEdge(b, "none"), SetDirection(b, "out"),
         SetEdge(c, "none"), SetDirection(c, "out"), SetEdge(d, "none"), SetDirection(d, "out") >>

Scripts ==
  [prog \in Programs |-> CASE prog = "motor"      -> MotorScript
                           [] prog = "ultrasonic" -> UltrasonicScript
                           [] OTHER               -> KeyScript]

AllPins == {c.pin : c \in UNION {ToSet(Scripts[prog]) : prog \in Programs}}

\* The pins whose value file a program opens, in the order its loop looks at them.
Watched(prog) ==
  LET opens == SelectSeq(Scripts[prog], LAMBDA c : c.op = "open")
  IN  [k \in DOMAIN opens |-> opens[k].pin]

-----------------------------------------------------------------------------
VARIABLES
  runs,       \* runs[p]: the program of process p, which never changes
  at,         \* at[p]: the next call of p's script, past its end in the loop, 0 when p has ended
  exported,   \* pins that have a node
  edge,       \* edge[n]: the attribute edge of pin n
  direction,  \* direction[n]: the attribute direction of pin n
  fds,        \* fds[p]: pins whose value file p has open
  ready,      \* ready[p]: pins whose event p has not read, of those it has open
  revents,    \* revents[p]: what p's last poll returned and p has not looked at
  due,        \* history: due[p]: pins that had an edge since p last read them
  unread,     \* history: unread[p]: pins whose event a failed first read left behind
  faults

gpioVars ==
  <<at, exported, edge, direction, fds, ready, revents, due, unread, faults>>

Script(p) == Scripts[runs[p]]

Looping(p) == at[p] > Len(Script(p))

-----------------------------------------------------------------------------
(* The set-up.                                                              *)

Doing(p, op) ==
  /\ at[p] \in 1..Len(Script(p))
  /\ Script(p)[at[p]].op = op
Pin(p) == Script(p)[at[p]].pin
Val(p) == Script(p)[at[p]].val

Go(p, n) == at' = [at EXCEPT ![p] = n]

\* exit(-1), or a kill: the process's files are closed, its nodes stay.
End(p) ==
  /\ at' = [at EXCEPT ![p] = 0]
  /\ fds' = [fds EXCEPT ![p] = {}]
  /\ ready' = [ready EXCEPT ![p] = {}]
  /\ revents' = [revents EXCEPT ![p] = {}]
  /\ due' = [due EXCEPT ![p] = {}]
  /\ unread' = [unread EXCEPT ![p] = {}]
  /\ UNCHANGED <<exported, edge, direction>>

\* Mutant: the node is exported whether it is there or not.
AccessNodeIgnored(p) ==
  /\ Doing(p, "access")
  /\ Go(p, at[p] + 1)
  /\ UNCHANGED <<exported, edge, direction, fds, ready, revents, due, unread, faults>>

AccessNode(p) ==
  /\ Doing(p, "access")
  /\ Go(p, IF Pin(p) \in exported THEN at[p] + 2 ELSE at[p] + 1)
  /\ UNCHANGED <<exported, edge, direction, fds, ready, revents, due, unread, faults>>

\* The kernel refuses to export a pin twice, and the program gives up.
ExportNode(p) ==
  /\ Doing(p, "export")
  /\ \/ /\ Pin(p) \notin exported
        /\ exported' = exported \cup {Pin(p)}
        /\ Go(p, at[p] + 1)
        /\ UNCHANGED <<edge, direction, fds, ready, revents, due, unread>>
     \/ /\ Pin(p) \in exported
        /\ End(p)
  /\ UNCHANGED faults

\* Mutant: the attribute edge is left as it is.
WriteAttributeNoEdge(p) ==
  /\ \/ /\ Doing(p, "edge")
        /\ UNCHANGED <<edge, direction>>
     \/ /\ Doing(p, "direction")
        /\ direction' = [direction EXCEPT ![Pin(p)] = Val(p)]
        /\ UNCHANGED edge
  /\ Go(p, at[p] + 1)
  /\ UNCHANGED <<exported, fds, ready, revents, due, unread, faults>>

\* gpio_write of edge and of direction.
WriteAttribute(p) ==
  /\ \/ /\ Doing(p, "edge")
        /\ edge' = [edge EXCEPT ![Pin(p)] = Val(p)]
        /\ UNCHANGED direction
     \/ /\ Doing(p, "direction")
        /\ direction' = [direction EXCEPT ![Pin(p)] = Val(p)]
        /\ UNCHANGED edge
  /\ Go(p, at[p] + 1)
  /\ UNCHANGED <<exported, fds, ready, revents, due, unread, faults>>

\* A value file that has just been opened counts as changed.
OpenValue(p) ==
  /\ Doing(p, "open")
  /\ fds' = [fds EXCEPT ![p] = @ \cup {Pin(p)}]
  /\ ready' = [ready EXCEPT ![p] = @ \cup {Pin(p)}]
  /\ Go(p, at[p] + 1)
  /\ UNCHANGED <<exported, edge, direction, revents, due, unread, faults>>

TakeEvent(p, n) ==
  /\ ready' = [ready EXCEPT ![p] = @ \ {n}]
  /\ due' = [due EXCEPT ![p] = @ \ {n}]
  /\ unread' = [unread EXCEPT ![p] = @ \ {n}]

\* Mutant: the value is not read before the first poll.
ReadFirstSkipped(p) ==
  /\ Doing(p, "read")
  /\ Go(p, at[p] + 1)
  /\ UNCHANGED <<exported, edge, direction, fds, ready, revents, due, unread, faults>>

\* A failed first read is reported, and the program goes on.
ReadFirst(p) ==
  /\ Doing(p, "read")
  /\ \/ TakeEvent(p, Pin(p)) /\ UNCHANGED faults
     \/ /\ faults < MaxFaults
        /\ faults' = faults + 1
        /\ unread' = [unread EXCEPT ![p] = @ \cup (ready[p] \cap {Pin(p)})]
        /\ UNCHANGED <<ready, due>>
  /\ Go(p, at[p] + 1)
  /\ UNCHANGED <<exported, edge, direction, fds, revents>>

\* Opening or writing fails: every set-up ends with exit(-1).
FailSetUp(p) ==
  /\ \E op \in {"export", "edge", "direction", "open"} : Doing(p, op)
  /\ faults < MaxFaults
  /\ faults' = faults + 1
  /\ End(p)

SetUp(p) ==
  \/ AccessNode(p)
  \/ ExportNode(p)
  \/ WriteAttribute(p)
  \/ OpenValue(p)
  \/ ReadFirst(p)
  \/ FailSetUp(p)

-----------------------------------------------------------------------------
(* The loop of the programs that wait for events.                           *)

\* poll(fds, n, -1) returns the files that have an event.
Poll(p) ==
  /\ Looping(p)
  /\ revents[p] = {}
  /\ ready[p] # {}
  /\ revents' = [revents EXCEPT ![p] = ready[p]]
  /\ UNCHANGED <<at, exported, edge, direction, fds, ready, due, unread, faults>>

\* The first file poll returned that the loop has not looked at.
FirstReported(p) ==
  SelectSeq(Watched(runs[p]), LAMBDA n : n \in revents[p])[1]

\* Mutant: the file is reported and not read.
HandleEventUnread(p) ==
  /\ Looping(p)
  /\ revents[p] # {}
  /\ revents' = [revents EXCEPT ![p] = @ \ {FirstReported(p)}]
  /\ UNCHANGED <<at, exported, edge, direction, fds, ready, due, unread, faults>>

\* lseek, read and the message, for one file; a failed read takes no event.
HandleEvent(p) ==
  /\ Looping(p)
  /\ revents[p] # {}
  /\ revents' = [revents EXCEPT ![p] = @ \ {FirstReported(p)}]
  /\ \/ TakeEvent(p, FirstReported(p)) /\ UNCHANGED faults
     \/ faults < MaxFaults /\ faults' = faults + 1 /\ UNCHANGED <<ready, due, unread>>
  /\ UNCHANGED <<at, exported, edge, direction, fds>>

-----------------------------------------------------------------------------
(* The world outside.                                                       *)

\* The level of an input changes the way its edge attribute asks for: every
\* process that has the file open gets an event.
Edge(n) ==
  /\ n \in exported
  /\ due' = [p \in Procs |-> IF n \in fds[p] THEN due[p] \cup {n} ELSE due[p]]
  /\ ready' = [p \in Procs |->
                 IF n \in fds[p] /\ edge[n] # "none" /\ direction[n] = "in"
                 THEN ready[p] \cup {n} ELSE ready[p]]
  /\ UNCHANGED <<at, exported, edge, direction, fds, revents, unread, faults>>

Kill(p) ==
  /\ at[p] # 0
  /\ faults < MaxFaults
  /\ faults' = faults + 1
  /\ End(p)

\* The user starts the program again.
Start(p) ==
  /\ at[p] = 0
  /\ Go(p, 1)
  /\ UNCHANGED <<exported, edge, direction, fds, ready, revents, due, unread, faults>>

-----------------------------------------------------------------------------
\* A node comes up as an input without interrupts.
GpioInit ==
  /\ runs \in Mixes
  /\ at = [p \in Procs |-> 0]
  /\ exported = {}
  /\ edge = [n \in AllPins |-> "none"]
  /\ direction = [n \in AllPins |-> "in"]
  /\ fds = [p \in Procs |-> {}]
  /\ ready = [p \in Procs |-> {}]
  /\ revents = [p \in Procs |-> {}]
  /\ due = [p \in Procs |-> {}]
  /\ unread = [p \in Procs |-> {}]
  /\ faults = 0

GpioNext ==
  \/ \E p \in Procs : SetUp(p) \/ Poll(p) \/ HandleEvent(p) \/ Kill(p) \/ Start(p)
  \/ \E n \in AllPins : Edge(n)

GpioSpec == GpioInit /\ [][GpioNext /\ UNCHANGED runs]_<<gpioVars, runs>>

\* Running programs are scheduled, and a user who sees one end starts it again.
GpioFairness ==
  \A p \in Procs :
    /\ WF_gpioVars(SetUp(p))
    /\ WF_gpioVars(Poll(p) \/ HandleEvent(p))
    /\ WF_gpioVars(Start(p))

GpioFairSpec == GpioSpec /\ GpioFairness

-----------------------------------------------------------------------------
(* Properties.                                                              *)

\* Events belong to open files, and open files to exported pins.
GpioTypeOK ==
  /\ runs \in Mixes
  /\ \A p \in Procs :
       /\ at[p] \in 0..Len(Script(p)) + 1
       /\ revents[p] \subseteq ready[p]
       /\ due[p] \cup unread[p] \subseteq ready[p] /\ ready[p] \subseteq fds[p]
       /\ fds[p] \subseteq exported \cap {c.pin : c \in ToSet(Script(p))}
  /\ exported \subseteq AllPins
  /\ edge \in [AllPins -> {"none", "falling", "both"}]
  /\ direction \in [AllPins -> {"in", "out"}]
  /\ faults \in 0..MaxFaults

\* A program that has got through its set-up has every pin exported and set the
\* way its script asks, whatever other programs with the same pins do meanwhile.
ConfiguredWhenRunning ==
  \A p \in Procs : Looping(p) =>
    \A c \in ToSet(Script(p)) :
      /\ c.pin \in exported
      /\ c.op = "edge" => edge[c.pin] = c.val
      /\ c.op = "direction" => direction[c.pin] = c.val

\* The loop has an event for exactly the pins that had an edge since its last
\* read: no press after the set-up's last read is lost, also not one that comes
\* between poll and read, and poll reports no key that was not pressed, unless
\* the file's first read failed and the event of its opening is still there.
EventsAreEdges ==
  \A p \in Procs : Looping(p) => ready[p] = due[p] \cup unread[p]

\* Every edge is read in the end by every program that watches the pin.
EdgesAreRead ==
  \A p \in Procs, n \in UNION {ToSet(Watched(prog)) : prog \in Programs} :
    (Looping(p) /\ n \in due[p]) ~> (n \notin due[p])

\* A program that lost the race for a node, failed or was killed gets through
\* when it is started again: what it leaves behind does not stop it.
RetriesSucceed == \A p \in Procs : []<>Looping(p)
=============================================================================
