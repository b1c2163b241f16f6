------------------------------- MODULE KeyPwm -------------------------------
(***************************************************************************)
(* drv/04pwm/key.c: a parent process polls two keys and runs one forked    *)
(* worker (LedPwm!Ramp) with the current mode and speed.  At each key it   *)
(* changes a setting, kills the worker, waits for it and forks a new one.  *)
(* fork, kill, wait and the poll of a GPIO value file are external and     *)
(* modelled from how main() uses them.                                     *)
(***************************************************************************)
EXTENDS LedPwm

CONSTANTS
  ForkMayFail,  \* whether fork() may fail
  MaxCrash      \* bound: how often the parent is killed or interrupted

ASSUME ProcessAssumption ==
  /\ -1 \notin Pids
  /\ ForkMayFail \in BOOLEAN
  /\ MaxCrash \in Nat

\* GPIO 4_1 (fds[0]) changes the step of the ramp, GPIO 4_3 (fds[1]) its mode.
Keys == {"speed", "mode"}

VARIABLES
  kpc,      \* where main() is: see KeyTypeOK
  pwmx,     \* the mode, an enum PWMX
  step,     \* the step of the ramp, 1 or Fast
  pid,      \* the last result of fork() in the parent, -1 after a failure
  revents,  \* keys the last poll reported and main() has not handled yet
  edges,    \* keys with a falling edge since their value file was last read
  sig,      \* workers a fatal signal is pending for
  orphans,  \* workers (or their zombies) whose parent is gone
  crashes   \* times the parent was killed or interrupted

mainVars == <<kpc, pwmx, step, pid, revents>>
keyVars == <<pwmVars, mainVars, edges, sig, orphans, crashes>>

\* The children of the parent that is running now, exited but unreaped ones too.
Children == {p \in Pids : ramp[p].st # "free"} \ orphans

-----------------------------------------------------------------------------
(* main().                                                                  *)

\* main() calls pwm_init and ignores its result.
InitPwm ==
  /\ kpc = "setup"
  /\ PwmInit
  /\ UNCHANGED <<mainVars, edges, sig, orphans, crashes>>

\* Both GPIOs are exported and configured, and any failure on the way exits.
\* The two reads before the loop forget the event of the opening and earlier
\* edges; one that fails is only reported, and leaves its event pending.
SetUp ==
  /\ kpc = "setup"
  /\ ipc = InitDone
  /\ \/ /\ kpc' = "fork"
        /\ pwmx' = PWM0
        /\ step' = 1
        /\ edges' \in IF Faults THEN SUBSET Keys ELSE {{}}
        /\ UNCHANGED <<pid, revents>>
     \/ /\ Faults
        /\ kpc' = "dead"
        /\ UNCHANGED <<pwmx, step, pid, revents, edges>>
  /\ UNCHANGED <<pwmVars, sig, orphans, crashes>>

\* Mutant: a failed fork leaves the old pid in place.
ForkKeepsPid ==
  /\ kpc = "fork"
  /\ \/ \E p \in Pids :
          /\ ramp[p].st = "free"
          /\ pid' = p
          /\ ramp' = [ramp EXCEPT ![p] = Fresh(pwmx, step)]
     \/ ForkMayFail /\ UNCHANGED <<pid, ramp>>
  /\ kpc' = IF revents = {} THEN "poll" ELSE "key"
  /\ UNCHANGED <<nodes, chan, muxed, ipc, pwmx, step, revents, edges, sig,
                 orphans, crashes>>

\* fork(): a failure is reported on stderr and main() goes on with pid = -1.
Fork ==
  /\ kpc = "fork"
  /\ \/ \E p \in Pids :
          /\ ramp[p].st = "free"
          /\ pid' = p
          /\ ramp' = [ramp EXCEPT ![p] = Fresh(pwmx, step)]
     \/ /\ ForkMayFail \/ \A p \in Pids : ramp[p].st # "free"
        /\ pid' = -1
        /\ UNCHANGED ramp
  /\ kpc' = IF revents = {} THEN "poll" ELSE "key"
  /\ UNCHANGED <<nodes, chan, muxed, ipc, pwmx, step, revents, edges, sig,
                 orphans, crashes>>

\* poll() returns with the keys that have an unread edge.
Poll ==
  /\ kpc = "poll"
  /\ edges # {}
  /\ revents' = edges
  /\ kpc' = "key"
  /\ UNCHANGED <<pwmVars, pwmx, step, pid, edges, sig, orphans, crashes>>

\* fds[0] is tested before fds[1].
NextKey == IF "speed" \in revents THEN "speed" ELSE "mode"

\* Mutant: the mode key does not restart the worker.
HandleKeyLazily ==
  /\ kpc = "key"
  /\ revents' = revents \ {NextKey}
  /\ edges' = edges \ {NextKey}
  /\ IF NextKey = "speed"
     THEN step' = (IF step = 1 THEN Fast ELSE 1) /\ kpc' = "kill" /\ UNCHANGED pwmx
     ELSE pwmx' = (pwmx + 1) % 3 /\ kpc' = "poll" /\ UNCHANGED step
  /\ UNCHANGED <<pwmVars, pid, sig, orphans, crashes>>

\* Mutant: no lseek, so that the read is at the end of the file and the edge stays.
HandleKeyUnread ==
  /\ kpc = "key"
  /\ revents' = revents \ {NextKey}
  /\ IF NextKey = "speed"
     THEN step' = (IF step = 1 THEN Fast ELSE 1) /\ UNCHANGED pwmx
     ELSE pwmx' = (pwmx + 1) % 3 /\ UNCHANGED step
  /\ kpc' = "kill"
  /\ UNCHANGED <<pwmVars, pid, edges, sig, orphans, crashes>>

\* lseek and read of the key's value file, which forget its edges (or fail,
\* which is only reported), and the change of the setting.
HandleKey ==
  /\ kpc = "key"
  /\ revents' = revents \ {NextKey}
  /\ \/ edges' = edges \ {NextKey}
     \/ Faults /\ UNCHANGED edges
  /\ IF NextKey = "speed"
     THEN /\ step' = IF step = 1 THEN Fast ELSE 1
          /\ UNCHANGED pwmx
     ELSE /\ pwmx' = (pwmx + 1) % 3
          /\ UNCHANGED step
  /\ kpc' = "kill"
  /\ UNCHANGED <<pwmVars, pid, sig, orphans, crashes>>

\* Mutant: kill(pid, 0), which only asks whether the process exists.
TargetsNone == {}

\* kill(-1, s) signals every process the caller may signal, except itself.
Targets == {p \in Pids : Running(p) /\ (pid = p \/ pid = -1)}

Kill ==
  /\ kpc = "kill"
  /\ sig' = sig \cup Targets
  /\ kpc' = "wait"
  /\ UNCHANGED <<pwmVars, pwmx, step, pid, revents, edges, orphans, crashes>>

\* Mutants: the wait is forgotten; the wait is repeated until it succeeds.
WaitForgotten ==
  /\ kpc = "wait"
  /\ kpc' = "fork"
  /\ UNCHANGED <<pwmVars, pwmx, step, pid, revents, edges, sig, orphans, crashes>>
WaitRepeated ==
  /\ kpc = "wait"
  /\ \E p \in Children :
       /\ ramp[p].st = "zombie"
       /\ ramp' = [ramp EXCEPT ![p] = Free]
       /\ sig' = sig \ {p}
  /\ kpc' = "fork"
  /\ UNCHANGED <<nodes, chan, muxed, ipc, pwmx, step, pid, revents, edges,
                 orphans, crashes>>

\* wait(NULL) reaps a child that has exited, or fails at once without children.
Wait ==
  /\ kpc = "wait"
  /\ \/ \E p \in Children :
          /\ ramp[p].st = "zombie"
          /\ ramp' = [ramp EXCEPT ![p] = Free]
          /\ sig' = sig \ {p}
     \/ /\ Children = {}
        /\ UNCHANGED <<ramp, sig>>
  /\ kpc' = "fork"
  /\ UNCHANGED <<nodes, chan, muxed, ipc, pwmx, step, pid, revents, edges,
                 orphans, crashes>>

Main == InitPwm \/ SetUp \/ Fork \/ Poll \/ HandleKey \/ Kill \/ Wait

-----------------------------------------------------------------------------
(* The workers, the user and the kernel.                                    *)

Work(p) == Ramp(p) /\ UNCHANGED <<mainVars, edges, sig, orphans, crashes>>

\* The signal reaches the worker between any two of its steps.
Die(p) ==
  /\ p \in sig
  /\ Running(p)
  /\ ramp' = [ramp EXCEPT ![p] = Exited]
  /\ sig' = sig \ {p}
  /\ UNCHANGED <<nodes, chan, muxed, ipc, mainVars, edges, orphans, crashes>>

\* init reaps what the parent left behind.
InitReaps(p) ==
  /\ p \in orphans
  /\ ramp[p].st = "zombie"
  /\ ramp' = [ramp EXCEPT ![p] = Free]
  /\ sig' = sig \ {p}
  /\ orphans' = orphans \ {p}
  /\ UNCHANGED <<nodes, chan, muxed, ipc, mainVars, edges, crashes>>

\* A falling edge of key k, while its edge attribute is configured.
Press(k) ==
  /\ kpc \notin {"setup", "dead"}
  /\ edges' = edges \cup {k}
  /\ UNCHANGED <<pwmVars, mainVars, sig, orphans, crashes>>

\* The parent is killed alone, or exits because poll failed: its workers live
\* on; or the terminal interrupts the parent and its workers.
Crash ==
  /\ kpc # "dead"
  /\ crashes < MaxCrash
  /\ crashes' = crashes + 1
  /\ kpc' = "dead"
  /\ orphans' = orphans \cup Children
  /\ \/ UNCHANGED sig
     \/ sig' = sig \cup {p \in Children : Running(p)}
  /\ UNCHANGED <<pwmVars, pwmx, step, pid, revents, edges>>

\* The user starts the program again; the hardware keeps its state.
Restart ==
  /\ kpc = "dead"
  /\ kpc' = "setup"
  /\ ipc' = 0
  /\ revents' = {}
  /\ UNCHANGED <<nodes, chan, muxed, ramp, pwmx, step, pid, edges, sig,
                 orphans, crashes>>

-----------------------------------------------------------------------------
KeyInit ==
  /\ PwmStart
  /\ kpc = "setup"
  /\ pwmx = PWM0
  /\ step = 1
  /\ pid = -1
  /\ revents = {}
  /\ edges = {}
  /\ sig = {}
  /\ orphans = {}
  /\ crashes = 0

KeyNext ==
  \/ Main
  \/ \E p \in Pids : Work(p) \/ Die(p) \/ InitReaps(p)
  \/ \E k \in Keys : Press(k)
  \/ Crash
  \/ Restart

\* The scheduler runs every runnable process and delivers every signal; nobody
\* has to press a key or restart the program.
KeyFairness ==
  /\ WF_keyVars(Main)
  /\ \A p \in Pids : /\ WF_keyVars(Work(p))
                     /\ WF_keyVars(Die(p))
                     /\ WF_keyVars(InitReaps(p))

KeySpec == KeyInit /\ [][KeyNext]_keyVars
FairKeySpec == KeySpec /\ KeyFairness

-----------------------------------------------------------------------------
(* Properties.                                                              *)

\* Every variable holds a value of its C type or of the process table.
KeyTypeOK ==
  /\ PwmTypeOK
  /\ kpc \in {"setup", "fork", "poll", "key", "kill", "wait", "dead"}
  /\ pwmx \in Modes
  /\ step \in Steps
  /\ pid \in Pids \cup {-1}
  /\ revents \subseteq Keys
  /\ edges \subseteq Keys
  /\ sig \subseteq Pids
  /\ orphans \subseteq Pids
  /\ crashes \in 0..MaxCrash

\* The parent never has a child it has lost track of: whatever it forked is
\* the child named by pid, and none is left when it forks or when it is gone.
OneWorker ==
  /\ Children \subseteq {pid}
  /\ kpc \in {"setup", "fork", "dead"} => Children = {}

\* kill(pid, SIGTERM) reaches a child of the parent, running or unreaped, and
\* never a process that reuses the pid of a former worker.  Only when a failed
\* fork left no child is it the broadcast kill(-1, SIGTERM).
KillHitsOwnChild ==
  kpc = "kill" => pid \in Children \/ (pid = -1 /\ Children = {})

\* Outside the restart of a worker, the one that runs was started with the
\* settings the parent has now: no key leaves a worker with the old ones.
WorkerShowsSettings ==
  kpc \in {"poll", "key"} =>
    \A p \in Children : Running(p) => ramp[p].mode = pwmx /\ ramp[p].step = step

\* As long as no parent crashed, a sleeping worker sees the hardware as its
\* round left it: no predecessor it replaced writes after it was started.
ReplacedWorkerIsSilent == crashes = 0 => RoundIsShown

\* At most one process per run of the program drives the LEDs.
DriversBounded ==
  Cardinality({p \in Pids : Running(p)}) <=
    crashes + (IF kpc = "dead" THEN 0 ELSE 1)

\* The worker p is the parent's and ramps with the settings the parent has.
Shows(p) == Running(p) /\ ramp[p].mode = pwmx /\ ramp[p].step = step

\* A key that was pressed takes effect, however it falls between the poll, the
\* read and the restart of the worker: the setting it stands for changes and a
\* worker comes to run with the changed setting, and its edge is consumed, so
\* that the key does not take effect for ever.
PressTakesEffect ==
  /\ \A s \in Steps : ("speed" \in edges /\ step = s) ~>
       (kpc = "dead" \/ (step # s /\ \E p \in Children : Shows(p)))
  /\ \A m \in Modes : ("mode" \in edges /\ pwmx = m) ~>
       (kpc = "dead" \/ (pwmx # m /\ \E p \in Children : Shows(p)))
  /\ \A k \in Keys : (k \in edges) ~> (kpc = "dead" \/ k \notin edges)

\* main() always gets back to its poll, however its workers, its forks and its
\* reads fail: wait(NULL) never blocks on a child that nobody will end.
ParentNeverHangs == kpc # "dead" ~> kpc \in {"poll", "dead"}

\* What the worker among the processes ps shows, if one of them runs.
Shown(r, ps) == IF \E p \in ps : r[p].st = "running"
                THEN LET w == r[CHOOSE p \in ps : r[p].st = "running"]
                     IN <<w.mode, w.step>>
                ELSE <<>>

\* What the worker of the parent that runs now shows.
Lit == Shown(ramp, Children)

\* The workers of parents that are gone and that run still, with what they show.
LeftOn == [p \in {q \in orphans : Running(q)} |-> <<ramp[p].mode, ramp[p].step>>]

\* The abstract dimmer this program implements.
D == INSTANCE Dimmer
       WITH mode <- pwmx, speed <- step, lit <- Lit, left <- LeftOn, Names <- Pids

\* main() and its workers implement the dimmer, safety and progress.
ImplementsDimmer == D!DimmerSpec
\* The safety part alone, for runs in which the parent may crash: also beside
\* orphans the run's own light goes out before it is replaced, and an orphan
\* keeps the settings it had and only ever goes out.
ImplementsDimmerSafely == D!DimmerInit /\ [][D!DimmerNext]_<<pwmx, step, Lit, LeftOn>>
=============================================================================
