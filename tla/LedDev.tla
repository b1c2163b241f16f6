------------------------------- MODULE LedDev -------------------------------
(***************************************************************************)
(* drv/02led_drv: a character device for one LED (led_dev.c) and the       *)
(* processes that use it (app/led_app.c).  Every call of the driver maps   *)
(* the register it needs into the one global vaddr and works through it,   *)
(* so calls of different processes meet in vaddr.  What ioremap returns is *)
(* not looked at: an access through NULL is an oops, which kills the       *)
(* process.  One step is one access to a register or to vaddr.             *)
(***************************************************************************)
EXTENDS Integers, FiniteSets

CONSTANTS
  Procs,    \* processes that run led_app
  MaxRuns,  \* bound: how often led_app is started
  MaxLoads, \* bound: how often the module is loaded
  MaxFaults \* bound: how often ioremap fails

ASSUME LedDevAssumption == {MaxRuns, MaxLoads, MaxFaults} \subseteq Nat

\* IO_PAD_B, GPIO_DDR_B and GPIO_DR_B.
Regs == {"PAD", "DDR", "DR"}

\* A 32-bit word: its bit 0, and which register's other 31 bits it carries.
\* 0x0246 is the PAD word with bit 0 clear.
Word(rest, bit) == [rest |-> rest, bit |-> bit]
Words == [rest : Regs, bit : {0, 1}]

VARIABLES
  loaded,  \* the module is loaded
  pinned,  \* an open that died in the driver holds the module for ever
  vaddr,   \* the register the global vaddr maps, or "NULL"
  maps,    \* ioremap calls not undone by iounmap
  reg,     \* the registers
  app,     \* app[p]: where process p is, what it was asked for, what it read and
           \* what its last ioremap returned
  runs,    \* led_app processes started
  loads,   \* times the module was loaded
  clash,   \* history: a call moved vaddr away from a register another call needs
  landed,  \* history: the last value led_write stored
  faults

ledVars == <<loaded, pinned, vaddr, maps, reg, app, runs, loads, clash, landed,
             faults>>

-----------------------------------------------------------------------------
(* Accesses.                                                                *)

Idle == [at |-> "idle", want |-> 0, tmp |-> Word("DR", 0), own |-> "NULL"]

\* The register a call needs at each place between its ioremap and its last
\* access through vaddr.
Needs(at) == CASE at = "open2"                        -> "PAD"
               [] at \in {"open4", "open5"}           -> "DDR"
               [] at \in {"read2", "write2", "write3"} -> "DR"
               [] OTHER                               -> "none"

Goto(p, to) == app' = [app EXCEPT ![p] = [@ EXCEPT !.at = to]]

\* vaddr = ioremap(r, 4), which may return NULL.
Map(p, r, from, to) ==
  /\ app[p].at = from
  /\ \/ vaddr' = r /\ maps' = maps + 1 /\ UNCHANGED faults
     \/ vaddr' = "NULL" /\ faults < MaxFaults /\ faults' = faults + 1 /\ UNCHANGED maps
  /\ clash' = (clash \/ \E q \in Procs : Needs(app[q].at) \notin {"none", vaddr'})
  /\ app' = [app EXCEPT ![p] = [@ EXCEPT !.at = to, !.own = vaddr']]
  /\ UNCHANGED <<loaded, pinned, reg, runs, loads, landed>>

\* The oops of an access through NULL: the kernel closes the files of the
\* process, but an open that is under way has no file yet.
Die(p) ==
  /\ app' = [app EXCEPT ![p] = Idle]
  /\ pinned' = (pinned \/ app[p].at \in {"open2", "open4", "open5"})
  /\ UNCHANGED <<loaded, vaddr, maps, reg, runs, loads, clash, landed, faults>>

\* readl(vaddr): the compiler may use the address it has just assigned or load
\* the global again.
Load(p, from, to) ==
  /\ app[p].at = from
  /\ \E r \in {app[p].own, vaddr} :
       \/ r = "NULL" /\ Die(p)
       \/ /\ r # "NULL"
          /\ app' = [app EXCEPT ![p] = [@ EXCEPT !.at = to, !.tmp = reg[r]]]
          /\ UNCHANGED <<loaded, pinned, vaddr, maps, reg, runs, loads, clash, landed, faults>>

\* writel(w, vaddr): the barrier in writel makes the compiler load the global.
Store(p, w, from, to, value) ==
  /\ app[p].at = from
  /\ \/ vaddr = "NULL" /\ Die(p)
     \/ /\ vaddr # "NULL"
        /\ reg' = [reg EXCEPT ![vaddr] = w]
        /\ landed' = value
        /\ Goto(p, to)
        /\ UNCHANGED <<loaded, pinned, vaddr, maps, runs, loads, clash, faults>>

-----------------------------------------------------------------------------
(* led_app: open, read, write, close.                                       *)

\* The file operations' owner keeps the module loaded from open to close.
Start(p) ==
  /\ loaded
  /\ app[p].at = "idle"
  /\ runs < MaxRuns
  /\ runs' = runs + 1
  /\ \E w \in {0, 1} :
       app' = [app EXCEPT ![p] = [Idle EXCEPT !.at = "open1", !.want = w]]
  /\ UNCHANGED <<loaded, pinned, vaddr, maps, reg, loads, clash, landed, faults>>

LedOpen(p) ==
  \/ Map(p, "PAD", "open1", "open2")
  \/ Store(p, Word("PAD", 0), "open2", "open3", landed)
  \/ Map(p, "DDR", "open3", "open4")
  \/ Load(p, "open4", "open5")
  \/ Store(p, [app[p].tmp EXCEPT !.bit = 1], "open5", "read1", landed)

LedRead(p) ==
  \/ Map(p, "DR", "read1", "read2")
  \/ Load(p, "read2", "write1")

\* Mutants: led_write relies on the mapping led_read made; it takes the LED for
\* active low.
LedWriteUnmapped(p) ==
  \/ /\ app[p].at = "write1"
     /\ Goto(p, "write2")
     /\ UNCHANGED <<loaded, pinned, vaddr, maps, reg, runs, loads, clash, landed, faults>>
  \/ Load(p, "write2", "write3")
  \/ Store(p, [app[p].tmp EXCEPT !.bit = app[p].want], "write3", "close", app[p].want)
LedWriteActiveLow(p) ==
  \/ Map(p, "DR", "write1", "write2")
  \/ Load(p, "write2", "write3")
  \/ Store(p, [app[p].tmp EXCEPT !.bit = 1 - app[p].want], "write3", "close", app[p].want)

LedWrite(p) ==
  \/ Map(p, "DR", "write1", "write2")
  \/ Load(p, "write2", "write3")
  \/ Store(p, [app[p].tmp EXCEPT !.bit = app[p].want], "write3", "close", app[p].want)

\* close, or the process is killed between two calls and the kernel closes.
LedClose(p) ==
  /\ app[p].at \in {"read1", "write1", "close"}
  /\ app' = [app EXCEPT ![p] = Idle]
  /\ UNCHANGED <<loaded, pinned, vaddr, maps, reg, runs, loads, clash, landed, faults>>

-----------------------------------------------------------------------------
(* The module.                                                              *)

LedDrvInit ==
  /\ ~loaded
  /\ loads < MaxLoads
  /\ loaded' = TRUE
  /\ loads' = loads + 1
  /\ vaddr' = "NULL"
  /\ UNCHANGED <<pinned, maps, reg, app, runs, clash, landed, faults>>

\* Mutant: the file operations have no owner.
LedDrvExitUnowned ==
  /\ loaded
  /\ loaded' = FALSE
  /\ maps' = IF vaddr = "NULL" THEN maps ELSE maps - 1
  /\ UNCHANGED <<pinned, vaddr, reg, app, runs, loads, clash, landed, faults>>

\* iounmap(vaddr) undoes the last ioremap; of NULL it does nothing.
LedDrvExit ==
  /\ loaded
  /\ ~pinned
  /\ \A p \in Procs : app[p].at = "idle"
  /\ loaded' = FALSE
  /\ maps' = IF vaddr = "NULL" THEN maps ELSE maps - 1
  /\ UNCHANGED <<pinned, vaddr, reg, app, runs, loads, clash, landed, faults>>

-----------------------------------------------------------------------------
LedDevInit ==
  /\ loaded = FALSE
  /\ pinned = FALSE
  /\ vaddr = "NULL"
  /\ maps = 0
  /\ \E d \in {0, 1}, v \in {0, 1} :
       /\ reg = [r \in Regs |-> Word(r, CASE r = "PAD" -> 1 [] r = "DDR" -> d [] OTHER -> v)]
       /\ landed = v
  /\ app = [p \in Procs |-> Idle]
  /\ runs = 0
  /\ loads = 0
  /\ clash = FALSE
  /\ faults = 0

LedDevNext ==
  \/ \E p \in Procs : Start(p) \/ LedOpen(p) \/ LedRead(p) \/ LedWrite(p) \/ LedClose(p)
  \/ LedDrvInit
  \/ LedDrvExit

LedDevSpec == LedDevInit /\ [][LedDevNext]_ledVars

-----------------------------------------------------------------------------
(* Properties.                                                              *)

\* The registers hold words, and no more is unmapped than was mapped.
LedDevTypeOK ==
  /\ loaded \in BOOLEAN
  /\ pinned \in BOOLEAN
  /\ vaddr \in Regs \cup {"NULL"}
  /\ maps \in Nat
  /\ reg \in [Regs -> Words]
  /\ app \in [Procs -> [at : {"idle", "open1", "open2", "open3", "open4", "open5", "read1",
                              "read2", "write1", "write2", "write3", "close"},
                        want : {0, 1}, tmp : Words, own : Regs \cup {"NULL"}]]
  /\ runs \in 0..MaxRuns
  /\ loads \in 0..MaxLoads
  /\ clash \in BOOLEAN
  /\ landed \in {0, 1}
  /\ faults \in 0..MaxFaults

\* No call of the driver puts one register's word into another one, unless a
\* second call moved vaddr while the first one needed it.
RegistersKept == ~clash => \A r \in Regs : reg[r].rest = r

\* The LED shows the last value written, under the same condition.
LedShowsLastWrite == ~clash => reg["DR"].bit = landed

\* A call that finds vaddr NULL, and so brings its process down, got that NULL
\* from its own ioremap: no failure of an earlier call, of its own process or of
\* another one, reaches into it, unless a call moved vaddr while it was needed.
\* And no call runs after the unload that unmapped vaddr.
MappedWhenUsed ==
  \A p \in Procs : Needs(app[p].at) # "none" =>
    loaded /\ (vaddr = "NULL" => clash \/ app[p].own = "NULL")
=============================================================================
