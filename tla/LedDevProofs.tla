----------------------------- MODULE LedDevProofs -----------------------------
(***************************************************************************)
(* Proofs about LedDev, for any number of processes, runs, reloads and     *)
(* failing ioremaps: as long as no call moves vaddr under another, every   *)
(* register keeps its own word, and no call meets another one's NULL.      *)
(***************************************************************************)
EXTENDS LedDev, TLAPS

Places == {"idle", "open1", "open2", "open3", "open4", "open5", "read1", "read2",
           "write1", "write2", "write3", "close"}

Mappings == Regs \cup {"NULL"}

\* The variables the calls move through.
ShapeInv ==
  /\ app \in [Procs -> [at : Places, want : {0, 1}, tmp : Words, own : Mappings]]
  /\ reg \in [Regs -> Words]
  /\ vaddr \in Mappings
  /\ loaded \in BOOLEAN
  /\ pinned \in BOOLEAN
  /\ clash \in BOOLEAN

\* Calls run in a loaded module.
UseInv == \A p \in Procs : app[p].at # "idle" => loaded

\* Without a clash a call finds in vaddr the register it needs, or the NULL its
\* own ioremap returned, the word a call is about to store is of the register it
\* was loaded from, and the LED is what was asked.
OwnInv ==
  ~clash =>
    /\ \A p \in Procs :
         /\ Needs(app[p].at) # "none" =>
              /\ app[p].own \in {Needs(app[p].at), "NULL"}
              /\ vaddr = Needs(app[p].at) \/ (vaddr = "NULL" /\ app[p].own = "NULL")
         /\ app[p].at = "open5"  => app[p].tmp.rest = "DDR"
         /\ app[p].at = "write3" => app[p].tmp.rest = "DR"
    /\ \A r \in Regs : reg[r].rest = r
    /\ reg["DR"].bit = landed

LedInv == ShapeInv /\ UseInv /\ OwnInv

-----------------------------------------------------------------------------
LEMMA LedInitHolds == LedDevInit => LedInv
<1> SUFFICES ASSUME LedDevInit PROVE LedInv
  OBVIOUS
<1>1. PICK d \in {0, 1}, v \in {0, 1} :
        /\ reg = [r \in Regs |-> Word(r, CASE r = "PAD" -> 1 [] r = "DDR" -> d [] OTHER -> v)]
        /\ landed = v
  BY DEF LedDevInit
<1>2. loaded \in BOOLEAN /\ pinned \in BOOLEAN /\ clash \in BOOLEAN /\ vaddr = "NULL" /\ app = [p \in Procs |-> Idle]
  BY DEF LedDevInit
<1>3. \A p \in Procs : app[p].at = "idle"
  BY <1>2 DEF Idle
<1>4. ShapeInv
  <2>1. reg \in [Regs -> Words]
    BY <1>1 DEF Word, Words, Regs
  <2>2. Idle \in [at : Places, want : {0, 1}, tmp : Words, own : Mappings]
    BY DEF Idle, Places, Word, Words, Regs, Mappings
  <2>3. QED
    BY <1>2, <2>1, <2>2 DEF ShapeInv, Mappings
<1>5. UseInv
  BY <1>3 DEF UseInv
<1>6. OwnInv
  <2>1. \A r \in Regs : reg[r].rest = r
    BY <1>1 DEF Word, Regs
  <2>2. reg["DR"].bit = landed
    BY <1>1 DEF Word, Regs
  <2>3. QED
    BY <1>3, <2>1, <2>2 DEF OwnInv, Needs
<1>7. QED
  BY <1>4, <1>5, <1>6 DEF LedInv

-----------------------------------------------------------------------------
(* The three kinds of accesses.                                             *)

\* An ioremap for the register the call needs next, or its failure.
LEMMA MapStep ==
  ASSUME LedInv, NEW p \in Procs, NEW r \in Regs, NEW from \in Places, NEW to \in Places,
         Map(p, r, from, to), from # "idle", to \notin {"open5", "write3"},
         Needs(to) = r
  PROVE  LedInv'
<1>i. ShapeInv /\ UseInv /\ OwnInv
  BY DEF LedInv
<1>1. /\ app[p].at = from
      /\ app' = [app EXCEPT ![p] = [@ EXCEPT !.at = to, !.own = vaddr']]
      /\ vaddr' \in {r, "NULL"}
      /\ UNCHANGED <<loaded, pinned, reg, landed>>
  BY DEF Map
<1>2. /\ app'[p].at = to /\ app'[p].tmp = app[p].tmp /\ app'[p].own = vaddr'
      /\ \A q \in Procs : q # p => app'[q] = app[q]
  BY <1>i, <1>1 DEF ShapeInv
<1>3. clash' \in BOOLEAN /\ (~clash' => ~clash /\ \A q \in Procs : Needs(app[q].at) \in {"none", vaddr'})
  BY <1>i DEF Map, ShapeInv
<1>4. ShapeInv'
  <2>1. vaddr' \in Mappings
    BY <1>1 DEF Mappings
  <2>2. app' \in [Procs -> [at : Places, want : {0, 1}, tmp : Words, own : Mappings]]
    BY <1>i, <1>1, <2>1 DEF ShapeInv
  <2>3. QED
    BY <1>i, <1>1, <1>3, <2>1, <2>2 DEF ShapeInv
<1>5. UseInv'
  BY <1>i, <1>1, <1>2 DEF UseInv
<1>6. OwnInv'
  <2> SUFFICES ASSUME ~clash' PROVE OwnInv'
    BY DEF OwnInv
  <2>1. ~clash /\ \A q \in Procs : Needs(app[q].at) \in {"none", vaddr'}
    BY <1>3
  <2>2. ASSUME NEW q \in Procs, Needs(app'[q].at) # "none"
        PROVE  /\ app'[q].own \in {Needs(app'[q].at), "NULL"}
               /\ vaddr' = Needs(app'[q].at) \/ (vaddr' = "NULL" /\ app'[q].own = "NULL")
    <3>1. CASE q = p
      BY <1>1, <1>2, <3>1
    <3>2. CASE q # p
      BY <1>i, <1>2, <2>1, <2>2, <3>2 DEF OwnInv
    <3>3. QED
      BY <3>1, <3>2
  <2>3. QED
    BY <1>i, <1>1, <1>2, <2>1, <2>2 DEF OwnInv
<1>7. QED
  BY <1>4, <1>5, <1>6 DEF LedInv

\* A process that starts, ends or dies is at no access.
LEMMA OutsideStep ==
  ASSUME LedInv, NEW p \in Procs,
         NEW a \in [at : {"idle", "open1"}, want : {0, 1}, tmp : Words, own : Mappings],
         app' = [app EXCEPT ![p] = a], a.at = "open1" => loaded, pinned' \in BOOLEAN,
         UNCHANGED <<loaded, vaddr, reg, clash, landed>>
  PROVE  LedInv'
<1>i. ShapeInv /\ UseInv /\ OwnInv
  BY DEF LedInv
<1>1. app'[p] = a /\ \A q \in Procs : q # p => app'[q] = app[q]
  BY <1>i DEF ShapeInv
<1>2. Needs(a.at) = "none" /\ a.at \notin {"open5", "write3"}
  BY DEF Needs
<1>3. ShapeInv'
  BY <1>i DEF ShapeInv, Places
<1>4. UseInv'
  BY <1>i, <1>1 DEF UseInv
<1>5. OwnInv'
  BY <1>i, <1>1, <1>2 DEF OwnInv
<1>6. QED
  BY <1>3, <1>4, <1>5 DEF LedInv

LEMMA IdleType == Idle \in [at : {"idle", "open1"}, want : {0, 1}, tmp : Words, own : Mappings]
                  /\ Idle.at = "idle"
BY DEF Idle, Word, Words, Regs, Mappings

LEMMA DieStep ==
  ASSUME LedInv, NEW p \in Procs, Die(p)
  PROVE  LedInv'
<1>1. pinned' \in BOOLEAN
  BY DEF Die, LedInv, ShapeInv
<1>2. QED
  BY <1>1, IdleType, OutsideStep DEF Die

\* A readl of the register the call has mapped.
LEMMA LoadStep ==
  ASSUME LedInv, NEW p \in Procs, NEW from \in Places, NEW to \in Places,
         Load(p, from, to), Needs(from) \in Regs, Needs(to) \in {"none", Needs(from)},
         to = "open5" => from = "open4", to = "write3" => from = "write2", to # "idle"
  PROVE  LedInv'
<1>i. ShapeInv /\ UseInv /\ OwnInv
  BY DEF LedInv
<1>1. CASE Die(p)
  BY <1>1, DieStep
<1>2. CASE ~Die(p)
  <2>1. PICK r \in {app[p].own, vaddr} :
          /\ r # "NULL"
          /\ app' = [app EXCEPT ![p] = [@ EXCEPT !.at = to, !.tmp = reg[r]]]
          /\ UNCHANGED <<loaded, pinned, vaddr, reg, clash, landed>>
    BY <1>2 DEF Load
  <2>2. app[p].at = from
    BY DEF Load
  <2>3. r \in Regs /\ reg[r] \in Words
    BY <1>i, <2>1 DEF ShapeInv, Mappings
  <2>4. /\ app'[p].at = to /\ app'[p].tmp = reg[r] /\ app'[p].own = app[p].own
        /\ \A q \in Procs : q # p => app'[q] = app[q]
    BY <1>i, <2>1 DEF ShapeInv
  <2>5. ShapeInv'
    BY <1>i, <2>1, <2>3 DEF ShapeInv
  <2>6. UseInv'
    BY <1>i, <2>1, <2>2, <2>4 DEF UseInv, Needs, Regs
  <2>7. OwnInv'
    <3> SUFFICES ASSUME ~clash PROVE OwnInv'
      BY <2>1 DEF OwnInv
    <3>1. r = Needs(from) /\ reg[r].rest = Needs(from)
      BY <1>i, <2>1, <2>2, <2>3 DEF OwnInv, Regs
    <3>2. Needs("open4") = "DDR" /\ Needs("write2") = "DR"
      BY DEF Needs
    <3>3. QED
      BY <1>i, <2>1, <2>2, <2>4, <3>1, <3>2 DEF OwnInv, Regs
  <2>8. QED
    BY <2>5, <2>6, <2>7 DEF LedInv
<1>3. QED
  BY <1>1, <1>2

\* A writel of a word of the register the call has mapped.
LEMMA StoreStep ==
  ASSUME LedInv, NEW p \in Procs, NEW w \in Words, NEW from \in Places, NEW to \in Places,
         NEW value, Store(p, w, from, to, value),
         from # "idle", Needs(from) \in Regs, Needs(to) = "none",
         ~clash => w.rest = Needs(from),
         value = IF Needs(from) = "DR" THEN w.bit ELSE landed
  PROVE  LedInv'
<1>i. ShapeInv /\ UseInv /\ OwnInv
  BY DEF LedInv
<1>1. CASE Die(p)
  BY <1>1, DieStep
<1>2. CASE ~Die(p)
  <2>1. /\ app[p].at = from /\ vaddr # "NULL"
        /\ reg' = [reg EXCEPT ![vaddr] = w]
        /\ landed' = value
        /\ app' = [app EXCEPT ![p] = [@ EXCEPT !.at = to]]
        /\ UNCHANGED <<loaded, pinned, vaddr, clash>>
    BY <1>2 DEF Store, Goto
  <2>2. /\ app'[p].at = to /\ vaddr \in Regs
        /\ \A q \in Procs : q # p => app'[q] = app[q]
    BY <1>i, <2>1 DEF ShapeInv, Mappings
  <2>3. ShapeInv'
    BY <1>i, <2>1 DEF ShapeInv
  <2>4. UseInv'
    BY <1>i, <2>1, <2>2 DEF UseInv
  <2>5. OwnInv'
    <3> SUFFICES ASSUME ~clash PROVE OwnInv'
      BY <2>1 DEF OwnInv
    <3>1. vaddr = Needs(from) /\ w.rest = vaddr
      BY <1>i, <2>1, <2>2 DEF OwnInv, Regs
    <3>2. \A r \in Regs : reg'[r] = IF r = vaddr THEN w ELSE reg[r]
      BY <1>i, <2>1 DEF ShapeInv
    <3>3. (\A r \in Regs : reg'[r].rest = r) /\ reg'["DR"].bit = landed'
      BY <1>i, <2>1, <3>1, <3>2 DEF OwnInv, Regs
    <3>4. to \notin {"open5", "write3"}
      BY DEF Needs
    <3>5. QED
      BY <1>i, <2>1, <2>2, <3>3, <3>4 DEF OwnInv
  <2>6. QED
    BY <2>3, <2>4, <2>5 DEF LedInv
<1>3. QED
  BY <1>1, <1>2

-----------------------------------------------------------------------------
(* The calls.                                                               *)

LEMMA OpenStep ==
  ASSUME LedInv, NEW p \in Procs, LedOpen(p)
  PROVE  LedInv'
<1> USE DEF Needs, Regs, Places
<1>i. ShapeInv /\ OwnInv /\ app[p].tmp \in Words
  BY DEF LedInv, ShapeInv
<1>1. CASE Map(p, "PAD", "open1", "open2") \/ Map(p, "DDR", "open3", "open4")
  BY <1>1, MapStep
<1>2. CASE Load(p, "open4", "open5")
  BY <1>2, LoadStep
<1>3. CASE Store(p, Word("PAD", 0), "open2", "open3", landed)
  <2>1. Word("PAD", 0) \in Words /\ Word("PAD", 0).rest = "PAD"
    BY DEF Word, Words
  <2>2. QED
    BY <1>3, <2>1, StoreStep
<1>4. CASE Store(p, [app[p].tmp EXCEPT !.bit = 1], "open5", "read1", landed)
  <2> DEFINE w == [app[p].tmp EXCEPT !.bit = 1]
  <2>1. w \in Words /\ w.rest = app[p].tmp.rest
    BY <1>i DEF Words
  <2>2. ~clash => w.rest = "DDR"
    BY <1>i, <1>4, <2>1 DEF OwnInv, Store
  <2> HIDE DEF w
  <2>3. Store(p, w, "open5", "read1", landed)
    BY <1>4 DEF w
  <2>4. QED
    BY <2>1, <2>2, <2>3, StoreStep
<1>5. QED
  BY <1>1, <1>2, <1>3, <1>4 DEF LedOpen

LEMMA ReadStep ==
  ASSUME LedInv, NEW p \in Procs, LedRead(p)
  PROVE  LedInv'
<1> USE DEF Needs, Regs, Places
<1>1. CASE Map(p, "DR", "read1", "read2")
  BY <1>1, MapStep
<1>2. CASE Load(p, "read2", "write1")
  BY <1>2, LoadStep
<1>3. QED
  BY <1>1, <1>2 DEF LedRead

LEMMA WriteStep ==
  ASSUME LedInv, NEW p \in Procs, LedWrite(p)
  PROVE  LedInv'
<1> USE DEF Needs, Regs, Places
<1>i. ShapeInv /\ OwnInv /\ app[p].tmp \in Words /\ app[p].want \in {0, 1}
  BY DEF LedInv, ShapeInv
<1>1. CASE Map(p, "DR", "write1", "write2")
  BY <1>1, MapStep
<1>2. CASE Load(p, "write2", "write3")
  BY <1>2, LoadStep
<1>3. CASE Store(p, [app[p].tmp EXCEPT !.bit = app[p].want], "write3", "close", app[p].want)
  <2> DEFINE w == [app[p].tmp EXCEPT !.bit = app[p].want]
  <2>1. w \in Words /\ w.rest = app[p].tmp.rest /\ w.bit = app[p].want
    BY <1>i DEF Words
  <2>2. ~clash => w.rest = "DR"
    BY <1>i, <1>3, <2>1 DEF OwnInv, Store
  <2> HIDE DEF w
  <2>3. Store(p, w, "write3", "close", w.bit)
    BY <1>3, <2>1 DEF w
  <2>4. QED
    BY <2>1, <2>2, <2>3, StoreStep
<1>4. QED
  BY <1>1, <1>2, <1>3 DEF LedWrite

LEMMA StartOrClose ==
  ASSUME LedInv, NEW p \in Procs, Start(p) \/ LedClose(p)
  PROVE  LedInv'
<1>0. pinned' \in BOOLEAN
  BY DEF LedInv, ShapeInv, Start, LedClose
<1>1. CASE LedClose(p)
  BY <1>0, <1>1, IdleType, OutsideStep DEF LedClose
<1>2. CASE Start(p)
  <2>1. PICK v \in {0, 1} : app' = [app EXCEPT ![p] = [Idle EXCEPT !.at = "open1", !.want = v]]
    BY <1>2 DEF Start
  <2>2. [Idle EXCEPT !.at = "open1", !.want = v]
          \in [at : {"idle", "open1"}, want : {0, 1}, tmp : Words, own : Mappings]
    BY IdleType
  <2>3. loaded /\ UNCHANGED <<loaded, vaddr, reg, clash, landed>>
    BY <1>2 DEF Start
  <2>4. QED
    BY <1>0, <2>1, <2>2, <2>3, OutsideStep
<1>3. QED
  BY <1>1, <1>2

\* Loading and unloading meet no process in the driver.
LEMMA ModuleStep ==
  ASSUME LedInv, LedDrvInit \/ LedDrvExit
  PROVE  LedInv'
<1>i. ShapeInv /\ UseInv /\ OwnInv
  BY DEF LedInv
<1>1. UNCHANGED <<app, reg, clash, landed, pinned>> /\ vaddr' \in {vaddr, "NULL"} /\ loaded' \in BOOLEAN
  BY DEF LedDrvInit, LedDrvExit
<1>2. \A p \in Procs : app[p].at = "idle"
  BY <1>i DEF UseInv, LedDrvInit, LedDrvExit
<1>3. ShapeInv'
  BY <1>i, <1>1 DEF ShapeInv, Mappings
<1>4. UseInv'
  BY <1>1, <1>2 DEF UseInv
<1>5. OwnInv'
  BY <1>i, <1>1, <1>2 DEF OwnInv, Needs
<1>6. QED
  BY <1>3, <1>4, <1>5 DEF LedInv

LEMMA LedNextPreserves == LedInv /\ [LedDevNext]_ledVars => LedInv'
<1> SUFFICES ASSUME LedInv, [LedDevNext]_ledVars PROVE LedInv'
  OBVIOUS
<1>1. CASE LedDevNext
  BY <1>1, OpenStep, ReadStep, WriteStep, StartOrClose, ModuleStep DEF LedDevNext
<1>2. CASE UNCHANGED ledVars
  BY <1>2 DEF LedInv, ShapeInv, UseInv, OwnInv, ledVars
<1>3. QED
  BY <1>1, <1>2

LEMMA LedInvariant == LedDevSpec => []LedInv
  BY LedInitHolds, LedNextPreserves, PTL DEF LedDevSpec

-----------------------------------------------------------------------------
(* The counters and the histories.                                          *)

\* A loaded module with a mapping in vaddr has at least that one to undo.
CountInv ==
  /\ maps \in Nat /\ (loaded /\ vaddr # "NULL" => maps >= 1)
  /\ runs \in 0..MaxRuns /\ loads \in 0..MaxLoads
  /\ landed \in {0, 1} /\ faults \in 0..MaxFaults

LEMMA CountStep == LedInv /\ CountInv /\ [LedDevNext]_ledVars => CountInv'
<1> USE LedDevAssumption DEF LedDevAssumption
<1> SUFFICES ASSUME LedInv, CountInv, [LedDevNext]_ledVars PROVE CountInv'
  OBVIOUS
<1> USE DEF CountInv
<1>d. ASSUME NEW p \in Procs, Die(p) PROVE CountInv'
  BY <1>d DEF Die
<1>1. ASSUME NEW p \in Procs, NEW r \in Regs, NEW from \in Places, NEW to \in Places,
             Map(p, r, from, to)
      PROVE  CountInv'
  BY <1>1 DEF Map
<1>2. ASSUME NEW p \in Procs, NEW from \in Places, NEW to \in Places, Load(p, from, to)
      PROVE  CountInv'
  BY <1>2, <1>d DEF Load
<1>3. ASSUME NEW p \in Procs, NEW w, NEW from \in Places, NEW to \in Places,
             NEW value \in {landed, app[p].want}, Store(p, w, from, to, value)
      PROVE  CountInv'
  <2>1. app[p].want \in {0, 1}
    BY DEF LedInv, ShapeInv
  <2>2. QED
    BY <1>3, <1>d, <2>1 DEF Store
<1>4. CASE \E p \in Procs : Start(p) \/ LedClose(p)
  BY <1>4 DEF Start, LedClose
<1>5. CASE LedDrvInit \/ LedDrvExit
  BY <1>5 DEF LedDrvInit, LedDrvExit
<1>6. CASE UNCHANGED ledVars
  BY <1>6 DEF ledVars
<1>7. ASSUME NEW p \in Procs, LedOpen(p) \/ LedRead(p) \/ LedWrite(p)
      PROVE  CountInv'
  BY <1>1, <1>2, <1>3, <1>7 DEF LedOpen, LedRead, LedWrite, Places, Regs
<1>8. QED
  BY <1>4, <1>5, <1>6, <1>7 DEF LedDevNext

\* Every variable has its type; of the mappings this says that iounmap undoes one
\* that was made, although vaddr names only the last of them.
THEOREM LedTypeCorrect == LedDevSpec => []LedDevTypeOK
<1>1. LedDevInit => CountInv
  BY LedDevAssumption DEF LedDevAssumption, LedDevInit, CountInv
<1>2. LedInv /\ CountInv => LedDevTypeOK
  BY DEF LedInv, ShapeInv, CountInv, LedDevTypeOK, Places, Mappings
<1>3. QED
  BY <1>1, <1>2, LedInvariant, CountStep, PTL DEF LedDevSpec

-----------------------------------------------------------------------------
\* For any number of processes and reloads, no register gets another one's word
\* unless one call moved vaddr while another one needed it.
THEOREM LedRegistersKept == LedDevSpec => []RegistersKept
<1>1. LedInv => RegistersKept
  BY DEF LedInv, OwnInv, RegistersKept
<1>2. QED
  BY <1>1, LedInvariant, PTL

\* Under the same condition the LED is what was written last: also two writers
\* that interleave their readl and writel leave it on the later one's value.
THEOREM LedShowsWhatWasWritten == LedDevSpec => []LedShowsLastWrite
<1>1. LedInv => LedShowsLastWrite
  BY DEF LedInv, OwnInv, LedShowsLastWrite
<1>2. QED
  BY <1>1, LedInvariant, PTL

\* For any number of processes, reloads and failing ioremaps, a call that goes
\* through NULL got it from its own ioremap, unless a call moved vaddr while it
\* was needed, and the module is there.
THEOREM LedMappedWhenUsed == LedDevSpec => []MappedWhenUsed
<1>1. LedInv => MappedWhenUsed
  <2> SUFFICES ASSUME LedInv, NEW p \in Procs, Needs(app[p].at) # "none"
               PROVE  loaded /\ (vaddr = "NULL" => clash \/ app[p].own = "NULL")
    BY DEF MappedWhenUsed
  <2>1. app[p].at # "idle"
    BY DEF Needs
  <2>2. Needs(app[p].at) # "NULL"
    BY DEF Needs
  <2>3. QED
    BY <2>1, <2>2 DEF LedInv, UseInv, OwnInv
<1>2. QED
  BY <1>1, LedInvariant, PTL
=============================================================================
