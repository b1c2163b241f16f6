------------------------------ MODULE PinProofs ------------------------------
(***************************************************************************)
(* Proofs about the set-up of pins.                                        *)
(*                                                                         *)
(* PadMode, for every set of addresses: although its masks fit no page,    *)
(* gpio_mode never changes a byte it was not asked to change, and refuses  *)
(* no word register.                                                       *)
(*                                                                         *)
(* GpioSysfs, for every set of processes and programs: a set-up that got   *)
(* through holds, and no edge is lost or invented.                         *)
(***************************************************************************)
EXTENDS PadMode, GpioSysfs, TLAPS

-----------------------------------------------------------------------------
(* PadMode.                                                                 *)

\* The bytes the address and the type of the call name.
Bytes == {target + k : k \in 0..width - 1}

\* What a call keeps: the target is fixed once it has begun, nothing is stored
\* before the store, and only a call that stored everything returns 0.
PadInv ==
  /\ target \in Int
  /\ pc \in {"call", "open", "mmap", "store", "munmap", "close", "done"}
  /\ stored \in {{}, Bytes}
  /\ pc \in {"call", "open", "mmap", "store"} => stored = {} /\ ~failed
  /\ pc \in {"munmap", "close"} => stored = Bytes /\ ~failed
  /\ failed \in BOOLEAN
  /\ width \in Nat \ {0}
  /\ pc = "done" /\ ~failed =>
       \/ Base(target) % Page # 0
       \/ ret = 0 /\ stored = Bytes /\ ~fd

-----------------------------------------------------------------------------
(* The two masks.                                                           *)

\* Page and offset always add up to the address.
LEMMA PageAndOffset ==
  ASSUME NEW t \in Int
  PROVE  Base(t) \in Int /\ Offset(t) \in Int /\ Base(t) + Offset(t) = t
<1>1. t % Page \in Int /\ Bit1(t) \in Int
  BY DEF Page, Bit1
<1>2. QED
  BY <1>1 DEF Base, Offset

\* The page of a word register is on a page border.
LEMMA WordOnBorder ==
  ASSUME NEW t \in Int, t % 4 = 0
  PROVE  Base(t) % Page = 0
<1>1. Bit1(t) = 0
  BY DEF Bit1
<1>2. (t - (t % Page)) % Page = 0
  BY DEF Page
<1>3. QED
  BY <1>1, <1>2 DEF Base, Page

-----------------------------------------------------------------------------
LEMMA PadInitHolds == PadInit => PadInv
<1> SUFFICES ASSUME PadInit PROVE PadInv
  OBVIOUS
<1>1. ~failed /\ failed \in BOOLEAN
  BY DEF PadInit
<1>2. pc = "call" /\ target \in Int /\ width \in Nat \ {0} /\ stored = {}
  BY DEF PadInit
<1>3. QED
  BY <1>1, <1>2 DEF PadInv

LEMMA PadNextPreserves ==
  ASSUME Targets \subseteq Int, PadInv, [PadNext]_padVars
  PROVE  PadInv'
<1>b. UNCHANGED <<target, width>> => Bytes' = Bytes
  BY DEF Bytes
<1>1. CASE GpioMode
  BY <1>1 DEF PadInv, GpioMode, Widths
<1>2. CASE OpenMem
  <2>1. CASE pc' = "mmap" /\ fd' = TRUE /\ UNCHANGED <<ret, failed>>
    BY <1>b, <1>2, <2>1 DEF PadInv, OpenMem
  <2>2. CASE Return(-1) /\ failed' = TRUE /\ UNCHANGED fd
    <3>1. failed' /\ failed' \in BOOLEAN /\ pc' = "done"
      BY <2>2 DEF Return
    <3>2. QED
      BY <1>b, <1>2, <3>1 DEF PadInv, OpenMem
  <2>3. QED
    BY <1>2, <2>1, <2>2 DEF OpenMem
<1>3. CASE Mmap
  <2>1. CASE Base(target) % Page = 0 /\ pc' = "store" /\ UNCHANGED <<ret, failed>>
    BY <1>b, <1>3, <2>1 DEF PadInv, Mmap
  <2>2. CASE Return(-1) /\ failed' = (Base(target) % Page = 0)
    <3>1. failed' \in BOOLEAN /\ (~failed' => Base(target) % Page # 0)
      BY <2>2
    <3>2. QED
      BY <1>b, <1>3, <2>2, <3>1 DEF PadInv, Mmap, Return
  <2>3. QED
    BY <1>3, <2>1, <2>2 DEF Mmap
<1>4. CASE Store
  <2>1. Base(target) \in Int /\ Offset(target) \in Int /\ Base(target) + Offset(target) = target
    BY PageAndOffset DEF PadInv
  <2>2. stored' = Bytes
    BY <1>4, <2>1 DEF Store, Bytes
  <2>3. QED
    BY <1>b, <1>4, <2>2 DEF PadInv, Store
<1>5. CASE Munmap
  <2>1. CASE pc' = "close" /\ UNCHANGED <<ret, failed>>
    BY <1>b, <1>5, <2>1 DEF PadInv, Munmap
  <2>2. CASE Return(-1) /\ failed' = TRUE
    <3>1. failed' /\ failed' \in BOOLEAN /\ pc' = "done"
      BY <2>2 DEF Return
    <3>2. QED
      BY <1>b, <1>5, <3>1 DEF PadInv, Munmap
  <2>3. QED
    BY <1>5, <2>1, <2>2 DEF Munmap
<1>6. CASE CloseMem
  BY <1>b, <1>6 DEF PadInv, CloseMem, Return
<1>7. CASE UNCHANGED padVars
  BY <1>b, <1>7 DEF PadInv, padVars
<1>8. QED
  BY <1>1, <1>2, <1>3, <1>4, <1>5, <1>6, <1>7 DEF PadNext

LEMMA PadInvariant ==
  ASSUME Targets \subseteq Int
  PROVE  PadSpec => []PadInv
<1>1. PadInv /\ [PadNext]_padVars => PadInv'
  BY PadNextPreserves
<1>2. QED
  BY <1>1, PadInitHolds, PTL DEF PadSpec

\* For every set of addresses, gpio_mode changes no byte but those its address
\* and type name.
THEOREM PadStoresExactly ==
  ASSUME Targets \subseteq Int
  PROVE  PadSpec => []StoresExactly
<1>1. PadInv => StoresExactly
  BY DEF PadInv, StoresExactly, Bytes
<1>2. QED
  BY <1>1, PadInvariant, PTL

\* For every set of addresses, a word register is set unless a system call fails
\* by itself: the defect of the masks spares all registers the programs use.
THEOREM PadWordsWork ==
  ASSUME Targets \subseteq Int
  PROVE  PadSpec => []WordsWork
<1>1. PadInv => WordsWork
  <2> SUFFICES ASSUME PadInv, pc = "done", target % 4 = 0, ~failed
               PROVE  ret = 0 /\ stored # {} /\ ~fd
    BY DEF WordsWork
  <2>1. target \in Int /\ 0 \in 0..width - 1
    BY DEF PadInv
  <2>2. Base(target) % Page = 0
    BY <2>1, WordOnBorder
  <2>3. target + 0 \in {target + k : k \in 0..width - 1}
    BY <2>1
  <2>4. QED
    BY <2>2, <2>3 DEF PadInv, Bytes
<1>2. QED
  BY <1>1, PadInvariant, PTL

-----------------------------------------------------------------------------
(* GpioSysfs: the scripts.                                                  *)

\* The one value any script writes to an attribute of a pin.
EdgeOf(n) == IF n \in {433, 435} THEN "falling" ELSE IF n = 437 THEN "both" ELSE "none"
DirectionOf(n) == IF n \in {433, 435, 437} THEN "in" ELSE "out"

\* Call i of a script has one of its kind, for the same pin, before or after it.
Earlier(s, i, op) == \E j \in 1..(i - 1) : s[j].op = op /\ s[j].pin = s[i].pin
Later(s, i, op) == \E j \in (i + 1)..Len(s) : s[j].op = op /\ s[j].pin = s[i].pin

\* What the set-up rests on: an access is followed by its export, every pin is
\* exported somewhere, the scripts agree on what they write, and a value file is
\* opened when its pin is configured and read afterwards.
Paired(s, i) ==
  s[i].op = "access" => /\ i + 1 \in 1..Len(s)
                        /\ s[i + 1].op = "export" /\ s[i + 1].pin = s[i].pin
Exports(s, i) == \E j \in 1..Len(s) : s[j].op = "export" /\ s[j].pin = s[i].pin
Agrees(s, i) ==
  /\ s[i].op = "edge" => s[i].val = EdgeOf(s[i].pin)
  /\ s[i].op = "direction" => s[i].val = DirectionOf(s[i].pin)
Configured(s, i) ==
  s[i].op = "open" =>
    /\ EdgeOf(s[i].pin) # "none" /\ DirectionOf(s[i].pin) = "in"
    /\ Earlier(s, i, "export") /\ Earlier(s, i, "edge") /\ Earlier(s, i, "direction")
    /\ Later(s, i, "read")

\* What a script is, for the proofs below.
CallSet == [op : {"access", "export", "edge", "direction", "open", "read"}, pin : Int,
            val : {"nil", "none", "falling", "both", "in", "out"}]
ScriptOK(s) ==
  /\ s \in Seq(CallSet)
  /\ \A i \in 1..Len(s) : Paired(s, i) /\ Exports(s, i) /\ Agrees(s, i) /\ Configured(s, i)

-----------------------------------------------------------------------------
(* The three scripts are of that form.                                      *)

LEMMA KeyScriptOK == ScriptOK(KeyScript)
<1> DEFINE s == KeyScript
<1>1. GpioGet(4, 1) = 433 /\ GpioGet(4, 3) = 435
  BY DEF GpioGet
<1>2. /\ Len(s) = 12
      /\ s[1] = Access(433) /\ s[2] = Export(433) /\ s[3] = Access(435) /\ s[4] = Export(435)
      /\ s[5] = SetEdge(433, "falling") /\ s[6] = SetDirection(433, "in") /\ s[7] = Open(433)
      /\ s[8] = SetEdge(435, "falling") /\ s[9] = SetDirection(435, "in") /\ s[10] = Open(435)
      /\ s[11] = FirstRead(433) /\ s[12] = FirstRead(435)
  BY <1>1 DEF KeyScript
<1>3. s \in Seq(CallSet)
  BY <1>1 DEF KeyScript, Access, Export, SetEdge, SetDirection, Open, FirstRead, Call, CallSet
<1> HIDE DEF s
<1>4. /\ s[1].op = "access" /\ s[2].op = "export" /\ s[3].op = "access" /\ s[4].op = "export"
      /\ s[5].op = "edge" /\ s[6].op = "direction" /\ s[7].op = "open"
      /\ s[8].op = "edge" /\ s[9].op = "direction" /\ s[10].op = "open"
      /\ s[11].op = "read" /\ s[12].op = "read"
      /\ \A i \in {1, 2, 5, 6, 7, 11} : s[i].pin = 433
      /\ \A i \in {3, 4, 8, 9, 10, 12} : s[i].pin = 435
      /\ \A i \in {5, 8} : s[i].val = "falling"
      /\ \A i \in {6, 9} : s[i].val = "in"
  BY <1>2 DEF Access, Export, SetEdge, SetDirection, Open, FirstRead, Call
<1>5. ASSUME NEW i \in 1..12 PROVE Paired(s, i) /\ Agrees(s, i)
  BY <1>2, <1>4 DEF Paired, Agrees, EdgeOf, DirectionOf
<1>6. ASSUME NEW i \in 1..12 PROVE Exports(s, i)
  BY <1>2, <1>4 DEF Exports
<1>7. ASSUME NEW i \in 1..12 PROVE Configured(s, i)
  <2>1. s[i].op = "open" => i \in {7, 10}
    BY <1>4
  <2>2. /\ {1, 2, 3, 4, 5, 6} \subseteq 1..(7 - 1) /\ {8, 9, 4} \subseteq 1..(10 - 1)
          /\ 11 \in (7 + 1)..12 /\ 12 \in (10 + 1)..12
    OBVIOUS
  <2>3. CASE i = 7
    BY <1>2, <1>4, <2>2, <2>3 DEF Configured, Earlier, Later, EdgeOf, DirectionOf
  <2>4. CASE i = 10
    BY <1>2, <1>4, <2>2, <2>4 DEF Configured, Earlier, Later, EdgeOf, DirectionOf
  <2>5. QED
    BY <2>1, <2>3, <2>4 DEF Configured
<1>8. QED
  BY <1>2, <1>3, <1>5, <1>6, <1>7 DEF ScriptOK, s

LEMMA UltrasonicScriptOK == ScriptOK(UltrasonicScript)
<1> DEFINE s == UltrasonicScript
<1>1. GpioGet(4, 4) = 436 /\ GpioGet(4, 5) = 437
  BY DEF GpioGet
<1>2. /\ Len(s) = 10
      /\ s[1] = Access(436) /\ s[2] = Export(436) /\ s[3] = Access(437) /\ s[4] = Export(437)
      /\ s[5] = SetEdge(436, "none") /\ s[6] = SetDirection(436, "out")
      /\ s[7] = SetEdge(437, "both") /\ s[8] = SetDirection(437, "in")
      /\ s[9] = Open(437) /\ s[10] = FirstRead(437)
  BY <1>1 DEF UltrasonicScript
<1>3. s \in Seq(CallSet)
  BY <1>1 DEF UltrasonicScript, Access, Export, SetEdge, SetDirection, Open, FirstRead, Call, CallSet
<1> HIDE DEF s
<1>4. /\ s[1].op = "access" /\ s[2].op = "export" /\ s[3].op = "access" /\ s[4].op = "export"
      /\ s[5].op = "edge" /\ s[6].op = "direction" /\ s[7].op = "edge" /\ s[8].op = "direction"
      /\ s[9].op = "open" /\ s[10].op = "read"
      /\ \A i \in {1, 2, 5, 6} : s[i].pin = 436
      /\ \A i \in {3, 4, 7, 8, 9, 10} : s[i].pin = 437
      /\ s[5].val = "none" /\ s[6].val = "out" /\ s[7].val = "both" /\ s[8].val = "in"
  BY <1>2 DEF Access, Export, SetEdge, SetDirection, Open, FirstRead, Call
<1>5. ASSUME NEW i \in 1..10 PROVE Paired(s, i) /\ Agrees(s, i)
  BY <1>2, <1>4 DEF Paired, Agrees, EdgeOf, DirectionOf
<1>6. ASSUME NEW i \in 1..10 PROVE Exports(s, i)
  BY <1>2, <1>4 DEF Exports
<1>7. ASSUME NEW i \in 1..10 PROVE Configured(s, i)
  <2>1. s[i].op = "open" => i = 9
    BY <1>4
  <2>2. {4, 7, 8} \subseteq 1..(9 - 1) /\ 10 \in (9 + 1)..10
    OBVIOUS
  <2>3. CASE i = 9
    BY <1>2, <1>4, <2>2, <2>3 DEF Configured, Earlier, Later, EdgeOf, DirectionOf
  <2>4. QED
    BY <2>1, <2>3 DEF Configured
<1>8. QED
  BY <1>2, <1>3, <1>5, <1>6, <1>7 DEF ScriptOK, s

LEMMA MotorScriptOK == ScriptOK(MotorScript)
<1> DEFINE s == MotorScript
<1>1. GpioGet(4, 11) = 443 /\ GpioGet(5, 12) = 428 /\ GpioGet(5, 13) = 429 /\ GpioGet(5, 14) = 430
  BY DEF GpioGet
<1>2. /\ Len(s) = 16
      /\ s[1] = Access(443) /\ s[2] = Export(443) /\ s[3] = Access(428) /\ s[4] = Export(428)
      /\ s[5] = Access(429) /\ s[6] = Export(429) /\ s[7] = Access(430) /\ s[8] = Export(430)
      /\ s[9] = SetEdge(443, "none") /\ s[10] = SetDirection(443, "out")
      /\ s[11] = SetEdge(428, "none") /\ s[12] = SetDirection(428, "out")
      /\ s[13] = SetEdge(429, "none") /\ s[14] = SetDirection(429, "out")
      /\ s[15] = SetEdge(430, "none") /\ s[16] = SetDirection(430, "out")
  BY <1>1 DEF MotorScript
<1>3. s \in Seq(CallSet)
  BY <1>1 DEF MotorScript, Access, Export, SetEdge, SetDirection, Call, CallSet
<1> HIDE DEF s
<1>4. /\ \A i \in {1, 3, 5, 7} : s[i].op = "access"
      /\ \A i \in {2, 4, 6, 8} : s[i].op = "export"
      /\ \A i \in {9, 11, 13, 15} : s[i].op = "edge" /\ s[i].val = "none"
      /\ \A i \in {10, 12, 14, 16} : s[i].op = "direction" /\ s[i].val = "out"
      /\ \A i \in {1, 2, 9, 10} : s[i].pin = 443
      /\ \A i \in {3, 4, 11, 12} : s[i].pin = 428
      /\ \A i \in {5, 6, 13, 14} : s[i].pin = 429
      /\ \A i \in {7, 8, 15, 16} : s[i].pin = 430
  BY <1>2 DEF Access, Export, SetEdge, SetDirection, Call
<1>5. ASSUME NEW i \in 1..16 PROVE Paired(s, i) /\ Agrees(s, i) /\ Configured(s, i)
  <2>1. Paired(s, i)
    BY <1>2, <1>4 DEF Paired
  <2>2. Agrees(s, i) /\ Configured(s, i)
    BY <1>4 DEF Agrees, Configured, EdgeOf, DirectionOf
  <2>3. QED
    BY <2>1, <2>2
<1>6. ASSUME NEW i \in 1..16 PROVE Exports(s, i)
  BY <1>2, <1>4 DEF Exports
<1>7. QED
  BY <1>2, <1>3, <1>5, <1>6 DEF ScriptOK, s

LEMMA ScriptsOK ==
  ASSUME NEW prog \in Programs
  PROVE  ScriptOK(Scripts[prog])
<1>1. Scripts[prog] \in {KeyScript, UltrasonicScript, MotorScript}
  BY DEF Scripts
<1>2. QED
  BY <1>1, KeyScriptOK, UltrasonicScriptOK, MotorScriptOK

-----------------------------------------------------------------------------
(* GpioSysfs: the invariant.                                                *)

\* What a call has achieved once it is over.
Done(c) ==
  /\ c.op = "export" => c.pin \in exported
  /\ c.op = "edge" => edge[c.pin] = EdgeOf(c.pin)
  /\ c.op = "direction" => direction[c.pin] = DirectionOf(c.pin)

\* The types of the variables.
GpioTypes ==
  /\ runs \in Mixes /\ runs \in [Procs -> Programs]
  /\ at \in [Procs -> Nat]
  /\ fds \in [Procs -> SUBSET AllPins]
  /\ ready \in [Procs -> SUBSET AllPins]
  /\ revents \in [Procs -> SUBSET AllPins]
  /\ due \in [Procs -> SUBSET AllPins]
  /\ unread \in [Procs -> SUBSET AllPins]
  /\ exported \subseteq AllPins
  /\ edge \in [AllPins -> {"none", "falling", "both"}]
  /\ direction \in [AllPins -> {"in", "out"}]
  /\ faults \in 0..MaxFaults

\* What p has done stays done.
Progress(p) ==
  /\ at[p] \in 0..Len(Script(p)) + 1
  /\ \A i \in 1..Len(Script(p)) : i < at[p] => Done(Script(p)[i])

\* Files are open for the pins whose open p has passed, every edge is an event,
\* and only a first read that is still to come, or failed, excuses an event that
\* was no edge.
Files(p) ==
  /\ \A n \in fds[p] : \E i \in 1..Len(Script(p)) :
       i < at[p] /\ Script(p)[i].op = "open" /\ Script(p)[i].pin = n
  /\ revents[p] \subseteq ready[p] /\ due[p] \cup unread[p] \subseteq ready[p]
  /\ ready[p] \subseteq fds[p]
  /\ ~Looping(p) => revents[p] = {}
  /\ \A n \in ready[p] \ (due[p] \cup unread[p]) : \E i \in 1..Len(Script(p)) :
       i >= at[p] /\ Script(p)[i].op = "read" /\ Script(p)[i].pin = n

\* The inductive invariant.
GpioInv == GpioTypes /\ \A p \in Procs : Progress(p) /\ Files(p)

LEMMA ScriptFacts ==
  ASSUME NEW prog \in Programs
  PROVE  /\ ScriptOK(Scripts[prog]) /\ Len(Scripts[prog]) \in Nat
         /\ DOMAIN Scripts[prog] = 1..Len(Scripts[prog])
         /\ \A i \in 1..Len(Scripts[prog]) : Scripts[prog][i].pin \in AllPins
<1>1. ScriptOK(Scripts[prog]) /\ Scripts[prog] \in Seq(CallSet)
  BY ScriptsOK DEF ScriptOK
<1>2. Len(Scripts[prog]) \in Nat /\ DOMAIN Scripts[prog] = 1..Len(Scripts[prog])
  BY <1>1
<1>3. ASSUME NEW i \in 1..Len(Scripts[prog]) PROVE Scripts[prog][i].pin \in AllPins
  <2>1. Scripts[prog][i] \in ToSet(Scripts[prog])
    BY <1>2 DEF ToSet
  <2>2. QED
    BY <2>1 DEF AllPins
<1>4. QED
  BY <1>1, <1>2, <1>3

\* What a step leaves to the processes that did not make it.
LEMMA OthersKeep ==
  ASSUME GpioInv, NEW p \in Procs, UNCHANGED <<runs>>,
         \A q \in Procs : q # p => /\ at'[q] = at[q] /\ fds'[q] = fds[q] /\ ready'[q] = ready[q]
                                   /\ revents'[q] = revents[q] /\ due'[q] = due[q]
                                   /\ unread'[q] = unread[q],
         exported \subseteq exported',
         \A n \in AllPins : edge[n] = EdgeOf(n) => edge'[n] = EdgeOf(n),
         \A n \in AllPins : direction[n] = DirectionOf(n) => direction'[n] = DirectionOf(n)
  PROVE  /\ \A q \in Procs : q # p => Progress(q)' /\ Files(q)'
         /\ \A q \in Procs : \A i \in 1..Len(Script(q)) : Done(Script(q)[i]) => Done(Script(q)[i])'
<1>1. \A q \in Procs : Script(q)' = Script(q) /\ runs[q] \in Programs
  BY DEF Script, GpioInv, GpioTypes
<1>2. ASSUME NEW q \in Procs, NEW i \in 1..Len(Script(q)), Done(Script(q)[i]) PROVE Done(Script(q)[i])'
  <2>1. Script(q)[i].pin \in AllPins
    BY <1>1, ScriptFacts DEF Script
  <2>2. QED
    BY <1>1, <1>2, <2>1 DEF Done
<1>3. ASSUME NEW q \in Procs, q # p PROVE Progress(q)'
  BY <1>1, <1>2, <1>3 DEF GpioInv, Progress
<1>4. ASSUME NEW q \in Procs, q # p PROVE Files(q)'
  BY <1>1, <1>4 DEF GpioInv, Files, Looping
<1>5. QED
  BY <1>2, <1>3, <1>4

LEMMA GpioInitHolds == GpioInit => GpioInv
<1> SUFFICES ASSUME GpioInit PROVE GpioInv
  OBVIOUS
<1>1. GpioTypes
  BY GpioAssumption DEF GpioInit, GpioTypes, GpioAssumption
<1>2. ASSUME NEW p \in Procs PROVE Progress(p) /\ Files(p)
  <2>1. Len(Script(p)) \in Nat
    BY <1>1, ScriptFacts DEF GpioTypes, Script
  <2>2. QED
    BY <2>1 DEF GpioInit, Progress, Files
<1>3. QED
  BY <1>1, <1>2 DEF GpioInv

-----------------------------------------------------------------------------
(* One lemma per action.                                                    *)

LEMMA EndStep ==
  ASSUME GpioInv, NEW p \in Procs, End(p), UNCHANGED runs, faults' \in 0..MaxFaults
  PROVE  GpioInv'
<1>1. GpioTypes'
  BY DEF GpioInv, GpioTypes, End
<1>2. \A q \in Procs : q # p => Progress(q)' /\ Files(q)'
  BY OthersKeep DEF End, GpioInv, GpioTypes
<1>3. Len(Script(p)') \in Nat
  BY <1>1, ScriptFacts DEF GpioTypes, Script
<1>4. at'[p] = 0 /\ fds'[p] = {} /\ ready'[p] = {} /\ revents'[p] = {} /\ due'[p] = {}
      /\ unread'[p] = {}
  BY DEF End, GpioInv, GpioTypes
<1>5. Progress(p)'
  BY <1>3, <1>4 DEF Progress
<1>6. Files(p)'
  BY <1>4 DEF Files
<1>7. QED
  BY <1>1, <1>2, <1>5, <1>6 DEF GpioInv

\* A step of p's set-up that goes on with the call after the next k ones.
LEMMA GoOn ==
  ASSUME GpioInv, NEW p \in Procs, NEW k \in {1, 2}, Go(p, at[p] + k), UNCHANGED runs,
         at[p] \in 1..Len(Script(p)), at[p] + k <= Len(Script(p)) + 1,
         \A i \in 1..Len(Script(p)) : Done(Script(p)[i]) => Done(Script(p)[i])',
         \A i \in {at[p], at[p] + k - 1} : Done(Script(p)[i])'
  PROVE  Progress(p)'
<1>1. Script(p)' = Script(p) /\ Len(Script(p)) \in Nat /\ at[p] \in Nat
  BY ScriptFacts DEF Script, GpioInv, GpioTypes
<1>2. at'[p] = at[p] + k
  BY DEF Go, GpioInv, GpioTypes
<1>3. ASSUME NEW i \in 1..Len(Script(p)), i < at[p] + k PROVE Done(Script(p)[i])'
  <2>1. i < at[p] \/ i \in {at[p], at[p] + k - 1}
    BY <1>1, <1>3
  <2>2. QED
    BY <2>1 DEF GpioInv, Progress
<1>4. QED
  BY <1>1, <1>2, <1>3 DEF Progress

\* A step of the set-up that touches no file.
LEMMA FilesGoOn ==
  ASSUME GpioInv, NEW p \in Procs, UNCHANGED <<runs, fds, ready, revents, due, unread>>,
         ~Looping(p), at'[p] \in Nat, at'[p] >= at[p],
         \A i \in 1..Len(Script(p)) : i >= at[p] /\ Script(p)[i].op = "read" => i >= at'[p]
  PROVE  Files(p)'
<1>1. Script(p)' = Script(p) /\ Len(Script(p)) \in Nat /\ at[p] \in Nat /\ Files(p)
  BY ScriptFacts DEF Script, GpioInv, GpioTypes
<1>2. revents'[p] = {}
  BY <1>1 DEF Files
<1>3. ASSUME NEW n \in fds'[p]
      PROVE  \E i \in 1..Len(Script(p)) : i < at'[p] /\ Script(p)[i].op = "open" /\ Script(p)[i].pin = n
  BY <1>1, <1>3 DEF Files
<1>4. ASSUME NEW n \in ready'[p] \ (due'[p] \cup unread'[p])
      PROVE  \E i \in 1..Len(Script(p)) : i >= at'[p] /\ Script(p)[i].op = "read" /\ Script(p)[i].pin = n
  BY <1>1, <1>4 DEF Files
<1>5. QED
  BY <1>1, <1>2, <1>3, <1>4 DEF Files

LEMMA AccessStep ==
  ASSUME GpioInv, NEW p \in Procs, AccessNode(p), UNCHANGED runs
  PROVE  GpioInv'
<1> DEFINE s == Script(p)
           a == at[p]
<1>1. /\ s' = s /\ Len(s) \in Nat /\ a \in 1..Len(s) /\ s[a].op = "access" /\ a \in Nat
      /\ UNCHANGED <<exported, edge, direction, fds, ready, revents, due, unread, faults>>
  BY ScriptFacts DEF Script, GpioInv, GpioTypes, AccessNode, Doing
<1>2. a + 1 \in 1..Len(s) /\ s[a + 1].op = "export" /\ s[a + 1].pin = s[a].pin
  BY <1>1, ScriptFacts DEF ScriptOK, Paired, Script, GpioInv, GpioTypes
<1>3. GpioTypes'
  BY <1>1 DEF GpioInv, GpioTypes, AccessNode, Go
<1>4. /\ \A q \in Procs : q # p => Progress(q)' /\ Files(q)'
      /\ \A q \in Procs : \A i \in 1..Len(Script(q)) : Done(Script(q)[i]) => Done(Script(q)[i])'
  BY <1>1, OthersKeep DEF AccessNode, Go, GpioInv, GpioTypes
<1>5. Progress(p)'
  <2>1. CASE s[a].pin \in exported
    <3>1. Go(p, a + 2)
      BY <2>1 DEF AccessNode, Pin
    <3>2. \A i \in {a, a + 2 - 1} : Done(s[i])'
      <4>1. \A i \in {a, a + 1} : Done(s[i])'
        BY <1>1, <1>2, <2>1 DEF Done
      <4>2. a + 2 - 1 = a + 1
        BY <1>1
      <4>3. QED
        BY <4>1, <4>2
    <3>3. QED
      BY <1>1, <1>2, <1>4, <3>1, <3>2, GoOn
  <2>2. CASE s[a].pin \notin exported
    <3>1. Go(p, a + 1)
      BY <2>2 DEF AccessNode, Pin
    <3>2. \A i \in {a, a + 1 - 1} : Done(s[i])'
      BY <1>1 DEF Done
    <3>3. QED
      BY <1>1, <1>2, <1>4, <3>1, <3>2, GoOn
  <2>3. QED
    BY <2>1, <2>2
<1>6. Files(p)'
  <2>1. at'[p] \in {a + 1, a + 2} /\ ~Looping(p)
    BY <1>1 DEF AccessNode, Go, GpioInv, GpioTypes, Looping
  <2>2. \A i \in 1..Len(s) : i >= a /\ s[i].op = "read" => i >= at'[p]
    BY <1>1, <1>2, <2>1
  <2>3. QED
    BY <1>1, <2>1, <2>2, FilesGoOn
<1>7. QED
  BY <1>3, <1>4, <1>5, <1>6 DEF GpioInv

LEMMA ExportStep ==
  ASSUME GpioInv, NEW p \in Procs, ExportNode(p), UNCHANGED runs
  PROVE  GpioInv'
<1> DEFINE s == Script(p)
           a == at[p]
<1>1. /\ s' = s /\ Len(s) \in Nat /\ a \in 1..Len(s) /\ s[a].op = "export" /\ a \in Nat
      /\ s[a].pin \in AllPins /\ Pin(p) = s[a].pin
  BY ScriptFacts DEF Script, GpioInv, GpioTypes, ExportNode, Doing, Pin
<1>2. CASE End(p) /\ UNCHANGED faults
  BY <1>2, EndStep DEF GpioInv, GpioTypes
<1>3. CASE /\ exported' = exported \cup {Pin(p)} /\ Go(p, a + 1)
           /\ UNCHANGED <<edge, direction, fds, ready, revents, due, unread, faults>>
  <2>1. GpioTypes'
    BY <1>1, <1>3 DEF GpioInv, GpioTypes, Go
  <2>2. /\ \A q \in Procs : q # p => Progress(q)' /\ Files(q)'
        /\ \A q \in Procs : \A i \in 1..Len(Script(q)) : Done(Script(q)[i]) => Done(Script(q)[i])'
    BY <1>3, OthersKeep DEF Go, GpioInv, GpioTypes
  <2>3. Progress(p)'
    <3>1. \A i \in {a, a + 1 - 1} : Done(s[i])'
      BY <1>1, <1>3 DEF Done
    <3>2. QED
      BY <1>1, <1>3, <2>2, <3>1, GoOn
  <2>4. Files(p)'
    <3>1. at'[p] = a + 1 /\ ~Looping(p)
      BY <1>1, <1>3 DEF Go, GpioInv, GpioTypes, Looping
    <3>2. \A i \in 1..Len(s) : i >= a /\ s[i].op = "read" => i >= at'[p]
      BY <1>1, <3>1
    <3>3. QED
      BY <1>1, <1>3, <3>1, <3>2, FilesGoOn
  <2>5. QED
    BY <2>1, <2>2, <2>3, <2>4 DEF GpioInv
<1>4. QED
  BY <1>2, <1>3 DEF ExportNode

LEMMA WriteStep ==
  ASSUME GpioInv, NEW p \in Procs, WriteAttribute(p), UNCHANGED runs
  PROVE  GpioInv'
<1> DEFINE s == Script(p)
           a == at[p]
           c == s[a]
<1>1. /\ s' = s /\ Len(s) \in Nat /\ a \in 1..Len(s) /\ a \in Nat
      /\ c.op \in {"edge", "direction"}
      /\ c.pin \in AllPins /\ Pin(p) = c.pin /\ Val(p) = c.val
  BY ScriptFacts DEF Script, GpioInv, GpioTypes, WriteAttribute, Doing, Pin, Val
<1>2. /\ c.op = "edge" => c.val \in {"none", "falling", "both"} /\ c.val = EdgeOf(c.pin)
      /\ c.op = "direction" => c.val \in {"in", "out"} /\ c.val = DirectionOf(c.pin)
  <2>1. runs[p] \in Programs
    BY DEF GpioInv, GpioTypes
  <2>2. Agrees(s, a)
    BY <1>1, <2>1, ScriptFacts DEF ScriptOK, Script
  <2>3. EdgeOf(c.pin) \in {"none", "falling", "both"} /\ DirectionOf(c.pin) \in {"in", "out"}
    BY DEF EdgeOf, DirectionOf
  <2>4. QED
    BY <2>2, <2>3 DEF Agrees
<1>3. /\ Go(p, a + 1) /\ UNCHANGED <<exported, fds, ready, revents, due, unread, faults>>
      /\ edge' = IF c.op = "edge" THEN [edge EXCEPT ![c.pin] = EdgeOf(c.pin)] ELSE edge
      /\ direction' = IF c.op = "direction" THEN [direction EXCEPT ![c.pin] = DirectionOf(c.pin)]
                      ELSE direction
  BY <1>1, <1>2 DEF WriteAttribute, Doing
<1>4. GpioTypes'
  <2>1. edge' \in [AllPins -> {"none", "falling", "both"}]
    BY <1>1, <1>2, <1>3 DEF GpioInv, GpioTypes
  <2>2. direction' \in [AllPins -> {"in", "out"}]
    BY <1>1, <1>2, <1>3 DEF GpioInv, GpioTypes
  <2>3. QED
    BY <1>1, <1>3, <2>1, <2>2 DEF GpioInv, GpioTypes, Go
<1>5. /\ \A n \in AllPins : edge[n] = EdgeOf(n) => edge'[n] = EdgeOf(n)
      /\ \A n \in AllPins : direction[n] = DirectionOf(n) => direction'[n] = DirectionOf(n)
  BY <1>1, <1>3 DEF GpioInv, GpioTypes
<1>6. /\ \A q \in Procs : q # p => Progress(q)' /\ Files(q)'
      /\ \A q \in Procs : \A i \in 1..Len(Script(q)) : Done(Script(q)[i]) => Done(Script(q)[i])'
  BY <1>3, <1>5, OthersKeep DEF Go, GpioInv, GpioTypes
<1>7. Progress(p)'
  <2>1. \A i \in {a, a + 1 - 1} : Done(s[i])'
    <3>1. /\ c.op # "export"
          /\ c.op = "edge" => edge'[c.pin] = EdgeOf(c.pin)
          /\ c.op = "direction" => direction'[c.pin] = DirectionOf(c.pin)
      BY <1>1, <1>3 DEF GpioInv, GpioTypes
    <3>2. QED
      BY <1>1, <3>1 DEF Done
  <2>2. QED
    BY <1>1, <1>3, <1>6, <2>1, GoOn
<1>8. Files(p)'
  <2>1. at'[p] = a + 1 /\ ~Looping(p)
    BY <1>1, <1>3 DEF Go, GpioInv, GpioTypes, Looping
  <2>2. \A i \in 1..Len(s) : i >= a /\ s[i].op = "read" => i >= at'[p]
    BY <1>1, <2>1
  <2>3. QED
    BY <1>1, <1>3, <2>1, <2>2, FilesGoOn
<1>9. QED
  BY <1>4, <1>6, <1>7, <1>8 DEF GpioInv

LEMMA OpenStep ==
  ASSUME GpioInv, NEW p \in Procs, OpenValue(p), UNCHANGED runs
  PROVE  GpioInv'
<1> DEFINE s == Script(p)
           a == at[p]
           n == s[a].pin
<1>r. runs[p] \in Programs
  BY DEF GpioInv, GpioTypes
<1>1. /\ s' = s /\ Len(s) \in Nat /\ a \in 1..Len(s) /\ a \in Nat
      /\ s[a].op = "open" /\ n \in AllPins /\ Pin(p) = n
  BY <1>r, ScriptFacts DEF Script, GpioInv, GpioTypes, OpenValue, Doing, Pin
<1>2. PICK j \in (a + 1)..Len(s) : s[j].op = "read" /\ s[j].pin = n
  BY <1>r, <1>1, ScriptFacts DEF ScriptOK, Configured, Later, Script
<1>3. /\ Go(p, a + 1) /\ UNCHANGED <<exported, edge, direction, revents, due, unread, faults>>
      /\ fds' = [fds EXCEPT ![p] = @ \cup {n}] /\ ready' = [ready EXCEPT ![p] = @ \cup {n}]
  BY <1>1 DEF OpenValue
<1>4. GpioTypes'
  BY <1>1, <1>3 DEF GpioInv, GpioTypes, Go
<1>5. /\ \A q \in Procs : q # p => Progress(q)' /\ Files(q)'
      /\ \A q \in Procs : \A i \in 1..Len(Script(q)) : Done(Script(q)[i]) => Done(Script(q)[i])'
  BY <1>3, OthersKeep DEF Go, GpioInv, GpioTypes
<1>6. Progress(p)'
  <2>1. \A i \in {a, a + 1 - 1} : Done(s[i])'
    BY <1>1 DEF Done
  <2>2. QED
    BY <1>1, <1>3, <1>5, <2>1, GoOn
<1>7. Files(p)'
  <2>1. /\ at'[p] = a + 1 /\ Files(p) /\ revents'[p] = {} /\ due'[p] = due[p]
        /\ unread'[p] = unread[p]
        /\ fds'[p] = fds[p] \cup {n} /\ ready'[p] = ready[p] \cup {n}
    BY <1>1, <1>3 DEF Go, GpioInv, GpioTypes, Looping, Files
  <2>2. ASSUME NEW k \in fds'[p]
        PROVE  \E i \in 1..Len(s) : i < at'[p] /\ s[i].op = "open" /\ s[i].pin = k
    <3>1. CASE k = n
      BY <1>1, <2>1, <3>1
    <3>2. CASE k \in fds[p]
      <4>1. PICK i \in 1..Len(s) : i < a /\ s[i].op = "open" /\ s[i].pin = k
        BY <2>1, <3>2 DEF Files
      <4>2. i < at'[p]
        BY <1>1, <2>1, <4>1
      <4>3. QED
        BY <4>1, <4>2
    <3>3. QED
      BY <2>1, <2>2, <3>1, <3>2
  <2>3. ASSUME NEW k \in ready'[p] \ (due'[p] \cup unread'[p])
        PROVE  \E i \in 1..Len(s) : i >= at'[p] /\ s[i].op = "read" /\ s[i].pin = k
    <3>1. CASE k = n
      BY <1>1, <1>2, <2>1, <3>1
    <3>2. CASE k \in ready[p] \ (due[p] \cup unread[p])
      <4>1. PICK i \in 1..Len(s) : i >= a /\ s[i].op = "read" /\ s[i].pin = k
        BY <2>1, <3>2 DEF Files
      <4>2. i >= at'[p]
        BY <1>1, <2>1, <4>1
      <4>3. QED
        BY <4>1, <4>2
    <3>3. QED
      BY <2>1, <2>3, <3>1, <3>2
  <2>4. revents'[p] \subseteq ready'[p] /\ due'[p] \cup unread'[p] \subseteq ready'[p]
        /\ ready'[p] \subseteq fds'[p]
    BY <2>1 DEF Files
  <2>5. QED
    BY <1>1, <2>1, <2>2, <2>3, <2>4 DEF Files
<1>8. QED
  BY <1>4, <1>5, <1>6, <1>7 DEF GpioInv

LEMMA ReadStep1 ==
  ASSUME GpioInv, NEW p \in Procs, ReadFirst(p), UNCHANGED runs
  PROVE  GpioInv'
<1> DEFINE s == Script(p)
           a == at[p]
           n == s[a].pin
<1>r. runs[p] \in Programs
  BY DEF GpioInv, GpioTypes
<1>1. /\ s' = s /\ Len(s) \in Nat /\ a \in 1..Len(s) /\ a \in Nat
      /\ s[a].op = "read" /\ n \in AllPins /\ Pin(p) = n
  BY <1>r, ScriptFacts DEF Script, GpioInv, GpioTypes, ReadFirst, Doing, Pin
<1>3. /\ Go(p, a + 1) /\ UNCHANGED <<exported, edge, direction, fds, revents>>
      /\ faults' \in 0..MaxFaults
      /\ \/ /\ due' = [due EXCEPT ![p] = @ \ {n}] /\ ready' = [ready EXCEPT ![p] = @ \ {n}]
            /\ unread' = [unread EXCEPT ![p] = @ \ {n}]
         \/ /\ unread' = [unread EXCEPT ![p] = @ \cup (ready[p] \cap {n})]
            /\ UNCHANGED <<ready, due>>
  <2>1. faults' \in 0..MaxFaults
    BY GpioAssumption DEF ReadFirst, GpioInv, GpioTypes, GpioAssumption
  <2>2. QED
    BY <1>1, <2>1 DEF ReadFirst, TakeEvent
<1>4. GpioTypes'
  <2>1. /\ ready' \in [Procs -> SUBSET AllPins] /\ due' \in [Procs -> SUBSET AllPins]
        /\ unread' \in [Procs -> SUBSET AllPins]
    <3>1. /\ \A A \in [Procs -> SUBSET AllPins] : [A EXCEPT ![p] = @ \ {n}] \in [Procs -> SUBSET AllPins]
          /\ [unread EXCEPT ![p] = @ \cup (ready[p] \cap {n})] \in [Procs -> SUBSET AllPins]
      BY <1>1 DEF GpioInv, GpioTypes
    <3>2. QED
      BY <1>3, <3>1 DEF GpioInv, GpioTypes
  <2>2. QED
    BY <1>1, <1>3, <2>1 DEF GpioInv, GpioTypes, Go
<1>5. /\ \A q \in Procs : q # p => Progress(q)' /\ Files(q)'
      /\ \A q \in Procs : \A i \in 1..Len(Script(q)) : Done(Script(q)[i]) => Done(Script(q)[i])'
  <2>1. \A q \in Procs : q # p => /\ at'[q] = at[q] /\ ready'[q] = ready[q] /\ due'[q] = due[q]
                                  /\ unread'[q] = unread[q]
    BY <1>3 DEF Go, GpioInv, GpioTypes
  <2>2. QED
    BY <1>3, <2>1, OthersKeep
<1>6. Progress(p)'
  <2>1. \A i \in {a, a + 1 - 1} : Done(s[i])'
    BY <1>1 DEF Done
  <2>2. QED
    BY <1>1, <1>3, <1>5, <2>1, GoOn
<1>7. Files(p)'
  <2>1. /\ at'[p] = a + 1 /\ Files(p) /\ revents'[p] = {} /\ fds'[p] = fds[p]
        /\ \/ /\ due'[p] = due[p] \ {n} /\ ready'[p] = ready[p] \ {n}
              /\ unread'[p] = unread[p] \ {n}
           \/ /\ unread'[p] = unread[p] \cup (ready[p] \cap {n})
              /\ due'[p] = due[p] /\ ready'[p] = ready[p]
    BY <1>1, <1>3 DEF Go, GpioInv, GpioTypes, Looping, Files
  <2>2. ASSUME NEW k \in fds'[p]
        PROVE  \E i \in 1..Len(s) : i < at'[p] /\ s[i].op = "open" /\ s[i].pin = k
    <3>1. PICK i \in 1..Len(s) : i < a /\ s[i].op = "open" /\ s[i].pin = k
      BY <2>1, <2>2 DEF Files
    <3>2. i < at'[p]
      BY <1>1, <2>1, <3>1
    <3>3. QED
      BY <3>1, <3>2
  <2>3. ASSUME NEW k \in ready'[p] \ (due'[p] \cup unread'[p])
        PROVE  \E i \in 1..Len(s) : i >= at'[p] /\ s[i].op = "read" /\ s[i].pin = k
    <3>1. k # n /\ k \in ready[p] \ (due[p] \cup unread[p])
      BY <2>1, <2>3
    <3>2. PICK i \in 1..Len(s) : i >= a /\ s[i].op = "read" /\ s[i].pin = k
      BY <2>1, <3>1 DEF Files
    <3>3. i >= at'[p]
      BY <1>1, <2>1, <3>1, <3>2
    <3>4. QED
      BY <3>2, <3>3
  <2>4. revents'[p] \subseteq ready'[p] /\ due'[p] \cup unread'[p] \subseteq ready'[p]
        /\ ready'[p] \subseteq fds'[p]
    BY <2>1 DEF Files
  <2>5. QED
    BY <1>1, <2>1, <2>2, <2>3, <2>4 DEF Files
<1>8. QED
  BY <1>4, <1>5, <1>6, <1>7 DEF GpioInv

LEMMA LoopStep ==
  ASSUME GpioInv, NEW p \in Procs, Poll(p) \/ HandleEvent(p), UNCHANGED runs
  PROVE  GpioInv'
<1>1. PICK n : /\ Looping(p) /\ UNCHANGED <<at, exported, edge, direction, fds>>
               /\ faults' \in 0..MaxFaults
               /\ \/ /\ revents' = [revents EXCEPT ![p] = ready[p]]
                     /\ UNCHANGED <<ready, due, unread>>
                  \/ /\ revents' = [revents EXCEPT ![p] = @ \ {n}]
                     /\ UNCHANGED <<ready, due, unread>>
                  \/ /\ revents' = [revents EXCEPT ![p] = @ \ {n}]
                     /\ ready' = [ready EXCEPT ![p] = @ \ {n}]
                     /\ due' = [due EXCEPT ![p] = @ \ {n}]
                     /\ unread' = [unread EXCEPT ![p] = @ \ {n}]
  <2>1. CASE Poll(p)
    BY <2>1 DEF Poll, GpioInv, GpioTypes
  <2>2. CASE HandleEvent(p)
    <3>1. faults' \in 0..MaxFaults
      BY <2>2, GpioAssumption DEF HandleEvent, GpioInv, GpioTypes, GpioAssumption
    <3>2. QED
      BY <2>2, <3>1 DEF HandleEvent, TakeEvent
  <2>3. QED
    BY <2>1, <2>2
<1>2. GpioTypes'
  BY <1>1 DEF GpioInv, GpioTypes
<1>3. /\ \A q \in Procs : q # p => Progress(q)' /\ Files(q)'
      /\ \A q \in Procs : \A i \in 1..Len(Script(q)) : Done(Script(q)[i]) => Done(Script(q)[i])'
  BY <1>1, OthersKeep DEF GpioInv, GpioTypes
<1>4. Script(p)' = Script(p) /\ Looping(p)' = Looping(p)
  BY <1>1 DEF Script, Looping
<1>5. Progress(p)'
  BY <1>1, <1>3, <1>4 DEF GpioInv, Progress
<1>6. Files(p)'
  <2>1. /\ revents'[p] \subseteq ready'[p] /\ due'[p] \cup unread'[p] \subseteq ready'[p]
        /\ ready'[p] \subseteq fds'[p]
        /\ ready'[p] \ (due'[p] \cup unread'[p]) \subseteq ready[p] \ (due[p] \cup unread[p])
    BY <1>1 DEF GpioInv, GpioTypes, Files
  <2>2. QED
    BY <1>1, <1>4, <2>1 DEF GpioInv, Files
<1>7. QED
  BY <1>2, <1>3, <1>5, <1>6 DEF GpioInv

LEMMA StartStep ==
  ASSUME GpioInv, NEW p \in Procs, Start(p), UNCHANGED runs
  PROVE  GpioInv'
<1>1. /\ at[p] = 0 /\ at'[p] = 1 /\ Len(Script(p)) \in Nat /\ Script(p)' = Script(p)
      /\ UNCHANGED <<exported, edge, direction, fds, ready, revents, due, unread, faults>>
  BY ScriptFacts DEF Start, Go, Script, GpioInv, GpioTypes
<1>2. GpioTypes'
  BY DEF Start, Go, GpioInv, GpioTypes
<1>3. \A q \in Procs : q # p => Progress(q)' /\ Files(q)'
  BY OthersKeep DEF Start, Go, GpioInv, GpioTypes
<1>4. Progress(p)'
  BY <1>1 DEF Progress
<1>5. Files(p)'
  <2>1. ~Looping(p) /\ fds[p] = {} /\ Files(p)
    BY <1>1 DEF Looping, GpioInv, Files
  <2>2. QED
    BY <1>1, <2>1 DEF Files
<1>6. QED
  BY <1>2, <1>3, <1>4, <1>5 DEF GpioInv

\* An edge is an event for every process that has the file open: its set-up has
\* configured the pin before it opened the file.
LEMMA EdgeStep ==
  ASSUME GpioInv, NEW n \in AllPins, Edge(n), UNCHANGED runs
  PROVE  GpioInv'
<1>1. UNCHANGED <<at, exported, edge, direction, fds, revents, unread, faults, runs>>
  BY DEF Edge
<1>2. ASSUME NEW p \in Procs, n \in fds[p] PROVE edge[n] # "none" /\ direction[n] = "in"
  <2>1. PICK i \in 1..Len(Script(p)) : i < at[p] /\ Script(p)[i].op = "open" /\ Script(p)[i].pin = n
    BY <1>2 DEF GpioInv, Files
  <2>2. /\ EdgeOf(n) # "none" /\ DirectionOf(n) = "in"
        /\ Earlier(Script(p), i, "edge") /\ Earlier(Script(p), i, "direction")
    <3>1. runs[p] \in Programs
      BY DEF GpioInv, GpioTypes
    <3>2. Configured(Script(p), i)
      BY <2>1, <3>1, ScriptFacts DEF ScriptOK, Script
    <3>3. QED
      BY <2>1, <3>2 DEF Configured
  <2>3. at[p] \in Nat /\ Len(Script(p)) \in Nat /\ \A k \in 1..Len(Script(p)) : k < at[p] => Done(Script(p)[k])
    BY ScriptFacts DEF GpioInv, GpioTypes, Progress, Script
  <2>4. PICK j \in 1..(i - 1) : Script(p)[j].op = "edge" /\ Script(p)[j].pin = n
    BY <2>1, <2>2 DEF Earlier
  <2>5. PICK k \in 1..(i - 1) : Script(p)[k].op = "direction" /\ Script(p)[k].pin = n
    BY <2>1, <2>2 DEF Earlier
  <2>6. Done(Script(p)[j]) /\ Done(Script(p)[k])
    BY <2>1, <2>3
  <2>7. QED
    BY <2>2, <2>4, <2>5, <2>6 DEF Done
<1>3. \A p \in Procs : IF n \in fds[p]
                        THEN due'[p] = due[p] \cup {n} /\ ready'[p] = ready[p] \cup {n}
                        ELSE due'[p] = due[p] /\ ready'[p] = ready[p]
  BY <1>2 DEF Edge
<1>4. GpioTypes'
  <2>1. \A p \in Procs : ready'[p] \subseteq AllPins /\ due'[p] \subseteq AllPins
    BY <1>3 DEF GpioInv, GpioTypes
  <2>2. ready' \in [Procs -> SUBSET AllPins] /\ due' \in [Procs -> SUBSET AllPins]
    BY <2>1 DEF Edge
  <2>3. QED
    BY <1>1, <2>2 DEF GpioInv, GpioTypes
<1>5. ASSUME NEW p \in Procs PROVE Progress(p)' /\ Files(p)'
  <2>1. Progress(p) /\ Files(p) /\ Script(p)' = Script(p) /\ Looping(p)' = Looping(p)
    BY <1>1 DEF GpioInv, Script, Looping
  <2>2. Progress(p)'
    BY <1>1, <2>1 DEF Progress, Done
  <2>3. /\ ready'[p] \ (due'[p] \cup unread'[p]) \subseteq ready[p] \ (due[p] \cup unread[p])
        /\ due'[p] \cup unread'[p] \subseteq ready'[p]
        /\ ready[p] \subseteq ready'[p] /\ ready'[p] \subseteq fds[p]
    BY <1>1, <1>3, <2>1 DEF Files
  <2>4. /\ fds'[p] = fds[p] /\ revents'[p] = revents[p] /\ at'[p] = at[p]
    BY <1>1
  <2>6. Files(p)'
    BY <2>1, <2>3, <2>4 DEF Files
  <2>5. QED
    BY <2>2, <2>6
<1>6. QED
  BY <1>4, <1>5 DEF GpioInv

LEMMA GpioNextPreserves ==
  ASSUME GpioInv, [GpioNext /\ UNCHANGED runs]_<<gpioVars, runs>>
  PROVE  GpioInv'
<1>1. ASSUME NEW p \in Procs, SetUp(p), UNCHANGED runs PROVE GpioInv'
  <2>1. CASE FailSetUp(p)
    <3>1. End(p) /\ faults' \in 0..MaxFaults
      BY <2>1, GpioAssumption DEF FailSetUp, GpioInv, GpioTypes, GpioAssumption
    <3>2. QED
      BY <1>1, <3>1, EndStep
  <2>2. QED
    BY <1>1, <2>1, AccessStep, ExportStep, WriteStep, OpenStep, ReadStep1 DEF SetUp
<1>2. ASSUME NEW p \in Procs, Kill(p), UNCHANGED runs PROVE GpioInv'
  <2>1. End(p) /\ faults' \in 0..MaxFaults
    BY <1>2, GpioAssumption DEF Kill, GpioInv, GpioTypes, GpioAssumption
  <2>2. QED
    BY <1>2, <2>1, EndStep
<1>3. CASE UNCHANGED <<gpioVars, runs>>
  <2>1. UNCHANGED <<at, exported, edge, direction, fds, ready, revents, due, unread, faults, runs>>
    BY <1>3 DEF gpioVars
  <2>2. GpioTypes'
    BY <2>1 DEF GpioInv, GpioTypes
  <2>3. ASSUME NEW p \in Procs PROVE Progress(p)' /\ Files(p)'
    BY <2>1 DEF GpioInv, Progress, Files, Done, Script, Looping
  <2>4. QED
    BY <2>2, <2>3 DEF GpioInv
<1>4. QED
  BY <1>1, <1>2, <1>3, LoopStep, StartStep, EdgeStep DEF GpioNext

LEMMA GpioInvariant == GpioSpec => []GpioInv
<1>1. GpioInv /\ [GpioNext /\ UNCHANGED runs]_<<gpioVars, runs>> => GpioInv'
  BY GpioNextPreserves
<1>2. QED
  BY <1>1, GpioInitHolds, PTL DEF GpioSpec

-----------------------------------------------------------------------------
\* For every set of processes and programs: events belong to open files, and
\* open files to exported pins of the program's own script.
THEOREM GpioTypeCorrect == GpioSpec => []GpioTypeOK
<1>1. GpioInv => GpioTypeOK
  <2> SUFFICES ASSUME GpioInv PROVE GpioTypeOK
    OBVIOUS
  <2>1. ASSUME NEW p \in Procs PROVE fds[p] \subseteq exported \cap {c.pin : c \in ToSet(Script(p))}
    <3> SUFFICES ASSUME NEW n \in fds[p] PROVE n \in exported /\ n \in {c.pin : c \in ToSet(Script(p))}
      OBVIOUS
    <3>1. PICK i \in 1..Len(Script(p)) : i < at[p] /\ Script(p)[i].op = "open" /\ Script(p)[i].pin = n
      BY DEF GpioInv, Files
    <3>2. runs[p] \in Programs /\ at[p] \in Nat
      BY DEF GpioInv, GpioTypes
    <3>3. Configured(Script(p), i) /\ Len(Script(p)) \in Nat /\ DOMAIN Script(p) = 1..Len(Script(p))
      <4>1. ScriptOK(Script(p)) /\ Len(Script(p)) \in Nat /\ DOMAIN Script(p) = 1..Len(Script(p))
        BY <3>2, ScriptFacts DEF Script
      <4>2. QED
        BY <3>1, <4>1 DEF ScriptOK
    <3>4. PICK j \in 1..(i - 1) : Script(p)[j].op = "export" /\ Script(p)[j].pin = n
      BY <3>1, <3>3 DEF Configured, Earlier
    <3>5. Done(Script(p)[j])
      BY <3>1, <3>2, <3>3, <3>4 DEF GpioInv, Progress
    <3>6. Script(p)[i] \in ToSet(Script(p))
      BY <3>1, <3>3 DEF ToSet
    <3>7. QED
      BY <3>1, <3>4, <3>5, <3>6 DEF Done
  <2>2. QED
    BY <2>1 DEF GpioInv, GpioTypes, GpioTypeOK, Progress, Files
<1>2. QED
  BY <1>1, GpioInvariant, PTL

\* However many programs set up the same pins, in whatever order their sysfs
\* calls mix, fail or are killed: one that is past its set-up finds each of its
\* pins exported and with the attributes it wrote.
THEOREM SetUpIsKept == GpioSpec => []ConfiguredWhenRunning
<1>1. GpioInv => ConfiguredWhenRunning
  <2> SUFFICES ASSUME GpioInv, NEW p \in Procs, Looping(p), NEW c \in ToSet(Script(p))
               PROVE  /\ c.pin \in exported
                      /\ c.op = "edge" => edge[c.pin] = c.val
                      /\ c.op = "direction" => direction[c.pin] = c.val
    BY DEF ConfiguredWhenRunning
  <2>1. /\ runs[p] \in Programs /\ ScriptOK(Script(p)) /\ Len(Script(p)) \in Nat
        /\ DOMAIN Script(p) = 1..Len(Script(p))
    <3>1. runs[p] \in Programs
      BY DEF GpioInv, GpioTypes
    <3>2. QED
      BY <3>1, ScriptFacts DEF Script
  <2>2. PICK i \in 1..Len(Script(p)) : c = Script(p)[i]
    BY <2>1 DEF ToSet
  <2>3. ASSUME NEW k \in 1..Len(Script(p)) PROVE Done(Script(p)[k])
    <3>1. at[p] \in Nat /\ at[p] > Len(Script(p))
      BY DEF GpioInv, GpioTypes, Looping
    <3>2. k < at[p]
      BY <2>1, <3>1
    <3>3. QED
      BY <3>2 DEF GpioInv, Progress
  <2>4. Exports(Script(p), i) /\ Agrees(Script(p), i)
    BY <2>1, <2>2 DEF ScriptOK
  <2>5. c.pin \in exported
    BY <2>2, <2>3, <2>4 DEF Exports, Done
  <2>6. QED
    BY <2>2, <2>3, <2>4, <2>5 DEF Agrees, Done
<1>2. QED
  BY <1>1, GpioInvariant, PTL

\* For every number of programs that share a pin, and whatever reads fail: the
\* loop has an event for a key exactly when the key had an edge since its last
\* read, or when the read before the loop failed and left the opening's event.
THEOREM NoEdgeIsLost == GpioSpec => []EventsAreEdges
<1>1. GpioInv => EventsAreEdges
  <2> SUFFICES ASSUME GpioInv, NEW p \in Procs, Looping(p) PROVE ready[p] = due[p] \cup unread[p]
    BY DEF EventsAreEdges
  <2>1. Len(Script(p)) \in Nat /\ at[p] \in Nat
    BY ScriptFacts DEF GpioInv, GpioTypes, Script
  <2>2. ASSUME NEW n \in ready[p] \ (due[p] \cup unread[p]) PROVE FALSE
    <3>1. PICK i \in 1..Len(Script(p)) : i >= at[p]
      BY DEF GpioInv, Files
    <3>2. at[p] > Len(Script(p))
      BY DEF Looping
    <3>3. QED
      BY <2>1, <3>1, <3>2
  <2>3. QED
    BY <2>2 DEF GpioInv, Files
<1>2. QED
  BY <1>1, GpioInvariant, PTL
=============================================================================
