--------------------------- MODULE I2cModulesProofs ---------------------------
(***************************************************************************)
(* Proofs about the kernel modules and the ADC.  I2cModules and            *)
(* KernelModules, for any number of users and loads: what a module leaves  *)
(* behind, when a probe is refused its region, and what is left in the     *)
(* kernel's lists.  Pcf8591, for any number of processes, channels and     *)
(* levels: what ends a process, and whose level it shows.                  *)
(***************************************************************************)
EXTENDS KernelModules, Pcf8591, TLAPS

\* Where a module may be while it has each of the things it gives back.
HasNode == {"request", "map", "bound", "oops", "release", "destroy"}
HasClass == HasNode \cup {"device", "declass"}
HasChrdev == HasClass \cup {"class", "unregister"}

\* Every module has at most what its probe has acquired and its remove not yet
\* given back.
StagesInv ==
  \A m \in Modules : /\ m \in node => at[m] \in HasNode
                     /\ m \in class => at[m] \in HasClass
                     /\ m \in chrdev => at[m] \in HasChrdev

\* No number is given out twice, and a device file only exists while its module has
\* the number in it, or when that was never a number.
Numbered == HasNode \cup {"class", "device"}
MajorsInv ==
  /\ \A m \in chrdev : major[m] \in Majors
  /\ \A m, n \in chrdev : major[m] = major[n] => m = n
  /\ \A m \in Modules : at[m] \in Numbered => m \in chrdev \/ major[m] = "none"

\* The ADC module holds the region only between the end of its probe and the
\* release in its remove, or when its probe died with it.
RegionInv == region = "pcf8591" => at["pcf8591"] \in {"map", "bound", "oops", "release"}

\* The LED module sets no pins.
LedInv == region # "led" /\ ("led" \in Modules => at["led"] \notin {"request", "map"})

\* A module with an open file is not out, and is not being taken out: if it is in its
\* remove, an unbind runs it.
Removing == {"release", "destroy", "declass", "unregister"}
FilesInv ==
  \A m \in Modules :
    InUse(m) => at[m] # "out" /\ (at[m] \in Removing => m \in sysfs)

I2cInv == I2cTypeOK /\ StagesInv /\ MajorsInv /\ RegionInv /\ LedInv /\ FilesInv

-----------------------------------------------------------------------------
LEMMA NamesAreModules == "none" \notin Modules /\ "free" \notin Modules
  BY I2cAssumption DEF I2cAssumption

LEMMA I2cInitHolds == I2cInit => I2cInv
<1> SUFFICES ASSUME I2cInit PROVE I2cInv
  OBVIOUS
<1>1. I2cTypeOK
  BY I2cAssumption DEF I2cAssumption, I2cInit, I2cTypeOK
<1>2. StagesInv
  BY DEF I2cInit, StagesInv
<1>3. MajorsInv
  BY DEF I2cInit, MajorsInv
<1>4. RegionInv
  BY DEF I2cInit, RegionInv
<1>5. LedInv
  BY DEF I2cInit, LedInv
<1>6. FilesInv
  BY NamesAreModules DEF I2cInit, FilesInv, InUse
<1>7. QED
  BY <1>1, <1>2, <1>3, <1>4, <1>5, <1>6 DEF I2cInv

\* A step of one module moves that module only.
LEMMA GoEffect ==
  ASSUME I2cTypeOK, NEW m \in Modules, NEW from, NEW to, Go(m, from, to)
  PROVE  /\ at[m] = from /\ at'[m] = to
         /\ \A n \in Modules : n # m => at'[n] = at[n]
  BY DEF Go, I2cTypeOK

\* The steps of a module that are no step of another kind: which variables each of
\* them leaves alone, and from which call to which it goes.
LEMMA ModuleMoves ==
  ASSUME I2cTypeOK, NEW m \in Modules, Load(m) \/ Probe(m) \/ Unload(m) \/ Remove(m)
  PROVE  /\ UNCHANGED files
         /\ \A n \in Modules : n # m => at'[n] = at[n]
         /\ \A n \in Modules : n # m => (n \in sysfs' <=> n \in sysfs)
         /\ \A n \in Modules : n # m => (n \in node' => n \in node)
         /\ \A n \in Modules : n # m => (n \in class' => n \in class)
         /\ \A n \in Modules : n # m => (n \in chrdev' <=> n \in chrdev)
         /\ \A n \in Modules : n # m => major'[n] = major[n]
<1>1. CASE Load(m) \/ Unload(m)
  BY <1>1, GoEffect DEF Load, Unload, Insmod, Bind, Rmmod, Unbind
<1>2. CASE RegisterChrdev(m)
  BY <1>2, GoEffect DEF RegisterChrdev, I2cTypeOK
<1>3. CASE Probe(m) /\ ~RegisterChrdev(m)
  BY <1>3, GoEffect DEF Probe, CheckFunctionality, ClassCreate, DeviceCreate, RequestRegion,
     SwitchPins, PinsUnmapped
<1>4. CASE Remove(m)
  BY <1>4, GoEffect DEF Remove, ReleaseRegion, DeviceDestroy, ClassDestroy, UnregisterChrdev
<1>5. QED
  BY <1>1, <1>2, <1>3, <1>4

\* What a step of a module has to keep.
LEMMA StepOfModule ==
  ASSUME I2cInv, NEW m \in Modules, Load(m) \/ Probe(m) \/ Unload(m) \/ Remove(m)
  PROVE  I2cInv'
<1>i. I2cTypeOK /\ StagesInv /\ MajorsInv /\ RegionInv /\ LedInv /\ FilesInv
  BY DEF I2cInv
<1>m. /\ UNCHANGED files
      /\ \A n \in Modules : n # m => at'[n] = at[n] /\ (n \in sysfs' <=> n \in sysfs)
      /\ \A n \in Modules : n # m => /\ n \in node' => n \in node
                                     /\ n \in class' => n \in class
                                     /\ n \in chrdev' <=> n \in chrdev
                                     /\ major'[n] = major[n]
  BY <1>i, ModuleMoves
<1>t. I2cTypeOK'
  <2>0. loads < MaxLoads => loads + 1 \in 0..MaxLoads
    BY <1>i, I2cAssumption DEF I2cTypeOK, I2cAssumption
  <2>1. CASE Load(m)
    BY <1>i, <2>0, <2>1 DEF I2cTypeOK, Load, Insmod, Bind, Go
  <2>6. CASE Unload(m)
    BY <1>i, <2>6 DEF I2cTypeOK, Unload, Rmmod, Unbind, RemoveStart, Go
  <2>2. CASE RegisterChrdev(m)
    BY <1>i, <2>2 DEF I2cTypeOK, RegisterChrdev, Go
  <2>3. CASE Probe(m) /\ ~RegisterChrdev(m)
    BY <1>i, <2>3 DEF I2cTypeOK, Probe, CheckFunctionality, ClassCreate, DeviceCreate,
       RequestRegion, SwitchPins, PinsUnmapped, Go
  <2>4. CASE Remove(m)
    BY <1>i, <2>4 DEF I2cTypeOK, Remove, ReleaseRegion, DeviceDestroy, ClassDestroy,
       UnregisterChrdev, Go
  <2>5. QED
    BY <2>1, <2>2, <2>3, <2>4, <2>6
<1>f. FilesInv'
  <2>1. ASSUME InUse(m) PROVE at'[m] # "out" /\ (at'[m] \in Removing => m \in sysfs')
    <3>1. CASE Load(m) \/ Unload(m)
      BY <1>i, <2>1, <3>1, GoEffect DEF FilesInv, Removing, Load, Unload, Insmod, Bind, Rmmod, Unbind,
         RemoveStart
    <3>2. CASE Probe(m)
      BY <1>i, <2>1, <3>2, GoEffect DEF Removing, Probe, CheckFunctionality, RegisterChrdev,
         ClassCreate, DeviceCreate, RequestRegion, SwitchPins, PinsUnmapped
    <3>3. CASE Remove(m)
      BY <1>i, <2>1, <3>3, GoEffect DEF FilesInv, Removing, Remove, ReleaseRegion, DeviceDestroy,
         ClassDestroy, UnregisterChrdev
    <3>4. QED
      BY <3>1, <3>2, <3>3
  <2>2. \A n \in Modules : InUse(n)' <=> InUse(n)
    BY <1>m DEF InUse
  <2>3. QED
    BY <1>i, <1>m, <2>1, <2>2 DEF FilesInv
<1>s. StagesInv'
  <2> USE DEF HasNode, HasClass, HasChrdev
  <2>1. /\ m \in node' => at'[m] \in HasNode
        /\ m \in class' => at'[m] \in HasClass
        /\ m \in chrdev' => at'[m] \in HasChrdev
    <3>1. CASE Load(m) \/ Unload(m)
      BY <1>i, <3>1, GoEffect DEF StagesInv, Load, Unload, Insmod, Bind, Rmmod, Unbind, RemoveStart
    <3>2. CASE CheckFunctionality(m) \/ RequestRegion(m) \/ SwitchPins(m) \/ PinsUnmapped(m)
      BY <1>i, <3>2, GoEffect DEF StagesInv, CheckFunctionality, RequestRegion, SwitchPins, PinsUnmapped
    <3>3. CASE RegisterChrdev(m)
      BY <1>i, <3>3, GoEffect DEF StagesInv, RegisterChrdev
    <3>4. CASE ClassCreate(m)
      BY <1>i, <3>4, GoEffect DEF StagesInv, ClassCreate
    <3>5. CASE DeviceCreate(m)
      BY <1>i, <3>5, GoEffect DEF StagesInv, DeviceCreate
    <3>6. CASE ReleaseRegion(m)
      BY <1>i, <3>6, GoEffect DEF StagesInv, ReleaseRegion
    <3>7. CASE DeviceDestroy(m)
      BY <1>i, <3>7, GoEffect DEF StagesInv, DeviceDestroy
    <3>8. CASE ClassDestroy(m)
      BY <1>i, <3>8, GoEffect DEF StagesInv, ClassDestroy
    <3>9. CASE UnregisterChrdev(m)
      BY <1>i, <3>9, GoEffect DEF StagesInv, UnregisterChrdev
    <3>10. QED
      BY <3>1, <3>2, <3>3, <3>4, <3>5, <3>6, <3>7, <3>8, <3>9 DEF Probe, Remove
  <2>2. QED
    BY <1>i, <1>m, <2>1 DEF StagesInv
<1>j. MajorsInv'
  <2>1. CASE RegisterChrdev(m)
    <3>1. m \notin chrdev
      BY <1>i, <2>1, GoEffect DEF RegisterChrdev, StagesInv, HasChrdev, HasClass, HasNode
    <3>2. CASE UNCHANGED chrdev /\ major' = [major EXCEPT ![m] = "none"]
      BY <1>i, <1>m, <3>1, <3>2 DEF I2cTypeOK, MajorsInv
    <3>3. ASSUME NEW k \in Majors, k \notin {major[n] : n \in chrdev},
                 chrdev' = chrdev \cup {m}, major' = [major EXCEPT ![m] = k]
          PROVE  MajorsInv'
      <4>1. major'[m] = k /\ m \in chrdev'
        BY <1>i, <3>3 DEF I2cTypeOK
      <4>2. \A n \in chrdev : n # m /\ n \in Modules /\ major'[n] = major[n] /\ major'[n] # k
        BY <1>i, <3>1, <3>3 DEF I2cTypeOK
      <4>3. QED
        BY <1>i, <1>m, <3>3, <4>1, <4>2 DEF MajorsInv
    <3>4. QED
      BY <2>1, <3>2, <3>3 DEF RegisterChrdev
  <2>2. CASE UnregisterChrdev(m)
    <3>1. /\ at'[m] \in {"unbound", "out"}
          /\ chrdev' = chrdev \ {m} /\ major' = major
      BY <1>i, <2>2, GoEffect DEF UnregisterChrdev
    <3>2. QED
      BY <1>i, <1>m, <3>1 DEF MajorsInv, Numbered, HasNode
  <2>3. CASE ~RegisterChrdev(m) /\ ~UnregisterChrdev(m)
    <3>1. UNCHANGED <<chrdev, major>>
      BY <2>3 DEF Load, Probe, Unload, Remove, Insmod, Bind, Rmmod, Unbind, CheckFunctionality,
         ClassCreate, DeviceCreate, RequestRegion, SwitchPins, PinsUnmapped, ReleaseRegion,
         DeviceDestroy, ClassDestroy
    <3>2. at'[m] \in Numbered => at[m] \in Numbered
      <4>1. CASE Load(m) \/ Unload(m)
        BY <1>i, <4>1, GoEffect DEF Numbered, HasNode, Load, Unload, Insmod, Bind, Rmmod, Unbind,
           RemoveStart
      <4>2. CASE Probe(m)
        BY <1>i, <2>3, <4>2, GoEffect DEF Numbered, HasNode, Probe, CheckFunctionality,
           ClassCreate, DeviceCreate, RequestRegion, SwitchPins, PinsUnmapped
      <4>3. CASE Remove(m)
        BY <1>i, <2>3, <4>3, GoEffect DEF Numbered, HasNode, Remove, ReleaseRegion, DeviceDestroy,
           ClassDestroy
      <4>4. QED
        BY <4>1, <4>2, <4>3
    <3>3. QED
      BY <1>i, <1>m, <3>1, <3>2 DEF MajorsInv
  <2>4. QED
    BY <2>1, <2>2, <2>3
<1>r. RegionInv'
  <2> SUFFICES ASSUME region' = "pcf8591"
               PROVE  at'["pcf8591"] \in {"map", "bound", "oops", "release"}
    BY DEF RegionInv
  <2>1. "pcf8591" \in Modules
    BY <1>t, I2cAssumption DEF I2cTypeOK
  <2>2. CASE region = "pcf8591"
    <3>1. at["pcf8591"] \in {"map", "bound", "oops", "release"}
      BY <1>i, <2>2 DEF RegionInv
    <3>2. CASE m = "pcf8591"
      <4>1. ~ReleaseRegion(m)
        BY DEF ReleaseRegion
      <4>2. CASE Load(m) \/ Probe(m)
        BY <1>i, <3>1, <3>2, <4>2, GoEffect DEF Load, Probe, Insmod, Bind, CheckFunctionality,
           RegisterChrdev, ClassCreate, DeviceCreate, RequestRegion, SwitchPins, PinsUnmapped
      <4>3. CASE Unload(m) \/ Remove(m)
        BY <1>i, <3>1, <3>2, <4>1, <4>3, GoEffect DEF Unload, Remove, Rmmod, Unbind, RemoveStart,
           DeviceDestroy, ClassDestroy, UnregisterChrdev
      <4>4. QED
        BY <4>2, <4>3
    <3>3. CASE m # "pcf8591"
      BY <1>m, <2>1, <3>1, <3>3
    <3>4. QED
      BY <3>2, <3>3
  <2>3. CASE region # "pcf8591"
    <3>1. RequestRegion(m) /\ m = "pcf8591"
      BY <2>3 DEF Load, Probe, Unload, Remove, Insmod, Bind, Rmmod, Unbind, CheckFunctionality,
         RegisterChrdev, ClassCreate, DeviceCreate, RequestRegion, SwitchPins, PinsUnmapped,
         ReleaseRegion, DeviceDestroy, ClassDestroy, UnregisterChrdev
    <3>2. QED
      BY <1>i, <3>1, GoEffect DEF RequestRegion
  <2>4. QED
    BY <2>2, <2>3
<1>l. LedInv'
  <2>1. RequestRegion(m) => m # "led"
    BY <1>i, GoEffect DEF RequestRegion, LedInv
  <2>2. region' # "led"
    BY <1>i, <2>1 DEF LedInv, Load, Probe, Unload, Remove, Insmod, Bind, Rmmod, Unbind,
       CheckFunctionality, RegisterChrdev, ClassCreate, DeviceCreate, RequestRegion, SwitchPins,
       PinsUnmapped, ReleaseRegion, DeviceDestroy, ClassDestroy, UnregisterChrdev
  <2>3. m = "led" => at'[m] \notin {"request", "map"}
    <3>1. CASE Load(m) \/ Unload(m)
      BY <1>i, <3>1, GoEffect DEF Load, Unload, Insmod, Bind, Rmmod, Unbind, RemoveStart
    <3>2. CASE Probe(m)
      BY <1>i, <2>1, <3>2, GoEffect DEF Probe, CheckFunctionality, RegisterChrdev, ClassCreate,
         DeviceCreate, SwitchPins, PinsUnmapped
    <3>3. CASE Remove(m)
      BY <1>i, <3>3, GoEffect DEF Remove, ReleaseRegion, DeviceDestroy, ClassDestroy, UnregisterChrdev
    <3>4. QED
      BY <3>1, <3>2, <3>3
  <2>4. QED
    BY <1>i, <1>m, <2>2, <2>3 DEF LedInv
<1>q. QED
  BY <1>t, <1>f, <1>s, <1>j, <1>r, <1>l DEF I2cInv

LEMMA StepOfUser ==
  ASSUME I2cInv, NEW u \in Users, (\E m \in Modules : Open(u, m)) \/ Close(u)
  PROVE  I2cInv'
<1>i. I2cTypeOK /\ StagesInv /\ MajorsInv /\ RegionInv /\ LedInv /\ FilesInv
  BY DEF I2cInv
<1>1. UNCHANGED <<at, sysfs, chrdev, major, class, node, region, loads>>
  BY DEF Open, Close
<1>2. \/ files' = [files EXCEPT ![u] = "none"]
      \/ \E n \in chrdev : ~Unloading(n) /\ files' = [files EXCEPT ![u] = n]
  BY DEF Open, Close
<1>3. I2cTypeOK'
  BY <1>i, <1>1, <1>2 DEF I2cTypeOK
<1>4. StagesInv' /\ MajorsInv' /\ RegionInv' /\ LedInv'
  BY <1>i, <1>1 DEF StagesInv, MajorsInv, RegionInv, LedInv
<1>5. FilesInv'
  <2>1. \A n \in chrdev : ~Unloading(n) => at[n] # "out" /\ (at[n] \in Removing => n \in sysfs)
    BY <1>i DEF I2cTypeOK, StagesInv, HasChrdev, HasClass, HasNode, Unloading, Removing
  <2>2. ASSUME NEW m \in Modules, InUse(m)'
        PROVE  InUse(m) \/ (m \in chrdev /\ ~Unloading(m))
    BY <1>i, <1>2, <2>2, NamesAreModules DEF I2cTypeOK, InUse
  <2>3. QED
    BY <1>i, <1>1, <2>1, <2>2 DEF FilesInv
<1>6. QED
  BY <1>3, <1>4, <1>5 DEF I2cInv

LEMMA I2cNextPreserves == I2cInv /\ [I2cNext]_i2cVars => I2cInv'
<1> SUFFICES ASSUME I2cInv, [I2cNext]_i2cVars PROVE I2cInv'
  OBVIOUS
<1>1. CASE I2cNext
  BY <1>1, StepOfModule, StepOfUser DEF I2cNext
<1>2. CASE UNCHANGED i2cVars
  BY <1>2 DEF I2cInv, I2cTypeOK, StagesInv, MajorsInv, RegionInv, LedInv, FilesInv, InUse, i2cVars
<1>3. QED
  BY <1>1, <1>2

LEMMA I2cInvariant == I2cSpec => []I2cInv
  BY I2cInitHolds, I2cNextPreserves, PTL DEF I2cSpec

-----------------------------------------------------------------------------
\* Every module is always at a call of its probe or remove, or between the two.
THEOREM I2cTypeCorrect == I2cSpec => []I2cTypeOK
<1>1. I2cInv => I2cTypeOK
  BY DEF I2cInv
<1>2. QED
  BY <1>1, I2cInvariant, PTL

\* However often it is loaded, whatever its probe went through and whoever has
\* its file open, a module that is out or unbound has left nothing behind that
\* an open could find.
THEOREM I2cDeviceGone == I2cSpec => []DeviceGone
<1>1. I2cInv => DeviceGone
  BY DEF I2cInv, StagesInv, DeviceGone, HasNode, HasClass, HasChrdev
<1>2. QED
  BY <1>1, I2cInvariant, PTL

\* For any number of users, numbers and loads an open reaches the module that made
\* the file or none, and no module is unloaded under an open file, whether rmmod or
\* an unbind runs its remove.
THEOREM I2cFilesReachTheirDriver == I2cSpec => []FilesReachTheirDriver
<1>1. I2cInv => FilesReachTheirDriver
  <2> SUFFICES ASSUME I2cInv PROVE FilesReachTheirDriver
    OBVIOUS
  <2>1. ASSUME NEW m \in node, NEW n \in chrdev, major[n] = major[m]
        PROVE  n = m
    <3>1. at[m] \in Numbered
      BY DEF I2cInv, I2cTypeOK, StagesInv, Numbered
    <3>2. major[n] # "none"
      BY I2cAssumption DEF I2cAssumption, I2cInv, MajorsInv
    <3>3. m \in chrdev
      BY <2>1, <3>1, <3>2 DEF I2cInv, I2cTypeOK, MajorsInv
    <3>4. QED
      BY <2>1, <3>3 DEF I2cInv, MajorsInv
  <2>2. QED
    BY <2>1 DEF I2cInv, FilesInv, FilesReachTheirDriver
<1>2. QED
  BY <1>1, I2cInvariant, PTL

\* A probe dies on its region only beside a display module that was probed, or an
\* ADC module that is bound or died: whatever the number of loads and unbinds, the
\* ADC module never stands in its own way.
THEOREM I2cRegionGranted == I2cSpec => RegionGranted
<1> DEFINE Granted ==
      \A m \in Modules : at[m] = "request" /\ at'[m] = "oops" =>
        \/ region = "sh1106"
        \/ region = "pcf8591" /\ at["pcf8591"] \in {"map", "bound", "oops", "release"}
<1>1. I2cInv /\ [I2cNext]_i2cVars => [Granted]_i2cVars
  <2> SUFFICES ASSUME I2cInv, I2cNext, NEW m \in Modules, at[m] = "request", at'[m] = "oops"
               PROVE  region \in {"sh1106", "pcf8591"}
    BY DEF I2cInv, RegionInv
  <2>1. I2cTypeOK
    BY DEF I2cInv
  <2>2. PICK n \in Modules : Load(n) \/ Probe(n) \/ Unload(n) \/ Remove(n)
    BY DEF I2cNext, Open, Close
  <2>3. n = m
    BY <2>1, <2>2, ModuleMoves
  <2>4. RequestRegion(m)
    BY <2>1, <2>2, <2>3, GoEffect DEF Load, Probe, Unload, Remove, Insmod, Bind, Rmmod, Unbind,
       CheckFunctionality, RegisterChrdev, ClassCreate, DeviceCreate, SwitchPins, PinsUnmapped,
       ReleaseRegion, DeviceDestroy, ClassDestroy, UnregisterChrdev
  <2>5. region # "free"
    BY <2>1, <2>4, GoEffect DEF RequestRegion
  <2>6. QED
    BY <2>1, <2>5, I2cAssumption DEF I2cTypeOK, I2cAssumption, I2cInv, LedInv
<1>2. QED
  BY <1>1, I2cInvariant, PTL DEF I2cSpec, RegionGranted

-----------------------------------------------------------------------------
(* The kernel's allocator beside the modules.                               *)

\* Until the memory module is removed every chunk is in one place: on the free list,
\* in one record, or in mem_init's hands between its two calls.
ChunksInv ==
  /\ \A m \in Modules : m \notin chrdev => record[m] = "null"
  /\ removed = 0 =>
       /\ \A c \in Chunks : avail[c] \in {0, 1}
       /\ \A m \in chrdev : record[m] \in Chunks
       /\ Sane
       /\ mem = "kfree" /\ kmalloc_addr # "null" =>
            avail[kmalloc_addr] = 0 /\ \A m \in chrdev : record[m] # kmalloc_addr

\* A block of pages is free, leaked or the memory module's.
InHand == IF mem \in {"kmalloc", "kfree", "loaded", "exit", "free_pages"} THEN 1 ELSE 0
PagesInv == pages + leaked + InHand = Blocks

\* mem_init has no chunk before its kmalloc, and mem_exit always has one.
MemInv ==
  /\ mem \in {"get_pages", "kmalloc"} => kmalloc_addr = "null"
  /\ mem \in {"loaded", "exit"} => kmalloc_addr \in Chunks

KernelInv == I2cInv /\ KernelTypeOK /\ MemInv /\ ChunksInv /\ PagesInv

\* Beside the allocator a module makes the steps it makes alone.
LEMMA KernelStepIsModuleStep == [KernelNext]_kernelVars => [I2cNext]_i2cVars
  BY DEF KernelNext, kernelVars, MemNext, MemInsmod, GetFreePages, Kmalloc, FailureKmalloc, MemRmmod,
         ExitKfree, FreePages, KernelRegisterChrdev, KernelUnregisterChrdev, OtherStep,
         I2cNext, Probe, Remove, i2cVars

LEMMA KernelInitHolds == KernelInit => KernelInv
<1> SUFFICES ASSUME KernelInit PROVE KernelInv
  OBVIOUS
<1> USE KernelAssumption DEF KernelAssumption, KernelInit
<1>1. I2cInv
  BY I2cInitHolds
<1>2. KernelTypeOK
  BY <1>1 DEF I2cInv, KernelTypeOK
<1>3. ChunksInv
  BY DEF ChunksInv, Sane, I2cInit
<1>4. MemInv /\ PagesInv
  BY DEF MemInv, PagesInv, InHand
<1>5. QED
  BY <1>1, <1>2, <1>3, <1>4 DEF KernelInv

\* The memory module's steps leave the device modules alone.
LEMMA MemStepPreserves ==
  ASSUME KernelInv, MemNext
  PROVE  KernelTypeOK' /\ MemInv' /\ ChunksInv' /\ PagesInv'
<1> USE KernelAssumption DEF KernelAssumption
<1>i. I2cTypeOK /\ KernelTypeOK /\ MemInv /\ ChunksInv /\ PagesInv
  BY DEF KernelInv, I2cInv
<1>1. UNCHANGED <<i2cVars, record>>
  BY DEF MemNext, MemInsmod, GetFreePages, Kmalloc, FailureKmalloc, MemRmmod, ExitKfree, FreePages
<1>2. I2cTypeOK'
  BY <1>i, <1>1 DEF I2cTypeOK, i2cVars
<1>3. KernelTypeOK'
  BY <1>i, <1>1, <1>2 DEF KernelTypeOK, MemNext, MemInsmod, GetFreePages, Kmalloc,
     FailureKmalloc, MemRmmod, ExitKfree, FreePages, Kfree, Give, Take, PagesInv, InHand
<1>4. MemInv'
  BY <1>i DEF KernelTypeOK, MemInv, MemNext, MemInsmod, GetFreePages, Kmalloc, FailureKmalloc,
     MemRmmod, ExitKfree, FreePages
<1>5. PagesInv'
  BY <1>i DEF KernelTypeOK, PagesInv, InHand, MemNext, MemInsmod, GetFreePages, Kmalloc,
     FailureKmalloc, MemRmmod, ExitKfree, FreePages
<1>6. ChunksInv'
  <2>1. CASE MemInsmod \/ GetFreePages \/ MemRmmod \/ FreePages
    BY <1>i, <1>1, <2>1 DEF ChunksInv, Sane, i2cVars, MemInsmod, GetFreePages, MemRmmod, FreePages
  <2>2. CASE Kmalloc
    BY <1>i, <1>1, <2>2 DEF ChunksInv, Sane, i2cVars, KernelTypeOK, MemInv, Kmalloc, Take
  <2>3. CASE FailureKmalloc
    BY <1>i, <1>1, <2>3 DEF ChunksInv, Sane, i2cVars, KernelTypeOK, FailureKmalloc, Kfree, Give
  <2>4. CASE ExitKfree
    BY <1>i, <1>1, <2>4 DEF ChunksInv, i2cVars, KernelTypeOK, ExitKfree
  <2>5. QED
    BY <2>1, <2>2, <2>3, <2>4 DEF MemNext
<1>7. QED
  BY <1>3, <1>4, <1>5, <1>6

LEMMA RegisterPreserves ==
  ASSUME KernelInv, I2cTypeOK', NEW m \in Modules, KernelRegisterChrdev(m)
  PROVE  KernelTypeOK' /\ ChunksInv'
<1>i. KernelTypeOK /\ ChunksInv /\ I2cTypeOK /\ StagesInv
  BY DEF KernelInv, I2cInv
<1>1. m \notin chrdev
  BY <1>i, GoEffect DEF KernelRegisterChrdev, RegisterChrdev, StagesInv, HasChrdev, HasClass, HasNode
<1>2. UNCHANGED <<mem, kmalloc_addr, pages, leaked, removed>>
  BY DEF KernelRegisterChrdev
<1>3. CASE m \notin chrdev'
  BY <1>i, <1>1, <1>2, <1>3 DEF KernelRegisterChrdev, RegisterChrdev, KernelTypeOK, ChunksInv, Sane
<1>4. CASE m \in chrdev'
  <2>1. chrdev' = chrdev \cup {m}
    BY <1>1, <1>4 DEF KernelRegisterChrdev, RegisterChrdev
  <2>2. PICK c \in Chunks : Take(c) /\ record' = [record EXCEPT ![m] = c]
    BY <1>4 DEF KernelRegisterChrdev
  <2>3. KernelTypeOK'
    BY <1>i, <1>2, <2>2 DEF KernelTypeOK, Take
  <2>4. ChunksInv'
    BY <1>i, <1>1, <1>2, <2>1, <2>2 DEF KernelTypeOK, ChunksInv, Sane, Take
  <2>5. QED
    BY <2>3, <2>4
<1>5. QED
  BY <1>3, <1>4

LEMMA UnregisterPreserves ==
  ASSUME KernelInv, I2cTypeOK', NEW m \in Modules, KernelUnregisterChrdev(m)
  PROVE  KernelTypeOK' /\ ChunksInv'
<1>i. KernelTypeOK /\ ChunksInv
  BY DEF KernelInv
<1>1. /\ UNCHANGED <<mem, kmalloc_addr, pages, leaked, removed>>
      /\ chrdev' = chrdev \ {m}
      /\ record' = [record EXCEPT ![m] = "null"]
      /\ Kfree(record[m])
  BY DEF KernelUnregisterChrdev, UnregisterChrdev
<1>2. KernelTypeOK'
  BY <1>i, <1>1 DEF KernelTypeOK, Kfree, Give
<1>3. ChunksInv'
  <2>1. CASE record[m] = "null"
    BY <1>i, <1>1, <2>1 DEF KernelTypeOK, ChunksInv, Sane, Kfree
  <2>2. CASE record[m] # "null"
    BY <1>i, <1>1, <2>2 DEF KernelTypeOK, ChunksInv, Sane, Kfree, Give
  <2>3. QED
    BY <2>1, <2>2
<1>4. QED
  BY <1>2, <1>3

LEMMA KernelNextPreserves == KernelInv /\ [KernelNext]_kernelVars => KernelInv'
<1> SUFFICES ASSUME KernelInv, [KernelNext]_kernelVars PROVE KernelInv'
  OBVIOUS
<1>1. I2cInv'
  BY KernelStepIsModuleStep, I2cNextPreserves DEF KernelInv
<1>2. I2cTypeOK'
  BY <1>1 DEF I2cInv
<1>3. CASE MemNext
  BY <1>1, <1>3, MemStepPreserves DEF KernelInv
<1>4. CASE \E m \in Modules : KernelRegisterChrdev(m) \/ KernelUnregisterChrdev(m)
  <2>1. KernelTypeOK' /\ ChunksInv'
    BY <1>2, <1>4, RegisterPreserves, UnregisterPreserves
  <2>2. UNCHANGED <<mem, kmalloc_addr, pages, leaked>>
    BY <1>4 DEF KernelRegisterChrdev, KernelUnregisterChrdev
  <2>3. QED
    BY <1>1, <2>1, <2>2 DEF KernelInv, MemInv, PagesInv, InHand
<1>5. CASE OtherStep \/ UNCHANGED kernelVars
  <2>1. UNCHANGED <<chrdev, heapVars>>
    BY <1>5 DEF OtherStep, kernelVars, i2cVars, Load, Unload, Insmod, Bind, CheckFunctionality,
       ClassCreate, DeviceCreate, RequestRegion, SwitchPins, PinsUnmapped, Rmmod, Unbind,
       ReleaseRegion, DeviceDestroy, ClassDestroy, Open, Close
  <2>2. QED
    BY <1>1, <1>2, <2>1 DEF KernelInv, KernelTypeOK, MemInv, ChunksInv, Sane, PagesInv, InHand, heapVars
<1>6. QED
  BY <1>3, <1>4, <1>5 DEF KernelNext

LEMMA KernelInvariant == KernelSpec => []KernelInv
  BY KernelInitHolds, KernelNextPreserves, PTL DEF KernelSpec

\* With the memory module and a shared allocator beside them the device modules do
\* what they do alone: everything proved of them holds there too.
THEOREM KernelImplementsModules == KernelSpec => I2cSpec
<1>1. KernelInit => I2cInit
  BY DEF KernelInit
<1>2. QED
  BY <1>1, KernelStepIsModuleStep, PTL DEF KernelSpec, I2cSpec

\* Type correctness of the memory module and the allocator.
THEOREM KernelTypeCorrect == KernelSpec => []KernelTypeOK
<1>1. KernelInv => KernelTypeOK
  BY DEF KernelInv
<1>2. QED
  BY <1>1, KernelInvariant, PTL

\* For any number of chunks and loads, the pointer that mem_init keeps to the chunk
\* it freed harms nobody before the first removal of the memory module.
THEOREM KernelRecordsOwned == KernelSpec => []RecordsOwnedUntilRemoval
<1>1. KernelInv => RecordsOwnedUntilRemoval
  BY DEF KernelInv, ChunksInv, RecordsOwnedUntilRemoval
<1>2. QED
  BY <1>1, KernelInvariant, PTL

\* For any number of blocks and loads, only the loads that failed after they were
\* given eight pages have kept them.
THEOREM KernelLeaksAreFailedLoads == KernelSpec => []LeaksAreFailedLoads
<1>1. KernelInv => LeaksAreFailedLoads
  BY KernelAssumption DEF KernelAssumption, KernelInv, KernelTypeOK, PagesInv, InHand, LeaksAreFailedLoads
<1>2. QED
  BY <1>1, KernelInvariant, PTL

-----------------------------------------------------------------------------
(* Pcf8591.                                                                 *)

\* The key a process has seen is the first one its user typed, and its thread
\* has read it.
KeyInv ==
  \A a \in Apps :
    /\ main[a] = "open" => thread[a] = "none"
    /\ keyVal[a] # "nul" => keyVal[a] = first[a] /\ thread[a] \in {"return", "ended"}
    /\ main[a] \in {"join", "done"} => keyVal[a] = "q"
    /\ main[a] = "done" => thread[a] = "ended"

\* The converter holds what the channel of the last reader measured then, and a
\* process reads the channel of its argument.
ConverterInv ==
  /\ latest # -1 => held = sampled[latest]
  /\ \A a \in Apps : main[a] = "read" => data[a] = Channel(a)

PcfInv == PcfTypeOK /\ KeyInv /\ ConverterInv /\ ShownIsPrevious

-----------------------------------------------------------------------------
LEMMA LevelsAreBytes == Levels \subseteq 0..255 /\ -1 \notin Apps
  BY Pcf8591Assumption DEF Pcf8591Assumption

LEMMA ChannelsAreBytes == ASSUME NEW a \in Apps PROVE Channel(a) \in 0..255
  BY Pcf8591Assumption DEF Pcf8591Assumption, Channel

\* A channel that is read is a watched one, and measures a level.
LEMMA ChannelHasLevel ==
  ASSUME PcfTypeOK, NEW a \in Apps, Channel(a) \in Channels
  PROVE  level[Channel(a)] \in Levels /\ level[Channel(a)] \in 0..255
  BY LevelsAreBytes DEF Watched, PcfTypeOK

LEMMA PcfInitHolds == PcfInit => PcfInv
<1> SUFFICES ASSUME PcfInit PROVE PcfInv
  OBVIOUS
<1>1. PcfTypeOK
  BY LevelsAreBytes DEF PcfInit, PcfTypeOK
<1>2. KeyInv
  BY DEF PcfInit, KeyInv
<1>3. ConverterInv /\ ShownIsPrevious
  BY DEF PcfInit, ConverterInv, ShownIsPrevious
<1>4. QED
  BY <1>1, <1>2, <1>3 DEF PcfInv

-----------------------------------------------------------------------------
(* One step of main().                                                      *)

LEMMA ReadStep ==
  ASSUME PcfInv, NEW a \in Apps, Read(a)
  PROVE  PcfInv'
<1>t. PcfTypeOK /\ KeyInv /\ ConverterInv /\ ShownIsPrevious
  BY DEF PcfInv
<1>1. /\ main[a] = "read" /\ main' = [main EXCEPT ![a] = "write"]
      /\ UNCHANGED <<thread, keyVal, first, level>>
  BY DEF Read, Moves
<1>2. data[a] = Channel(a)
  BY <1>t, <1>1 DEF ConverterInv
<1>3. KeyInv'
  BY <1>t, <1>1 DEF KeyInv, PcfTypeOK
<1>4. CASE Channel(a) \in Channels /\ Convert(a, Channel(a))
  <2>1. level[Channel(a)] \in Levels /\ level[Channel(a)] \in 0..255
    BY <1>t, <1>4, ChannelHasLevel
  <2>2. PcfTypeOK'
    BY <1>t, <1>1, <1>4, <2>1 DEF Convert, PcfTypeOK
  <2>3. /\ latest' = a /\ held' = sampled'[a] /\ data'[a] = held
        /\ due'[a] = IF latest = a THEN sampled[a] ELSE -1
        /\ \A b \in Apps : b # a => data'[b] = data[b] /\ due'[b] = due[b] /\ main'[b] = main[b]
    BY <1>t, <1>1, <1>4 DEF Convert, PcfTypeOK
  <2>4. main'[a] = "write"
    BY <1>t, <1>1 DEF PcfTypeOK
  <2>5. ConverterInv'
    BY <1>t, <2>3, <2>4 DEF ConverterInv
  <2>6. latest = a => held = sampled[a]
    BY <1>t, LevelsAreBytes DEF ConverterInv
  <2>7. ShownIsPrevious'
    BY <1>t, <2>3, <2>6 DEF ShownIsPrevious
  <2>8. QED
    BY <1>3, <2>2, <2>5, <2>7 DEF PcfInv
<1>5. CASE Channel(a) \in Channels /\ ConvertFails(a, Channel(a))
  <2>1. level[Channel(a)] \in 0..255 /\ ErrorByte \in 0..255
    BY <1>t, <1>5, ChannelHasLevel DEF ErrorByte
  <2>2. PcfTypeOK'
    BY <1>t, <1>1, <1>5, <2>1 DEF ConvertFails, PcfTypeOK
  <2>3. ConverterInv' /\ ShownIsPrevious'
    BY <1>t, <1>1, <1>5 DEF ConvertFails, PcfTypeOK, ConverterInv, ShownIsPrevious
  <2>4. QED
    BY <1>3, <2>2, <2>3 DEF PcfInv
<1>6. CASE /\ data' = [data EXCEPT ![a] = 255]
           /\ due' = [due EXCEPT ![a] = -1]
           /\ UNCHANGED <<held, latest, sampled>>
  <2>1. PcfTypeOK'
    BY <1>t, <1>1, <1>6 DEF PcfTypeOK
  <2>2. ConverterInv' /\ ShownIsPrevious'
    BY <1>t, <1>1, <1>6 DEF PcfTypeOK, ConverterInv, ShownIsPrevious
  <2>3. QED
    BY <1>3, <2>1, <2>2 DEF PcfInv
<1>7. QED
  BY <1>2, <1>4, <1>5, <1>6 DEF Read, PcfRead

LEMMA MainStep ==
  ASSUME PcfInv, NEW a \in Apps, Main(a)
  PROVE  PcfInv'
<1>t. PcfTypeOK /\ KeyInv /\ ConverterInv /\ ShownIsPrevious
  BY DEF PcfInv
<1>c. Channel(a) \in 0..255
  BY ChannelsAreBytes
<1>1. CASE Start(a)
  <2>1. PcfTypeOK'
    BY <1>t, <1>c, <1>1 DEF Start, Moves, PcfTypeOK, converter, history
  <2>2. KeyInv'
    BY <1>t, <1>1 DEF Start, Moves, KeyInv, PcfTypeOK
  <2>3. ConverterInv' /\ ShownIsPrevious'
    BY <1>t, <1>1 DEF Start, Moves, ConverterInv, ShownIsPrevious, PcfTypeOK, converter, history
  <2>4. QED
    BY <2>1, <2>2, <2>3 DEF PcfInv
<1>2. CASE Check(a)
  <2>1. PcfTypeOK'
    BY <1>t, <1>c, <1>2 DEF Check, Moves, PcfTypeOK, converter
  <2>2. KeyInv'
    BY <1>t, <1>2 DEF Check, Moves, KeyInv, PcfTypeOK
  <2>3. ConverterInv' /\ ShownIsPrevious'
    BY <1>t, <1>2 DEF Check, Moves, ConverterInv, ShownIsPrevious, PcfTypeOK, converter
  <2>4. QED
    BY <2>1, <2>2, <2>3 DEF PcfInv
<1>3. CASE Write(a) \/ Show(a) \/ Join(a)
  <2>1. PcfTypeOK'
    BY <1>t, <1>3 DEF Write, Show, Join, Moves, PcfTypeOK, converter, history
  <2>2. KeyInv'
    BY <1>t, <1>3 DEF Write, Show, Join, Moves, KeyInv, PcfTypeOK
  <2>3. ConverterInv' /\ ShownIsPrevious'
    BY <1>t, <1>3 DEF Write, Show, Join, Moves, ConverterInv, ShownIsPrevious, PcfTypeOK,
       converter, history
  <2>4. QED
    BY <2>1, <2>2, <2>3 DEF PcfInv
<1>4. QED
  BY <1>1, <1>2, <1>3, ReadStep DEF Main

-----------------------------------------------------------------------------
(* One step of the thread, and of the world outside.                        *)

LEMMA ThreadStep ==
  ASSUME PcfInv, NEW a \in Apps, KeyFunc(a) \/ \E k \in {"q", "x"} : Type(a, k)
  PROVE  PcfInv'
<1>t. PcfTypeOK /\ KeyInv /\ ConverterInv /\ ShownIsPrevious
  BY DEF PcfInv
<1>1. UNCHANGED <<main, data, converter, history>>
  BY DEF KeyFunc, GetChar, Return, Type, threads
<1>2. PcfTypeOK'
  BY <1>t, <1>1 DEF KeyFunc, GetChar, Return, Type, threads, PcfTypeOK, converter, history
<1>3. KeyInv'
  <2>1. CASE GetChar(a)
    BY <1>t, <1>1, <2>1 DEF GetChar, KeyInv, PcfTypeOK
  <2>2. CASE Return(a)
    BY <1>t, <1>1, <2>2 DEF Return, KeyInv, PcfTypeOK
  <2>3. CASE \E k \in {"q", "x"} : Type(a, k)
    BY <1>t, <1>1, <2>3 DEF Type, threads, KeyInv, PcfTypeOK
  <2>4. QED
    BY <2>1, <2>2, <2>3 DEF KeyFunc
<1>4. ConverterInv' /\ ShownIsPrevious'
  BY <1>t, <1>1 DEF ConverterInv, ShownIsPrevious, converter, history
<1>5. QED
  BY <1>2, <1>3, <1>4 DEF PcfInv

LEMMA ChangeStep ==
  ASSUME PcfInv, NEW c \in Watched, NEW v \in Levels, Change(c, v)
  PROVE  PcfInv'
<1>t. PcfTypeOK /\ KeyInv /\ ConverterInv /\ ShownIsPrevious
  BY DEF PcfInv
<1>1. PcfTypeOK'
  BY <1>t DEF Change, threads, PcfTypeOK, history
<1>2. KeyInv'
  BY <1>t DEF Change, threads, KeyInv
<1>3. ConverterInv' /\ ShownIsPrevious'
  BY <1>t DEF Change, threads, history, ConverterInv, ShownIsPrevious
<1>4. QED
  BY <1>1, <1>2, <1>3 DEF PcfInv

LEMMA PcfNextPreserves == PcfInv /\ [PcfNext]_pcfVars => PcfInv'
<1> SUFFICES ASSUME PcfInv, [PcfNext]_pcfVars PROVE PcfInv'
  OBVIOUS
<1>1. CASE PcfNext
  BY <1>1, MainStep, ThreadStep, ChangeStep DEF PcfNext
<1>2. CASE UNCHANGED pcfVars
  BY <1>2 DEF PcfInv, PcfTypeOK, KeyInv, ConverterInv, ShownIsPrevious, pcfVars, threads,
     converter, history
<1>3. QED
  BY <1>1, <1>2

LEMMA PcfInvariant == PcfSpec => []PcfInv
  BY PcfInitHolds, PcfNextPreserves, PTL DEF PcfSpec

-----------------------------------------------------------------------------
\* Every thread is always at one of its calls, and what is read is a byte.
THEOREM PcfTypeCorrect == PcfSpec => []PcfTypeOK
<1>1. PcfInv => PcfTypeOK
  BY DEF PcfInv
<1>2. QED
  BY <1>1, PcfInvariant, PTL

\* For any number of processes: a process ends only because the first key of
\* its own user was 'q', and its thread has ended before it.
THEOREM PcfEndsOnRequest == PcfSpec => []EndsOnRequest
<1>1. PcfInv => EndsOnRequest
  BY DEF PcfInv, KeyInv, EndsOnRequest
<1>2. QED
  BY <1>1, PcfInvariant, PTL

\* For any number of processes, channels and levels: what a process shows is what its
\* own channel measured one read before, unless another process read the converter in
\* between or a transfer failed.
THEOREM PcfShownIsPrevious == PcfSpec => []ShownIsPrevious
<1>1. PcfInv => ShownIsPrevious
  BY DEF PcfInv
<1>2. QED
  BY <1>1, PcfInvariant, PTL
=============================================================================
