------------------------------ MODULE I2cModules ------------------------------
(***************************************************************************)
(* drv/08pcf8591, drv/09sh1106 and drv/02led_drv as kernel modules: what   *)
(* probe (of the LED module its init) acquires and remove (its exit) gives *)
(* back.  The first two set the pins of the same I2C controller and ask    *)
(* for the same 16 bytes at 0x32b300a8.  One step is one call into the     *)
(* kernel, so an open may come between any two calls of a probe.  Whether  *)
(* a call failed is never looked at: a probe goes on with what it has.     *)
(* Besides rmmod, the unbind file of the I2C driver runs remove, also      *)
(* while a device file is open, and its bind file runs probe again.        *)
(***************************************************************************)
EXTENDS Integers, FiniteSets

CONSTANTS
  Modules,  \* the modules in use: subset of {"pcf8591", "sh1106", "led"}
  Users,    \* processes that open the device files
  Majors,   \* the major numbers the kernel has left to give
  MaxLoads  \* bound: modules loaded or bound again

ASSUME I2cAssumption ==
  /\ Modules \subseteq {"pcf8591", "sh1106", "led"}
  /\ "none" \notin Majors
  /\ MaxLoads \in Nat

VARIABLES
  at,      \* at[m]: how far module m has come
  sysfs,   \* modules whose remove was started by an unbind, not by rmmod
  chrdev,  \* modules whose character device is registered
  major,   \* major[m]: the major number of module m, "none" for an error number
  class,   \* modules whose device class exists
  node,    \* modules whose device file exists
  region,  \* the module that holds 0x32b300a8, or "free"
  files,   \* files[u]: the module whose device file u has open, or "none"
  loads

i2cVars == <<at, sysfs, chrdev, major, class, node, region, files, loads>>

Go(m, from, to) == at[m] = from /\ at' = [at EXCEPT ![m] = to]
InUse(m) == \E u \in Users : files[u] = m

-----------------------------------------------------------------------------
(* Loading.                                                                 *)

\* insmod registers the driver, and the I2C core finds the device; the LED module
\* is no I2C driver and acquires everything in its init.
Insmod(m) ==
  /\ loads < MaxLoads
  /\ loads' = loads + 1
  /\ Go(m, "out", IF m = "led" THEN "chrdev" ELSE "probe")
  /\ UNCHANGED <<sysfs, chrdev, major, class, node, region, files>>

\* The device's name is written to the driver's file bind: the I2C core probes again.
Bind(m) ==
  /\ loads < MaxLoads
  /\ loads' = loads + 1
  /\ Go(m, "unbound", "probe")
  /\ UNCHANGED <<sysfs, chrdev, major, class, node, region, files>>

\* Only pcf8591_probe checks what the adapter can do; when it cannot, the module
\* stays loaded without a device.
CheckFunctionality(m) ==
  /\ \/ Go(m, "probe", "chrdev")
     \/ m = "pcf8591" /\ Go(m, "probe", "unbound")
  /\ UNCHANGED <<sysfs, chrdev, major, class, node, region, files, loads>>

\* The kernel gives out any number no driver has; without one the probe goes on
\* with the error number, which is nobody's major number.
RegisterChrdev(m) ==
  /\ Go(m, "chrdev", "class")
  /\ \/ \E n \in Majors \ {major[k] : k \in chrdev} :
          /\ chrdev' = chrdev \cup {m}
          /\ major' = [major EXCEPT ![m] = n]
     \/ /\ UNCHANGED chrdev
        /\ major' = [major EXCEPT ![m] = "none"]
  /\ UNCHANGED <<sysfs, class, node, region, files, loads>>

ClassCreate(m) ==
  /\ Go(m, "class", "device")
  /\ class' \in {class, class \cup {m}}
  /\ UNCHANGED <<sysfs, chrdev, major, node, region, files, loads>>

\* Without a class, and perhaps with one, there is no device file.
DeviceCreate(m) ==
  /\ Go(m, "device", IF m = "led" THEN "bound" ELSE "request")
  /\ node' \in {node, node \cup (class \cap {m})}
  /\ UNCHANGED <<sysfs, chrdev, major, class, region, files, loads>>

\* request_mem_region returns NULL for a region that is taken, and the probe
\* reads maddr->start of it: the loading process dies in the kernel.
RequestRegion(m) ==
  /\ \/ region = "free" /\ region' = m /\ Go(m, "request", "map")
     \/ region # "free" /\ UNCHANGED region /\ Go(m, "request", "oops")
  /\ UNCHANGED <<sysfs, chrdev, major, class, node, files, loads>>

\* The ioremaps and the writel through them that switch the pins: an ioremap that
\* returns NULL is not noticed, and the write through it dies in the kernel.
SwitchPins(m) == Go(m, "map", "bound") /\ UNCHANGED <<sysfs, chrdev, major, class, node, region, files, loads>>
PinsUnmapped(m) == Go(m, "map", "oops") /\ UNCHANGED <<sysfs, chrdev, major, class, node, region, files, loads>>

-----------------------------------------------------------------------------
(* Unloading.                                                               *)

\* The call remove starts with: release_mem_region comes first in pcf8591_remove.
RemoveStart(m) == IF m = "pcf8591" THEN "release" ELSE "destroy"

\* rmmod is refused while a device file is open; without a device there is
\* nothing to remove.
Rmmod(m) ==
  /\ ~InUse(m)
  /\ Go(m, "bound", RemoveStart(m)) \/ Go(m, "unbound", "out")
  /\ UNCHANGED <<sysfs, chrdev, major, class, node, region, files, loads>>

\* The device's name is written to the driver's file unbind, which no open device
\* file holds up: .owner keeps the module, not the binding.
Unbind(m) ==
  /\ m # "led"
  /\ Go(m, "bound", RemoveStart(m))
  /\ sysfs' = sysfs \cup {m}
  /\ UNCHANGED <<chrdev, major, class, node, region, files, loads>>

\* Mutant: remove forgets the region, as sh1106_remove does.
ReleaseForgotten(m) ==
  /\ Go(m, "release", "destroy")
  /\ UNCHANGED <<sysfs, chrdev, major, class, node, region, files, loads>>

ReleaseRegion(m) ==
  /\ Go(m, "release", "destroy")
  /\ region' = "free"
  /\ UNCHANGED <<sysfs, chrdev, major, class, node, files, loads>>

\* Mutant: remove forgets the device file.
DestroyForgotten(m) ==
  /\ Go(m, "destroy", "declass")
  /\ UNCHANGED <<sysfs, chrdev, major, class, node, region, files, loads>>

\* device_destroy looks for the device in the class: the remover dies in the kernel
\* when there is none, only an error number.
DeviceDestroy(m) ==
  /\ Go(m, "destroy", IF m \in class THEN "declass" ELSE "oops")
  /\ node' = node \ {m}
  /\ UNCHANGED <<sysfs, chrdev, major, class, region, files, loads>>

ClassDestroy(m) ==
  /\ Go(m, "declass", "unregister")
  /\ class' = class \ {m}
  /\ UNCHANGED <<sysfs, chrdev, major, node, region, files, loads>>

\* After an unbind the module stays loaded without a device.
UnregisterChrdev(m) ==
  /\ Go(m, "unregister", IF m \in sysfs THEN "unbound" ELSE "out")
  /\ chrdev' = chrdev \ {m}
  /\ sysfs' = sysfs \ {m}
  /\ UNCHANGED <<major, class, node, region, files, loads>>

-----------------------------------------------------------------------------
(* Users.                                                                   *)

\* A module that is being unloaded gives out no more references.
Unloading(m) == at[m] \in {"release", "destroy", "declass", "unregister"} /\ m \notin sysfs

\* The device file of m leads to whichever driver has its number by now.
Open(u, m) ==
  /\ files[u] = "none"
  /\ m \in node
  /\ \E n \in chrdev : /\ major[n] = major[m]
                       /\ ~Unloading(n)
                       /\ files' = [files EXCEPT ![u] = n]
  /\ UNCHANGED <<at, sysfs, chrdev, major, class, node, region, loads>>

Close(u) ==
  /\ files[u] # "none"
  /\ files' = [files EXCEPT ![u] = "none"]
  /\ UNCHANGED <<at, sysfs, chrdev, major, class, node, region, loads>>

-----------------------------------------------------------------------------
I2cInit ==
  /\ at = [m \in Modules |-> "out"]
  /\ sysfs = {} /\ chrdev = {} /\ class = {} /\ node = {}
  /\ major = [m \in Modules |-> "none"]
  /\ region = "free"
  /\ files = [u \in Users |-> "none"]
  /\ loads = 0

Load(m) == Insmod(m) \/ Bind(m)

Probe(m) ==
  \/ CheckFunctionality(m) \/ RegisterChrdev(m) \/ ClassCreate(m) \/ DeviceCreate(m)
  \/ RequestRegion(m) \/ SwitchPins(m) \/ PinsUnmapped(m)

Unload(m) == Rmmod(m) \/ Unbind(m)

Remove(m) ==
  ReleaseRegion(m) \/ DeviceDestroy(m) \/ ClassDestroy(m) \/ UnregisterChrdev(m)

I2cNext ==
  \/ \E m \in Modules : Load(m) \/ Probe(m) \/ Unload(m) \/ Remove(m)
  \/ \E u \in Users, m \in Modules : Open(u, m)
  \/ \E u \in Users : Close(u)

I2cSpec == I2cInit /\ [][I2cNext]_i2cVars

-----------------------------------------------------------------------------
(* Properties.                                                              *)

\* Every module is at a call of its probe or remove, or between the two.
I2cTypeOK ==
  /\ at \in [Modules -> {"out", "probe", "chrdev", "class", "device", "request", "map",
                         "bound", "unbound", "oops", "release", "destroy", "declass", "unregister"}]
  /\ {sysfs, chrdev, class, node} \subseteq SUBSET Modules
  /\ major \in [Modules -> Majors \cup {"none"}]
  /\ region \in Modules \cup {"free"}
  /\ files \in [Users -> Modules \cup {"none"}]
  /\ loads \in 0..MaxLoads

\* A module that is out, or has found no device, has left no character device,
\* class or file, whatever its probe went through.
DeviceGone ==
  \A m \in Modules : at[m] \in {"out", "unbound"} => m \notin chrdev \cup class \cup node

\* A probe is refused its region only when the display module, which gives nothing
\* back, was ever probed, or for the display module while the ADC module holds it or
\* died with it: the ADC module is never in its own way, however often it is loaded
\* or bound again.
RegionGranted ==
  [][\A m \in Modules : at[m] = "request" /\ at'[m] = "oops" =>
       \/ region = "sh1106"
       \/ region = "pcf8591" /\ at["pcf8591"] \in {"map", "bound", "oops", "release"}]_i2cVars

\* Numbers are given back and given out again while files that name them exist: who
\* opens a module's device file gets that module or an error, never the module that
\* has its number by now, and the code behind an open file stays in the kernel, also
\* when an unbind has run remove under it.
FilesReachTheirDriver ==
  /\ \A m \in node, n \in chrdev : major[n] = major[m] => n = m
  /\ \A m \in Modules : InUse(m) => at[m] # "out"
=============================================================================
