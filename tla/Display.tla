------------------------------ MODULE Display ------------------------------
(***************************************************************************)
(* drv/09sh1106 from its loading on: the programs of Sh1106 open their     *)
(* device file as soon as the probe has made it, and the probe switches    *)
(* the pins of the bus only after that, or not at all when it dies first.  *)
(* The ADC module switches the same pins.                                  *)
(***************************************************************************)
EXTENDS Sh1106

CONSTANTS
  Modules,  \* the modules in use, the display module among them
  Majors,   \* the major numbers the kernel has left to give
  MaxLoads  \* bound: modules loaded or bound again

VARIABLES
  stage, sysfs, chrdev, major, class, node, region, files, loads,  \* as in I2cModules
  early     \* history: early[p]: one of p's last four transfers of oled_init went over
            \* unswitched pins, while the display's probe had not come to them

Driver == INSTANCE I2cModules WITH Users <- Procs, at <- stage

driverVars == <<stage, sysfs, chrdev, major, class, node, region, files, loads>>
displayVars == <<sh1106Vars, driverVars, early>>

-----------------------------------------------------------------------------
DisplayInit ==
  /\ Sh1106Init
  /\ Driver!I2cInit
  /\ early = [p \in Procs |-> FALSE]

\* The end of pad_mux, of either module.
PadMux(m) == Driver!SwitchPins(m) /\ Wire /\ UNCHANGED early

OtherDriverStep(m) ==
  /\ \/ Driver!Load(m) \/ Driver!CheckFunctionality(m) \/ Driver!RegisterChrdev(m)
     \/ Driver!ClassCreate(m) \/ Driver!DeviceCreate(m) \/ Driver!RequestRegion(m)
     \/ Driver!PinsUnmapped(m) \/ Driver!Unload(m) \/ Driver!Remove(m)
  /\ UNCHANGED <<sh1106Vars, early>>

DisplayOpen(p) ==
  /\ Open(p)
  /\ Driver!Open(p, "sh1106")
  /\ early' = [early EXCEPT ![p] = FALSE]

DisplayExit(p) ==
  /\ Exit(p)
  /\ Driver!Close(p)
  /\ UNCHANGED early

Unswitched == ~wired /\ stage["sh1106"] \in {"request", "map", "oops"}

DisplayCall(p) ==
  /\ \/ OledInit(p) /\ early' = [early EXCEPT ![p] = @ \/ (Lighting(p) /\ Unswitched)]
     \/ (Write(p) \/ Show(p)) /\ UNCHANGED early
  /\ UNCHANGED driverVars

DisplayNext ==
  \/ \E m \in Modules : PadMux(m) \/ OtherDriverStep(m)
  \/ \E p \in Procs : DisplayOpen(p) \/ DisplayExit(p) \/ DisplayCall(p)

DisplaySpec == DisplayInit /\ [][DisplayNext]_displayVars

-----------------------------------------------------------------------------
(* Properties.                                                              *)

\* The display is lit while frames are shown, unless another process is opening the
\* device, or one of the last four transfers of an opening failed, was parted from the
\* others by another process, or came before the probe had switched the pins.  What
\* goes wrong earlier in an opening, or in a write, cannot put the display out.
OnWhileShown ==
  (\E p \in Procs : at[p] \in {"ready", "write"}) =>
    (on /\ pump) \/ \E q \in Procs : at[q] = "init" \/ unlit[q] \/ early[q]
=============================================================================
