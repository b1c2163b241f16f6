------------------------------- MODULE PadMode -------------------------------
(***************************************************************************)
(* gpio_mode, the function by which drv/04pwm, 06motor_step and            *)
(* 07ultrasonic set a pad register through /dev/mem: it maps the page of   *)
(* the register and stores at the register's offset in it.  The masks are  *)
(* made from a MAP_SIZE of 4094, so bit 1 of an address counts as part of  *)
(* the page.                                                               *)
(***************************************************************************)
EXTENDS Integers

CONSTANT Targets  \* physical addresses gpio_mode is called with, from a page border on

\* The page size of mmap.
Page == 4096

\* Bytes of the types B, H and W.
Widths == {1, 2, 4}

\* The value of bit 1 of an address.
Bit1(t) == 2 * ((t \div 2) % 2)

\* target & ~MAP_MASK and target & MAP_MASK, with MAP_MASK = 0xffd.
Base(t) == t - (t % Page) + Bit1(t)
Offset(t) == (t % Page) - Bit1(t)

VARIABLES
  pc,      \* "call", "open", "mmap", "store", "munmap", "close" or "done"
  target,  \* the address of the call
  width,   \* the bytes of its type
  stored,  \* the bytes the call has changed
  ret,     \* what the call returned
  fd,      \* the file is open
  failed   \* history: a system call failed by itself

padVars == <<pc, target, width, stored, ret, fd, failed>>

-----------------------------------------------------------------------------
\* Natural alignment is the caller's business.
GpioMode ==
  /\ pc = "call"
  /\ pc' = "open"
  /\ target' \in Targets
  /\ width' \in {w \in Widths : target' % w = 0}
  /\ UNCHANGED <<stored, ret, fd, failed>>

\* return r
Return(r) == pc' = "done" /\ ret' = r

OpenMem ==
  /\ pc = "open"
  /\ \/ pc' = "mmap" /\ fd' = TRUE /\ UNCHANGED <<ret, failed>>
     \/ Return(-1) /\ failed' = TRUE /\ UNCHANGED fd
  /\ UNCHANGED <<target, width, stored>>

\* mmap wants an offset on a page border, and may fail for other reasons too;
\* the error returns leave the file open.
Mmap ==
  /\ pc = "mmap"
  /\ \/ Base(target) % Page = 0 /\ pc' = "store" /\ UNCHANGED <<ret, failed>>
     \/ Return(-1) /\ failed' = (Base(target) % Page = 0)
  /\ UNCHANGED <<target, width, stored, fd>>

Store ==
  /\ pc = "store"
  /\ pc' = "munmap"
  /\ stored' = {Base(target) + Offset(target) + k : k \in 0..width - 1}
  /\ UNCHANGED <<target, width, ret, fd, failed>>

Munmap ==
  /\ pc = "munmap"
  /\ \/ pc' = "close" /\ UNCHANGED <<ret, failed>>
     \/ Return(-1) /\ failed' = TRUE
  /\ UNCHANGED <<target, width, stored, fd>>

CloseMem ==
  /\ pc = "close"
  /\ Return(0)
  /\ fd' = FALSE
  /\ UNCHANGED <<target, width, stored, failed>>

-----------------------------------------------------------------------------
PadInit ==
  /\ pc = "call"
  /\ target = 0
  /\ width = 1
  /\ stored = {}
  /\ ret = 0
  /\ fd = FALSE
  /\ failed = FALSE

PadNext ==
  \/ GpioMode \/ OpenMem \/ Mmap \/ Store \/ Munmap \/ CloseMem

PadSpec == PadInit /\ [][PadNext]_padVars

-----------------------------------------------------------------------------
(* Properties.                                                              *)

\* A call never changes any byte but those its address and type name, although
\* page and offset are cut with a mask that fits no page.
StoresExactly == stored \in {{}, {target + k : k \in 0..width - 1}}

\* A word register can always be set: the programs' registers, which all are at
\* multiples of 4, are not refused because of the mask.
WordsWork == pc = "done" /\ target % 4 = 0 /\ ~failed => ret = 0 /\ stored # {} /\ ~fd

\* "Save the data of the given type to the virtual address addr is mapped to",
\* type W, H or B: every naturally aligned address works when no system call
\* fails by itself.
EveryAddressWorks == pc = "done" /\ ~failed => ret = 0
=============================================================================
