---------------------------- MODULE KernelModules ----------------------------
(***************************************************************************)
(* The device modules beside drv/01mem in one kernel.  The memory module   *)
(* takes eight pages and 100 bytes when it is loaded; its success path     *)
(* runs on into the label failure_kmalloc, so the 100 bytes are freed at   *)
(* once and freed again by its removal.  On this machine they come from    *)
(* the free list that register_chrdev takes the record of a character      *)
(* device from, chunks of 128 bytes.                                       *)
(***************************************************************************)
EXTENDS I2cModules

CONSTANTS
  Chunks,  \* chunks of 128 bytes
  Blocks,  \* blocks of eight pages the kernel has
  MaxMems  \* bound: loads of the memory module that have come to an end

ASSUME KernelAssumption ==
  /\ "null" \notin Chunks
  /\ {Blocks, MaxMems} \subseteq Nat

VARIABLES
  mem,           \* the call of mem_init or mem_exit that comes next, or "out", "loaded", "panic"
  kmalloc_addr,  \* the chunk mem_init was given, or "null"
  avail,         \* avail[c]: how often chunk c is on the free list
  record,        \* record[m]: the chunk of module m's character device, or "null"
  pages,         \* blocks of eight pages that are free
  leaked,        \* history: loads of the memory module that failed
  removed        \* history: how often mem_exit freed its chunk

heapVars == <<mem, kmalloc_addr, avail, record, pages, leaked, removed>>
kernelVars == <<i2cVars, heapVars>>

-----------------------------------------------------------------------------
(* The kernel's allocator.                                                  *)

Take(c) == avail[c] > 0 /\ avail' = [avail EXCEPT ![c] = @ - 1]
Give(c) == avail' = [avail EXCEPT ![c] = @ + 1]
Kfree(c) == IF c = "null" THEN UNCHANGED avail ELSE Give(c)

\* Every record is off the free list and in nobody else's hands.  What a kernel
\* does in which one is not is undefined: the model stops there.
Sane ==
  \A m \in chrdev : /\ avail[record[m]] = 0
                    /\ \A n \in chrdev \ {m} : record[n] # record[m]

-----------------------------------------------------------------------------
(* The memory module.                                                       *)

\* Every load starts with kmalloc_addr and err as the module file has them.
MemInsmod ==
  /\ mem = "out"
  /\ leaked + removed < MaxMems
  /\ mem' = "get_pages"
  /\ kmalloc_addr' = "null"
  /\ UNCHANGED <<i2cVars, avail, record, pages, leaked, removed>>

\* Without eight pages in one piece the module stops the machine: there may be
\* none left, or free pages in smaller pieces only.
GetFreePages ==
  /\ mem = "get_pages"
  /\ \/ pages > 0 /\ pages' = pages - 1 /\ mem' = "kmalloc"
     \/ mem' = "panic" /\ UNCHANGED pages
  /\ UNCHANGED <<i2cVars, kmalloc_addr, avail, record, leaked, removed>>

Kmalloc ==
  /\ mem = "kmalloc"
  /\ mem' = "kfree"
  /\ \/ \E c \in Chunks : Take(c) /\ kmalloc_addr' = c
     \/ UNCHANGED <<avail, kmalloc_addr>>
  /\ UNCHANGED <<i2cVars, record, pages, leaked, removed>>

\* Mutant: the success path frees the chunk itself before it runs on into the label.
FailureKmallocTwice ==
  /\ mem = "kfree"
  /\ IF kmalloc_addr = "null"
     THEN mem' = "out" /\ leaked' = leaked + 1 /\ UNCHANGED avail
     ELSE /\ mem' = "loaded" /\ UNCHANGED leaked
          /\ avail' = [avail EXCEPT ![kmalloc_addr] = @ + 2]
  /\ UNCHANGED <<i2cVars, kmalloc_addr, record, pages, removed>>

\* The label failure_kmalloc, which both paths reach: err is an error only after a
\* failed kmalloc, and then the kernel unloads the module without calling mem_exit.
FailureKmalloc ==
  /\ mem = "kfree"
  /\ Kfree(kmalloc_addr)
  /\ IF kmalloc_addr = "null"
     THEN mem' = "out" /\ leaked' = leaked + 1
     ELSE mem' = "loaded" /\ UNCHANGED leaked
  /\ UNCHANGED <<i2cVars, kmalloc_addr, record, pages, removed>>

MemRmmod ==
  /\ mem = "loaded"
  /\ mem' = "exit"
  /\ UNCHANGED <<i2cVars, kmalloc_addr, avail, record, pages, leaked, removed>>

\* mem_exit frees the chunk that mem_init has freed, whoever has it by now.
ExitKfree ==
  /\ mem = "exit"
  /\ mem' = "free_pages"
  /\ Kfree(kmalloc_addr)
  /\ removed' = removed + 1
  /\ UNCHANGED <<i2cVars, kmalloc_addr, record, pages, leaked>>

\* Mutant: mem_exit frees its chunk only.
PagesKept ==
  /\ mem = "free_pages"
  /\ mem' = "out"
  /\ UNCHANGED <<i2cVars, kmalloc_addr, avail, record, pages, leaked, removed>>

FreePages ==
  /\ mem = "free_pages"
  /\ mem' = "out"
  /\ pages' = pages + 1
  /\ UNCHANGED <<i2cVars, kmalloc_addr, avail, record, leaked, removed>>

MemNext ==
  \/ MemInsmod \/ GetFreePages \/ Kmalloc \/ FailureKmalloc
  \/ MemRmmod \/ ExitKfree \/ FreePages

-----------------------------------------------------------------------------
(* The device modules, where they meet the allocator.                       *)

KernelRegisterChrdev(m) ==
  /\ RegisterChrdev(m)
  /\ \/ m \in chrdev' /\ \E c \in Chunks : Take(c) /\ record' = [record EXCEPT ![m] = c]
     \/ m \notin chrdev' /\ UNCHANGED <<avail, record>>
  /\ UNCHANGED <<mem, kmalloc_addr, pages, leaked, removed>>

KernelUnregisterChrdev(m) ==
  /\ UnregisterChrdev(m)
  /\ Kfree(record[m])
  /\ record' = [record EXCEPT ![m] = "null"]
  /\ UNCHANGED <<mem, kmalloc_addr, pages, leaked, removed>>

\* Everything else takes nothing from the free list and gives nothing to it.
OtherStep ==
  /\ \/ \E m \in Modules :
          \/ Load(m) \/ CheckFunctionality(m) \/ ClassCreate(m) \/ DeviceCreate(m)
          \/ RequestRegion(m) \/ SwitchPins(m) \/ PinsUnmapped(m)
          \/ Unload(m) \/ ReleaseRegion(m) \/ DeviceDestroy(m) \/ ClassDestroy(m)
     \/ \E u \in Users, m \in Modules : Open(u, m)
     \/ \E u \in Users : Close(u)
  /\ UNCHANGED heapVars

-----------------------------------------------------------------------------
KernelInit ==
  /\ I2cInit
  /\ mem = "out"
  /\ kmalloc_addr = "null"
  /\ avail = [c \in Chunks |-> 1]
  /\ record = [m \in Modules |-> "null"]
  /\ pages = Blocks
  /\ leaked = 0
  /\ removed = 0

\* A machine that has stopped takes no step.
KernelNext ==
  /\ mem # "panic" /\ Sane
  /\ \/ MemNext
     \/ \E m \in Modules : KernelRegisterChrdev(m) \/ KernelUnregisterChrdev(m)
     \/ OtherStep

KernelSpec == KernelInit /\ [][KernelNext]_kernelVars

-----------------------------------------------------------------------------
(* Properties.                                                              *)

\* Every module and the memory module are at one of their calls, and what each
\* holds is something the allocator hands out.
KernelTypeOK ==
  /\ I2cTypeOK
  /\ mem \in {"out", "get_pages", "kmalloc", "kfree", "loaded", "exit", "free_pages", "panic"}
  /\ kmalloc_addr \in Chunks \cup {"null"}
  /\ avail \in [Chunks -> Nat]
  /\ record \in [Modules -> Chunks \cup {"null"}]
  /\ pages \in 0..Blocks
  /\ leaked \in Nat /\ removed \in Nat

\* The chunk that mem_init goes on pointing to after it freed it does no harm while
\* the module stays loaded, and none when its load fails, whoever has it by then:
\* no two character devices share a record, and none is on the free list, before
\* the memory module was removed for the first time.
RecordsOwnedUntilRemoval == removed = 0 => Sane

\* Eight pages are lost for good by every load that failed after it had them, and by
\* no other: whenever the memory module is out, all the others are back, however
\* many loads came to an end and in whatever order.
LeaksAreFailedLoads == mem = "out" => pages + leaked = Blocks
=============================================================================
