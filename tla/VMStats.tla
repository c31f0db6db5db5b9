------------------------------ MODULE VMStats -------------------------------
(***************************************************************************)
(* The statistics of the VM system (kern/vm/vm_stats.c): Paging, with the  *)
(* counters that its steps increment where the code calls vmstats_inc.     *)
(*                                                                         *)
(* A step calls it once per counter at most, and nothing reads a counter   *)
(* before vmstats_print, so the calls of a step are taken together; a      *)
(* process that is preempted between two of them is in vm_fault.           *)
(***************************************************************************)
EXTENDS Paging, Integers, FiniteSets

VARIABLES
  stat_counters,
  replaced,       \* history variable: what tlbR contributed to TLB_FAULT_FREE
  refused         \* history variable: faults outside of every segment

history == <<replaced, refused>>
statvars == <<stat_counters, history>>

Counters == {"TLB_FAULT", "TLB_FAULT_FREE", "TLB_FAULT_REPLACE", "TLB_INVALID",
             "TLB_RELOAD", "PAGE_FAULT_ZERO", "PAGE_FAULT_DISK",
             "PAGE_FAULT_ELF", "PAGE_FAULT_SWAP", "SWAP_FILE_WRITE"}

vmstats_init == stat_counters = [c \in Counters |-> 0]

\* The calls of vmstats_inc that a step makes.
vmstats_inc(counters) ==
  stat_counters' =
    [c \in Counters |-> stat_counters[c] + (IF c \in counters THEN 1 ELSE 0)]

\* What tlbW counts when it is about to enter page va.
Entered(va) ==
  IF Hit(va) \/ \E x \in Entries : tlb[x].vpage = NULL
    THEN "TLB_FAULT_FREE" ELSE "TLB_FAULT_REPLACE"

\* What tlbR counts when it is about to replace page va.
Replaces(va) == IF Hit(va) THEN {"TLB_FAULT_FREE"} ELSE {}

\* Mutant: a read from the swap file is not counted as one from the disk.
FromDisk_ElfOnly(kind) ==
  CASE kind = "swap" -> {"PAGE_FAULT_SWAP"}
    [] kind = "elf"  -> {"PAGE_FAULT_ELF", "PAGE_FAULT_DISK"}
    [] OTHER         -> {}

\* A page has been read, as far as vm_fault knows.
FromDisk(kind) ==
  CASE kind = "swap" -> {"PAGE_FAULT_SWAP", "PAGE_FAULT_DISK"}
    [] kind = "elf"  -> {"PAGE_FAULT_ELF", "PAGE_FAULT_DISK"}
    [] OTHER         -> {}

-----------------------------------------------------------------------------
\* vm_fault on a page that is in memory, from user mode or from vm_fault.
CountedReload(p, va) ==
  /\ UserReload(p, va) \/ (NestedFault(p) /\ va = Touched(p))
  /\ vmstats_inc({"TLB_FAULT", "TLB_RELOAD", Entered(va)})

CountedFault(p) ==
  /\ \E va \in VAddrs : UserFault(p, va)
  /\ vmstats_inc({"TLB_FAULT"})

\* A fault is counted before it is found to be outside of every segment.
CountedRefusal(p) ==
  /\ UserSegv(p) \/ CopyoutFails(p)
  /\ vmstats_inc({"TLB_FAULT"})
  /\ refused' = refused + 1
  /\ UNCHANGED replaced

\* Counted before cm_evict has found a victim.
CountedEvict(p) ==
  /\ Evict(p) \/ EvictPanics(p)
  /\ vmstats_inc({"SWAP_FILE_WRITE"})

CountedTlbReplace(p) ==
  /\ TlbReplace(p)
  /\ vmstats_inc(Replaces(loc[p].victim))
  /\ replaced' = replaced + Cardinality(Replaces(loc[p].victim))
  /\ UNCHANGED refused

CountedClean(p) == Clean(p) /\ vmstats_inc(FromDisk(loc[p].kind))

CountedTlbWrite(p) ==
  /\ TlbWrite(p)
  /\ vmstats_inc({Entered(loc[p].va)}
                   \union (IF loc[p].kind = "zero" THEN {"PAGE_FAULT_ZERO"} ELSE {}))

\* as_activate counts when it invalidates, which it does unless the thread
\* has no address space.
CountedActivate(p) ==
  /\ runprogram(p) \/ thread_switch(p)
  /\ \/ /\ pc'[p] = "none" => \A x \in Entries : tlb'[x] = Invalid
        /\ vmstats_inc({"TLB_INVALID"})
     \/ /\ pc'[p] = "none" /\ UNCHANGED tlb
        /\ UNCHANGED stat_counters

Uncounted(p) ==
  \/ UserReadOnly(p) \/ FrameAlloc(p) \/ FrameAllocFails(p)
  \/ SwapOutSlot(p) \/ SwapOutPanics(p) \/ SwapOutCopy(p) \/ SwapOutWrite(p)
  \/ SwapOutError(p) \/ Remap(p) \/ SwapInSlot(p) \/ SwapInRead(p)
  \/ SwapInError(p) \/ SwapInCopy(p) \/ Bzero(p) \/ ElfRead(p)
  \/ ElfReadError(p) \/ ElfCopy(p) \/ AsDestroyFrames(p) \/ AsDestroySwap(p)

StatsInit == Init /\ vmstats_init /\ replaced = 0 /\ refused = 0

StatsNext ==
  \/ \E p \in AddrSpaces :
       \/ /\ \/ CountedFault(p) \/ CountedEvict(p) \/ CountedClean(p)
             \/ CountedTlbWrite(p) \/ CountedActivate(p)
             \/ \E va \in VAddrs : CountedReload(p, va)
             \/ Uncounted(p) /\ UNCHANGED stat_counters
          /\ UNCHANGED history
       \/ CountedTlbReplace(p) \/ CountedRefusal(p)
  \/ (KernelStep \/ Halted) /\ UNCHANGED statvars

StatsSpec == StatsInit /\ [][StatsNext]_<<vars, statvars>>

-----------------------------------------------------------------------------
(***************************************************************************)
(* The checks of vmstats_print: by how much each sum exceeds what it is    *)
(* compared with.  A difference other than 0 is printed as a warning.      *)
(***************************************************************************)

TlbCheck ==
  stat_counters["TLB_FAULT_FREE"] + stat_counters["TLB_FAULT_REPLACE"]
    - stat_counters["TLB_FAULT"]

FaultCheck ==
  stat_counters["TLB_RELOAD"] + stat_counters["PAGE_FAULT_DISK"]
    + stat_counters["PAGE_FAULT_ZERO"] - stat_counters["TLB_FAULT"]

DiskCheck ==
  stat_counters["PAGE_FAULT_ELF"] + stat_counters["PAGE_FAULT_SWAP"]
    - stat_counters["PAGE_FAULT_DISK"]

InFault == {p \in AddrSpaces : pc[p] \notin {"none", "user", "exit"}}

\* Faults on the way to be counted as a reload, as read or as zeroed.
Pending == {p \in InFault : ~ (pc[p] = "tlbW" /\ loc[p].kind # "zero")}

\* The checks of vmstats_print hold whenever no process is in vm_fault,
\* however faults nest and processes take turns in the middle of them, but
\* for two things: what tlbR counts in addition, and the faults outside of
\* every segment, which are counted first and refused then.  A process that
\* is in vm_fault makes a difference of one until it is counted.
ChecksAddUp ==
  /\ TlbCheck = replaced - refused - Cardinality(InFault)
  /\ FaultCheck = - refused - Cardinality(Pending)
  /\ DiskCheck = 0

\* How the checks stand, for telling states apart: they depend on the
\* counters in no other way.
Standing ==
  <<vars, TlbCheck - replaced + refused, FaultCheck + refused, DiskCheck>>
=============================================================================
