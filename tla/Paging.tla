------------------------------- MODULE Paging -------------------------------
(***************************************************************************)
(* Demand paging: the page fault handler of kern/vm/vm.c with the page     *)
(* tables of kern/vm/pt.c, on top of the coremap, the table of the swap    *)
(* file and the TLB, and with what surrounds it: processes that start,     *)
(* touch their pages, are preempted and exit, and a kernel that allocates  *)
(* frames for itself.                                                      *)
(*                                                                         *)
(* One processor; a process has one thread and one address space, so an    *)
(* address space names its process too.  vm_fault runs with interrupts     *)
(* on: a process may lose the processor between any two of the steps       *)
(* below, which are cut where the code enters or leaves a spinlock, waits  *)
(* for a device or touches user memory.  A page table is read and written  *)
(* only by its own process, so what the code does to it is part of the     *)
(* neighbouring step.                                                      *)
(*                                                                         *)
(* Contents of pages are the subject of PagingData; here a page is where   *)
(* it is.                                                                  *)
(***************************************************************************)
EXTENDS Coremap

CONSTANTS
  SWAP_SIZE,
  NUM_TLB,
  ElfPages,       \* pages of segments loaded from the executable
  Writable,       \* pages of segments with write permission
  KMaxPages       \* bound of the model: longest kernel allocation

ASSUME PagingAssumption ==
  /\ NULL \notin Frames
  /\ SWAP_SIZE \in Nat
  /\ NUM_TLB \in Nat \ {0}
  /\ ElfPages \subseteq VAddrs
  /\ Writable \subseteq VAddrs
  /\ VAddrs \ ElfPages \subseteq Writable    \* the stack
  /\ KMaxPages \in 0 .. ram_frames

VARIABLES
  swapspace, tlb, next_victim,
  cur,            \* the process that has the processor
  pt,             \* pt[p][va], the page table entry
  pc,             \* where process p is in the kernel
  loc,            \* the local variables of vm_fault and what it calls
  panicked        \* why the kernel stopped, or "no"

INSTANCE Swap
INSTANCE TLB

vars == <<coremap, timestamp, swapspace, tlb, next_victim, cur, pt, pc, loc,
          panicked>>

pt_entry == [frame : Frames \union {NULL}, in_mem : BOOLEAN, in_swap : BOOLEAN]

\* What vm_fault is about to do with the page it brings in.
Kinds == {"swap", "elf", "zero"}

PCs == {"none", "user", "alloc", "evict", "out_slot", "out_copy", "out_write",
        "remap", "tlbR", "in_slot", "in_read", "in_copy", "bzero", "elf_read",
        "elf_copy", "clean", "tlbW", "exit"}

Locals == [va     : VAddrs \union {NULL},
           kind   : Kinds \union {NULL},
           frame  : Frames \union {NULL},
           victim : VAddrs \union {NULL},
           slot   : Slots \union {NULL}]

NoLocals == [va |-> NULL, kind |-> NULL, frame |-> NULL, victim |-> NULL,
             slot |-> NULL]

Panics == {"no", "segv", "readonly", "victim", "swap full", "swap i/o"}

TypeOK ==
  /\ CMTypeOK /\ SwapTypeOK /\ TLBTypeOK
  /\ cur \in AddrSpaces
  /\ pt \in [AddrSpaces -> [VAddrs -> pt_entry]]
  /\ pc \in [AddrSpaces -> PCs]
  /\ loc \in [AddrSpaces -> Locals]
  /\ panicked \in Panics

-----------------------------------------------------------------------------
(***************************************************************************)
(* Page tables.                                                            *)
(***************************************************************************)

pt_create == [frame |-> NULL, in_mem |-> FALSE, in_swap |-> FALSE]

\* Mutant: in_mem is not reset.
pt_update_KeepInMem(p, va) ==
  [pt EXCEPT ![p][va].in_swap = TRUE]

\* pt_update: the page has gone to the swap file.
pt_update(p, va) ==
  [pt EXCEPT ![p][va] = [frame |-> NULL, in_mem |-> FALSE, in_swap |-> TRUE]]

\* The three assignments to pte after a frame was found.
pt_map(p, va, f) ==
  [pt EXCEPT ![p][va] = [frame |-> f, in_mem |-> TRUE, in_swap |-> FALSE]]

-----------------------------------------------------------------------------
(***************************************************************************)
(* Steps of process p, which has the processor and is at l.                *)
(***************************************************************************)

At(p, l) == panicked = "no" /\ cur = p /\ pc[p] = l

Goto(p, l) == pc' = [pc EXCEPT ![p] = l]

\* panic(): nothing runs any more.
Panic(why) ==
  /\ panicked' = why
  /\ UNCHANGED <<coremap, timestamp, swapspace, tlb, next_victim, cur, pt, pc,
                 loc>>

\* runprogram: as_create, the regions of load_elf and as_define_stack make
\* an empty page table; proc_setas and as_activate.
runprogram(p) ==
  /\ At(p, "none")
  /\ pt' = [pt EXCEPT ![p] = [va \in VAddrs |-> pt_create]]
  /\ FlushTLB
  /\ Goto(p, "user")
  /\ UNCHANGED <<coremap, timestamp, swapspace, cur, loc, panicked>>

\* Mutant: a frame that is being filled gets the permission of its segment.
Reload_SegmentPermission(p, va) ==
  /\ ~ Hit(va)
  /\ pt[p][va].in_mem
  /\ tlbW(va, pt[p][va].frame, va \in Writable)
  /\ UNCHANGED <<coremap, timestamp, swapspace, cur, pt, pc, loc, panicked>>

\* vm_fault on page va of p when the page is in memory: the TLB lost it.  A
\* frame that is being filled must be writable whatever its segment says.
Reload(p, va) ==
  /\ ~ Hit(va)
  /\ pt[p][va].in_mem
  /\ LET f == pt[p][va].frame
     IN  tlbW(va, f, coremap[f].state = LOADING \/ va \in Writable)
  /\ UNCHANGED <<coremap, timestamp, swapspace, cur, pt, pc, loc, panicked>>

UserReload(p, va) == At(p, "user") /\ Reload(p, va)

\* vm_fault on a page that is not in memory.
Kind(p, va) ==
  IF pt[p][va].in_swap THEN "swap" ELSE IF va \in ElfPages THEN "elf" ELSE "zero"

\* Mutant: in_mem is not looked at.
UserFault_Resident(p, va) ==
  /\ At(p, "user")
  /\ ~ Hit(va)
  /\ loc' = [loc EXCEPT ![p] = [NoLocals EXCEPT !.va = va, !.kind = Kind(p, va)]]
  /\ Goto(p, "alloc")
  /\ UNCHANGED <<coremap, timestamp, swapspace, tlb, next_victim, cur, pt,
                 panicked>>

UserFault(p, va) ==
  /\ At(p, "user")
  /\ ~ Hit(va)
  /\ ~ pt[p][va].in_mem
  /\ loc' = [loc EXCEPT ![p] = [NoLocals EXCEPT !.va = va, !.kind = Kind(p, va)]]
  /\ Goto(p, "alloc")
  /\ UNCHANGED <<coremap, timestamp, swapspace, tlb, next_victim, cur, pt,
                 panicked>>

\* An access outside of every segment: EFAULT.  kill_curthread panics, or
\* mips_trap itself for an address that sys_read or sys_write was given, ...
UserSegv(p) == At(p, "user") /\ Panic("segv")

\* ... but one that sys___time was given fails copyout: mips_trap goes on in
\* copyfail, and the process with an error.
CopyoutFails(p) == At(p, "user") /\ UNCHANGED vars

\* A store through an entry that is not dirty: VM_FAULT_READONLY.
UserReadOnly(p) ==
  /\ At(p, "user")
  /\ \E x \in Entries : tlb[x].vpage # NULL /\ ~ tlb[x].dirty
  /\ Panic("readonly")

-----------------------------------------------------------------------------
(***************************************************************************)
(* Finding a frame.                                                        *)
(***************************************************************************)

\* What follows once the page has a frame.
Fill(p) == IF loc[p].kind = "swap" THEN "in_slot" ELSE "bzero"

FrameAlloc(p) ==
  /\ At(p, "alloc")
  /\ \E f \in Frames :
       /\ frame_alloc(loc[p].va, p, f)
       /\ pt' = pt_map(p, loc[p].va, f)
       /\ loc' = [loc EXCEPT ![p].frame = f]
  /\ Goto(p, Fill(p))
  /\ UNCHANGED <<swapspace, tlb, next_victim, cur, panicked>>

FrameAllocFails(p) ==
  /\ At(p, "alloc")
  /\ frame_alloc_fails
  /\ Goto(p, "evict")
  /\ UNCHANGED <<coremap, timestamp, swapspace, tlb, next_victim, cur, pt, loc,
                 panicked>>

\* handle_victim_and_swapout, call by call.
Evict(p) ==
  /\ At(p, "evict")
  /\ \E f \in Frames :
       /\ cm_evict(p, f)
       /\ loc' = [loc EXCEPT ![p].frame = f, ![p].victim = coremap[f].virt_addr]
  /\ Goto(p, "out_slot")
  /\ UNCHANGED <<swapspace, tlb, next_victim, cur, pt, panicked>>

EvictPanics(p) == At(p, "evict") /\ cm_evict_panics(p) /\ Panic("victim")

SwapOutSlot(p) ==
  /\ At(p, "out_slot")
  /\ \E i \in Slots :
       /\ swap_out_slot(p, loc[p].victim, i)
       /\ loc' = [loc EXCEPT ![p].slot = i]
  /\ Goto(p, "out_copy")
  /\ UNCHANGED <<coremap, timestamp, tlb, next_victim, cur, pt, panicked>>

SwapOutPanics(p) == At(p, "out_slot") /\ swap_out_panics /\ Panic("swap full")

\* emu_write copies the victim to the buffer of the device, by its user
\* address, ...
SwapOutCopy(p) ==
  /\ At(p, "out_copy")
  /\ Hit(loc[p].victim)
  /\ Goto(p, "out_write")
  /\ UNCHANGED <<coremap, timestamp, swapspace, tlb, next_victim, cur, pt, loc,
                 panicked>>

\* ... and has the device write the buffer to the slot.
SwapOutWrite(p) ==
  /\ At(p, "out_write")
  /\ Goto(p, "remap")
  /\ UNCHANGED <<coremap, timestamp, swapspace, tlb, next_victim, cur, pt, loc,
                 panicked>>

SwapOutError(p) == At(p, "out_write") /\ Panic("swap i/o")

Remap(p) ==
  /\ At(p, "remap")
  /\ pt' = pt_update(p, loc[p].victim)
  /\ cm_update_vaddr(p, loc[p].frame, loc[p].va)
  /\ Goto(p, "tlbR")
  /\ UNCHANGED <<swapspace, tlb, next_victim, cur, loc, panicked>>

TlbReplace(p) ==
  /\ At(p, "tlbR")
  /\ tlbR(loc[p].victim, loc[p].va, loc[p].frame)
  /\ pt' = pt_map(p, loc[p].va, loc[p].frame)
  /\ Goto(p, Fill(p))
  /\ UNCHANGED <<coremap, timestamp, swapspace, cur, loc, panicked>>

-----------------------------------------------------------------------------
(***************************************************************************)
(* Filling it.  The kernel writes to the page through its user address.    *)
(***************************************************************************)

\* A store of the kernel to the page that is being filled goes through.
\* (That it never meets an entry that is not dirty is KernelStoresAllowed.)
Stores(p) == \E x \in Entries : Probe(loc[p].va, x) /\ tlb[x].dirty

\* (That the slot is found follows from SwapSlotsMatch.)
SwapInSlot(p) ==
  /\ At(p, "in_slot")
  /\ \E i \in Slots :
       /\ swap_in_slot(p, loc[p].va, i)
       /\ loc' = [loc EXCEPT ![p].slot = i]
  /\ Goto(p, "in_read")
  /\ UNCHANGED <<coremap, timestamp, tlb, next_victim, cur, pt, panicked>>

\* The device reads the slot into its buffer, ...
SwapInRead(p) ==
  /\ At(p, "in_read")
  /\ Goto(p, "in_copy")
  /\ UNCHANGED <<coremap, timestamp, swapspace, tlb, next_victim, cur, pt, loc,
                 panicked>>

SwapInError(p) == At(p, "in_read") /\ Panic("swap i/o")

\* ... which emu_doread copies to the page.
SwapInCopy(p) ==
  /\ At(p, "in_copy")
  /\ Stores(p)
  /\ Goto(p, "clean")
  /\ UNCHANGED <<coremap, timestamp, swapspace, tlb, next_victim, cur, pt, loc,
                 panicked>>

Bzero(p) ==
  /\ At(p, "bzero")
  /\ Stores(p)
  /\ Goto(p, IF loc[p].kind = "elf" THEN "elf_read" ELSE "clean")
  /\ UNCHANGED <<coremap, timestamp, swapspace, tlb, next_victim, cur, pt, loc,
                 panicked>>

\* load_page_from_elf; vm_fault ignores its result, so that after an error
\* the page stays as it is.
ElfRead(p) ==
  /\ At(p, "elf_read")
  /\ Goto(p, "elf_copy")
  /\ UNCHANGED <<coremap, timestamp, swapspace, tlb, next_victim, cur, pt, loc,
                 panicked>>

ElfReadError(p) ==
  /\ At(p, "elf_read")
  /\ Goto(p, "clean")
  /\ UNCHANGED <<coremap, timestamp, swapspace, tlb, next_victim, cur, pt, loc,
                 panicked>>

ElfCopy(p) ==
  /\ At(p, "elf_copy")
  /\ Stores(p)
  /\ Goto(p, "clean")
  /\ UNCHANGED <<coremap, timestamp, swapspace, tlb, next_victim, cur, pt, loc,
                 panicked>>

Clean(p) ==
  /\ At(p, "clean")
  /\ cm_update_state(loc[p].frame, CLEAN)
  /\ Goto(p, "tlbW")
  /\ UNCHANGED <<swapspace, tlb, next_victim, cur, pt, loc, panicked>>

TlbWrite(p) ==
  /\ At(p, "tlbW")
  /\ tlbW(loc[p].va, loc[p].frame, loc[p].va \in Writable)
  /\ loc' = [loc EXCEPT ![p] = NoLocals]
  /\ Goto(p, "user")
  /\ UNCHANGED <<coremap, timestamp, swapspace, cur, pt, panicked>>

-----------------------------------------------------------------------------
\* Mutant: the victim is taken to be in the TLB.
Touched_NotVictim(p) ==
  IF pc[p] \in {"in_copy", "bzero", "elf_copy"} THEN loc[p].va ELSE NULL

\* The page that the kernel touches where p is, or NULL.
Touched(p) ==
  CASE pc[p] = "out_copy" -> loc[p].victim
    [] pc[p] \in {"in_copy", "bzero", "elf_copy"} -> loc[p].va
    [] OTHER -> NULL

\* It is not in the TLB: vm_fault is entered a second time on the same
\* stack.  (That it finds the page in memory is NestedFaultResident.)
NestedFault(p) ==
  /\ At(p, pc[p])
  /\ Touched(p) # NULL
  /\ Reload(p, Touched(p))

-----------------------------------------------------------------------------
(***************************************************************************)
(* The end of a process: as_destroy, from sys__exit.  Its page table is    *)
(* freed between cm_asfree and swap_asfree.  The thread keeps running on   *)
(* its kernel stack, with the TLB as it is, until thread_exit.             *)
(***************************************************************************)

AsDestroyFrames(p) ==
  /\ At(p, "user")
  /\ cm_asfree(p)
  /\ pt' = [pt EXCEPT ![p] = [va \in VAddrs |-> pt_create]]
  /\ Goto(p, "exit")
  /\ UNCHANGED <<swapspace, tlb, next_victim, cur, loc, panicked>>

AsDestroySwap(p) ==
  /\ At(p, "exit")
  /\ swap_asfree(p)
  /\ Goto(p, "none")
  /\ UNCHANGED <<coremap, timestamp, tlb, next_victim, cur, pt, loc, panicked>>

(***************************************************************************)
(* The rest of the kernel.                                                 *)
(***************************************************************************)

\* Mutant: as_activate does not invalidate the TLB.
thread_switch_NoFlush(p) ==
  /\ panicked = "no"
  /\ cur' = p
  /\ UNCHANGED <<coremap, timestamp, swapspace, tlb, next_victim, pt, pc, loc,
                 panicked>>

\* thread_switch, called from the timer interrupt or to wait for a device,
\* ends in as_activate in the thread that gets the processor.  A thread
\* without address space leaves the TLB alone; one on its way from
\* as_destroy to thread_exit still has the pointer and invalidates it.
thread_switch(p) ==
  /\ panicked = "no"
  /\ cur' = p
  /\ \/ FlushTLB
     \/ pc[p] = "none" /\ UNCHANGED <<tlb, next_victim>>
  /\ UNCHANGED <<coremap, timestamp, swapspace, pt, pc, loc, panicked>>

alloc_kpages(n, f) ==
  /\ panicked = "no"
  /\ frame_kalloc(n, f)
  /\ UNCHANGED <<swapspace, tlb, next_victim, cur, pt, pc, loc, panicked>>

free_kpages(f) ==
  /\ panicked = "no"
  /\ coremap[f].state = FIXED /\ coremap[f].npages > 0
  /\ frame_kfree(f)
  /\ UNCHANGED <<swapspace, tlb, next_victim, cur, pt, pc, loc, panicked>>

Halted == panicked # "no" /\ UNCHANGED vars

-----------------------------------------------------------------------------
Init ==
  /\ vm_bootstrap
  /\ swapspace_bootstrap
  /\ tlb = [x \in Entries |-> Invalid]
  /\ next_victim = 0
  /\ cur \in AddrSpaces
  /\ pt = [p \in AddrSpaces |-> [va \in VAddrs |-> pt_create]]
  /\ pc = [p \in AddrSpaces |-> "none"]
  /\ loc = [p \in AddrSpaces |-> NoLocals]
  /\ panicked = "no"

UserStep(p) ==
  \/ runprogram(p) \/ UserSegv(p) \/ CopyoutFails(p) \/ UserReadOnly(p)
  \/ \E va \in VAddrs : UserReload(p, va) \/ UserFault(p, va)

\* The steps of a page fault.
FaultStep(p) ==
  \/ FrameAlloc(p) \/ FrameAllocFails(p) \/ Evict(p) \/ EvictPanics(p)
  \/ SwapOutSlot(p) \/ SwapOutPanics(p) \/ SwapOutCopy(p) \/ SwapOutWrite(p)
  \/ SwapOutError(p) \/ Remap(p) \/ TlbReplace(p)
  \/ SwapInSlot(p) \/ SwapInRead(p) \/ SwapInError(p)
  \/ SwapInCopy(p) \/ Bzero(p) \/ ElfRead(p) \/ ElfReadError(p) \/ ElfCopy(p)
  \/ NestedFault(p) \/ Clean(p) \/ TlbWrite(p)

KernelStep ==
  \E f \in Frames :
    free_kpages(f) \/ \E n \in 1 .. KMaxPages : alloc_kpages(n, f)

Next ==
  \/ \E p \in AddrSpaces :
       \/ UserStep(p) \/ FaultStep(p) \/ thread_switch(p)
       \/ AsDestroyFrames(p) \/ AsDestroySwap(p)
  \/ KernelStep
  \/ Halted

Spec == Init /\ [][Next]_vars

(***************************************************************************)
(* Fairness.  The run queue is first in, first out and the timer preempts, *)
(* so every thread gets the processor again and again and takes a step     *)
(* when it has it.  A time slice is longer than it takes from a reload of  *)
(* the TLB to the access that needed it, so that access is made in the     *)
(* end.                                                                    *)
(***************************************************************************)

Touch(p) == SwapOutCopy(p) \/ SwapInCopy(p) \/ Bzero(p) \/ ElfCopy(p)

Fairness ==
  \A p \in AddrSpaces :
    /\ WF_vars(thread_switch(p))
    /\ SF_vars(FaultStep(p) \/ AsDestroySwap(p))
    /\ SF_vars(Touch(p))

FairSpec == Spec /\ Fairness

-----------------------------------------------------------------------------
(***************************************************************************)
(* Properties.                                                             *)
(***************************************************************************)

\* p is giving up page va of its own: the frame is no longer its frame in
\* the coremap, and its page table does not say so yet.
Leaving(p, va) ==
  va = loc[p].victim /\ pc[p] \in {"out_slot", "out_copy", "out_write", "remap"}

\* A frame taken by cm_evict is in the hands of exactly one process until
\* cm_update_vaddr gives it a page: it is neither lost nor used twice.
EvictedFrameInHand ==
  \A f \in Frames : Evicted(f) =>
    \E p \in AddrSpaces :
      /\ pc[p] \in {"out_slot", "out_copy", "out_write", "remap"}
      /\ loc[p].frame = f
      /\ \A q \in AddrSpaces \ {p} : loc[q].frame # f

\* The page tables and the coremap, which record the same relation under
\* different locks, agree whenever a process is not between the two, also
\* about processes that are gone; the frame of a process that is between the
\* two is in its hands alone.
PageTablesMatchCoremap ==
  /\ EvictedFrameInHand
  /\ \A p \in AddrSpaces, va \in VAddrs : pt[p][va].in_mem =>
       LET f == pt[p][va].frame
       IN  /\ f \in Frames
           /\ IF Leaving(p, va) THEN f = loc[p].frame /\ Evicted(f)
                ELSE coremap[f].as = p /\ coremap[f].virt_addr = va
  /\ \A f \in Frames : coremap[f].as # NULL =>
       LET p == coremap[f].as
           va == coremap[f].virt_addr
       IN  \/ pt[p][va].in_mem /\ pt[p][va].frame = f
           \/ pc[p] = "tlbR" /\ loc[p].va = va /\ loc[p].frame = f

\* The slots that hold page va of p.
SlotsOf(p, va) == {i \in Slots : Holds(i, p, va)}

\* The page has a copy in the swap file that the kernel counts on: the page
\* table says so, or swap_out has taken the slot, or swap_in has not yet
\* looked for it.
Swapped(p, va) ==
  \/ pt[p][va].in_swap
  \/ va = loc[p].victim /\ pc[p] \in {"out_copy", "out_write", "remap"}
  \/ va = loc[p].va /\ loc[p].kind = "swap" /\ pc[p] = "in_slot"

\* A page has exactly one slot when it is swapped out and none otherwise:
\* no slot leaks, not even when the process is gone (the next one may well
\* get the same struct addrspace pointer), and swap_in neither reads an old
\* copy nor panics with "vaddr not found".
SwapSlotsMatch ==
  \A p \in AddrSpaces, va \in VAddrs :
    IF Swapped(p, va)
      THEN \E i \in Slots : SlotsOf(p, va) = {i}
      ELSE pc[p] # "exit" => SlotsOf(p, va) = {}

\* In user mode the TLB holds, once each, only pages of the running process,
\* in frames that the coremap gives to those pages, loaded to the end, and
\* writable only if their segment is: not what a process that had the
\* processor before left, nor the page that was evicted, nor the write
\* permission that loading needed.
TlbIsolation ==
  pc[cur] = "user" =>
    \A x \in Entries : tlb[x].vpage # NULL =>
      /\ tlb[x].dirty => tlb[x].vpage \in Writable
      /\ \A y \in Entries : tlb[y].vpage = tlb[x].vpage => y = x
      /\ LET e == coremap[tlb[x].pframe]
         IN  e.as = cur /\ e.virt_addr = tlb[x].vpage /\ e.state = CLEAN

\* A page that the kernel touches while it handles a page fault is in
\* memory, so that vm_fault is entered at most twice and cannot evict the
\* page it is working for.
NestedFaultResident ==
  \A p \in AddrSpaces : Touched(p) # NULL => pt[p][Touched(p)].in_mem

\* While the kernel fills a page, an entry of the TLB for that page is
\* dirty and maps the frame that is being filled: loading a read-only page
\* does not end in VM_FAULT_READONLY, however often the process is
\* preempted.
KernelStoresAllowed ==
  pc[cur] \in {"in_copy", "bzero", "elf_copy"} =>
    \A x \in Entries : Probe(loc[cur].va, x) =>
      tlb[x].dirty /\ tlb[x].pframe = loc[cur].frame

\* Whatever the kernel touches on behalf of a fault is there to be touched.
KernelAccessesSafe == NestedFaultResident /\ KernelStoresAllowed

\* No page is given other processes' data: the slot that swap_in is about
\* to read has not been given to another process.
SwapInReadsOwnSlot ==
  \A p \in AddrSpaces : pc[p] = "in_read" =>
    swapspace[loc[p].slot].as \in {NULL, p}

\* A process that is in vm_fault or in as_destroy leaves it, whatever the
\* others do and however often it loses the TLB to them, unless the kernel
\* panics (or the model has no more timestamps).
FaultsEnd ==
  \A p \in AddrSpaces :
    pc[p] \notin {"none", "user"} ~>
      \/ pc[p] \in {"none", "user"}
      \/ panicked # "no"
      \/ timestamp >= TSBound /\ pc[p] \in {"alloc", "remap"}
=============================================================================
