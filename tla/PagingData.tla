----------------------------- MODULE PagingData -----------------------------
(***************************************************************************)
(* Demand paging with the contents of pages: memory, the swap file and the *)
(* buffer of the emulator device through which every transfer goes.  The   *)
(* steps are those of Paging with what they do to contents; a page is      *)
(* moved as a whole.                                                       *)
(*                                                                         *)
(* The device has one buffer, e_iobuf, guarded by e_lock; but lock_acquire *)
(* and lock_release (kern/thread/synch.c) do nothing, so processes share   *)
(* the buffer as they come.  Programming the registers of the device and   *)
(* the transfer that follows are one step here.                            *)
(***************************************************************************)
EXTENDS Paging

CONSTANTS
  Values,         \* what user programs store
  ElfErrors       \* whether reading an executable may fail

ASSUME DataAssumption == ElfErrors \in BOOLEAN

VARIABLES
  mem,            \* mem[f], the page in frame f
  swapfile,       \* swapfile[i], the page in slot i
  e_iobuf,        \* the buffer of the device
  last            \* last[p], the page that process p accessed last and
                  \* what it loaded from it or stored to it

datavars == <<mem, swapfile, e_iobuf, last>>

NoAccess == <<NULL, NULL>>

Zero       == <<NULL, "zero">>
KernelData == <<NULL, "kernel">>
Image(p, va) == IF va \in ElfPages THEN <<p, va>> ELSE Zero
Stored(p) == {<<p, v>> : v \in Values}

Contents ==
  {Zero, KernelData} \union (AddrSpaces \X ElfPages)
    \union UNION {Stored(p) : p \in AddrSpaces}

DataInit ==
  /\ Init
  /\ mem = [f \in Frames |-> KernelData]
  /\ swapfile = [i \in Slots |-> Zero]
  /\ e_iobuf = Zero
  /\ last = [p \in AddrSpaces |-> NoAccess]

-----------------------------------------------------------------------------
(***************************************************************************)
(* Accesses to user memory go through the TLB.                             *)
(***************************************************************************)

\* The frame that the TLB gives for page va.
Translates(va, f) == \E x \in Entries : Probe(va, x) /\ tlb[x].pframe = f

LoadPage(p, va) ==
  /\ At(p, "user")
  /\ \E f \in Frames : /\ Translates(va, f)
                       /\ last' = [last EXCEPT ![p] = <<va, mem[f]>>]
  /\ UNCHANGED vars
  /\ UNCHANGED <<mem, swapfile, e_iobuf>>

StorePage(p, va) ==
  /\ At(p, "user")
  /\ \E x \in Entries, v \in Stored(p) :
       /\ Probe(va, x) /\ tlb[x].dirty
       /\ mem' = [mem EXCEPT ![tlb[x].pframe] = v]
       /\ last' = [last EXCEPT ![p] = <<va, v>>]
  /\ UNCHANGED vars
  /\ UNCHANGED <<swapfile, e_iobuf>>

\* The kernel stores content d to the page that p is filling.
FillWith(p, d) ==
  /\ \E f \in Frames : Translates(loc[p].va, f) /\ mem' = [mem EXCEPT ![f] = d]
  /\ UNCHANGED <<swapfile, e_iobuf, last>>

\* The page is copied to e_iobuf, from user memory or by the device.
Buffer(d) == e_iobuf' = d /\ UNCHANGED <<mem, swapfile, last>>

DataSwapOutCopy(p) ==
  /\ SwapOutCopy(p)
  /\ \E f \in Frames : Translates(loc[p].victim, f) /\ Buffer(mem[f])

DataSwapOutWrite(p) ==
  /\ SwapOutWrite(p)
  /\ swapfile' = [swapfile EXCEPT ![loc[p].slot] = e_iobuf]
  /\ UNCHANGED <<mem, e_iobuf, last>>

DataSwapInRead(p) == SwapInRead(p) /\ Buffer(swapfile[loc[p].slot])

DataSwapInCopy(p) == SwapInCopy(p) /\ FillWith(p, e_iobuf)

DataBzero(p) == Bzero(p) /\ FillWith(p, Zero)

DataElfRead(p) == ElfRead(p) /\ Buffer(Image(p, loc[p].va))

DataElfCopy(p) == ElfCopy(p) /\ FillWith(p, e_iobuf)

\* An address space that is destroyed takes its history along.
DataAsDestroy(p) ==
  /\ AsDestroyFrames(p)
  /\ last' = [last EXCEPT ![p] = NoAccess]
  /\ UNCHANGED <<mem, swapfile, e_iobuf>>

\* The kernel uses the frames it allocates.
DataKalloc(n, f) ==
  /\ alloc_kpages(n, f)
  /\ mem' = [i \in Frames |-> IF i \in f .. f + n - 1 THEN KernelData ELSE mem[i]]
  /\ UNCHANGED <<swapfile, e_iobuf, last>>

-----------------------------------------------------------------------------
\* Steps that move no page.
QuietStep(p) ==
  \/ UserStep(p) \/ AsDestroySwap(p) \/ thread_switch(p)
  \/ FrameAlloc(p) \/ FrameAllocFails(p) \/ Evict(p) \/ EvictPanics(p)
  \/ SwapOutSlot(p) \/ SwapOutPanics(p) \/ SwapOutError(p) \/ Remap(p)
  \/ TlbReplace(p) \/ SwapInSlot(p) \/ SwapInError(p)
  \/ ElfErrors /\ ElfReadError(p)
  \/ NestedFault(p) \/ Clean(p) \/ TlbWrite(p)

DataNext ==
  \/ \E p \in AddrSpaces :
       \/ \E va \in VAddrs : LoadPage(p, va) \/ StorePage(p, va)
       \/ DataSwapOutCopy(p) \/ DataSwapOutWrite(p)
       \/ DataSwapInRead(p) \/ DataSwapInCopy(p)
       \/ DataBzero(p) \/ DataElfRead(p) \/ DataElfCopy(p) \/ DataAsDestroy(p)
       \/ QuietStep(p) /\ UNCHANGED datavars
  \/ \E f \in Frames :
       \/ \E n \in 1 .. KMaxPages : DataKalloc(n, f)
       \/ free_kpages(f) /\ UNCHANGED datavars
  \/ Halted /\ UNCHANGED datavars

DataSpec == DataInit /\ [][DataNext]_<<vars, datavars>>

DataFairSpec == DataSpec /\ Fairness

-----------------------------------------------------------------------------
(***************************************************************************)
(* The private memory that this implements: where the content of a page is *)
(* at every point of a page fault.                                         *)
(***************************************************************************)

InSlot(p, va) == swapfile[CHOOSE i \in Slots : Holds(i, p, va)]

\* p is filling page va and has not finished.
Filling(p, va) ==
  /\ va = loc[p].va
  /\ pc[p] \in {"in_slot", "in_read", "in_copy", "bzero", "elf_read", "elf_copy"}

PageContent(p, va) ==
  CASE Filling(p, va) ->
         (CASE pc[p] = "in_slot" -> InSlot(p, va)
            [] pc[p] = "in_read" -> swapfile[loc[p].slot]
            [] pc[p] = "in_copy" -> e_iobuf
            [] OTHER -> Image(p, va))
    [] ~ Filling(p, va) /\ pt[p][va].in_mem -> mem[pt[p][va].frame]
    [] pt[p][va].in_swap -> InSlot(p, va)
    [] OTHER -> Image(p, va)

\* The processes that run a program, and the memory of each.
Alive == {p \in AddrSpaces : pc[p] \notin {"none", "exit"}}
Memory ==
  [p \in AddrSpaces |-> [va \in VAddrs |-> PageContent(p, va)]]

Abs == INSTANCE AbsMem WITH
         Procs   <- AddrSpaces,
         Pages   <- VAddrs,
         alive   <- Alive,
         content <- Memory

\* The system keeps the promise of AbsMem: a page keeps its content through
\* eviction, swap_out, swap_in and reload, and every load returns what the
\* process stored last.
PrivateMemory == Abs!AbsSpec

\* Page va of p is not on its way out of memory or into it.
AtRest(p, va) == p \in Alive /\ ~ Filling(p, va) /\ ~ Leaving(p, va)

\* Whatever the transfers of others do to the buffer, the slots and the frames,
\* only a page that is itself being moved can suffer: a page at rest, in
\* memory or in the swap file, keeps its content until its process stores to
\* it, and a load returns that content.
PagesAtRestKept ==
  [][\A p \in AddrSpaces, va \in VAddrs :
       /\ AtRest(p, va) /\ AtRest(p, va)' =>
            PageContent(p, va)' = PageContent(p, va) \/ StorePage(p, va)
       /\ LoadPage(p, va) =>
            last' = [last EXCEPT ![p] = <<va, PageContent(p, va)>>]
    ]_<<vars, datavars>>

\* "The VM system should provide pages that do not contain other processes'
\* data, i.e., are already zeroed" (loadelf.c): in user mode, the pages that
\* a process has in memory hold what its executable or its own stores put
\* there, or zeros.
UserPagesPrivate ==
  \A p \in AddrSpaces, va \in VAddrs :
    pc[p] = "user" /\ pt[p][va].in_mem =>
      LET d == mem[pt[p][va].frame]
      IN  d[1] = p \/ d = Zero
=============================================================================
