---------------------------- MODULE PagingProofs ----------------------------
(***************************************************************************)
(* Proofs about demand paging, for any number of frames, slots of the swap *)
(* file, entries of the TLB, processes and pages.                          *)
(***************************************************************************)
EXTENDS Paging, CoremapProofs

-----------------------------------------------------------------------------
(***************************************************************************)
(* The inductive invariant.                                                *)
(***************************************************************************)

\* Where a process is that has no page fault under way; that has none and no
\* pages; that looks for a frame; that has taken one from another page of its
\* own; and that fills the one it has found.
Outside == {"none", "user", "exit"}
Gone    == {"none", "exit"}
Giving  == {"out_slot", "out_copy", "out_write", "remap"}
Seeking == {"alloc", "evict", "tlbR"} \union Giving
SwapIn  == {"in_slot", "in_read", "in_copy"}
Bringing == SwapIn \union {"bzero", "elf_read", "elf_copy", "clean"}

\* What vm_fault has in its local variables at each place.
LocalsRight(p) ==
  LET l == loc[p]
      t == pt[p]
  IN  /\ pc[p] \in Outside => l = NoLocals
      /\ pc[p] \notin Outside => l.va \in VAddrs /\ l.kind \in Kinds
      /\ pc[p] \in {"alloc", "evict"} => l.frame = NULL
      /\ pc[p] \in Seeking =>
           ~ t[l.va].in_mem /\ (t[l.va].in_swap <=> l.kind = "swap")
      /\ pc[p] \in Giving =>
           /\ l.frame \in Frames /\ Evicted(l.frame)
           /\ l.victim \in VAddrs
           /\ t[l.victim].in_mem /\ t[l.victim].frame = l.frame
      /\ pc[p] = "tlbR" =>
           l.victim \in VAddrs /\ ~ t[l.victim].in_mem /\ t[l.victim].in_swap
      /\ pc[p] \in Bringing \union {"tlbR", "tlbW"} =>
           /\ l.frame \in Frames
           /\ coremap[l.frame].as = p /\ coremap[l.frame].virt_addr = l.va
           /\ coremap[l.frame].state = IF pc[p] = "tlbW" THEN CLEAN ELSE LOADING
      /\ pc[p] \in Bringing \union {"tlbW"} =>
           t[l.va].in_mem /\ t[l.va].frame = l.frame
      /\ pc[p] \in SwapIn => l.kind = "swap"
      /\ pc[p] \in {"bzero", "elf_read", "elf_copy"} => l.kind # "swap"

\* The page table of p: nothing without an address space; else each page that
\* is in memory is not in the swap file, and sits in a frame which the coremap
\* gives to it, or gave to it until cm_evict.
TableRight(p) ==
  /\ pc[p] \in Gone => \A va \in VAddrs : pt[p][va] = pt_create
  /\ \A va \in VAddrs : pt[p][va].in_mem =>
       /\ ~ pt[p][va].in_swap
       /\ pt[p][va].frame \in Frames
       /\ IF Leaving(p, va) THEN pt[p][va].frame = loc[p].frame
            ELSE /\ coremap[pt[p][va].frame].as = p
                 /\ coremap[pt[p][va].frame].virt_addr = va

\* The frames of p: the page table has each, but for the one between Remap and
\* TlbReplace, and all are filled, but for the one in hand.
FramesRight(p) ==
  \A f \in Frames : coremap[f].as = p =>
    /\ LET va == coremap[f].virt_addr
       IN  \/ pt[p][va].in_mem /\ pt[p][va].frame = f
           \/ pc[p] = "tlbR" /\ loc[p].va = va /\ loc[p].frame = f
    /\ \/ coremap[f].state = CLEAN
       \/ pc[p] \in Bringing \union {"tlbR"} /\ loc[p].frame = f

\* Frames that nobody owns and that are not free for all that.
HandsApart ==
  /\ \A f \in Frames : Evicted(f) =>
       \E p \in AddrSpaces : pc[p] \in Giving /\ loc[p].frame = f
  /\ \A p, q \in AddrSpaces :
       pc[p] \in Giving /\ q # p => loc[q].frame # loc[p].frame

\* The TLB holds pages of the running process, once each, where its page table
\* has them, or the page that it is giving up; only that page and the one that
\* is being filled may have more permission than their segments, and the
\* latter must be writable.
TlbRight ==
  pc[cur] \notin Gone =>
    \A x \in Entries : tlb[x].vpage # NULL =>
      LET va == tlb[x].vpage
          l  == loc[cur]
      IN  /\ \A y \in Entries : tlb[y].vpage = va => y = x
          /\ \/ pt[cur][va].in_mem /\ tlb[x].pframe = pt[cur][va].frame
             \/ pc[cur] = "tlbR" /\ va = l.victim
          /\ \/ tlb[x].dirty => va \in Writable
             \/ pc[cur] \in Giving \union {"tlbR"} /\ va = l.victim
             \/ pc[cur] \in Bringing \union {"tlbW"} /\ va = l.va
          /\ pc[cur] \in Bringing /\ va = l.va => tlb[x].dirty

PagesRight ==
  /\ \A p \in AddrSpaces : LocalsRight(p) /\ TableRight(p) /\ FramesRight(p)
  /\ HandsApart

PInv ==
  /\ TypeOK
  /\ CMInv
  /\ PagesRight
  /\ SwapSlotsMatch
  /\ TlbRight

-----------------------------------------------------------------------------
(***************************************************************************)
(* What the steps do to the tables of the processes.                       *)
(***************************************************************************)

\* A step of p to another place.
LEMMA PcSet ==
  ASSUME TypeOK, NEW p \in AddrSpaces, NEW l \in PCs, Goto(p, l)
  PROVE  /\ pc' \in [AddrSpaces -> PCs]
         /\ pc'[p] = l
         /\ \A q \in AddrSpaces \ {p} : pc'[q] = pc[q]
BY DEF TypeOK, Goto

\* Steps of p that set one or two of its local variables.
LEMMA LocSlot ==
  ASSUME TypeOK, NEW p \in AddrSpaces, NEW i, loc' = [loc EXCEPT ![p].slot = i]
  PROVE  /\ \A q \in AddrSpaces \ {p} : loc'[q] = loc[q]
         /\ loc'[p].va = loc[p].va /\ loc'[p].kind = loc[p].kind
         /\ loc'[p].frame = loc[p].frame /\ loc'[p].victim = loc[p].victim
<1>1. loc \in [AddrSpaces -> Locals] /\ loc[p] \in Locals
  BY DEF TypeOK
<1>2. loc'[p] = [loc[p] EXCEPT !.slot = i]
  BY <1>1
<1> QED BY <1>1, <1>2 DEF Locals

LEMMA LocFrame ==
  ASSUME TypeOK, NEW p \in AddrSpaces, NEW f, loc' = [loc EXCEPT ![p].frame = f]
  PROVE  /\ \A q \in AddrSpaces \ {p} : loc'[q] = loc[q]
         /\ loc'[p].va = loc[p].va /\ loc'[p].kind = loc[p].kind
         /\ loc'[p].frame = f /\ loc'[p].victim = loc[p].victim
<1>1. loc \in [AddrSpaces -> Locals] /\ loc[p] \in Locals
  BY DEF TypeOK
<1>2. loc'[p] = [loc[p] EXCEPT !.frame = f]
  BY <1>1
<1> QED BY <1>1, <1>2 DEF Locals

\* A step of p that sets its page table entry of page va: pt_update and pt_map.
LEMMA PtUpdated ==
  ASSUME TypeOK, NEW p \in AddrSpaces, NEW va \in VAddrs, pt' = pt_update(p, va)
  PROVE  /\ pt' \in [AddrSpaces -> [VAddrs -> pt_entry]]
         /\ ~ pt'[p][va].in_mem /\ pt'[p][va].in_swap
         /\ \A v \in VAddrs \ {va} : pt'[p][v] = pt[p][v]
         /\ \A q \in AddrSpaces \ {p} : pt'[q] = pt[q]
<1> DEFINE e == [frame |-> NULL, in_mem |-> FALSE, in_swap |-> TRUE]
<1>1. e \in pt_entry /\ ~ e.in_mem /\ e.in_swap
  BY DEF pt_entry
<1>2. pt' = [pt EXCEPT ![p][va] = e]
  BY DEF pt_update
<1> HIDE DEF e
<1> QED BY <1>1, <1>2 DEF TypeOK

LEMMA PtMapped ==
  ASSUME TypeOK, NEW p \in AddrSpaces, NEW va \in VAddrs, NEW f \in Frames,
         pt' = pt_map(p, va, f)
  PROVE  /\ pt' \in [AddrSpaces -> [VAddrs -> pt_entry]]
         /\ pt'[p][va].in_mem /\ ~ pt'[p][va].in_swap /\ pt'[p][va].frame = f
         /\ \A v \in VAddrs \ {va} : pt'[p][v] = pt[p][v]
         /\ \A q \in AddrSpaces \ {p} : pt'[q] = pt[q]
<1> DEFINE e == [frame |-> f, in_mem |-> TRUE, in_swap |-> FALSE]
<1>1. e \in pt_entry /\ e.in_mem /\ ~ e.in_swap /\ e.frame = f
  BY DEF pt_entry
<1>2. pt' = [pt EXCEPT ![p][va] = e]
  BY DEF pt_map
<1> HIDE DEF e
<1> QED BY <1>1, <1>2 DEF TypeOK

-----------------------------------------------------------------------------
(***************************************************************************)
(* Every step is a step of the coremap or leaves it alone.                 *)
(***************************************************************************)

\* A page that has no frame in the page table has none in the coremap.
LEMMA NotResident ==
  ASSUME PInv, NEW p \in AddrSpaces, NEW va \in VAddrs, ~ pt[p][va].in_mem,
         pc[p] # "tlbR"
  PROVE  ~ HasFrame(p, va)
BY DEF PInv, PagesRight, FramesRight, HasFrame

\* A process that is not in vm_fault is loading no frame.
LEMMA OutsideQuiet ==
  ASSUME PInv, NEW p \in AddrSpaces, pc[p] \in Outside
  PROVE  Quiet(p)
BY DEF PInv, PagesRight, FramesRight, Quiet, Loading, Outside, Bringing, SwapIn, LOADING, CLEAN

LEMMA StepIsCMStep == PInv /\ [Next]_vars => [CMNext]_cmvars
<1> SUFFICES ASSUME PInv, [Next]_vars PROVE [CMNext]_cmvars
  OBVIOUS
<1>1. ASSUME NEW p \in AddrSpaces, UserStep(p) PROVE UNCHANGED cmvars
  BY <1>1 DEF UserStep, runprogram, UserSegv, CopyoutFails, UserReadOnly,
              UserReload, Reload, UserFault, Panic, vars, cmvars
<1>2. ASSUME NEW p \in AddrSpaces, FaultStep(p) PROVE [CMNext]_cmvars
  <2>0. LocalsRight(p) /\ TypeOK
    BY DEF PInv, PagesRight
  <2>1. CASE FrameAlloc(p)
    <3>1. /\ loc[p].va \in VAddrs /\ ~ pt[p][loc[p].va].in_mem
          /\ ~ HasFrame(p, loc[p].va)
      BY <2>0, <2>1, NotResident DEF FrameAlloc, At, LocalsRight, Outside, Seeking
    <3>2. \E f \in Frames : frame_alloc(loc[p].va, p, f)
      BY <2>1 DEF FrameAlloc
    <3> QED BY <3>1, <3>2 DEF CMNext
  <2>2. CASE Evict(p)
    BY <2>2 DEF Evict, CMNext
  <2>3. CASE Remap(p)
    <3>1. /\ loc[p].va \in VAddrs /\ ~ pt[p][loc[p].va].in_mem
          /\ ~ HasFrame(p, loc[p].va)
          /\ loc[p].frame \in Frames /\ Evicted(loc[p].frame)
      BY <2>0, <2>3, NotResident DEF Remap, At, LocalsRight, Outside, Seeking, Giving
    <3> QED BY <2>3, <3>1 DEF Remap, CMNext
  <2>4. CASE Clean(p)
    <3>1. loc[p].frame \in Frames /\ Loading(loc[p].frame, p)
      BY <2>0, <2>4 DEF Clean, At, LocalsRight, Bringing, Loading
    <3> QED BY <2>4, <3>1 DEF Clean, CMNext
  <2>5. CASE \/ FrameAllocFails(p) \/ EvictPanics(p) \/ SwapOutSlot(p)
             \/ SwapOutPanics(p) \/ SwapOutCopy(p) \/ SwapOutWrite(p)
             \/ SwapOutError(p) \/ TlbReplace(p) \/ SwapInSlot(p)
             \/ SwapInRead(p) \/ SwapInError(p) \/ SwapInCopy(p) \/ Bzero(p)
             \/ ElfRead(p) \/ ElfReadError(p) \/ ElfCopy(p) \/ NestedFault(p)
             \/ TlbWrite(p)
    BY <2>5
    DEF FrameAllocFails, EvictPanics, SwapOutSlot, SwapOutPanics, SwapOutCopy,
        SwapOutWrite, SwapOutError, TlbReplace, SwapInSlot, SwapInRead,
        SwapInError, SwapInCopy, Bzero, ElfRead, ElfReadError, ElfCopy,
        NestedFault, Reload, TlbWrite, Panic, cmvars
  <2> QED BY <1>2, <2>1, <2>2, <2>3, <2>4, <2>5 DEF FaultStep
<1>3. ASSUME NEW p \in AddrSpaces, AsDestroyFrames(p) PROVE CMNext
  BY <1>3, OutsideQuiet DEF AsDestroyFrames, At, Outside, CMNext
<1>4. ASSUME NEW p \in AddrSpaces, thread_switch(p) \/ AsDestroySwap(p)
      PROVE  UNCHANGED cmvars
  BY <1>4 DEF thread_switch, AsDestroySwap, cmvars
<1>5. CASE KernelStep
  BY <1>5, CoremapAssumption, PagingAssumption
  DEF KernelStep, free_kpages, alloc_kpages, CMNext
<1>6. CASE Halted \/ UNCHANGED vars
  BY <1>6 DEF Halted, vars, cmvars
<1> QED BY <1>1, <1>2, <1>3, <1>4, <1>5, <1>6 DEF Next

-----------------------------------------------------------------------------
(***************************************************************************)
(* Types.                                                                  *)
(***************************************************************************)

\* The TLB operations keep the types of the TLB.
LEMMA TlbTypes ==
  ASSUME TLBTypeOK, NEW va \in VAddrs, NEW new \in VAddrs, NEW f \in Frames,
         NEW w \in BOOLEAN,
         FlushTLB \/ tlbW(va, f, w) \/ tlbR(va, new, f)
  PROVE  TLBTypeOK'
<1>1. [vpage |-> va, pframe |-> f, dirty |-> w] \in tlb_entry
  BY DEF tlb_entry
<1>2. [vpage |-> new, pframe |-> f, dirty |-> TRUE] \in tlb_entry
  BY DEF tlb_entry
<1>3. Invalid \in tlb_entry
  BY DEF tlb_entry, Invalid
<1>4. (next_victim + 1) % NUM_TLB \in Entries
  BY PagingAssumption DEF TLBTypeOK, Entries
<1> QED
  BY <1>1, <1>2, <1>3, <1>4
  DEF TLBTypeOK, FlushTLB, tlbW, tlbR, tlb_write, FirstInvalid

\* The swap table operations keep its type.
LEMMA SwapTypes ==
  ASSUME SwapTypeOK, NEW p \in AddrSpaces, NEW va \in VAddrs, NEW i \in Slots,
         swap_in_slot(p, va, i) \/ swap_out_slot(p, va, i) \/ swap_asfree(p)
  PROVE  SwapTypeOK'
<1>1. EmptySlot \in swap_entry
  BY DEF EmptySlot, swap_entry
<1>2. [as |-> p, vaddr |-> va] \in swap_entry
  BY DEF swap_entry
<1> QED
  BY <1>1, <1>2 DEF SwapTypeOK, swap_in_slot, swap_out_slot, swap_asfree

LEMMA KindType == \A p \in AddrSpaces, va \in VAddrs : Kind(p, va) \in Kinds
BY DEF Kind, Kinds

LEMMA TypeNext == PInv /\ CMTypeOK' /\ [Next]_vars => TypeOK'
<1> SUFFICES ASSUME PInv, CMTypeOK', [Next]_vars PROVE TypeOK'
  OBVIOUS
<1>0. TypeOK /\ SwapTypeOK /\ TLBTypeOK
  BY DEF PInv, PagesRight, TypeOK
<1>1. ASSUME NEW p \in AddrSpaces, UserStep(p) PROVE TypeOK'
  <2>1. CASE runprogram(p)
    <3>1. pt_create \in pt_entry
      BY DEF pt_create, pt_entry
    <3>2. FlushTLB => TLBTypeOK'
      <4>1. Invalid \in tlb_entry
        BY DEF Invalid, tlb_entry
      <4> QED BY <4>1, <1>0 DEF FlushTLB, TLBTypeOK
    <3> QED
      BY <1>0, <2>1, <3>1, <3>2 DEF runprogram, TypeOK, SwapTypeOK, Goto, PCs
  <2>2. ASSUME NEW va \in VAddrs, UserReload(p, va) PROVE TypeOK'
    <3>1. pt[p][va].frame \in Frames
      BY <2>2 DEF UserReload, Reload, PInv, PagesRight, TableRight
    <3>2. TLBTypeOK'
      BY <1>0, <2>2, <3>1, TlbTypes DEF UserReload, Reload
    <3> QED BY <1>0, <2>2, <3>2 DEF UserReload, Reload, TypeOK, SwapTypeOK
  <2>3. ASSUME NEW va \in VAddrs, UserFault(p, va) PROVE TypeOK'
    <3>1. [NoLocals EXCEPT !.va = va, !.kind = Kind(p, va)] \in Locals
      BY <1>0, KindType DEF NoLocals, Locals
    <3> QED
      BY <1>0, <2>3, <3>1 DEF UserFault, TypeOK, SwapTypeOK, TLBTypeOK, Goto, PCs
  <2>4. CASE UserSegv(p) \/ UserReadOnly(p)
    BY <1>0, <2>4
    DEF UserSegv, UserReadOnly, Panic, Panics, TypeOK, SwapTypeOK, TLBTypeOK
  <2>5. CASE CopyoutFails(p)
    BY <1>0, <2>5
    DEF CopyoutFails, vars, TypeOK, SwapTypeOK, TLBTypeOK, CMTypeOK
  <2> QED BY <1>1, <2>1, <2>2, <2>3, <2>4, <2>5 DEF UserStep
<1>2. ASSUME NEW p \in AddrSpaces, FaultStep(p) PROVE TypeOK'
  <2>0. /\ LocalsRight(p)
        /\ pc[p] \notin Outside => loc[p].va \in VAddrs /\ loc[p].kind \in Kinds
    BY DEF PInv, PagesRight, LocalsRight
  <2>1. CASE FrameAlloc(p)
    <3>1. PICK f \in Frames : /\ pt' = pt_map(p, loc[p].va, f)
                              /\ loc' = [loc EXCEPT ![p].frame = f]
      BY <2>1 DEF FrameAlloc
    <3>2. loc[p].va \in VAddrs
      BY <2>0, <2>1 DEF FrameAlloc, At, Outside
    <3>3. pt' \in [AddrSpaces -> [VAddrs -> pt_entry]]
      BY <1>0, <3>1, <3>2, PtMapped
    <3>4. loc' \in [AddrSpaces -> Locals]
      BY <1>0, <3>1 DEF TypeOK, Locals
    <3> QED
      BY <1>0, <2>1, <3>3, <3>4
      DEF FrameAlloc, TypeOK, SwapTypeOK, TLBTypeOK, Goto, PCs, Fill
  <2>2. CASE Evict(p)
    <3>1. PICK f \in Frames :
            /\ cm_evict(p, f)
            /\ loc' = [loc EXCEPT ![p].frame = f, ![p].victim = coremap[f].virt_addr]
      BY <2>2 DEF Evict
    <3>2. coremap[f].virt_addr \in VAddrs
      <4>1. coremap[f].as = p
        BY <3>1 DEF cm_evict, Oldest, Candidates
      <4> QED BY <4>1, CoremapAssumption DEF PInv, PagesRight, CMInv, UserFramesTagged
    <3>3. loc' \in [AddrSpaces -> Locals]
      BY <1>0, <3>1, <3>2 DEF TypeOK, Locals
    <3> QED
      BY <1>0, <2>2, <3>3
      DEF Evict, TypeOK, SwapTypeOK, TLBTypeOK, Goto, PCs
  <2>3. CASE SwapOutSlot(p)
    <3>1. PICK i \in Slots : /\ swap_out_slot(p, loc[p].victim, i)
                             /\ loc' = [loc EXCEPT ![p].slot = i]
      BY <2>3 DEF SwapOutSlot
    <3>2. loc[p].victim \in VAddrs
      BY <2>0, <2>3 DEF SwapOutSlot, At, LocalsRight, Giving
    <3>3. SwapTypeOK'
      BY <1>0, <3>1, <3>2, SwapTypes
    <3>4. loc' \in [AddrSpaces -> Locals]
      BY <1>0, <3>1 DEF TypeOK, Locals
    <3> QED
      BY <1>0, <2>3, <3>3, <3>4 DEF SwapOutSlot, TypeOK, TLBTypeOK, Goto, PCs
  <2>4. CASE SwapInSlot(p)
    <3>1. PICK i \in Slots : /\ swap_in_slot(p, loc[p].va, i)
                             /\ loc' = [loc EXCEPT ![p].slot = i]
      BY <2>4 DEF SwapInSlot
    <3>2. loc[p].va \in VAddrs
      BY <2>0, <2>4 DEF SwapInSlot, At, Outside
    <3>3. SwapTypeOK'
      BY <1>0, <3>1, <3>2, SwapTypes
    <3>4. loc' \in [AddrSpaces -> Locals]
      BY <1>0, <3>1 DEF TypeOK, Locals
    <3> QED
      BY <1>0, <2>4, <3>3, <3>4 DEF SwapInSlot, TypeOK, TLBTypeOK, Goto, PCs
  <2>5. CASE Remap(p)
    <3>1. loc[p].victim \in VAddrs
      BY <2>0, <2>5 DEF Remap, At, LocalsRight, Giving
    <3>2. pt' \in [AddrSpaces -> [VAddrs -> pt_entry]]
      BY <1>0, <2>5, <3>1, PtUpdated DEF Remap
    <3> QED
      BY <1>0, <2>5, <3>2 DEF Remap, TypeOK, SwapTypeOK, TLBTypeOK, Goto, PCs
  <2>6. CASE TlbReplace(p)
    <3>1. /\ loc[p].victim \in VAddrs /\ loc[p].va \in VAddrs
          /\ loc[p].frame \in Frames
      BY <2>0, <2>6 DEF TlbReplace, At, LocalsRight, Outside
    <3>2. pt' \in [AddrSpaces -> [VAddrs -> pt_entry]]
      BY <1>0, <2>6, <3>1, PtMapped DEF TlbReplace
    <3>3. TLBTypeOK'
      BY <1>0, <2>6, <3>1, TlbTypes DEF TlbReplace
    <3> QED
      BY <1>0, <2>6, <3>2, <3>3 DEF TlbReplace, TypeOK, SwapTypeOK, Goto, PCs, Fill
  <2>7. CASE TlbWrite(p)
    <3>1. loc[p].va \in VAddrs /\ loc[p].frame \in Frames
      BY <2>0, <2>7 DEF TlbWrite, At, LocalsRight, Outside
    <3>2. TLBTypeOK'
      <4> DEFINE w == loc[p].va \in Writable
      <4>1. w \in BOOLEAN /\ tlbW(loc[p].va, loc[p].frame, w)
        BY <2>7 DEF TlbWrite
      <4> HIDE DEF w
      <4> QED BY <1>0, <3>1, <4>1, TlbTypes
    <3>3. NoLocals \in Locals
      BY DEF NoLocals, Locals
    <3> QED
      BY <1>0, <2>7, <3>2, <3>3 DEF TlbWrite, TypeOK, SwapTypeOK, Goto, PCs
  <2>8. CASE NestedFault(p)
    <3>1. Touched(p) \in VAddrs
      BY <2>0, <2>8
      DEF NestedFault, Touched, LocalsRight, Outside, Giving
    <3>2. pt[p][Touched(p)].frame \in Frames
      BY <2>8, <3>1 DEF NestedFault, Reload, PInv, PagesRight, TableRight
    <3>3. TLBTypeOK'
      BY <1>0, <2>8, <3>1, <3>2, TlbTypes DEF NestedFault, Reload
    <3> QED BY <1>0, <2>8, <3>3 DEF NestedFault, Reload, TypeOK, SwapTypeOK
  <2>9. CASE \/ EvictPanics(p) \/ SwapOutPanics(p) \/ SwapOutError(p)
             \/ SwapInError(p)
    BY <1>0, <2>9
    DEF EvictPanics, SwapOutPanics, SwapOutError, SwapInError, Panic, Panics,
        TypeOK, SwapTypeOK, TLBTypeOK
  <2>10. CASE \/ FrameAllocFails(p) \/ SwapOutCopy(p) \/ SwapOutWrite(p)
              \/ SwapInRead(p) \/ SwapInCopy(p) \/ Bzero(p) \/ ElfRead(p)
              \/ ElfReadError(p) \/ ElfCopy(p) \/ Clean(p)
    <3>1. UNCHANGED <<swapspace, tlb, next_victim, cur, pt, loc, panicked>>
      BY <2>10
      DEF FrameAllocFails, SwapOutCopy, SwapOutWrite, SwapInRead, SwapInCopy,
          Bzero, ElfRead, ElfReadError, ElfCopy, Clean
    <3>2. \E l \in PCs : Goto(p, l)
      BY <2>10
      DEF FrameAllocFails, SwapOutCopy, SwapOutWrite, SwapInRead, SwapInCopy,
          Bzero, ElfRead, ElfReadError, ElfCopy, Clean, PCs
    <3> QED
      BY <1>0, <3>1, <3>2, PcSet DEF TypeOK, SwapTypeOK, TLBTypeOK
  <2> QED
    BY <1>2, <2>1, <2>2, <2>3, <2>4, <2>5, <2>6, <2>7, <2>8, <2>9, <2>10
    DEF FaultStep
<1>3. ASSUME NEW p \in AddrSpaces, AsDestroyFrames(p) PROVE TypeOK'
  <2>1. pt_create \in pt_entry
    BY DEF pt_create, pt_entry
  <2> QED
    BY <1>0, <1>3, <2>1
    DEF AsDestroyFrames, TypeOK, SwapTypeOK, TLBTypeOK, Goto, PCs
<1>4. ASSUME NEW p \in AddrSpaces, AsDestroySwap(p) PROVE TypeOK'
  <2>1. SwapTypeOK'
    <3>1. EmptySlot \in swap_entry
      BY DEF EmptySlot, swap_entry
    <3> QED BY <1>0, <1>4, <3>1 DEF AsDestroySwap, swap_asfree, SwapTypeOK
  <2> QED
    BY <1>0, <1>4, <2>1 DEF AsDestroySwap, TypeOK, TLBTypeOK, Goto, PCs
<1>5. ASSUME NEW p \in AddrSpaces, thread_switch(p) PROVE TypeOK'
  <2>1. Invalid \in tlb_entry
    BY DEF Invalid, tlb_entry
  <2> QED
    BY <1>0, <1>5, <2>1
    DEF thread_switch, FlushTLB, TLBTypeOK, TypeOK, SwapTypeOK
<1>6. CASE KernelStep
  BY <1>0, <1>6
  DEF KernelStep, free_kpages, alloc_kpages, TypeOK, SwapTypeOK, TLBTypeOK
<1>7. CASE Halted \/ UNCHANGED vars
  BY <1>0, <1>7 DEF Halted, vars, TypeOK, SwapTypeOK, TLBTypeOK
<1> QED BY <1>1, <1>2, <1>3, <1>4, <1>5, <1>6, <1>7 DEF Next

-----------------------------------------------------------------------------
(***************************************************************************)
(* Page tables, local variables and frames.                                *)
(***************************************************************************)

\* The frame that q has in hand, once it has one.
InHand(q, f) ==
  loc[q].frame = f /\ pc[q] \in Giving \union Bringing \union {"tlbR", "tlbW"}

\* A step that leaves q and its frames alone keeps what is said of q.
LEMMA OthersKept ==
  ASSUME PInv, NEW q \in AddrSpaces,
         pt'[q] = pt[q], pc'[q] = pc[q], loc'[q] = loc[q],
         \A f \in Frames :
           coremap[f].as = q \/ coremap'[f].as = q \/ InHand(q, f)
             => coremap'[f] = coremap[f]
  PROVE  (LocalsRight(q) /\ TableRight(q) /\ FramesRight(q))'
<1>0. LocalsRight(q) /\ TableRight(q) /\ FramesRight(q)
  BY DEF PInv, PagesRight
<1>1. LocalsRight(q)'
  <2>1. /\ pc[q] \in Giving => Evicted(loc[q].frame)'
        /\ pc[q] \in Bringing \union {"tlbR", "tlbW"} =>
             coremap'[loc[q].frame] = coremap[loc[q].frame]
    BY <1>0 DEF LocalsRight, InHand, Evicted
  <2> QED BY <1>0, <2>1 DEF LocalsRight
<1>2. TableRight(q)'
  BY <1>0 DEF TableRight, Leaving
<1>3. FramesRight(q)'
  BY <1>0 DEF FramesRight
<1> QED BY <1>1, <1>2, <1>3

\* A step of p that changes only its place and its slot, to a place where the
\* same holds of it.
SamePhase(l, m) ==
  \/ l = "alloc" /\ m = "evict"
  \/ {l, m} \subseteq Giving
  \/ {l, m} \subseteq SwapIn \union {"clean"} /\ m # "in_slot"
  \/ {l, m} \subseteq {"bzero", "elf_read", "elf_copy", "clean"}

LEMMA MoveKeeps ==
  ASSUME PInv, NEW p \in AddrSpaces, UNCHANGED <<coremap, pt>>,
         NEW m \in PCs, Goto(p, m), SamePhase(pc[p], m), pc[p] # "clean",
         \/ UNCHANGED loc
         \/ \E i \in Slots : loc' = [loc EXCEPT ![p].slot = i]
  PROVE  PagesRight'
<1>0. /\ TypeOK /\ HandsApart
      /\ \A q \in AddrSpaces : LocalsRight(q) /\ TableRight(q) /\ FramesRight(q)
  BY DEF PInv, PagesRight
<1>1. /\ pc'[p] = m
      /\ \A q \in AddrSpaces \ {p} : pc'[q] = pc[q] /\ loc'[q] = loc[q]
      /\ \A q \in AddrSpaces : /\ loc'[q].va = loc[q].va
                               /\ loc'[q].kind = loc[q].kind
                               /\ loc'[q].frame = loc[q].frame
                               /\ loc'[q].victim = loc[q].victim
  <2>1. pc'[p] = m /\ \A q \in AddrSpaces \ {p} : pc'[q] = pc[q]
    BY <1>0, PcSet
  <2>2. ASSUME NEW i \in Slots, loc' = [loc EXCEPT ![p].slot = i]
        PROVE  /\ \A q \in AddrSpaces \ {p} : loc'[q] = loc[q]
               /\ loc'[p].va = loc[p].va /\ loc'[p].kind = loc[p].kind
               /\ loc'[p].frame = loc[p].frame /\ loc'[p].victim = loc[p].victim
    BY <1>0, <2>2, LocSlot
  <2> QED BY <2>1, <2>2
<1>2. \A q \in AddrSpaces \ {p} :
        (LocalsRight(q) /\ TableRight(q) /\ FramesRight(q))'
  BY <1>1, OthersKept
<1>3. LocalsRight(p)'
  BY <1>0, <1>1
  DEF LocalsRight, SamePhase, Outside, Seeking, Giving, SwapIn, Bringing, Evicted
<1>4. TableRight(p)'
  BY <1>0, <1>1
  DEF TableRight, Leaving, SamePhase, Gone, Giving, SwapIn
<1>5. FramesRight(p)'
  BY <1>0, <1>1 DEF FramesRight, SamePhase, Giving, SwapIn, Bringing
<1>6. HandsApart'
  BY <1>0, <1>1 DEF HandsApart, SamePhase, Giving, SwapIn, Evicted
<1> QED BY <1>2, <1>3, <1>4, <1>5, <1>6 DEF PagesRight

\* FrameAlloc.
LEMMA FrameAllocPages ==
  ASSUME PInv, NEW p \in AddrSpaces, FrameAlloc(p)
  PROVE  PagesRight'
<1>0. /\ TypeOK /\ CMInv /\ HandsApart
      /\ \A q \in AddrSpaces : LocalsRight(q) /\ TableRight(q) /\ FramesRight(q)
  BY DEF PInv, PagesRight
<1> DEFINE va == loc[p].va
<1>1. PICK f \in Frames : /\ frame_alloc(va, p, f)
                          /\ pt' = pt_map(p, va, f)
                          /\ loc' = [loc EXCEPT ![p].frame = f]
  BY DEF FrameAlloc
<1>2. /\ pc[p] = "alloc" /\ va \in VAddrs
      /\ ~ pt[p][va].in_mem /\ (pt[p][va].in_swap <=> loc[p].kind = "swap")
  BY <1>0 DEF FrameAlloc, At, LocalsRight, Outside, Seeking
<1>3. /\ coremap[f].state = FREE /\ coremap[f].as = NULL
      /\ coremap'[f].as = p /\ coremap'[f].virt_addr = va
      /\ coremap'[f].state = LOADING
      /\ \A g \in Frames \ {f} : coremap'[g] = coremap[g]
  BY <1>0, <1>1
  DEF frame_alloc, FirstFree, LoadingEntry, CMInv, CMTypeOK, FreeIsBlank
<1>4. /\ pt'[p][va].in_mem /\ ~ pt'[p][va].in_swap /\ pt'[p][va].frame = f
      /\ \A v \in VAddrs \ {va} : pt'[p][v] = pt[p][v]
      /\ \A q \in AddrSpaces \ {p} : pt'[q] = pt[q]
  BY <1>0, <1>1, <1>2, PtMapped
<1>5. /\ \A q \in AddrSpaces \ {p} : loc'[q] = loc[q]
      /\ loc'[p].va = va /\ loc'[p].kind = loc[p].kind
      /\ loc'[p].frame = f /\ loc'[p].victim = loc[p].victim
  BY <1>0, <1>1, LocFrame
<1>6. /\ pc'[p] = IF loc[p].kind = "swap" THEN "in_slot" ELSE "bzero"
      /\ \A q \in AddrSpaces \ {p} : pc'[q] = pc[q]
  BY <1>0, PcSet DEF FrameAlloc, Fill, PCs
<1>7. \A q \in AddrSpaces : ~ InHand(q, f)
  BY <1>0, <1>3, CoremapAssumption
  DEF InHand, LocalsRight, Evicted, FREE, LOADING, CLEAN
<1> HIDE DEF va
<1>8. ASSUME NEW q \in AddrSpaces, q # p
      PROVE  (LocalsRight(q) /\ TableRight(q) /\ FramesRight(q))'
  BY <1>3, <1>4, <1>5, <1>6, <1>7, <1>8, CoremapAssumption, OthersKept
<1>9. LocalsRight(p)'
  BY <1>0, <1>2, <1>3, <1>4, <1>5, <1>6
  DEF LocalsRight, Outside, Seeking, Giving, Bringing, SwapIn
<1>10. TableRight(p)'
  BY <1>0, <1>2, <1>3, <1>4, <1>5, <1>6, CoremapAssumption
  DEF TableRight, Leaving, Gone
<1>11. FramesRight(p)'
  <2> SUFFICES ASSUME NEW g \in Frames, coremap'[g].as = p
               PROVE  /\ pt'[p][coremap'[g].virt_addr].in_mem
                      /\ pt'[p][coremap'[g].virt_addr].frame = g
                      /\ \/ coremap'[g].state = CLEAN
                         \/ pc'[p] \in Bringing /\ loc'[p].frame = g
    BY DEF FramesRight
  <2>1. CASE g = f
    BY <1>3, <1>4, <1>5, <1>6, <2>1 DEF Bringing, SwapIn
  <2>2. CASE g # f
    <3>1. /\ coremap'[g] = coremap[g] /\ coremap[g].state = CLEAN
          /\ pt[p][coremap[g].virt_addr].in_mem
          /\ pt[p][coremap[g].virt_addr].frame = g
          /\ coremap[g].virt_addr \in VAddrs
      BY <1>0, <1>2, <1>3, <2>2, CoremapAssumption
      DEF FramesRight, Bringing, SwapIn, CMInv, UserFramesTagged
    <3> QED BY <1>2, <1>4, <3>1
  <2> QED BY <2>1, <2>2
<1>12. HandsApart'
  <2>1. ASSUME NEW g \in Frames, Evicted(g)'
        PROVE  \E q \in AddrSpaces : pc'[q] \in Giving /\ loc'[q].frame = g
    <3>1. g # f /\ Evicted(g)
      BY <1>3, <2>1, CoremapAssumption DEF Evicted
    <3> QED BY <1>0, <1>2, <1>5, <1>6, <3>1 DEF HandsApart, Giving
  <2>2. ASSUME NEW q \in AddrSpaces, NEW r \in AddrSpaces,
               pc'[q] \in Giving, r # q
        PROVE  loc'[r].frame # loc'[q].frame
    <3>1. q # p /\ pc[q] \in Giving /\ loc'[q] = loc[q]
      BY <1>5, <1>6, <2>2 DEF Giving
    <3>2. loc[q].frame # f
      BY <1>7, <3>1 DEF InHand
    <3> QED BY <1>0, <1>5, <2>2, <3>1, <3>2 DEF HandsApart
  <2> QED BY <2>1, <2>2 DEF HandsApart
<1> QED BY <1>8, <1>9, <1>10, <1>11, <1>12 DEF PagesRight

\* Evict.
LEMMA EvictPages ==
  ASSUME PInv, NEW p \in AddrSpaces, Evict(p)
  PROVE  PagesRight'
<1>0. /\ TypeOK /\ CMInv /\ HandsApart
      /\ \A q \in AddrSpaces : LocalsRight(q) /\ TableRight(q) /\ FramesRight(q)
  BY DEF PInv, PagesRight
<1>1. PICK f \in Frames :
        /\ cm_evict(p, f)
        /\ loc' = [loc EXCEPT ![p].frame = f, ![p].victim = coremap[f].virt_addr]
  BY DEF Evict
<1> DEFINE v == coremap[f].virt_addr
<1>2. /\ pc[p] = "evict" /\ loc[p].va \in VAddrs /\ ~ pt[p][loc[p].va].in_mem
      /\ loc[p].kind \in Kinds
      /\ (pt[p][loc[p].va].in_swap <=> loc[p].kind = "swap")
  BY <1>0 DEF Evict, At, LocalsRight, Outside, Seeking
<1>3. /\ coremap[f].as = p /\ coremap[f].state \notin {FIXED, LOADING}
      /\ coremap'[f].as = NULL /\ coremap'[f].state = LOADING
      /\ \A g \in Frames \ {f} : coremap'[g] = coremap[g]
  BY <1>0, <1>1 DEF cm_evict, Oldest, Candidates, Blank, CMInv, CMTypeOK
<1>4. v \in VAddrs /\ pt[p][v].in_mem /\ pt[p][v].frame = f
  BY <1>0, <1>2, <1>3, CoremapAssumption DEF CMInv, UserFramesTagged, FramesRight
<1>5. /\ \A q \in AddrSpaces \ {p} : loc'[q] = loc[q]
      /\ loc'[p].va = loc[p].va /\ loc'[p].kind = loc[p].kind
      /\ loc'[p].frame = f /\ loc'[p].victim = v
  <2>1. loc \in [AddrSpaces -> Locals] /\ loc[p] \in Locals
    BY <1>0 DEF TypeOK
  <2>2. loc'[p] = [[loc[p] EXCEPT !.frame = f] EXCEPT !.victim = v]
    BY <1>1, <2>1
  <2> HIDE DEF v
  <2>3. /\ loc'[p].va = loc[p].va /\ loc'[p].kind = loc[p].kind
        /\ loc'[p].frame = f /\ loc'[p].victim = v
    BY <2>1, <2>2 DEF Locals
  <2> QED BY <1>1, <2>1, <2>3
<1> HIDE DEF v
<1>6. /\ pc'[p] = "out_slot"
      /\ \A q \in AddrSpaces \ {p} : pc'[q] = pc[q]
  BY <1>0, PcSet DEF Evict, PCs
<1>7. pt' = pt
  BY DEF Evict
<1>8. \A q \in AddrSpaces : ~ InHand(q, f)
  BY <1>0, <1>2, <1>3, CoremapAssumption
  DEF InHand, LocalsRight, Giving, Bringing, SwapIn, Evicted, LOADING, CLEAN
<1>9. ASSUME NEW q \in AddrSpaces, q # p
      PROVE  (LocalsRight(q) /\ TableRight(q) /\ FramesRight(q))'
  BY <1>3, <1>5, <1>6, <1>7, <1>8, <1>9, CoremapAssumption, OthersKept
<1>10. LocalsRight(p)'
  BY <1>2, <1>3, <1>4, <1>5, <1>6, <1>7
  DEF LocalsRight, Outside, Seeking, Giving, Bringing, SwapIn, Evicted
<1>11. TableRight(p)'
  <2>1. \A va \in VAddrs : pt[p][va].in_mem =>
          /\ ~ pt[p][va].in_swap
          /\ pt[p][va].frame \in Frames
          /\ coremap[pt[p][va].frame].as = p
          /\ coremap[pt[p][va].frame].virt_addr = va
    BY <1>0, <1>2 DEF TableRight, Leaving
  <2>2. \A va \in VAddrs : pt[p][va].in_mem /\ va # v => pt[p][va].frame # f
    BY <2>1 DEF v
  <2> QED
    BY <1>3, <1>4, <1>5, <1>6, <1>7, <2>1, <2>2
    DEF TableRight, Leaving, Gone
<1>12. FramesRight(p)'
  BY <1>0, <1>2, <1>3, <1>5, <1>6, <1>7, CoremapAssumption
  DEF FramesRight, Bringing, SwapIn
<1>13. HandsApart'
  <2>1. ASSUME NEW g \in Frames, Evicted(g)'
        PROVE  \E q \in AddrSpaces : pc'[q] \in Giving /\ loc'[q].frame = g
    <3>1. CASE g = f
      BY <1>5, <1>6, <3>1 DEF Giving
    <3>2. CASE g # f
      <4>1. Evicted(g)
        BY <1>3, <2>1, <3>2 DEF Evicted
      <4> QED BY <1>0, <1>2, <1>5, <1>6, <4>1 DEF HandsApart, Giving
    <3> QED BY <3>1, <3>2
  <2>2. ASSUME NEW q \in AddrSpaces, NEW r \in AddrSpaces,
               pc'[q] \in Giving, r # q
        PROVE  loc'[r].frame # loc'[q].frame
    <3>1. CASE q = p
      <4>1. loc'[r] = loc[r] /\ loc'[q].frame = f
        BY <1>5, <2>2, <3>1
      <4>2. pc[r] \in Giving \union Bringing \union {"tlbR", "tlbW"}
              \/ loc[r].frame = NULL
        BY <1>0
        DEF LocalsRight, NoLocals, TypeOK, PCs, Outside, Giving, Bringing, SwapIn
      <4> QED BY <1>8, <4>1, <4>2, PagingAssumption DEF InHand
    <3>2. CASE q # p
      <4>1. pc[q] \in Giving /\ loc'[q] = loc[q]
        BY <1>5, <1>6, <2>2, <3>2
      <4>2. loc[q].frame # f
        BY <1>8, <4>1 DEF InHand
      <4> QED BY <1>0, <1>5, <2>2, <4>1, <4>2 DEF HandsApart
    <3> QED BY <3>1, <3>2
  <2> QED BY <2>1, <2>2 DEF HandsApart
<1> QED BY <1>9, <1>10, <1>11, <1>12, <1>13 DEF PagesRight

\* Remap.
LEMMA RemapPages ==
  ASSUME PInv, NEW p \in AddrSpaces, Remap(p)
  PROVE  PagesRight'
<1>0. /\ TypeOK /\ CMInv /\ HandsApart
      /\ \A q \in AddrSpaces : LocalsRight(q) /\ TableRight(q) /\ FramesRight(q)
  BY DEF PInv, PagesRight
<1> DEFINE va == loc[p].va
           f  == loc[p].frame
           v  == loc[p].victim
<1>1. /\ pc[p] = "remap" /\ va \in VAddrs
      /\ ~ pt[p][va].in_mem /\ (pt[p][va].in_swap <=> loc[p].kind = "swap")
      /\ f \in Frames /\ Evicted(f) /\ v \in VAddrs
      /\ pt[p][v].in_mem /\ pt[p][v].frame = f
      /\ loc[p].kind \in Kinds
  BY <1>0 DEF Remap, At, LocalsRight, Outside, Seeking, Giving
<1>2. /\ coremap'[f].as = p /\ coremap'[f].virt_addr = va
      /\ coremap'[f].state = LOADING
      /\ \A g \in Frames \ {f} : coremap'[g] = coremap[g]
  BY <1>0, <1>1 DEF Remap, cm_update_vaddr, LoadingEntry, CMInv, CMTypeOK
<1>3. /\ ~ pt'[p][v].in_mem /\ pt'[p][v].in_swap
      /\ \A w \in VAddrs \ {v} : pt'[p][w] = pt[p][w]
      /\ \A q \in AddrSpaces \ {p} : pt'[q] = pt[q]
  <2>1. pt' = pt_update(p, v)
    BY DEF Remap
  <2> QED BY <1>0, <1>1, <2>1, PtUpdated
<1>4. loc' = loc
  BY DEF Remap
<1>5. /\ pc'[p] = "tlbR"
      /\ \A q \in AddrSpaces \ {p} : pc'[q] = pc[q]
  BY <1>0, PcSet DEF Remap, PCs
<1>6. coremap[f].as = NULL /\ \A q \in AddrSpaces \ {p} : ~ InHand(q, f)
  BY <1>0, <1>1, CoremapAssumption
  DEF InHand, LocalsRight, HandsApart, Evicted, Giving
<1> HIDE DEF va, f, v
<1>7. ASSUME NEW q \in AddrSpaces, q # p
      PROVE  (LocalsRight(q) /\ TableRight(q) /\ FramesRight(q))'
  BY <1>2, <1>3, <1>4, <1>5, <1>6, <1>7, CoremapAssumption, OthersKept
<1>8. v # va
  BY <1>1
<1>9. LocalsRight(p)'
  BY <1>1, <1>2, <1>3, <1>4, <1>5, <1>8
  DEF LocalsRight, Outside, Seeking, Giving, Bringing, SwapIn, va, f, v
<1>10. TableRight(p)'
  <2>1. ASSUME NEW w \in VAddrs, pt'[p][w].in_mem
        PROVE  /\ ~ pt'[p][w].in_swap
               /\ pt'[p][w].frame \in Frames
               /\ coremap'[pt'[p][w].frame].as = p
               /\ coremap'[pt'[p][w].frame].virt_addr = w
    <3>1. w # v /\ pt'[p][w] = pt[p][w]
      BY <1>3, <2>1
    <3>2. ~ Leaving(p, w)
      BY <3>1 DEF Leaving, v
    <3>3. /\ ~ pt[p][w].in_swap /\ pt[p][w].frame \in Frames
          /\ coremap[pt[p][w].frame].as = p
          /\ coremap[pt[p][w].frame].virt_addr = w
      BY <1>0, <2>1, <3>1, <3>2 DEF TableRight
    <3>4. pt[p][w].frame # f
      BY <1>6, <3>3, CoremapAssumption
    <3> QED BY <1>2, <3>1, <3>3, <3>4
  <2> QED BY <1>5, <2>1 DEF TableRight, Leaving, Gone
<1>11. FramesRight(p)'
  <2> SUFFICES ASSUME NEW g \in Frames, coremap'[g].as = p
               PROVE  /\ LET w == coremap'[g].virt_addr
                         IN  \/ pt'[p][w].in_mem /\ pt'[p][w].frame = g
                             \/ va = w /\ f = g
                      /\ coremap'[g].state = CLEAN \/ f = g
    BY <1>4, <1>5 DEF FramesRight, va, f
  <2>1. CASE g = f
    BY <1>2, <2>1
  <2>2. CASE g # f
    <3>1. /\ coremap'[g] = coremap[g] /\ coremap[g].state = CLEAN
          /\ pt[p][coremap[g].virt_addr].in_mem
          /\ pt[p][coremap[g].virt_addr].frame = g
          /\ coremap[g].virt_addr \in VAddrs
      BY <1>0, <1>1, <1>2, <2>2, CoremapAssumption
      DEF FramesRight, Bringing, SwapIn, CMInv, UserFramesTagged
    <3>2. coremap[g].virt_addr # v
      BY <1>1, <2>2, <3>1
    <3> QED BY <1>3, <3>1, <3>2
  <2> QED BY <2>1, <2>2
<1>12. HandsApart'
  <2>1. ASSUME NEW g \in Frames, Evicted(g)'
        PROVE  \E q \in AddrSpaces : pc'[q] \in Giving /\ loc'[q].frame = g
    <3>1. g # f /\ Evicted(g)
      BY <1>2, <2>1, CoremapAssumption DEF Evicted
    <3>2. PICK q \in AddrSpaces : pc[q] \in Giving /\ loc[q].frame = g
      BY <1>0, <3>1 DEF HandsApart
    <3> QED BY <1>4, <1>5, <3>1, <3>2 DEF f
  <2>2. ASSUME NEW q \in AddrSpaces, pc'[q] \in Giving
        PROVE  pc[q] \in Giving
    BY <1>5, <2>2 DEF Giving
  <2> QED BY <1>0, <1>4, <2>1, <2>2 DEF HandsApart
<1> QED BY <1>7, <1>9, <1>10, <1>11, <1>12 DEF PagesRight

\* TlbReplace.
LEMMA TlbReplacePages ==
  ASSUME PInv, NEW p \in AddrSpaces, TlbReplace(p)
  PROVE  PagesRight'
<1>0. /\ TypeOK /\ CMInv /\ HandsApart
      /\ \A q \in AddrSpaces : LocalsRight(q) /\ TableRight(q) /\ FramesRight(q)
  BY DEF PInv, PagesRight
<1> DEFINE va == loc[p].va
           f  == loc[p].frame
<1>1. /\ pc[p] = "tlbR" /\ va \in VAddrs /\ f \in Frames
      /\ ~ pt[p][va].in_mem
      /\ loc[p].kind \in Kinds
      /\ coremap[f].as = p /\ coremap[f].virt_addr = va
      /\ coremap[f].state = LOADING
  BY <1>0 DEF TlbReplace, At, LocalsRight, Outside, Seeking
<1>2. /\ pt'[p][va].in_mem /\ ~ pt'[p][va].in_swap /\ pt'[p][va].frame = f
      /\ \A w \in VAddrs \ {va} : pt'[p][w] = pt[p][w]
      /\ \A q \in AddrSpaces \ {p} : pt'[q] = pt[q]
  <2>1. pt' = pt_map(p, va, f)
    BY DEF TlbReplace
  <2> QED BY <1>0, <1>1, <2>1, PtMapped
<1>3. loc' = loc /\ coremap' = coremap
  BY DEF TlbReplace
<1>4. /\ pc'[p] = IF loc[p].kind = "swap" THEN "in_slot" ELSE "bzero"
      /\ \A q \in AddrSpaces \ {p} : pc'[q] = pc[q]
  BY <1>0, PcSet DEF TlbReplace, Fill, PCs
<1> HIDE DEF va, f
<1>5. ASSUME NEW q \in AddrSpaces, q # p
      PROVE  (LocalsRight(q) /\ TableRight(q) /\ FramesRight(q))'
  BY <1>2, <1>3, <1>4, <1>5, OthersKept
<1>6. LocalsRight(p)'
  BY <1>1, <1>2, <1>3, <1>4
  DEF LocalsRight, Outside, Seeking, Giving, Bringing, SwapIn, va, f
<1>7. TableRight(p)'
  BY <1>0, <1>1, <1>2, <1>3, <1>4 DEF TableRight, Leaving, Gone
<1>8. FramesRight(p)'
  <2> SUFFICES ASSUME NEW g \in Frames, coremap[g].as = p
               PROVE  /\ pt'[p][coremap[g].virt_addr].in_mem
                      /\ pt'[p][coremap[g].virt_addr].frame = g
                      /\ coremap[g].state = CLEAN \/ f = g
    BY <1>3, <1>4 DEF FramesRight, Bringing, SwapIn, f
  <2>1. CASE g = f
    BY <1>1, <1>2, <2>1
  <2>2. CASE g # f
    <3>1. /\ coremap[g].state = CLEAN
          /\ pt[p][coremap[g].virt_addr].in_mem
          /\ pt[p][coremap[g].virt_addr].frame = g
          /\ coremap[g].virt_addr \in VAddrs
      BY <1>0, <1>1, <2>2, CoremapAssumption
      DEF FramesRight, CMInv, UserFramesTagged, f
    <3> QED BY <1>1, <1>2, <3>1
  <2> QED BY <2>1, <2>2
<1>9. HandsApart'
  BY <1>0, <1>1, <1>3, <1>4 DEF HandsApart, Evicted, Giving
<1> QED BY <1>5, <1>6, <1>7, <1>8, <1>9 DEF PagesRight

\* Clean.
LEMMA CleanPages ==
  ASSUME PInv, NEW p \in AddrSpaces, Clean(p)
  PROVE  PagesRight'
<1>0. /\ TypeOK /\ CMInv /\ HandsApart
      /\ \A q \in AddrSpaces : LocalsRight(q) /\ TableRight(q) /\ FramesRight(q)
  BY DEF PInv, PagesRight
<1> DEFINE f == loc[p].frame
<1>1. /\ pc[p] = "clean" /\ f \in Frames
      /\ coremap[f].as = p /\ coremap[f].state = LOADING
  BY <1>0 DEF Clean, At, LocalsRight, Bringing
<1>2. /\ coremap'[f].as = p /\ coremap'[f].virt_addr = coremap[f].virt_addr
      /\ coremap'[f].state = CLEAN
      /\ \A g \in Frames \ {f} : coremap'[g] = coremap[g]
  BY <1>0, <1>1 DEF Clean, cm_update_state, CMInv, CMTypeOK, cm_entry
<1>3. loc' = loc /\ pt' = pt
  BY DEF Clean
<1>4. /\ pc'[p] = "tlbW"
      /\ \A q \in AddrSpaces \ {p} : pc'[q] = pc[q]
  BY <1>0, PcSet DEF Clean, PCs
<1>5. \A q \in AddrSpaces \ {p} : ~ InHand(q, f)
  <2>0. SUFFICES ASSUME NEW q \in AddrSpaces, q # p, InHand(q, f) PROVE FALSE
    OBVIOUS
  <2>1. coremap[f].as \in {NULL, q}
    BY <1>0, <2>0 DEF InHand, LocalsRight, Evicted
  <2> QED BY <1>1, <2>0, <2>1, CoremapAssumption
<1> HIDE DEF f
<1>6. ASSUME NEW q \in AddrSpaces, q # p
      PROVE  (LocalsRight(q) /\ TableRight(q) /\ FramesRight(q))'
  BY <1>1, <1>2, <1>3, <1>4, <1>5, <1>6, OthersKept
<1>7. LocalsRight(p)'
  BY <1>0, <1>1, <1>2, <1>3, <1>4
  DEF LocalsRight, Outside, Seeking, Giving, Bringing, SwapIn, f
<1>8. TableRight(p)'
  BY <1>0, <1>1, <1>2, <1>3, <1>4 DEF TableRight, Leaving, Gone
<1>9. FramesRight(p)'
  BY <1>0, <1>1, <1>2, <1>3, <1>4 DEF FramesRight, f
<1>10. HandsApart'
  BY <1>0, <1>1, <1>2, <1>3, <1>4, CoremapAssumption
  DEF HandsApart, Evicted, Giving, LOADING, CLEAN
<1> QED BY <1>6, <1>7, <1>8, <1>9, <1>10 DEF PagesRight

\* TlbWrite, the end of a page fault.
LEMMA TlbWritePages ==
  ASSUME PInv, NEW p \in AddrSpaces, TlbWrite(p)
  PROVE  PagesRight'
<1>0. /\ TypeOK /\ HandsApart
      /\ \A q \in AddrSpaces : LocalsRight(q) /\ TableRight(q) /\ FramesRight(q)
  BY DEF PInv, PagesRight
<1>1. pc[p] = "tlbW" /\ pt' = pt /\ coremap' = coremap
  BY DEF TlbWrite, At
<1>2. /\ loc'[p] = NoLocals /\ NoLocals.frame = NULL
      /\ \A q \in AddrSpaces \ {p} : loc'[q] = loc[q]
  BY <1>0 DEF TlbWrite, TypeOK, NoLocals
<1>3. /\ pc'[p] = "user"
      /\ \A q \in AddrSpaces \ {p} : pc'[q] = pc[q]
  BY <1>0, PcSet DEF TlbWrite, PCs
<1>4. ASSUME NEW q \in AddrSpaces, q # p
      PROVE  (LocalsRight(q) /\ TableRight(q) /\ FramesRight(q))'
  BY <1>1, <1>2, <1>3, <1>4, OthersKept
<1>5. LocalsRight(p)'
  BY <1>2, <1>3 DEF LocalsRight, Outside, Seeking, Giving, Bringing, SwapIn
<1>6. TableRight(p)'
  BY <1>0, <1>1, <1>3 DEF TableRight, Leaving, Gone
<1>7. FramesRight(p)'
  BY <1>0, <1>1, <1>3 DEF FramesRight, Bringing, SwapIn
<1>8. HandsApart'
  <2>1. \A q \in AddrSpaces : pc[q] \in Giving => loc[q].frame # NULL
    BY <1>0, PagingAssumption DEF LocalsRight
  <2> QED
    BY <1>0, <1>1, <1>2, <1>3, <2>1 DEF HandsApart, Evicted, Giving
<1> QED BY <1>4, <1>5, <1>6, <1>7, <1>8 DEF PagesRight

\* UserFault, the start of a page fault.
LEMMA UserFaultPages ==
  ASSUME PInv, NEW p \in AddrSpaces, NEW va \in VAddrs, UserFault(p, va)
  PROVE  PagesRight'
<1>0. /\ TypeOK /\ HandsApart
      /\ \A q \in AddrSpaces : LocalsRight(q) /\ TableRight(q) /\ FramesRight(q)
  BY DEF PInv, PagesRight
<1>1. /\ pc[p] = "user" /\ ~ pt[p][va].in_mem
      /\ pt' = pt /\ coremap' = coremap
  BY DEF UserFault, At
<1>2. /\ loc'[p].va = va /\ loc'[p].kind = Kind(p, va)
      /\ loc'[p].frame = NULL
      /\ \A q \in AddrSpaces \ {p} : loc'[q] = loc[q]
  BY <1>0 DEF UserFault, TypeOK, NoLocals
<1>3. /\ pc'[p] = "alloc"
      /\ \A q \in AddrSpaces \ {p} : pc'[q] = pc[q]
  BY <1>0, PcSet DEF UserFault, PCs
<1>4. ASSUME NEW q \in AddrSpaces, q # p
      PROVE  (LocalsRight(q) /\ TableRight(q) /\ FramesRight(q))'
  BY <1>1, <1>2, <1>3, <1>4, OthersKept
<1>5. LocalsRight(p)'
  <2>1. Kind(p, va) \in Kinds /\ (pt[p][va].in_swap <=> Kind(p, va) = "swap")
    BY DEF Kind, Kinds
  <2> QED
    BY <1>1, <1>2, <1>3, <2>1
    DEF LocalsRight, Outside, Seeking, Giving, Bringing, SwapIn
<1>6. TableRight(p)'
  BY <1>0, <1>1, <1>3 DEF TableRight, Leaving, Gone
<1>7. FramesRight(p)'
  BY <1>0, <1>1, <1>3 DEF FramesRight, Bringing, SwapIn
<1>8. HandsApart'
  <2>1. \A q \in AddrSpaces : pc[q] \in Giving => loc[q].frame # NULL
    BY <1>0, PagingAssumption DEF LocalsRight
  <2> QED
    BY <1>0, <1>1, <1>2, <1>3, <2>1 DEF HandsApart, Evicted, Giving
<1> QED BY <1>4, <1>5, <1>6, <1>7, <1>8 DEF PagesRight

\* A process that begins or ends: it has no page fault under way, its page
\* table is empty, and it has no frame.
LEMMA EmptyPages ==
  ASSUME PInv, NEW p \in AddrSpaces, UNCHANGED loc,
         pc[p] \in Outside, NEW m \in Outside, Goto(p, m),
         \A q \in AddrSpaces \ {p} : pt'[q] = pt[q],
         \A va \in VAddrs : pt'[p][va] = pt_create,
         \A f \in Frames : \/ coremap'[f] = coremap[f] /\ coremap[f].as # p
                           \/ /\ coremap[f].as = p
                              /\ coremap'[f].as = NULL /\ ~ Evicted(f)'
  PROVE  PagesRight'
<1>0. /\ TypeOK /\ HandsApart
      /\ \A q \in AddrSpaces : LocalsRight(q) /\ TableRight(q) /\ FramesRight(q)
  BY DEF PInv, PagesRight
<1>1. /\ pc'[p] = m
      /\ \A q \in AddrSpaces \ {p} : pc'[q] = pc[q]
  BY <1>0, PcSet DEF Outside, PCs
<1>2. ASSUME NEW q \in AddrSpaces, q # p
      PROVE  (LocalsRight(q) /\ TableRight(q) /\ FramesRight(q))'
  <2>1. ASSUME NEW f \in Frames, InHand(q, f) PROVE coremap[f].as \in {NULL, q}
    BY <1>0, <2>1 DEF InHand, LocalsRight, Evicted
  <2>2. \A f \in Frames :
          coremap[f].as = q \/ coremap'[f].as = q \/ InHand(q, f)
            => coremap'[f] = coremap[f]
    BY <1>2, <2>1, CoremapAssumption
  <2> QED BY <1>1, <1>2, <2>2, OthersKept
<1>3. LocalsRight(p)'
  BY <1>0, <1>1
  DEF LocalsRight, Outside, Seeking, Giving, Bringing, SwapIn
<1>4. TableRight(p)'
  <2>1. ~ pt_create.in_mem
    BY DEF pt_create
  <2> QED BY <2>1 DEF TableRight
<1>5. FramesRight(p)'
  BY CoremapAssumption DEF FramesRight
<1>6. HandsApart'
  <2>1. \A f \in Frames : Evicted(f)' => Evicted(f)
    BY DEF Evicted
  <2>2. \A q \in AddrSpaces : pc'[q] \in Giving <=> pc[q] \in Giving
    BY <1>1 DEF Giving, Outside
  <2> QED BY <1>0, <2>1, <2>2 DEF HandsApart
<1> QED BY <1>2, <1>3, <1>4, <1>5, <1>6 DEF PagesRight

\* A process without pages has no frames.
LEMMA NoPagesNoFrames ==
  ASSUME PInv, NEW p \in AddrSpaces, pc[p] \in Gone, NEW f \in Frames
  PROVE  coremap[f].as # p
BY CoremapAssumption
DEF PInv, PagesRight, TableRight, FramesRight, CMInv, UserFramesTagged, Gone,
    Bringing, SwapIn, pt_create

LEMMA RunprogramPages ==
  ASSUME PInv, NEW p \in AddrSpaces, runprogram(p)
  PROVE  PagesRight'
<1>1. /\ pc[p] = "none" /\ Goto(p, "user") /\ UNCHANGED <<loc, coremap>>
      /\ pt' = [pt EXCEPT ![p] = [va \in VAddrs |-> pt_create]]
  BY DEF runprogram, At
<1>2. \A f \in Frames : coremap[f].as # p
  BY <1>1, NoPagesNoFrames DEF Gone
<1>3. /\ \A q \in AddrSpaces \ {p} : pt'[q] = pt[q]
      /\ \A va \in VAddrs : pt'[p][va] = pt_create
  BY <1>1 DEF PInv, TypeOK
<1> QED BY <1>1, <1>2, <1>3, EmptyPages DEF Outside

LEMMA AsDestroyFramesPages ==
  ASSUME PInv, NEW p \in AddrSpaces, AsDestroyFrames(p)
  PROVE  PagesRight'
<1>1. /\ pc[p] = "user" /\ Goto(p, "exit") /\ UNCHANGED loc /\ cm_asfree(p)
      /\ pt' = [pt EXCEPT ![p] = [va \in VAddrs |-> pt_create]]
  BY DEF AsDestroyFrames, At
<1>2. ASSUME NEW f \in Frames
      PROVE  \/ coremap'[f] = coremap[f] /\ coremap[f].as # p
             \/ /\ coremap[f].as = p
                /\ coremap'[f].as = NULL /\ ~ Evicted(f)'
  <2>1. coremap[f].as = p => coremap[f].state # FIXED
    BY CoremapAssumption DEF PInv, CMInv, UserFramesTagged, FIXED, LOADING, CLEAN
  <2> QED BY <1>1, <2>1 DEF cm_asfree, Blank, Evicted, FREE, LOADING
<1>3. /\ \A q \in AddrSpaces \ {p} : pt'[q] = pt[q]
      /\ \A va \in VAddrs : pt'[p][va] = pt_create
  BY <1>1 DEF PInv, TypeOK
<1> QED BY <1>1, <1>2, <1>3, EmptyPages DEF Outside

LEMMA AsDestroySwapPages ==
  ASSUME PInv, NEW p \in AddrSpaces, AsDestroySwap(p)
  PROVE  PagesRight'
<1>1. /\ pc[p] = "exit" /\ Goto(p, "none") /\ UNCHANGED <<loc, coremap, pt>>
  BY DEF AsDestroySwap, At
<1>2. \A f \in Frames : coremap[f].as # p
  BY <1>1, NoPagesNoFrames DEF Gone
<1>3. \A va \in VAddrs : pt'[p][va] = pt_create
  BY <1>1 DEF PInv, PagesRight, TableRight, Gone
<1> QED BY <1>1, <1>2, <1>3, EmptyPages DEF Outside

\* The kernel takes and releases frames that no process has in hand.
LEMMA KernelPages ==
  ASSUME PInv, KernelStep
  PROVE  PagesRight'
<1>0. /\ TypeOK /\ CMInv /\ HandsApart
      /\ \A q \in AddrSpaces : LocalsRight(q) /\ TableRight(q) /\ FramesRight(q)
  BY DEF PInv, PagesRight
<1>1. UNCHANGED <<pt, pc, loc>>
  BY DEF KernelStep, free_kpages, alloc_kpages
<1>2. ASSUME NEW f \in Frames
      PROVE  \/ coremap'[f] = coremap[f]
             \/ /\ coremap[f].as = NULL /\ coremap[f].state # LOADING
                /\ coremap'[f].as = NULL /\ coremap'[f].state # LOADING
  <2>1. ASSUME NEW g \in Frames, NEW n \in 1 .. KMaxPages, alloc_kpages(n, g)
        PROVE  \/ coremap'[f] = coremap[f]
               \/ /\ coremap[f].as = NULL /\ coremap[f].state # LOADING
                  /\ coremap'[f].as = NULL /\ coremap'[f].state # LOADING
    BY <1>0, <2>1
    DEF alloc_kpages, frame_kalloc, FirstFit, RunIsFree, CMInv, FreeIsBlank,
        FREE, LOADING, FIXED
  <2>2. ASSUME NEW g \in Frames, free_kpages(g)
        PROVE  \/ coremap'[f] = coremap[f]
               \/ /\ coremap[f].as = NULL /\ coremap[f].state # LOADING
                  /\ coremap'[f].as = NULL /\ coremap'[f].state # LOADING
    <3>1. CASE f \in Run(g)
      <4>1. coremap[f].state = FIXED /\ coremap[f].as = NULL
        BY <1>0, <2>2, <3>1 DEF free_kpages, CMInv, KernelRunsIntact
      <4>2. coremap'[f] = [coremap[f] EXCEPT !.state = FREE, !.npages = 0,
                                    !.virt_addr = NULL, !.timestamp = Never]
        BY <2>2, <3>1 DEF free_kpages, frame_kfree, Run
      <4>3. coremap[f] \in cm_entry
        BY <1>0 DEF CMInv, CMTypeOK
      <4> QED BY <4>1, <4>2, <4>3 DEF cm_entry, FREE, FIXED, LOADING
    <3>2. CASE f \notin Run(g)
      BY <2>2, <3>2 DEF free_kpages, frame_kfree, Run
    <3> QED BY <3>1, <3>2
  <2> QED BY <2>1, <2>2 DEF KernelStep
<1>3. ASSUME NEW q \in AddrSpaces
      PROVE  (LocalsRight(q) /\ TableRight(q) /\ FramesRight(q))'
  <2>1. ASSUME NEW f \in Frames, InHand(q, f)
        PROVE  coremap[f].as = q \/ coremap[f].state = LOADING
    BY <1>0, <2>1 DEF InHand, LocalsRight, Evicted
  <2>2. \A f \in Frames :
          coremap[f].as = q \/ coremap'[f].as = q \/ InHand(q, f)
            => coremap'[f] = coremap[f]
    BY <1>2, <2>1, CoremapAssumption
  <2> QED BY <1>1, <2>2, OthersKept
<1>4. HandsApart'
  BY <1>0, <1>1, <1>2 DEF HandsApart, Evicted
<1> QED BY <1>3, <1>4 DEF PagesRight

LEMMA PagesNext == PInv /\ [Next]_vars => PagesRight'
<1> SUFFICES ASSUME PInv, [Next]_vars PROVE PagesRight'
  OBVIOUS
<1>1. ASSUME UNCHANGED <<coremap, pt, pc, loc>> PROVE PagesRight'
  <2>1. PagesRight
    BY DEF PInv
  <2> QED
    BY <1>1, <2>1
    DEF PagesRight, LocalsRight, TableRight, FramesRight, HandsApart, Leaving,
        Evicted
<1>2. ASSUME NEW p \in AddrSpaces, UserStep(p) PROVE PagesRight'
  BY <1>1, <1>2, RunprogramPages, UserFaultPages
  DEF UserStep, UserSegv, CopyoutFails, UserReadOnly, UserReload, Reload, Panic,
      vars
<1>3. ASSUME NEW p \in AddrSpaces, FaultStep(p) PROVE PagesRight'
  <2>0. LocalsRight(p)
    BY DEF PInv, PagesRight
  <2>1. CASE \/ FrameAlloc(p) \/ Evict(p) \/ Remap(p) \/ TlbReplace(p)
             \/ Clean(p) \/ TlbWrite(p)
    BY <2>1, FrameAllocPages, EvictPages, RemapPages, TlbReplacePages,
       CleanPages, TlbWritePages
  <2>2. CASE \/ EvictPanics(p) \/ SwapOutPanics(p) \/ SwapOutError(p)
             \/ SwapInError(p) \/ NestedFault(p)
    BY <1>1, <2>2
    DEF EvictPanics, SwapOutPanics, SwapOutError, SwapInError, NestedFault,
        Reload, Panic
  <2>3. CASE \/ FrameAllocFails(p) \/ SwapOutCopy(p) \/ SwapOutWrite(p)
             \/ SwapInRead(p) \/ SwapInCopy(p) \/ Bzero(p) \/ ElfRead(p)
             \/ ElfReadError(p) \/ ElfCopy(p)
    <3>1. UNCHANGED <<coremap, pt, loc>> /\ pc[p] # "clean"
      BY <2>3
      DEF FrameAllocFails, SwapOutCopy, SwapOutWrite, SwapInRead, SwapInCopy,
          Bzero, ElfRead, ElfReadError, ElfCopy, At
    <3>2. \E m \in PCs : Goto(p, m) /\ SamePhase(pc[p], m)
      BY <2>3
      DEF FrameAllocFails, SwapOutCopy, SwapOutWrite, SwapInRead, SwapInCopy,
          Bzero, ElfRead, ElfReadError, ElfCopy, At, SamePhase, Giving, SwapIn,
          PCs
    <3> QED BY <3>1, <3>2, MoveKeeps
  <2>4. CASE SwapOutSlot(p) \/ SwapInSlot(p)
    <3>1. /\ UNCHANGED <<coremap, pt>> /\ pc[p] # "clean"
          /\ \E i \in Slots : loc' = [loc EXCEPT ![p].slot = i]
      BY <2>4 DEF SwapOutSlot, SwapInSlot, At
    <3>2. \E m \in PCs : Goto(p, m) /\ SamePhase(pc[p], m)
      BY <2>4
      DEF SwapOutSlot, SwapInSlot, At, SamePhase, Giving, SwapIn, PCs
    <3> QED BY <3>1, <3>2, MoveKeeps
  <2> QED BY <1>3, <2>1, <2>2, <2>3, <2>4 DEF FaultStep
<1>4. ASSUME NEW p \in AddrSpaces,
             thread_switch(p) \/ AsDestroyFrames(p) \/ AsDestroySwap(p)
      PROVE  PagesRight'
  BY <1>1, <1>4, AsDestroyFramesPages, AsDestroySwapPages DEF thread_switch
<1>5. CASE KernelStep
  BY <1>5, KernelPages
<1>6. CASE Halted \/ UNCHANGED vars
  BY <1>1, <1>6 DEF Halted, vars
<1> QED BY <1>2, <1>3, <1>4, <1>5, <1>6 DEF Next

-----------------------------------------------------------------------------
(***************************************************************************)
(* The table of the swap file.                                             *)
(***************************************************************************)

\* SwapSlotsMatch, of one process.
SlotsRight(p) ==
  \A va \in VAddrs :
    IF Swapped(p, va)
      THEN \E i \in Slots : SlotsOf(p, va) = {i}
      ELSE pc[p] # "exit" => SlotsOf(p, va) = {}

\* A step that moves no slot of q and no page of q to or from the swap file.
LEMMA SlotsKept ==
  ASSUME SwapSlotsMatch, NEW q \in AddrSpaces,
         \A i \in Slots : swapspace[i].as = q \/ swapspace'[i].as = q
                            => swapspace'[i] = swapspace[i],
         \A va \in VAddrs : Swapped(q, va)' <=> Swapped(q, va),
         pc[q] = "exit" => pc'[q] = "exit"
  PROVE  SlotsRight(q)'
<1>1. \A va \in VAddrs : SlotsOf(q, va)' = SlotsOf(q, va)
  BY DEF SlotsOf, Holds
<1>2. SlotsRight(q)
  BY DEF SwapSlotsMatch, SlotsRight
<1> QED BY <1>1, <1>2 DEF SlotsRight

\* A step of p that leaves the swap file and the other processes alone.
LEMMA StepKeepsSlots ==
  ASSUME PInv, NEW p \in AddrSpaces, UNCHANGED swapspace,
         \A q \in AddrSpaces \ {p} :
           pt'[q] = pt[q] /\ pc'[q] = pc[q] /\ loc'[q] = loc[q],
         pc[p] # "exit",
         \/ pc'[p] = "exit" /\ \A va \in VAddrs : ~ Swapped(p, va)'
         \/ \A va \in VAddrs : Swapped(p, va)' <=> Swapped(p, va)
  PROVE  SwapSlotsMatch'
<1>0. SwapSlotsMatch
  BY DEF PInv
<1>1. ASSUME NEW q \in AddrSpaces \ {p} PROVE SlotsRight(q)'
  BY <1>0, <1>1, SlotsKept DEF Swapped
<1>2. SlotsRight(p)'
  <2>1. CASE pc'[p] = "exit" /\ \A va \in VAddrs : ~ Swapped(p, va)'
    BY <2>1 DEF SlotsRight
  <2>2. CASE \A va \in VAddrs : Swapped(p, va)' <=> Swapped(p, va)
    BY <1>0, <2>2, SlotsKept
  <2> QED BY <2>1, <2>2
<1> QED BY <1>1, <1>2 DEF SwapSlotsMatch, SlotsRight

\* Steps of p that find a frame and map it: the page is still in the swap file
\* if it was, now because swap_in is going to look for it.
LEMMA MapKeepsSlots ==
  ASSUME PInv, NEW p \in AddrSpaces, FrameAlloc(p) \/ TlbReplace(p)
  PROVE  SwapSlotsMatch'
<1>0. TypeOK /\ LocalsRight(p)
  BY DEF PInv, PagesRight
<1> DEFINE va == loc[p].va
<1>1. /\ pc[p] \in {"alloc", "tlbR"} /\ va \in VAddrs /\ loc[p].kind \in Kinds
      /\ (pt[p][va].in_swap <=> loc[p].kind = "swap")
  BY <1>0 DEF FrameAlloc, TlbReplace, At, LocalsRight, Outside, Seeking
<1>2. PICK f \in Frames :
        /\ pt' = pt_map(p, va, f)
        /\ loc' = loc \/ loc' = [loc EXCEPT ![p].frame = f]
  BY <1>0 DEF FrameAlloc, TlbReplace, At, LocalsRight
<1>3. /\ pt'[p][va].in_mem /\ ~ pt'[p][va].in_swap
      /\ \A w \in VAddrs \ {va} : pt'[p][w] = pt[p][w]
      /\ \A q \in AddrSpaces \ {p} : pt'[q] = pt[q]
  BY <1>0, <1>1, <1>2, PtMapped
<1>4. /\ \A q \in AddrSpaces \ {p} : loc'[q] = loc[q]
      /\ loc'[p].va = va /\ loc'[p].kind = loc[p].kind
  BY <1>0, <1>2, LocFrame
<1>5. /\ pc'[p] = IF loc[p].kind = "swap" THEN "in_slot" ELSE "bzero"
      /\ \A q \in AddrSpaces \ {p} : pc'[q] = pc[q]
  BY <1>0, PcSet DEF FrameAlloc, TlbReplace, Fill, PCs
<1>6. UNCHANGED swapspace
  BY DEF FrameAlloc, TlbReplace
<1> HIDE DEF va
<1>7. \A w \in VAddrs : Swapped(p, w)' <=> Swapped(p, w)
  BY <1>1, <1>3, <1>4, <1>5 DEF Swapped
<1> QED BY <1>1, <1>3, <1>4, <1>5, <1>6, <1>7, StepKeepsSlots

\* SwapOutSlot: the victim was in memory, so it had no slot.
LEMMA SwapOutSlots ==
  ASSUME PInv, NEW p \in AddrSpaces, SwapOutSlot(p)
  PROVE  SwapSlotsMatch'
<1>0. /\ TypeOK /\ SwapTypeOK /\ SwapSlotsMatch
      /\ LocalsRight(p) /\ TableRight(p)
  BY DEF PInv, PagesRight, TypeOK
<1>1. PICK v \in VAddrs : v = loc[p].victim
  BY <1>0 DEF SwapOutSlot, At, LocalsRight, Giving
<1>2. PICK i \in Slots : /\ swap_out_slot(p, v, i)
                         /\ loc' = [loc EXCEPT ![p].slot = i]
  BY <1>1 DEF SwapOutSlot
<1>3. /\ pc[p] = "out_slot"
      /\ pt[p][v].in_mem /\ ~ pt[p][v].in_swap
  BY <1>0, <1>1 DEF SwapOutSlot, At, LocalsRight, Giving, TableRight
<1>4. /\ swapspace[i].as = NULL
      /\ swapspace'[i].as = p /\ swapspace'[i].vaddr = v
      /\ \A j \in Slots \ {i} : swapspace'[j] = swapspace[j]
  BY <1>0, <1>2 DEF swap_out_slot, SwapTypeOK
<1>5. /\ \A q \in AddrSpaces \ {p} : loc'[q] = loc[q]
      /\ loc'[p].va = loc[p].va /\ loc'[p].kind = loc[p].kind
      /\ loc'[p].victim = v
  BY <1>0, <1>1, <1>2, LocSlot
<1>6. /\ pc'[p] = "out_copy"
      /\ \A q \in AddrSpaces \ {p} : pc'[q] = pc[q]
  BY <1>0, PcSet DEF SwapOutSlot, PCs
<1>7. pt' = pt
  BY DEF SwapOutSlot
<1>8. ASSUME NEW q \in AddrSpaces, q # p PROVE SlotsRight(q)'
  <2>1. \A j \in Slots : swapspace[j].as = q \/ swapspace'[j].as = q
                           => swapspace'[j] = swapspace[j]
    BY <1>4, <1>8, CoremapAssumption
  <2>2. \A va \in VAddrs : Swapped(q, va)' <=> Swapped(q, va)
    BY <1>5, <1>6, <1>7, <1>8 DEF Swapped
  <2> QED BY <1>0, <1>6, <1>8, <2>1, <2>2, SlotsKept
<1>9. SlotsRight(p)'
  <2>1. ASSUME NEW va \in VAddrs, va # v
        PROVE  /\ SlotsOf(p, va)' = SlotsOf(p, va)
               /\ Swapped(p, va)' <=> Swapped(p, va)
    <3>1. \A j \in Slots : Holds(j, p, va)' <=> Holds(j, p, va)
      BY <1>4, <2>1, CoremapAssumption DEF Holds
    <3> QED BY <1>1, <1>3, <1>5, <1>6, <1>7, <2>1, <3>1 DEF Swapped, SlotsOf
  <2>2. SlotsOf(p, v) = {}
    BY <1>0, <1>1, <1>3 DEF SwapSlotsMatch, Swapped
  <2>3. SlotsOf(p, v)' = {i}
    BY <1>4, <2>2 DEF SlotsOf, Holds
  <2>4. Swapped(p, v)'
    BY <1>5, <1>6 DEF Swapped
  <2> QED
    BY <1>0, <1>3, <2>1, <2>3, <2>4 DEF SlotsRight, SwapSlotsMatch
<1> QED BY <1>8, <1>9 DEF SwapSlotsMatch, SlotsRight

\* SwapInSlot: the page had this slot and no other.
LEMMA SwapInSlots ==
  ASSUME PInv, NEW p \in AddrSpaces, SwapInSlot(p)
  PROVE  SwapSlotsMatch'
<1>0. /\ TypeOK /\ SwapTypeOK /\ SwapSlotsMatch
      /\ LocalsRight(p) /\ TableRight(p)
  BY DEF PInv, PagesRight, TypeOK
<1>1. PICK v \in VAddrs : v = loc[p].va
  BY <1>0 DEF SwapInSlot, At, LocalsRight, Outside
<1>2. PICK i \in Slots : /\ swap_in_slot(p, v, i)
                         /\ loc' = [loc EXCEPT ![p].slot = i]
  BY <1>1 DEF SwapInSlot
<1>3. /\ pc[p] = "in_slot" /\ loc[p].kind = "swap"
      /\ ~ pt[p][v].in_swap
  BY <1>0, <1>1
  DEF SwapInSlot, At, LocalsRight, Outside, Bringing, SwapIn, TableRight
<1>4. /\ Holds(i, p, v)
      /\ swapspace'[i].as = NULL
      /\ \A j \in Slots \ {i} : swapspace'[j] = swapspace[j]
  BY <1>0, <1>2 DEF swap_in_slot, SwapTypeOK, EmptySlot
<1>5. /\ \A q \in AddrSpaces \ {p} : loc'[q] = loc[q]
      /\ loc'[p].va = v /\ loc'[p].kind = loc[p].kind
      /\ loc'[p].victim = loc[p].victim
  BY <1>0, <1>1, <1>2, LocSlot
<1>6. /\ pc'[p] = "in_read"
      /\ \A q \in AddrSpaces \ {p} : pc'[q] = pc[q]
  BY <1>0, PcSet DEF SwapInSlot, PCs
<1>7. pt' = pt
  BY DEF SwapInSlot
<1>8. ASSUME NEW q \in AddrSpaces, q # p PROVE SlotsRight(q)'
  <2>1. \A j \in Slots : swapspace[j].as = q \/ swapspace'[j].as = q
                           => swapspace'[j] = swapspace[j]
    BY <1>4, <1>8, CoremapAssumption DEF Holds
  <2>2. \A va \in VAddrs : Swapped(q, va)' <=> Swapped(q, va)
    BY <1>5, <1>6, <1>7, <1>8 DEF Swapped
  <2> QED BY <1>0, <1>6, <1>8, <2>1, <2>2, SlotsKept
<1>9. SlotsRight(p)'
  <2>1. ASSUME NEW va \in VAddrs, va # v
        PROVE  /\ SlotsOf(p, va)' = SlotsOf(p, va)
               /\ Swapped(p, va)' <=> Swapped(p, va)
    <3>1. \A j \in Slots : Holds(j, p, va)' <=> Holds(j, p, va)
      BY <1>4, <2>1, CoremapAssumption DEF Holds
    <3> QED BY <1>1, <1>3, <1>5, <1>6, <1>7, <2>1, <3>1 DEF Swapped, SlotsOf
  <2>2. \E j \in Slots : SlotsOf(p, v) = {j}
    BY <1>0, <1>1, <1>3 DEF SwapSlotsMatch, Swapped
  <2>3. SlotsOf(p, v) = {i}
    BY <1>4, <2>2 DEF SlotsOf
  <2>4. \A j \in Slots : ~ Holds(j, p, v)'
    BY <1>4, <2>3, CoremapAssumption DEF SlotsOf, Holds
  <2>5. SlotsOf(p, v)' = {} /\ ~ Swapped(p, v)'
    BY <1>1, <1>3, <1>5, <1>6, <1>7, <2>4 DEF Swapped, SlotsOf
  <2> QED
    BY <1>0, <1>3, <2>1, <2>5 DEF SlotsRight, SwapSlotsMatch
<1> QED BY <1>8, <1>9 DEF SwapSlotsMatch, SlotsRight

\* AsDestroySwap: no slot of the process is left.
LEMMA AsDestroySwapSlots ==
  ASSUME PInv, NEW p \in AddrSpaces, AsDestroySwap(p)
  PROVE  SwapSlotsMatch'
<1>0. /\ TypeOK /\ SwapSlotsMatch
      /\ LocalsRight(p) /\ TableRight(p)
  BY DEF PInv, PagesRight
<1>1. pc[p] = "exit" /\ pt' = pt /\ loc' = loc
  BY DEF AsDestroySwap, At
<1>2. /\ pc'[p] = "none"
      /\ \A q \in AddrSpaces \ {p} : pc'[q] = pc[q]
  BY <1>0, PcSet DEF AsDestroySwap, PCs
<1>3. \A i \in Slots :
        swapspace'[i] = IF swapspace[i].as = p THEN EmptySlot ELSE swapspace[i]
  BY DEF AsDestroySwap, swap_asfree
<1>4. ASSUME NEW q \in AddrSpaces, q # p PROVE SlotsRight(q)'
  <2>1. \A j \in Slots : swapspace[j].as = q \/ swapspace'[j].as = q
                           => swapspace'[j] = swapspace[j]
    BY <1>3, <1>4, CoremapAssumption DEF EmptySlot
  <2>2. \A va \in VAddrs : Swapped(q, va)' <=> Swapped(q, va)
    BY <1>1, <1>2, <1>4 DEF Swapped
  <2> QED BY <1>0, <1>2, <1>4, <2>1, <2>2, SlotsKept
<1>5. SlotsRight(p)'
  <2>1. ASSUME NEW va \in VAddrs PROVE ~ Swapped(p, va)'
    <3>1. ~ pt[p][va].in_swap
      BY <1>0, <1>1 DEF TableRight, Gone, pt_create
    <3> QED BY <1>1, <1>2, <3>1 DEF Swapped
  <2>2. \A va \in VAddrs : SlotsOf(p, va)' = {}
    BY <1>3, CoremapAssumption DEF SlotsOf, Holds, EmptySlot
  <2> QED BY <2>1, <2>2 DEF SlotsRight
<1> QED BY <1>4, <1>5 DEF SwapSlotsMatch, SlotsRight

LEMMA SlotsNext == PInv /\ [Next]_vars => SwapSlotsMatch'
<1> SUFFICES ASSUME PInv, [Next]_vars PROVE SwapSlotsMatch'
  OBVIOUS
<1>0. TypeOK /\ \A p \in AddrSpaces : LocalsRight(p) /\ TableRight(p)
  BY DEF PInv, PagesRight
<1>1. ASSUME UNCHANGED <<swapspace, pt, pc, loc>> PROVE SwapSlotsMatch'
  BY <1>1 DEF PInv, SwapSlotsMatch, Swapped, SlotsOf, Holds
<1>2. ASSUME NEW p \in AddrSpaces, UserStep(p) PROVE SwapSlotsMatch'
  <2>1. CASE runprogram(p)
    <3>1. pc[p] = "none" /\ UNCHANGED <<loc, swapspace>>
      BY <2>1 DEF runprogram, At
    <3>2. pc'[p] = "user" /\ \A q \in AddrSpaces \ {p} : pc'[q] = pc[q]
      BY <1>0, <2>1, PcSet DEF runprogram, PCs
    <3>3. /\ \A va \in VAddrs : pt[p][va] = pt_create /\ pt'[p][va] = pt_create
          /\ \A q \in AddrSpaces \ {p} : pt'[q] = pt[q]
      BY <1>0, <2>1, <3>1 DEF runprogram, TypeOK, TableRight, Gone
    <3>4. \A va \in VAddrs : Swapped(p, va)' <=> Swapped(p, va)
      BY <3>1, <3>2, <3>3 DEF Swapped
    <3> QED BY <3>1, <3>2, <3>3, <3>4, StepKeepsSlots
  <2>2. ASSUME NEW v \in VAddrs, UserFault(p, v) PROVE SwapSlotsMatch'
    <3>1. /\ pc[p] = "user" /\ UNCHANGED <<pt, swapspace>>
          /\ \A q \in AddrSpaces \ {p} : loc'[q] = loc[q]
      BY <1>0, <2>2 DEF UserFault, At, TypeOK
    <3>2. pc'[p] = "alloc" /\ \A q \in AddrSpaces \ {p} : pc'[q] = pc[q]
      BY <1>0, <2>2, PcSet DEF UserFault, PCs
    <3>3. \A va \in VAddrs : Swapped(p, va)' <=> Swapped(p, va)
      BY <3>1, <3>2 DEF Swapped
    <3> QED BY <3>1, <3>2, <3>3, StepKeepsSlots
  <2> QED
    BY <1>1, <1>2, <2>1, <2>2
    DEF UserStep, UserSegv, CopyoutFails, UserReadOnly, UserReload, Reload,
        Panic, vars
<1>3. ASSUME NEW p \in AddrSpaces, FaultStep(p) PROVE SwapSlotsMatch'
  <2>1. CASE \/ EvictPanics(p) \/ SwapOutPanics(p) \/ SwapOutError(p)
             \/ SwapInError(p) \/ NestedFault(p)
    BY <1>1, <2>1
    DEF EvictPanics, SwapOutPanics, SwapOutError, SwapInError, NestedFault,
        Reload, Panic
  <2>2. CASE FrameAlloc(p) \/ TlbReplace(p) \/ SwapOutSlot(p) \/ SwapInSlot(p)
    BY <2>2, MapKeepsSlots, SwapOutSlots, SwapInSlots
  <2>3. CASE Evict(p)
    <3>1. /\ pc[p] = "evict" /\ UNCHANGED <<pt, swapspace>>
          /\ \A q \in AddrSpaces \ {p} : loc'[q] = loc[q]
      BY <1>0, <2>3 DEF Evict, At, TypeOK
    <3>2. pc'[p] = "out_slot" /\ \A q \in AddrSpaces \ {p} : pc'[q] = pc[q]
      BY <1>0, <2>3, PcSet DEF Evict, PCs
    <3>3. \A va \in VAddrs : Swapped(p, va)' <=> Swapped(p, va)
      BY <3>1, <3>2 DEF Swapped
    <3> QED BY <3>1, <3>2, <3>3, StepKeepsSlots
  <2>4. CASE Remap(p)
    <3>1. /\ pc[p] = "remap" /\ loc[p].victim \in VAddrs
          /\ UNCHANGED <<loc, swapspace>>
          /\ pt' = pt_update(p, loc[p].victim)
      BY <1>0, <2>4 DEF Remap, At, LocalsRight, Giving
    <3>2. pc'[p] = "tlbR" /\ \A q \in AddrSpaces \ {p} : pc'[q] = pc[q]
      BY <1>0, <2>4, PcSet DEF Remap, PCs
    <3>3. /\ pt'[p][loc[p].victim].in_swap
          /\ \A v \in VAddrs \ {loc[p].victim} : pt'[p][v] = pt[p][v]
          /\ \A q \in AddrSpaces \ {p} : pt'[q] = pt[q]
      BY <1>0, <3>1, PtUpdated
    <3>4. \A va \in VAddrs : Swapped(p, va)' <=> Swapped(p, va)
      BY <3>1, <3>2, <3>3 DEF Swapped
    <3> QED BY <3>1, <3>2, <3>3, <3>4, StepKeepsSlots
  <2>5. CASE TlbWrite(p)
    <3>1. /\ pc[p] = "tlbW" /\ UNCHANGED <<pt, swapspace>>
          /\ \A q \in AddrSpaces \ {p} : loc'[q] = loc[q]
      BY <1>0, <2>5 DEF TlbWrite, At, TypeOK
    <3>2. pc'[p] = "user" /\ \A q \in AddrSpaces \ {p} : pc'[q] = pc[q]
      BY <1>0, <2>5, PcSet DEF TlbWrite, PCs
    <3>3. \A va \in VAddrs : Swapped(p, va)' <=> Swapped(p, va)
      BY <3>1, <3>2 DEF Swapped
    <3> QED BY <3>1, <3>2, <3>3, StepKeepsSlots
  <2>6. CASE \/ FrameAllocFails(p) \/ SwapOutCopy(p) \/ SwapOutWrite(p)
             \/ SwapInRead(p) \/ SwapInCopy(p) \/ Bzero(p) \/ ElfRead(p)
             \/ ElfReadError(p) \/ ElfCopy(p) \/ Clean(p)
    <3>1. UNCHANGED <<pt, loc, swapspace>> /\ pc[p] # "exit"
      BY <2>6
      DEF FrameAllocFails, SwapOutCopy, SwapOutWrite, SwapInRead, SwapInCopy,
          Bzero, ElfRead, ElfReadError, ElfCopy, Clean, At
    <3>2. \E m \in PCs :
            /\ Goto(p, m)
            /\ pc[p] \in {"out_copy", "out_write", "remap"} <=>
                 m \in {"out_copy", "out_write", "remap"}
            /\ pc[p] # "in_slot" /\ m \notin {"in_slot", "exit"}
      BY <2>6
      DEF FrameAllocFails, SwapOutCopy, SwapOutWrite, SwapInRead, SwapInCopy,
          Bzero, ElfRead, ElfReadError, ElfCopy, Clean, At, PCs
    <3>3. /\ pc[p] \in {"out_copy", "out_write", "remap"} <=>
               pc'[p] \in {"out_copy", "out_write", "remap"}
          /\ pc[p] # "in_slot" /\ pc'[p] # "in_slot"
          /\ \A q \in AddrSpaces \ {p} : pc'[q] = pc[q]
      BY <1>0, <3>2, PcSet
    <3>4. \A va \in VAddrs : Swapped(p, va)' <=> Swapped(p, va)
      BY <3>1, <3>3 DEF Swapped
    <3> QED BY <3>1, <3>3, <3>4, StepKeepsSlots
  <2> QED BY <1>3, <2>1, <2>2, <2>3, <2>4, <2>5, <2>6 DEF FaultStep
<1>4. ASSUME NEW p \in AddrSpaces, AsDestroyFrames(p) PROVE SwapSlotsMatch'
  <2>1. pc[p] = "user" /\ UNCHANGED <<loc, swapspace>>
    BY <1>4 DEF AsDestroyFrames, At
  <2>2. pc'[p] = "exit" /\ \A q \in AddrSpaces \ {p} : pc'[q] = pc[q]
    BY <1>0, <1>4, PcSet DEF AsDestroyFrames, PCs
  <2>3. /\ \A va \in VAddrs : pt'[p][va] = pt_create
        /\ \A q \in AddrSpaces \ {p} : pt'[q] = pt[q]
    BY <1>0, <1>4 DEF AsDestroyFrames, TypeOK
  <2>4. \A va \in VAddrs : ~ Swapped(p, va)'
    BY <2>2, <2>3 DEF Swapped, pt_create
  <2> QED BY <2>1, <2>2, <2>3, <2>4, StepKeepsSlots
<1>5. ASSUME NEW p \in AddrSpaces, thread_switch(p) \/ AsDestroySwap(p)
      PROVE  SwapSlotsMatch'
  BY <1>1, <1>5, AsDestroySwapSlots DEF thread_switch
<1>6. CASE KernelStep \/ Halted \/ UNCHANGED vars
  BY <1>1, <1>6 DEF KernelStep, free_kpages, alloc_kpages, Halted, vars
<1> QED BY <1>2, <1>3, <1>4, <1>5, <1>6 DEF Next

-----------------------------------------------------------------------------
(***************************************************************************)
(* The TLB.                                                                *)
(***************************************************************************)

\* tlbW writes one entry, the one of the page if there is one.
LEMMA TlbWritten ==
  ASSUME TLBTypeOK, NEW va \in VAddrs, NEW f \in Frames, NEW w \in BOOLEAN,
         tlbW(va, f, w)
  PROVE  \E x \in Entries :
           /\ tlb'[x].vpage = va /\ tlb'[x].pframe = f /\ tlb'[x].dirty = w
           /\ \A y \in Entries \ {x} : tlb'[y] = tlb[y]
           /\ Probe(va, x) \/ ~ Hit(va)
<1>1. \A x \in Entries :
        tlb_write(va, f, w, x) =>
          /\ tlb'[x].vpage = va /\ tlb'[x].pframe = f /\ tlb'[x].dirty = w
          /\ \A y \in Entries \ {x} : tlb'[y] = tlb[y]
  BY DEF TLBTypeOK, tlb_write
<1>2. \E x \in Entries : tlb_write(va, f, w, x) /\ (Probe(va, x) \/ ~ Hit(va))
  BY DEF tlbW, TLBTypeOK
<1> QED BY <1>1, <1>2

\* tlbR writes the entry of the page, if there is one.
LEMMA TlbReplaced ==
  ASSUME TLBTypeOK, NEW va \in VAddrs, NEW new \in VAddrs, NEW f \in Frames,
         tlbR(va, new, f)
  PROVE  \/ ~ Hit(va) /\ tlb' = tlb
         \/ \E x \in Entries :
              /\ tlb'[x].vpage = new /\ tlb'[x].pframe = f /\ tlb'[x].dirty
              /\ \A y \in Entries \ {x} : tlb'[y] = tlb[y]
              /\ Probe(va, x)
BY DEF TLBTypeOK, tlbR, tlb_write

\* TlbRight, of one entry of the TLB.
EntryRight(x) ==
  LET va == tlb[x].vpage
      l  == loc[cur]
  IN  /\ \A y \in Entries : tlb[y].vpage = va => y = x
      /\ \/ pt[cur][va].in_mem /\ tlb[x].pframe = pt[cur][va].frame
         \/ pc[cur] = "tlbR" /\ va = l.victim
      /\ \/ tlb[x].dirty => va \in Writable
         \/ pc[cur] \in Giving \union {"tlbR"} /\ va = l.victim
         \/ pc[cur] \in Bringing \union {"tlbW"} /\ va = l.va
      /\ pc[cur] \in Bringing /\ va = l.va => tlb[x].dirty

LEMMA TlbByEntry ==
  TlbRight <=> (pc[cur] \notin Gone =>
                  \A x \in Entries : tlb[x].vpage # NULL => EntryRight(x))
BY DEF TlbRight, EntryRight

\* A step of p that leaves the TLB alone: the pages it maps stay where they
\* are, or become the page that p is giving up, and the page that p begins to
\* fill is not in the TLB.
LEMMA TlbKept ==
  ASSUME PInv, NEW p \in AddrSpaces, cur = p, UNCHANGED <<tlb, cur>>,
         pc[p] \notin Gone, pc[p] # "tlbR",
         \A va \in VAddrs : pt[p][va].in_mem =>
           \/ pt'[p][va].in_mem /\ pt'[p][va].frame = pt[p][va].frame
           \/ pc'[p] = "tlbR" /\ va = loc'[p].victim,
         pc[p] \in Giving =>
           pc'[p] \in Giving \union {"tlbR"} /\ loc'[p].victim = loc[p].victim,
         pc[p] \in Bringing \union {"tlbW"} =>
           pc'[p] \in Bringing \union {"tlbW"} /\ loc'[p].va = loc[p].va,
         pc'[p] \in Bringing =>
           pc[p] \in Bringing \/ ~ pt[p][loc'[p].va].in_mem
  PROVE  TlbRight'
<1>1. ASSUME NEW x \in Entries, tlb[x].vpage # NULL PROVE EntryRight(x)'
  <2>1. EntryRight(x) /\ tlb[x].vpage \in VAddrs
    BY <1>1, TlbByEntry DEF PInv, TypeOK, TLBTypeOK, tlb_entry
  <2>2. pt[p][tlb[x].vpage].in_mem
    BY <2>1 DEF EntryRight
  <2>3. /\ tlb'[x] = tlb[x]
        /\ \A y \in Entries : tlb'[y].vpage = tlb[x].vpage => y = x
    BY <2>1 DEF EntryRight
  <2>4. \/ /\ pt'[p][tlb[x].vpage].in_mem
           /\ tlb[x].pframe = pt'[p][tlb[x].vpage].frame
        \/ pc'[p] = "tlbR" /\ tlb[x].vpage = loc'[p].victim
    BY <2>1, <2>2 DEF EntryRight
  <2>5. \/ tlb[x].dirty => tlb[x].vpage \in Writable
        \/ pc'[p] \in Giving \union {"tlbR"} /\ tlb[x].vpage = loc'[p].victim
        \/ pc'[p] \in Bringing \union {"tlbW"} /\ tlb[x].vpage = loc'[p].va
    BY <2>1 DEF EntryRight
  <2>6. pc'[p] \in Bringing /\ tlb[x].vpage = loc'[p].va => tlb[x].dirty
    BY <2>1, <2>2 DEF EntryRight
  <2> QED BY <2>3, <2>4, <2>5, <2>6 DEF EntryRight
<1> QED BY <1>1 DEF TlbRight, EntryRight

\* vm_fault on a page in memory puts that page where the page table has it.
LEMMA ReloadTlb ==
  ASSUME PInv, NEW va \in VAddrs, Reload(cur, va), pc[cur] \notin Gone
  PROVE  TlbRight'
<1>0. /\ cur \in AddrSpaces /\ TLBTypeOK
      /\ LocalsRight(cur) /\ TableRight(cur) /\ FramesRight(cur)
  BY DEF PInv, PagesRight, TypeOK
<1> DEFINE w == coremap[pt[cur][va].frame].state = LOADING \/ va \in Writable
<1>1. PICK f \in Frames : f = pt[cur][va].frame /\ pt[cur][va].in_mem
  BY <1>0 DEF Reload, TableRight
<1>2. /\ w \in BOOLEAN /\ tlbW(va, f, w) /\ ~ Hit(va)
      /\ UNCHANGED <<cur, pt, pc, loc>>
  BY <1>1 DEF Reload
<1>3. \/ w => va \in Writable
      \/ pc[cur] \in Giving /\ va = loc[cur].victim
      \/ pc[cur] \in Bringing /\ va = loc[cur].va
  <2>1. CASE Leaving(cur, va)
    BY <2>1 DEF Leaving, Giving
  <2>2. CASE ~ Leaving(cur, va)
    <3>1. coremap[f].as = cur /\ coremap[f].virt_addr = va
      BY <1>0, <1>1, <2>2 DEF TableRight
    <3>2. CASE coremap[f].state = CLEAN
      BY <1>1, <3>2 DEF LOADING, CLEAN
    <3>3. CASE pc[cur] \in Bringing \union {"tlbR"} /\ loc[cur].frame = f
      <4>1. loc[cur].va = va
        BY <1>0, <3>1, <3>3 DEF LocalsRight
      <4>2. pc[cur] # "tlbR"
        BY <1>0, <1>1, <4>1 DEF LocalsRight, Seeking
      <4> QED BY <3>3, <4>1, <4>2
    <3> QED BY <1>0, <3>1, <3>2, <3>3 DEF FramesRight
  <2> QED BY <2>1, <2>2
<1>4. pc[cur] \in Bringing /\ va = loc[cur].va => w
  BY <1>0, <1>1 DEF LocalsRight, Bringing, SwapIn
<1> HIDE DEF w
<1>5. PICK x \in Entries :
        /\ tlb'[x].vpage = va /\ tlb'[x].pframe = f /\ tlb'[x].dirty = w
        /\ \A y \in Entries \ {x} : tlb'[y] = tlb[y]
  BY <1>0, <1>2, TlbWritten
<1>6. EntryRight(x)'
  BY <1>1, <1>2, <1>3, <1>4, <1>5 DEF EntryRight, Hit, Probe
<1>7. ASSUME NEW y \in Entries, y # x, tlb'[y].vpage # NULL
      PROVE  EntryRight(y)'
  <2>1. EntryRight(y) /\ tlb'[y] = tlb[y] /\ tlb[y].vpage # va
    BY <1>2, <1>5, <1>7, TlbByEntry DEF PInv, Hit, Probe
  <2> QED BY <1>2, <1>5, <2>1 DEF EntryRight
<1> QED BY <1>6, <1>7 DEF TlbRight, EntryRight

\* TlbReplace: the entry of the page that went is the entry of the one that
\* came; there was none of the latter.
LEMMA TlbReplaceTlb ==
  ASSUME PInv, NEW p \in AddrSpaces, TlbReplace(p)
  PROVE  TlbRight'
<1>0. TypeOK /\ TLBTypeOK /\ LocalsRight(p)
  BY DEF PInv, PagesRight, TypeOK
<1>1. PICK va \in VAddrs, v \in VAddrs, f \in Frames :
        va = loc[p].va /\ v = loc[p].victim /\ f = loc[p].frame
  BY <1>0 DEF TlbReplace, At, LocalsRight, Outside
<1>2. /\ cur = p /\ pc[p] = "tlbR" /\ ~ pt[p][va].in_mem /\ ~ pt[p][v].in_mem
      /\ cur' = cur /\ loc' = loc /\ loc[p].kind \in Kinds
      /\ tlbR(v, va, f) /\ pt' = pt_map(p, va, f)
  BY <1>0, <1>1 DEF TlbReplace, At, LocalsRight, Seeking, Outside
<1>3. /\ pt'[p][va].in_mem /\ pt'[p][va].frame = f
      /\ \A w \in VAddrs \ {va} : pt'[p][w] = pt[p][w]
  BY <1>0, <1>2, PtMapped
<1>4. pc'[p] \in {"in_slot", "bzero"}
  BY <1>0, PcSet DEF TlbReplace, Fill, PCs
<1>5. ASSUME NEW y \in Entries, tlb[y].vpage # NULL, tlb[y].vpage # v
      PROVE  /\ EntryRight(y)
             /\ tlb[y].vpage \in VAddrs \ {va}
             /\ pt[p][tlb[y].vpage].in_mem
  <2>1. EntryRight(y) /\ tlb[y].vpage \in VAddrs
    BY <1>0, <1>2, <1>5, TlbByEntry DEF PInv, TLBTypeOK, tlb_entry, Gone
  <2> QED BY <1>1, <1>2, <1>5, <2>1 DEF EntryRight
<1>6. ASSUME NEW y \in Entries, tlb[y].vpage # NULL, tlb[y].vpage # v,
             tlb'[y] = tlb[y],
             \A z \in Entries : tlb'[z] = tlb[z] \/ tlb'[z].vpage = va
      PROVE  EntryRight(y)'
  <2>1. /\ EntryRight(y) /\ tlb[y].vpage \in VAddrs \ {va}
        /\ pt[p][tlb[y].vpage].in_mem
    BY <1>5, <1>6
  <2>2. pt'[p][tlb[y].vpage] = pt[p][tlb[y].vpage]
    BY <1>3, <2>1
  <2>3. \A z \in Entries : tlb'[z].vpage = tlb[y].vpage => z = y
    BY <1>6, <2>1 DEF EntryRight
  <2>4. /\ tlb[y].pframe = pt[p][tlb[y].vpage].frame
        /\ tlb[y].dirty => tlb[y].vpage \in Writable
    BY <1>1, <1>2, <1>6, <2>1 DEF EntryRight, Giving, Bringing, SwapIn
  <2> QED BY <1>1, <1>2, <1>6, <2>1, <2>2, <2>3, <2>4 DEF EntryRight
<1>7. CASE ~ Hit(v) /\ tlb' = tlb
  BY <1>6, <1>7 DEF TlbRight, EntryRight, Hit, Probe
<1>8. ASSUME NEW x \in Entries, Probe(v, x),
             tlb'[x].vpage = va, tlb'[x].pframe = f, tlb'[x].dirty,
             \A y \in Entries \ {x} : tlb'[y] = tlb[y]
      PROVE  TlbRight'
  <2>1. ASSUME NEW y \in Entries, y # x PROVE tlb[y].vpage # v
    <3>1. EntryRight(x)
      BY <1>2, <1>8, CoremapAssumption, TlbByEntry DEF PInv, Probe, Gone
    <3> QED BY <1>8, <2>1, <3>1 DEF EntryRight, Probe
  <2>2. ASSUME NEW y \in Entries, y # x, tlb'[y].vpage # NULL
        PROVE  EntryRight(y)'
    BY <1>6, <1>8, <2>1, <2>2
  <2>3. EntryRight(x)'
    <3>1. \A y \in Entries : tlb'[y].vpage = va => y = x
      BY <1>5, <1>8, <2>1, CoremapAssumption
    <3> QED BY <1>1, <1>2, <1>3, <1>4, <1>8, <3>1 DEF EntryRight, Bringing, SwapIn
  <2> QED BY <2>2, <2>3 DEF TlbRight, EntryRight
<1> QED BY <1>0, <1>2, <1>7, <1>8, TlbReplaced

\* TlbWrite: the entry of the page gets the permission of its segment.
LEMMA TlbWriteTlb ==
  ASSUME PInv, NEW p \in AddrSpaces, TlbWrite(p)
  PROVE  TlbRight'
<1>0. TypeOK /\ TLBTypeOK /\ LocalsRight(p)
  BY DEF PInv, PagesRight, TypeOK
<1>1. PICK va \in VAddrs, f \in Frames : va = loc[p].va /\ f = loc[p].frame
  BY <1>0 DEF TlbWrite, At, LocalsRight, Outside
<1> DEFINE w == va \in Writable
<1>2. /\ cur = p /\ pc[p] = "tlbW" /\ pt[p][va].in_mem /\ pt[p][va].frame = f
      /\ cur' = cur /\ pt' = pt
      /\ w \in BOOLEAN /\ tlbW(va, f, w)
  BY <1>0, <1>1 DEF TlbWrite, At, LocalsRight
<1>3. w => va \in Writable
  OBVIOUS
<1> HIDE DEF w
<1>4. pc'[p] = "user"
  BY <1>0, PcSet DEF TlbWrite, PCs
<1>5. PICK x \in Entries :
        /\ tlb'[x].vpage = va /\ tlb'[x].pframe = f /\ tlb'[x].dirty = w
        /\ \A y \in Entries \ {x} : tlb'[y] = tlb[y]
        /\ Probe(va, x) \/ ~ Hit(va)
  BY <1>0, <1>2, TlbWritten
<1>6. ASSUME NEW y \in Entries, tlb[y].vpage # NULL PROVE EntryRight(y)
  BY <1>2, <1>6, TlbByEntry DEF PInv, Gone
<1>7. ASSUME NEW y \in Entries, y # x PROVE tlb[y].vpage # va
  BY <1>5, <1>6, <1>7, CoremapAssumption DEF Hit, Probe, EntryRight
<1>8. EntryRight(x)'
  BY <1>2, <1>3, <1>4, <1>5, <1>7 DEF EntryRight, Bringing, SwapIn
<1>9. ASSUME NEW y \in Entries, y # x, tlb'[y].vpage # NULL
      PROVE  EntryRight(y)'
  <2>1. EntryRight(y) /\ tlb'[y] = tlb[y] /\ tlb[y].vpage # va
    BY <1>5, <1>6, <1>7, <1>9
  <2> QED
    BY <1>1, <1>2, <1>4, <1>5, <2>1 DEF EntryRight, Giving, Bringing, SwapIn
<1> QED BY <1>8, <1>9 DEF TlbRight, EntryRight

LEMMA TlbNext == PInv /\ [Next]_vars => TlbRight'
<1> SUFFICES ASSUME PInv, [Next]_vars PROVE TlbRight'
  OBVIOUS
<1>0. /\ TypeOK /\ TlbRight
      /\ \A p \in AddrSpaces : LocalsRight(p) /\ TableRight(p)
  BY DEF PInv, PagesRight
<1>1. ASSUME UNCHANGED <<tlb, cur, pt, pc, loc>> PROVE TlbRight'
  BY <1>0, <1>1 DEF TlbRight
<1>2. ASSUME FlushTLB PROVE TlbRight'
  BY <1>2 DEF FlushTLB, Invalid, TlbRight
<1>3. ASSUME NEW p \in AddrSpaces, UserStep(p) PROVE TlbRight'
  <2>1. CASE runprogram(p)
    BY <1>2, <2>1 DEF runprogram
  <2>2. ASSUME NEW va \in VAddrs, UserReload(p, va) PROVE TlbRight'
    BY <2>2, ReloadTlb DEF UserReload, At, Gone
  <2>3. ASSUME NEW va \in VAddrs, UserFault(p, va) PROVE TlbRight'
    <3>1. cur = p /\ pc[p] = "user" /\ UNCHANGED <<tlb, cur, pt>>
      BY <2>3 DEF UserFault, At
    <3>2. pc'[p] = "alloc"
      BY <1>0, <2>3, PcSet DEF UserFault, PCs
    <3> QED BY <3>1, <3>2, TlbKept DEF Gone, Giving, Bringing, SwapIn
  <2> QED
    BY <1>1, <1>3, <2>1, <2>2, <2>3
    DEF UserStep, UserSegv, CopyoutFails, UserReadOnly, Panic, vars
<1>4. ASSUME NEW p \in AddrSpaces, FaultStep(p) PROVE TlbRight'
  <2>1. CASE \/ EvictPanics(p) \/ SwapOutPanics(p) \/ SwapOutError(p)
             \/ SwapInError(p)
    BY <1>1, <2>1
    DEF EvictPanics, SwapOutPanics, SwapOutError, SwapInError, Panic
  <2>2. CASE NestedFault(p)
    <3>1. cur = p /\ pc[p] \notin Gone /\ Touched(p) # NULL
      BY <2>2 DEF NestedFault, At, Touched, Gone
    <3>2. Touched(p) \in VAddrs
      BY <1>0, <3>1 DEF Touched, LocalsRight, Outside, Giving
    <3> QED BY <2>2, <3>1, <3>2, ReloadTlb DEF NestedFault
  <2>3. CASE FrameAlloc(p)
    <3>1. PICK f \in Frames : /\ pt' = pt_map(p, loc[p].va, f)
                              /\ loc' = [loc EXCEPT ![p].frame = f]
      BY <2>3 DEF FrameAlloc
    <3>2. /\ cur = p /\ pc[p] = "alloc" /\ UNCHANGED <<tlb, cur>>
          /\ loc[p].va \in VAddrs /\ ~ pt[p][loc[p].va].in_mem
      BY <1>0, <2>3 DEF FrameAlloc, At, LocalsRight, Outside, Seeking
    <3>3. loc'[p].va = loc[p].va
      BY <1>0, <3>1, LocFrame
    <3>4. pc'[p] \in {"in_slot", "bzero"}
      BY <1>0, <2>3, PcSet DEF FrameAlloc, Fill, PCs
    <3>5. \A va \in VAddrs : pt[p][va].in_mem => pt'[p][va] = pt[p][va]
      BY <1>0, <3>1, <3>2, PtMapped
    <3> QED
      BY <3>2, <3>3, <3>4, <3>5, TlbKept DEF Gone, Giving, Bringing, SwapIn
  <2>4. CASE Evict(p)
    <3>1. cur = p /\ pc[p] = "evict" /\ UNCHANGED <<tlb, cur, pt>>
      BY <2>4 DEF Evict, At
    <3>2. pc'[p] = "out_slot"
      BY <1>0, <2>4, PcSet DEF Evict, PCs
    <3> QED BY <3>1, <3>2, TlbKept DEF Gone, Giving, Bringing, SwapIn
  <2>5. CASE Remap(p)
    <3>1. /\ cur = p /\ pc[p] = "remap" /\ UNCHANGED <<tlb, cur, loc>>
          /\ loc[p].victim \in VAddrs /\ pt' = pt_update(p, loc[p].victim)
      BY <1>0, <2>5 DEF Remap, At, LocalsRight, Giving
    <3>2. pc'[p] = "tlbR"
      BY <1>0, <2>5, PcSet DEF Remap, PCs
    <3>3. \A va \in VAddrs \ {loc[p].victim} : pt'[p][va] = pt[p][va]
      BY <1>0, <3>1, PtUpdated
    <3> QED BY <3>1, <3>2, <3>3, TlbKept DEF Gone, Giving, Bringing, SwapIn
  <2>6. CASE TlbReplace(p) \/ TlbWrite(p)
    BY <2>6, TlbReplaceTlb, TlbWriteTlb
  <2>7. CASE SwapOutSlot(p) \/ SwapInSlot(p)
    <3>1. /\ cur = p /\ pc[p] \in {"out_slot", "in_slot"}
          /\ UNCHANGED <<tlb, cur, pt>>
      BY <2>7 DEF SwapOutSlot, SwapInSlot, At
    <3>2. loc'[p].va = loc[p].va /\ loc'[p].victim = loc[p].victim
      <4>1. \E i \in Slots : loc' = [loc EXCEPT ![p].slot = i]
        BY <2>7 DEF SwapOutSlot, SwapInSlot
      <4> QED BY <1>0, <4>1, LocSlot
    <3>3. \/ pc[p] = "out_slot" /\ pc'[p] = "out_copy"
          \/ pc[p] = "in_slot" /\ pc'[p] = "in_read"
      BY <1>0, <2>7, PcSet DEF SwapOutSlot, SwapInSlot, At, PCs
    <3> QED BY <3>1, <3>2, <3>3, TlbKept DEF Gone, Giving, Bringing, SwapIn
  <2>8. CASE \/ FrameAllocFails(p) \/ SwapOutCopy(p) \/ SwapOutWrite(p)
             \/ SwapInRead(p) \/ SwapInCopy(p) \/ Bzero(p) \/ ElfRead(p)
             \/ ElfReadError(p) \/ ElfCopy(p) \/ Clean(p)
    <3>1. cur = p /\ UNCHANGED <<tlb, cur, pt, loc>>
      BY <2>8
      DEF FrameAllocFails, SwapOutCopy, SwapOutWrite, SwapInRead, SwapInCopy,
          Bzero, ElfRead, ElfReadError, ElfCopy, Clean, At
    <3>2. \E m \in PCs :
            /\ Goto(p, m)
            /\ \/ pc[p] = "alloc" /\ m = "evict"
               \/ {pc[p], m} \subseteq Giving
               \/ pc[p] \in Bringing /\ m \in Bringing \union {"tlbW"}
      BY <2>8
      DEF FrameAllocFails, SwapOutCopy, SwapOutWrite, SwapInRead, SwapInCopy,
          Bzero, ElfRead, ElfReadError, ElfCopy, Clean, At, Giving, Bringing,
          SwapIn, PCs
    <3>3. \/ pc[p] = "alloc" /\ pc'[p] = "evict"
          \/ {pc[p], pc'[p]} \subseteq Giving
          \/ pc[p] \in Bringing /\ pc'[p] \in Bringing \union {"tlbW"}
      BY <1>0, <3>2, PcSet
    <3> QED BY <3>1, <3>3, TlbKept DEF Gone, Giving, Bringing, SwapIn
  <2> QED BY <1>4, <2>1, <2>2, <2>3, <2>4, <2>5, <2>6, <2>7, <2>8 DEF FaultStep
<1>5. ASSUME NEW p \in AddrSpaces, AsDestroyFrames(p) \/ AsDestroySwap(p)
      PROVE  TlbRight'
  <2>1. cur' = p /\ pc'[p] \in Gone
    BY <1>0, <1>5, PcSet DEF AsDestroyFrames, AsDestroySwap, At, PCs, Gone
  <2> QED BY <2>1 DEF TlbRight
<1>6. ASSUME NEW p \in AddrSpaces, thread_switch(p) PROVE TlbRight'
  <2>1. CASE FlushTLB
    BY <1>2, <2>1
  <2>2. CASE pc[p] = "none"
    BY <1>6, <2>2 DEF thread_switch, TlbRight, Gone
  <2> QED BY <1>6, <2>1, <2>2 DEF thread_switch
<1>7. CASE KernelStep \/ Halted \/ UNCHANGED vars
  BY <1>1, <1>7 DEF KernelStep, free_kpages, alloc_kpages, Halted, vars
<1> QED BY <1>3, <1>4, <1>5, <1>6, <1>7 DEF Next

-----------------------------------------------------------------------------
(***************************************************************************)
(* The theorems.                                                           *)
(***************************************************************************)

LEMMA PInvInit == Init => PInv
<1> SUFFICES ASSUME Init PROVE PInv
  OBVIOUS
<1>1. CMInv
  BY CMInvInit DEF Init, CMInit
<1>2. TypeOK
  <2>1. /\ EmptySlot \in swap_entry /\ Invalid \in tlb_entry
        /\ pt_create \in pt_entry /\ NoLocals \in Locals /\ 0 \in Entries
    BY PagingAssumption
    DEF EmptySlot, swap_entry, Invalid, tlb_entry, pt_create, pt_entry,
        NoLocals, Locals, Entries
  <2> QED
    BY <1>1, <2>1
    DEF Init, TypeOK, CMInv, SwapTypeOK, TLBTypeOK, swapspace_bootstrap, PCs,
        Panics
<1>3. \A f \in Frames : coremap[f].as = NULL /\ coremap[f].state \in {FREE, FIXED}
  BY DEF Init, vm_bootstrap, cm_bootstrap, cm_bootstrap_4test, Blank
<1>4. PagesRight
  <2>1. ~ pt_create.in_mem
    BY DEF pt_create
  <2>2. \A p \in AddrSpaces : LocalsRight(p)
    BY DEF Init, LocalsRight, Outside, Seeking, Giving, Bringing, SwapIn
  <2>3. \A p \in AddrSpaces : TableRight(p)
    BY <2>1 DEF Init, TableRight
  <2>4. \A p \in AddrSpaces : FramesRight(p)
    BY <1>3, CoremapAssumption DEF FramesRight
  <2>5. HandsApart
    BY <1>3 DEF Init, HandsApart, Evicted, Giving, FREE, FIXED, LOADING
  <2> QED BY <2>2, <2>3, <2>4, <2>5 DEF PagesRight
<1>5. SwapSlotsMatch
  <2>1. \A p \in AddrSpaces, va \in VAddrs : ~ Swapped(p, va)
    BY DEF Init, Swapped, pt_create
  <2>2. \A p \in AddrSpaces, va \in VAddrs : SlotsOf(p, va) = {}
    BY CoremapAssumption
    DEF Init, swapspace_bootstrap, SlotsOf, Holds, EmptySlot
  <2> QED BY <2>1, <2>2 DEF SwapSlotsMatch
<1>6. TlbRight
  BY DEF Init, TlbRight, Invalid
<1> QED BY <1>1, <1>2, <1>4, <1>5, <1>6 DEF PInv

LEMMA PInvNext == PInv /\ [Next]_vars => PInv'
<1> SUFFICES ASSUME PInv, [Next]_vars PROVE PInv'
  OBVIOUS
<1>1. CMInv'
  BY StepIsCMStep, CMInvNext DEF PInv
<1>2. TypeOK'
  BY <1>1, TypeNext DEF CMInv
<1> QED BY <1>1, <1>2, PagesNext, SlotsNext, TlbNext DEF PInv

LEMMA PInvAlways == Spec => []PInv
BY PInvInit, PInvNext, PTL DEF Spec

\* Every variable of the virtual memory system stays in its type: page table
\* entries, coremap, swap table, TLB, and the local variables of vm_fault.
THEOREM PagingTypes == Spec => []TypeOK
<1>1. PInv => TypeOK
  BY DEF PInv
<1> QED BY <1>1, PInvAlways, PTL

\* Page tables (pt.c) and coremap (coremap.c), guarded by different locks,
\* record the same relation at every step of vm_fault of any process, and a
\* frame that cm_evict took is in the hands of exactly one process.
THEOREM PageTablesAgree == Spec => []PageTablesMatchCoremap
<1>1. ASSUME PInv PROVE PageTablesMatchCoremap
  <2>0. /\ TypeOK /\ CMInv /\ HandsApart
        /\ \A p \in AddrSpaces :
             LocalsRight(p) /\ TableRight(p) /\ FramesRight(p)
    BY <1>1 DEF PInv, PagesRight
  <2>1. EvictedFrameInHand
    BY <2>0 DEF HandsApart, EvictedFrameInHand, Giving
  <2>2. ASSUME NEW p \in AddrSpaces, NEW va \in VAddrs, pt[p][va].in_mem
        PROVE  LET f == pt[p][va].frame
               IN  /\ f \in Frames
                   /\ IF Leaving(p, va) THEN f = loc[p].frame /\ Evicted(f)
                        ELSE coremap[f].as = p /\ coremap[f].virt_addr = va
    <3>1. Leaving(p, va) => Evicted(loc[p].frame)
      BY <2>0 DEF Leaving, LocalsRight, Giving
    <3> QED BY <2>0, <2>2, <3>1 DEF TableRight
  <2>3. ASSUME NEW f \in Frames, coremap[f].as # NULL
        PROVE  LET p == coremap[f].as
                   va == coremap[f].virt_addr
               IN  \/ pt[p][va].in_mem /\ pt[p][va].frame = f
                   \/ pc[p] = "tlbR" /\ loc[p].va = va /\ loc[p].frame = f
    <3>1. coremap[f].as \in AddrSpaces
      BY <2>0, <2>3 DEF CMInv, CMTypeOK, cm_entry
    <3> QED BY <2>0, <3>1 DEF FramesRight
  <2> QED BY <2>1, <2>2, <2>3 DEF PageTablesMatchCoremap
<1> QED BY <1>1, PInvAlways, PTL

\* A page that is in the swap file has exactly one slot and any other page
\* none, whatever swap_out, swap_in and swap_asfree of different processes do
\* in between; so the search of swap_in never ends in its panic.
THEOREM SwapTableExact == Spec => []SwapSlotsMatch
<1>1. PInv => SwapSlotsMatch
  BY DEF PInv
<1> QED BY <1>1, PInvAlways, PTL

\* A process in user mode finds in the TLB only its own pages, where its page
\* table has them, filled to the end and with the permission of their
\* segment, however often it was preempted by thread_switch since.
THEOREM TlbHoldsOwnPages == Spec => []TlbIsolation
<1>1. ASSUME PInv PROVE TlbIsolation
  <2> SUFFICES ASSUME pc[cur] = "user",
                      NEW x \in Entries, tlb[x].vpage # NULL
               PROVE  /\ tlb[x].dirty => tlb[x].vpage \in Writable
                      /\ \A y \in Entries : tlb[y].vpage = tlb[x].vpage => y = x
                      /\ LET e == coremap[tlb[x].pframe]
                         IN  /\ e.as = cur /\ e.virt_addr = tlb[x].vpage
                             /\ e.state = CLEAN
    BY DEF TlbIsolation
  <2>1. /\ TableRight(cur) /\ FramesRight(cur)
        /\ tlb[x].vpage \in VAddrs
    BY <1>1 DEF PInv, PagesRight, TypeOK, TLBTypeOK, tlb_entry
  <2>2. EntryRight(x)
    BY <1>1, TlbByEntry DEF PInv, Gone
  <2>3. /\ pt[cur][tlb[x].vpage].in_mem
        /\ tlb[x].pframe = pt[cur][tlb[x].vpage].frame
    BY <2>2 DEF EntryRight
  <2>4. LET e == coremap[tlb[x].pframe]
        IN  /\ e.as = cur /\ e.virt_addr = tlb[x].vpage /\ e.state = CLEAN
    BY <2>1, <2>3 DEF TableRight, FramesRight, Leaving, Bringing, SwapIn
  <2> QED BY <2>2, <2>4 DEF EntryRight, Giving, Bringing, SwapIn
<1> QED BY <1>1, PInvAlways, PTL

\* What vm_fault itself touches is there: the victim while emu_write copies
\* it and the new page while it is filled are in memory, and the entry of the
\* latter may be written, whatever its segment says.
THEOREM KernelTouchesMappedPages == Spec => []KernelAccessesSafe
<1>1. ASSUME PInv PROVE KernelAccessesSafe
  <2>0. \A p \in AddrSpaces : LocalsRight(p)
    BY <1>1 DEF PInv, PagesRight
  <2>1. NestedFaultResident
    BY <2>0
    DEF NestedFaultResident, Touched, LocalsRight, Giving, Bringing, SwapIn
  <2>2. ASSUME pc[cur] \in {"in_copy", "bzero", "elf_copy"},
               NEW x \in Entries, Probe(loc[cur].va, x)
        PROVE  tlb[x].dirty /\ tlb[x].pframe = loc[cur].frame
    <3>1. cur \in AddrSpaces /\ LocalsRight(cur)
      BY <1>1, <2>0 DEF PInv, TypeOK
    <3>2. /\ tlb[x].vpage = loc[cur].va /\ tlb[x].vpage # NULL
          /\ pt[cur][loc[cur].va].frame = loc[cur].frame
          /\ pc[cur] \in Bringing
      BY <2>2, <3>1, CoremapAssumption
      DEF LocalsRight, Probe, Bringing, SwapIn, Outside
    <3>3. EntryRight(x)
      BY <1>1, <2>2, <3>2, TlbByEntry DEF PInv, Gone
    <3> QED BY <2>2, <3>2, <3>3 DEF EntryRight
  <2> QED BY <2>1, <2>2 DEF KernelAccessesSafe, KernelStoresAllowed
<1> QED BY <1>1, PInvAlways, PTL

\* Demand paging implements the coremap with callers that follow its
\* protocol: every step of vm_fault, as_destroy and the kernel is a step of
\* CMSpec or leaves the coremap alone.
THEOREM PagingImplementsCoremap == Spec => CMSpec
<1>1. Init => CMInit
  BY DEF Init, CMInit
<1> QED BY <1>1, PInvAlways, StepIsCMStep, PTL DEF Spec, CMSpec

\* So what is proved of the coremap holds of demand paging: in particular,
\* until the clock of the coremap wraps, cm_evict panics only if its process
\* has no frame that could be given up.
THEOREM PagingKeepsCoremap ==
  /\ Spec => []FramesWellFormed
  /\ NoWrap => (Spec => []EvictFindsVictim)
<1>1. Spec => []FramesWellFormed
  BY CoremapWellFormed, PagingImplementsCoremap, PTL
<1>2. ASSUME NoWrap PROVE Spec => []EvictFindsVictim
  BY <1>2, EvictionSucceeds, PagingImplementsCoremap, PTL
<1> QED BY <1>1, <1>2

=============================================================================
