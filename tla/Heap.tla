-------------------------------- MODULE Heap --------------------------------
(***************************************************************************)
(* The kernel heap (kern/vm/kmalloc.c) on top of the coremap, and the way  *)
(* both come up at boot (arch/mips/vm/ram.c, cm_bootstrap).                *)
(*                                                                         *)
(* kmalloc_spinlock is held over every step below except the calls to      *)
(* alloc_kpages and free_kpages, for which the code releases it: those are *)
(* steps of their own, and other threads run between them.  A pointer is   *)
(* <<frame, offset>>; a page-aligned one, offset 0, may be a block or a    *)
(* whole-page allocation, and kfree has to find out which.                 *)
(***************************************************************************)
EXTENDS CoremapFifo, Sequences, FiniteSets

CONSTANTS
  KThreads,           \* kernel threads that use the heap
  PAGE_SIZE,
  sizes,              \* the block sizes, ascending; the last is half a page
  CM_ENTRY_SIZE,      \* sizeof(cm_entry)
  NUM_PAGEREFPAGES,
  NPAGEREFS_PER_PAGE,
  MaxPointers,        \* bound of the model: pointers given out at a time
  MaxPages            \* bound of the model: pages of one kmalloc

NSIZES == Len(sizes)
BlockTypes == 1 .. NSIZES
LARGEST_SUBPAGE_SIZE == sizes[NSIZES]

Roots == 1 .. NUM_PAGEREFPAGES
PageRefs == Roots \X (0 .. NPAGEREFS_PER_PAGE - 1)

\* Bytes of the coremap array.
space == ram_frames * CM_ENTRY_SIZE

ASSUME HeapAssumption ==
  /\ NULL \notin Frames
  /\ PAGE_SIZE \in Nat \ {0} /\ CM_ENTRY_SIZE \in Nat \ {0}
  /\ sizes \in Seq(Nat \ {0}) /\ NSIZES > 0
  /\ \A b \in BlockTypes : PAGE_SIZE % sizes[b] = 0
  /\ NUM_PAGEREFPAGES \in Nat /\ NPAGEREFS_PER_PAGE \in Nat
  /\ MaxPointers \in Nat /\ MaxPages \in Nat
  /\ BootFrames = (space \div PAGE_SIZE) + 1   \* frames with i <= space/PAGE_SIZE
  /\ ~ SWAP_TEST

VARIABLES
  kheaproots,   \* [page, inuse] of every pageref page; numinuse is |inuse|
  pagerefs,     \* contents of the pageref structures
  sizebases,    \* per block type, the list of pages with such blocks
  allbase,      \* the list of all heap pages
  pointers,     \* what kmalloc has returned and kfree has not had back
  kpc           \* progress of each thread through kmalloc or kfree

heapvars == <<kheaproots, pagerefs, sizebases, allbase, pointers, kpc>>

Idle == [at |-> "idle", blktype |-> 1, page |-> NULL, ref |-> NULL, va |-> NULL]

-----------------------------------------------------------------------------
(***************************************************************************)
(* One heap page: its free list (a chain through the free blocks, as the   *)
(* sequence of their offsets, head first) and the count nfree.             *)
(***************************************************************************)

NumBlocks(b) == PAGE_SIZE \div sizes[b]

\* Mutant: the first block of the chain begins where the page ends.
NewPage_OffByOne(f, b) ==
  [page |-> f, blktype |-> b, nfree |-> NumBlocks(b),
   freelist |-> [i \in 1 .. NumBlocks(b) |-> (NumBlocks(b) - i + 1) * sizes[b]]]

\* The chain that subpage_kmalloc threads through a new page: last block first.
NewPage(f, b) ==
  [page |-> f, blktype |-> b, nfree |-> NumBlocks(b),
   freelist |-> [i \in 1 .. NumBlocks(b) |-> (NumBlocks(b) - i) * sizes[b]]]

\* The code below the label doalloc.
TakeBlock(pr) == [pr EXCEPT !.nfree = @ - 1, !.freelist = Tail(@)]

\* Mutant: nfree is not counted up again.
PutBlock_NoCount(pr, off) == [pr EXCEPT !.freelist = <<off>> \o @]

PutBlock(pr, off) == [pr EXCEPT !.nfree = @ + 1, !.freelist = <<off>> \o @]

\* The walk of remove_lists stops at the first entry that is x, if there is one.
FirstAt(s, x, k) == k \in DOMAIN s /\ s[k] = x /\ \A j \in 1 .. k - 1 : s[j] # x

Without(s, x) ==
  IF \A k \in DOMAIN s : s[k] # x THEN s
  ELSE LET k == CHOOSE k \in DOMAIN s : FirstAt(s, x, k)
       IN  SubSeq(s, 1, k - 1) \o SubSeq(s, k + 1, Len(s))

-----------------------------------------------------------------------------
(***************************************************************************)
(* Boot.  vm_bootstrap runs before anything else calls kmalloc.            *)
(* cm_bootstrap notes the first free frame, then has kmalloc allocate the  *)
(* coremap, with ram_stealmem behind alloc_kpages: frames 0, 1, ... of the *)
(* coremap.  A coremap of LARGEST_SUBPAGE_SIZE bytes or more takes whole   *)
(* pages, a smaller one is a block of a heap page, which needs a page of   *)
(* pagerefs too.                                                           *)
(***************************************************************************)

\* The smallest block size that fits.
Blocktype(sz, b) == sz <= sizes[b] /\ \A c \in 1 .. b - 1 : sz > sizes[c]

ram_stealmem ==
  IF space >= LARGEST_SUBPAGE_SIZE
    THEN 0 .. ((space + PAGE_SIZE - 1) \div PAGE_SIZE) - 1
    ELSE {0, 1}

NoPageRef == [page |-> NULL, blktype |-> 1, nfree |-> 0, freelist |-> <<>>]

BootHeap ==
  IF space >= LARGEST_SUBPAGE_SIZE
    THEN /\ kheaproots = [r \in Roots |-> [page |-> NULL, inuse |-> {}]]
         /\ pagerefs = [p \in PageRefs |-> NoPageRef]
         /\ sizebases = [b \in BlockTypes |-> <<>>]
         /\ allbase = <<>>
         /\ pointers = {}
    ELSE \E b \in BlockTypes :
         /\ Blocktype(space, b)
         /\ kheaproots = [r \in Roots |->
              IF r = 1 THEN [page |-> 1, inuse |-> {0}]
                       ELSE [page |-> NULL, inuse |-> {}]]
         /\ pagerefs = [p \in PageRefs |->
              IF p = <<1, 0>> THEN TakeBlock(NewPage(0, b)) ELSE NoPageRef]
         /\ sizebases = [c \in BlockTypes |-> IF c = b THEN <<<<1, 0>>>> ELSE <<>>]
         /\ allbase = <<<<1, 0>>>>
         /\ pointers = {<<0, NewPage(0, b).freelist[1]>>}

HeapInit == FifoInit /\ BootHeap /\ kpc = [t \in KThreads |-> Idle]

-----------------------------------------------------------------------------
(***************************************************************************)
(* kmalloc.                                                                *)
(***************************************************************************)

At(t, s) == kpc[t].at = s
Goto(t, s) == kpc' = [kpc EXCEPT ![t].at = s]
Return(t) == kpc' = [kpc EXCEPT ![t] = Idle]

cmunchanged == UNCHANGED <<coremap, timestamp>>
listsunchanged == UNCHANGED <<kheaproots, pagerefs, sizebases, allbase>>

NoFreeFrame == \A f \in Frames : coremap[f].state # FREE

\* Half a page or more: whole pages, straight from alloc_kpages.  (When that
\* fails kmalloc returns NULL and nothing has changed.)
kmalloc_pages(t) ==
  /\ At(t, "idle") /\ Cardinality(pointers) < MaxPointers
  /\ \E n \in 1 .. MaxPages, f \in Frames :
       frame_kalloc(n, f) /\ pointers' = pointers \union {<<f, 0>>}
  /\ listsunchanged /\ UNCHANGED kpc

HasBlock(b, k) ==
  /\ k \in DOMAIN sizebases[b]
  /\ pagerefs[sizebases[b][k]].nfree > 0
  /\ \A j \in 1 .. k - 1 : pagerefs[sizebases[b][j]].nfree = 0

subpage_kmalloc(t) ==
  /\ At(t, "idle")
  /\ Cardinality(pointers) + Cardinality({u \in KThreads : ~ At(u, "idle")}) < MaxPointers
  /\ \E b \in BlockTypes :
       \/ \E k \in DOMAIN sizebases[b] :
            LET p == sizebases[b][k] IN
            /\ HasBlock(b, k)
            /\ pagerefs' = [pagerefs EXCEPT ![p] = TakeBlock(@)]
            /\ pointers' = pointers \union {<<pagerefs[p].page, Head(pagerefs[p].freelist)>>}
            /\ UNCHANGED kpc
       \/ /\ \A k \in DOMAIN sizebases[b] : ~ HasBlock(b, k)
          /\ kpc' = [kpc EXCEPT ![t].at = "page", ![t].blktype = b]
          /\ UNCHANGED <<pagerefs, pointers>>
  /\ UNCHANGED <<kheaproots, sizebases, allbase>> /\ cmunchanged

\* No page has a block of this size: get one, the spinlock being free.
alloc_heap_page(t) ==
  /\ At(t, "page")
  /\ \/ \E f \in Frames : /\ frame_kalloc(1, f)
                          /\ kpc' = [kpc EXCEPT ![t].at = "ref", ![t].page = f]
     \/ NoFreeFrame /\ Return(t) /\ cmunchanged
  /\ listsunchanged /\ UNCHANGED pointers

\* The new page goes to the head of both lists and gives its first block.
UsePage(t, p) ==
  LET b  == kpc[t].blktype
      pr == NewPage(kpc[t].page, b) IN
  /\ pagerefs' = [pagerefs EXCEPT ![p] = TakeBlock(pr)]
  /\ sizebases' = [sizebases EXCEPT ![b] = <<p>> \o @]
  /\ allbase' = <<p>> \o allbase
  /\ pointers' = pointers \union {<<pr.page, Head(pr.freelist)>>}
  /\ Return(t)

FreeRef(r, i) ==
  /\ i \in (0 .. NPAGEREFS_PER_PAGE - 1) \ kheaproots[r].inuse
  /\ \A j \in 0 .. i - 1 : j \in kheaproots[r].inuse
  /\ \A q \in 1 .. r - 1 : Cardinality(kheaproots[q].inuse) >= NPAGEREFS_PER_PAGE

\* The pageref is marked in use before its page is known to exist.
allocpageref(t) ==
  /\ At(t, "ref")
  /\ \/ \E p \in PageRefs :
          /\ FreeRef(p[1], p[2])
          /\ kheaproots' = [kheaproots EXCEPT ![p[1]].inuse = @ \union {p[2]}]
          /\ \/ kheaproots[p[1]].page # NULL /\ UsePage(t, p)
             \/ /\ kheaproots[p[1]].page = NULL
                /\ kpc' = [kpc EXCEPT ![t].at = "rootpage", ![t].ref = p]
                /\ UNCHANGED <<pagerefs, sizebases, allbase, pointers>>
     \/ /\ \A p \in PageRefs : ~ FreeRef(p[1], p[2])
        /\ Goto(t, "giveup")
        /\ listsunchanged /\ UNCHANGED pointers
  /\ cmunchanged

alloc_root_page(t) ==
  /\ At(t, "rootpage")
  /\ \/ \E f \in Frames : /\ frame_kalloc(1, f)
                          /\ kpc' = [kpc EXCEPT ![t].at = "rootset", ![t].va = f]
     \/ NoFreeFrame /\ Goto(t, "rootset") /\ cmunchanged
  /\ listsunchanged /\ UNCHANGED pointers

\* Mutant: "Oops, somebody else allocated it" is not noticed.
allocpagerefpage_NoRecheck(t) ==
  LET r == kpc[t].ref[1] IN
  /\ At(t, "rootset")
  /\ \/ /\ kpc[t].va # NULL
        /\ kheaproots' = [kheaproots EXCEPT ![r].page = kpc[t].va]
        /\ UsePage(t, kpc[t].ref)
     \/ /\ kpc[t].va = NULL /\ kheaproots[r].page = NULL
        /\ Goto(t, "giveup")
        /\ listsunchanged /\ UNCHANGED pointers
  /\ cmunchanged

\* Back under the spinlock: another thread may have set the page meanwhile.
\* When there is no page the pageref stays marked in use.
allocpagerefpage(t) ==
  LET r == kpc[t].ref[1] IN
  /\ At(t, "rootset")
  /\ \/ /\ kpc[t].va # NULL /\ kheaproots[r].page = NULL
        /\ kheaproots' = [kheaproots EXCEPT ![r].page = kpc[t].va]
        /\ UsePage(t, kpc[t].ref)
     \/ /\ kpc[t].va # NULL /\ kheaproots[r].page # NULL
        /\ Goto(t, "rootdup")
        /\ listsunchanged /\ UNCHANGED pointers
     \/ /\ kpc[t].va = NULL /\ kheaproots[r].page # NULL
        /\ UsePage(t, kpc[t].ref)
        /\ UNCHANGED kheaproots
     \/ /\ kpc[t].va = NULL /\ kheaproots[r].page = NULL
        /\ Goto(t, "giveup")
        /\ listsunchanged /\ UNCHANGED pointers
  /\ cmunchanged

free_duplicate(t) ==
  /\ At(t, "rootdup")
  /\ frame_kfree(kpc[t].va)
  /\ kpc' = [kpc EXCEPT ![t].at = "rootok", ![t].va = NULL]
  /\ listsunchanged /\ UNCHANGED pointers

use_page(t) ==
  /\ At(t, "rootok") /\ UsePage(t, kpc[t].ref)
  /\ UNCHANGED kheaproots /\ cmunchanged

\* Mutant: the thread comes back to free the page again.
giveup_Again(t) ==
  /\ At(t, "giveup") /\ frame_kfree(kpc[t].page)
  /\ listsunchanged /\ UNCHANGED <<pointers, kpc>>

\* No pageref: the page goes back and kmalloc returns NULL.
giveup(t) ==
  /\ At(t, "giveup") /\ frame_kfree(kpc[t].page) /\ Return(t)
  /\ listsunchanged /\ UNCHANGED pointers

-----------------------------------------------------------------------------
(***************************************************************************)
(* kfree.                                                                  *)
(***************************************************************************)

InPage(p, ptr) == pagerefs[p].page = ptr[1]

remove_lists(p, b) ==
  /\ sizebases' = [sizebases EXCEPT ![b] = Without(@, p)]
  /\ allbase' = Without(allbase, p)

freepageref(p) ==
  kheaproots' = [kheaproots EXCEPT ![p[1]].inuse = @ \ {p[2]}]

subpage_kfree(t, ptr) ==
  \E p \in PageRefs :
    LET pr == PutBlock(pagerefs[p], ptr[2]) IN
    /\ \E k \in DOMAIN allbase : allbase[k] = p
    /\ InPage(p, ptr)
    /\ pagerefs' = [pagerefs EXCEPT ![p] = pr]
    /\ IF pr.nfree = NumBlocks(pr.blktype)
         THEN /\ remove_lists(p, pr.blktype)
              /\ freepageref(p)
              /\ kpc' = [kpc EXCEPT ![t].at = "freepage", ![t].page = ptr[1]]
         ELSE UNCHANGED <<kheaproots, sizebases, allbase, kpc>>

\* Any thread may free what another one allocated.  A pointer into no heap
\* page is taken for a whole-page allocation.
kfree(t) ==
  /\ At(t, "idle")
  /\ \E ptr \in pointers :
       /\ pointers' = pointers \ {ptr}
       /\ \/ subpage_kfree(t, ptr)
          \/ /\ \A k \in DOMAIN allbase : ~ InPage(allbase[k], ptr)
             /\ kpc' = [kpc EXCEPT ![t].at = "freepage", ![t].page = ptr[1]]
             /\ listsunchanged
  /\ cmunchanged

free_kpages(t) ==
  /\ At(t, "freepage") /\ frame_kfree(kpc[t].page) /\ Return(t)
  /\ listsunchanged /\ UNCHANGED pointers

HeapStep(t) ==
  \/ kmalloc_pages(t) \/ subpage_kmalloc(t) \/ alloc_heap_page(t)
  \/ allocpageref(t) \/ alloc_root_page(t) \/ allocpagerefpage(t)
  \/ free_duplicate(t) \/ use_page(t) \/ giveup(t)
  \/ kfree(t) \/ free_kpages(t)

\* The heap shares the frames with the address spaces.
HeapNext ==
  \/ (\E t \in KThreads : HeapStep(t)) /\ UNCHANGED before
  \/ UserFifoNext /\ UNCHANGED heapvars

HeapSpec == HeapInit /\ [][HeapNext]_<<fifovars, heapvars>>

-----------------------------------------------------------------------------
(***************************************************************************)
(* Properties.                                                             *)
(***************************************************************************)

HeapTypeOK ==
  /\ CMTypeOK
  /\ kheaproots \in [Roots -> [page : Frames \union {NULL},
                               inuse : SUBSET (0 .. NPAGEREFS_PER_PAGE - 1)]]
  /\ \A p \in PageRefs : pagerefs[p].page \in Frames \union {NULL}
  /\ \A p \in PageRefs : pagerefs[p].blktype \in BlockTypes
  /\ \A k \in DOMAIN allbase : allbase[k] \in PageRefs
  /\ \A ptr \in pointers : ptr[1] \in Frames /\ ptr[2] \in 0 .. PAGE_SIZE - 1
  /\ \A t \in KThreads : kpc[t].page \in Frames \union {NULL}

Listed == {allbase[k] : k \in DOMAIN allbase}

\* checksubpages() of kmalloc.c, which is compiled only under SLOWER: the two
\* kinds of list hold the same pagerefs, each once and in the list of its
\* block type, and every listed pageref is marked in use.
HeapListsAgree ==
  /\ Len(allbase) = Cardinality(Listed)
  /\ \A b \in BlockTypes :
       /\ {sizebases[b][k] : k \in DOMAIN sizebases[b]}
            = {p \in Listed : pagerefs[p].blktype = b}
       /\ Len(sizebases[b]) = Cardinality({p \in Listed : pagerefs[p].blktype = b})
  /\ \A p \in Listed : p[2] \in kheaproots[p[1]].inuse /\ kheaproots[p[1]].page # NULL

\* checksubpage() and what it cannot see: the blocks of a heap page are
\* either on its free list, once, or given out, never both, and nfree counts
\* the free ones.  A page with no block given out is not kept.
BlocksPartition ==
  \A p \in Listed :
    LET pr   == pagerefs[p]
        free == {pr.freelist[k] : k \in DOMAIN pr.freelist}
        used == {ptr[2] : ptr \in {q \in pointers : q[1] = pr.page}} IN
    /\ Len(pr.freelist) = pr.nfree /\ Cardinality(free) = pr.nfree
    /\ free \intersect used = {}
    /\ free \union used = {i * sizes[pr.blktype] : i \in 0 .. NumBlocks(pr.blktype) - 1}
    /\ used # {}

\* The two together are what subpage_kmalloc and subpage_kfree rely on when
\* they take the spinlock again after they let it go.
HeapConsistent == HeapListsAgree /\ BlocksPartition

\* The uses the heap has for frames, as first frames of kernel allocations.
HeapFrames == {pagerefs[p].page : p \in Listed}
RootFrames == {kheaproots[r].page : r \in Roots} \ {NULL}
BigFrames  == {ptr[1] : ptr \in pointers} \ HeapFrames
InHand     == ({kpc[t].page : t \in KThreads} \union {kpc[t].va : t \in KThreads}) \ {NULL}

\* The frames of the coremap that the heap uses for anything.
Starts == {f \in Frames : coremap[f].state = FIXED /\ coremap[f].npages > 0}

Disjoint(A, B) == A \intersect B = {}

\* "The pages it hands back will not be reported to the VM system" (ram.c:81):
\* a frame that ram_stealmem handed out at boot is given to nobody else.
BootFramesKept ==
  \A f \in ram_stealmem : coremap[f].as = NULL /\ coremap[f].npages = 0

\* Frames of the kernel and uses the heap makes of them correspond one to
\* one, also in the windows in which kmalloc has released its spinlock: no
\* frame serves two purposes, none is freed while it is in use, none is lost,
\* and those the kernel took before the coremap was there stay taken.
KernelFramesAccounted ==
  /\ BootFramesKept
  /\ Starts = HeapFrames \union RootFrames \union BigFrames \union InHand
  /\ Disjoint(HeapFrames, RootFrames) /\ Disjoint(HeapFrames, InHand)
  /\ Disjoint(RootFrames, BigFrames) /\ Disjoint(RootFrames, InHand)
  /\ Disjoint(BigFrames, InHand)
  /\ \A p, q \in Listed : pagerefs[p].page = pagerefs[q].page => p = q
=============================================================================
