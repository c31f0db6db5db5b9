------------------------------ MODULE Coremap ------------------------------
(***************************************************************************)
(* The coremap (kern/vm/coremap.c): one entry per physical frame that the  *)
(* VM manages, under the spinlock cm_lock.  Every function of coremap.c    *)
(* that changes the coremap does so in one critical section of cm_lock,    *)
(* with interrupts off, and is one action here.                            *)
(*                                                                         *)
(* A frame is named by its index in the coremap; the physical address      *)
(* firstpaddr + i*PAGE_SIZE that the code passes around is in one-to-one   *)
(* correspondence with it, and the failure value 0 is NULL.                *)
(***************************************************************************)
EXTENDS Naturals

CONSTANTS
  AddrSpaces,     \* struct addrspace pointers
  VAddrs,         \* page-aligned user virtual addresses
  NULL,           \* the null pointer, vaddr 0, "no frame"
  KSEG0,          \* the vaddr of a kernel frame, a function of its index
  ram_frames,     \* number of entries of the coremap
  BootFrames,     \* frames that cm_bootstrap sets aside for the coremap itself
  SWAP_TEST,      \* which bootstrap function runs
  NUM_FREEFRAMES_TEST,
  UINT_MAX,       \* largest unsigned int: timestamps wrap after it
  TSBound         \* bound of the model: no allocation once timestamp is here

ASSUME CoremapAssumption ==
  /\ NULL \notin AddrSpaces /\ NULL \notin VAddrs
  /\ KSEG0 # NULL /\ KSEG0 \notin VAddrs
  /\ ram_frames \in Nat \ {0}
  /\ BootFrames \in 1 .. ram_frames
  /\ SWAP_TEST \in BOOLEAN
  /\ NUM_FREEFRAMES_TEST \in 0 .. ram_frames
  /\ UINT_MAX \in Nat /\ UINT_MAX > ram_frames
  /\ TSBound \in Nat

VARIABLES
  coremap,        \* coremap[i], the entry of frame i
  timestamp       \* the allocation clock, an unsigned int

cmvars == <<coremap, timestamp>>

Frames == 0 .. ram_frames - 1

FREE    == "FREE"
FIXED   == "FIXED"
LOADING == "LOADING"
CLEAN   == "CLEAN"
frame_state == {FREE, FIXED, LOADING, CLEAN}

unsigned == 0 .. UINT_MAX

\* timestamp++ and (unsigned)-1
Inc(t) == (t + 1) % (UINT_MAX + 1)
Never == UINT_MAX

cm_entry ==
  [as        : AddrSpaces \union {NULL},
   virt_addr : VAddrs \union {NULL, KSEG0},
   state     : frame_state,
   npages    : 0 .. ram_frames,
   timestamp : unsigned]

CMTypeOK ==
  /\ coremap \in [Frames -> cm_entry]
  /\ timestamp \in unsigned

-----------------------------------------------------------------------------
(***************************************************************************)
(* Bootstrap.  cm_bootstrap keeps the frames of the coremap array itself;  *)
(* cm_bootstrap_4test keeps all but the last NUM_FREEFRAMES_TEST frames.   *)
(***************************************************************************)

Blank(state, t) ==
  [as |-> NULL, virt_addr |-> NULL, state |-> state, npages |-> 0,
   timestamp |-> t]

cm_bootstrap ==
  /\ coremap = [i \in Frames |->
                  IF i < BootFrames THEN Blank(FIXED, i) ELSE Blank(FREE, Never)]
  /\ timestamp = BootFrames

cm_bootstrap_4test ==
  /\ coremap = [i \in Frames |->
                  IF i < ram_frames - NUM_FREEFRAMES_TEST
                    THEN Blank(FIXED, i) ELSE Blank(FREE, i)]
  /\ timestamp = ram_frames

vm_bootstrap == IF SWAP_TEST THEN cm_bootstrap_4test ELSE cm_bootstrap

-----------------------------------------------------------------------------
(***************************************************************************)
(* Kernel frames.  frame_kalloc is first fit: it takes the lowest run of n *)
(* FREE frames and records the length in the first of them only, which is  *)
(* what frame_kfree goes by.                                               *)
(***************************************************************************)

RunIsFree(f, n) ==
  f + n <= ram_frames /\ \A i \in f .. f + n - 1 : coremap[i].state = FREE

FirstFit(f, n) == RunIsFree(f, n) /\ \A g \in 0 .. f - 1 : ~ RunIsFree(g, n)

frame_kalloc(n, f) ==
  /\ timestamp < TSBound
  /\ FirstFit(f, n)
  /\ coremap' = [i \in Frames |->
       IF i \in f .. f + n - 1
         THEN [as |-> NULL, virt_addr |-> KSEG0, state |-> FIXED,
               npages |-> IF i = f THEN n ELSE coremap[i].npages,
               timestamp |-> timestamp]
         ELSE coremap[i]]
  /\ timestamp' = Inc(timestamp)

\* Mutant: npages is not reset.
frame_kfree_KeepNpages(f) ==
  /\ coremap' = [i \in Frames |->
       IF i \in f .. f + coremap[f].npages - 1
         THEN [coremap[i] EXCEPT !.state = FREE, !.virt_addr = NULL,
                                 !.timestamp = Never]
         ELSE coremap[i]]
  /\ UNCHANGED timestamp

\* The field "as" is left alone, as in the code.
frame_kfree(f) ==
  /\ coremap' = [i \in Frames |->
       IF i \in f .. f + coremap[f].npages - 1
         THEN [coremap[i] EXCEPT !.state = FREE, !.npages = 0,
                                 !.virt_addr = NULL, !.timestamp = Never]
         ELSE coremap[i]]
  /\ UNCHANGED timestamp

-----------------------------------------------------------------------------
(***************************************************************************)
(* User frames.                                                            *)
(***************************************************************************)

\* The entry of a frame that is being filled with page va of address space a.
LoadingEntry(a, va) ==
  [as |-> a, virt_addr |-> va, state |-> LOADING, npages |-> 1,
   timestamp |-> timestamp]

FirstFree(f) ==
  coremap[f].state = FREE /\ \A i \in 0 .. f - 1 : coremap[i].state # FREE

frame_alloc(va, a, f) ==
  /\ timestamp < TSBound
  /\ FirstFree(f)
  /\ coremap' = [coremap EXCEPT ![f] = LoadingEntry(a, va)]
  /\ timestamp' = Inc(timestamp)

frame_alloc_fails == \A f \in Frames : coremap[f].state # FREE

cm_asfree(a) ==
  /\ coremap' = [i \in Frames |->
       IF coremap[i].as = a /\ coremap[i].state # FIXED
         THEN Blank(FREE, Never) ELSE coremap[i]]
  /\ UNCHANGED timestamp

\* Mutant: the scan starts from min = timestamp - 1.
Candidates_OffByOne(a) ==
  {i \in Frames : /\ coremap[i].as = a
                  /\ coremap[i].state \notin {FIXED, LOADING}
                  /\ coremap[i].timestamp + 1 < timestamp}

\* The frames the scan of cm_evict may settle on.
Candidates(a) ==
  {i \in Frames : /\ coremap[i].as = a
                  /\ coremap[i].state \notin {FIXED, LOADING}
                  /\ coremap[i].timestamp < timestamp}

\* Mutant: min is not updated in the scan, so that the last candidate wins.
Oldest_Last(a, pos) ==
  pos \in Candidates(a) /\ \A i \in Candidates(a) : i <= pos

\* Strict comparison: among equal timestamps the scan keeps the lowest index.
Oldest(a, pos) ==
  /\ pos \in Candidates(a)
  /\ \A i \in Candidates(a) :
       \/ coremap[pos].timestamp < coremap[i].timestamp
       \/ coremap[pos].timestamp = coremap[i].timestamp /\ pos <= i

cm_evict(a, pos) ==
  /\ Oldest(a, pos)
  /\ coremap' = [coremap EXCEPT ![pos] = Blank(LOADING, Never)]
  /\ UNCHANGED timestamp

\* panic("Cannot find victim!")
cm_evict_panics(a) == Candidates(a) = {}

cm_update_vaddr(a, pos, va) ==
  /\ timestamp < TSBound
  /\ coremap' = [coremap EXCEPT ![pos] = LoadingEntry(a, va)]
  /\ timestamp' = Inc(timestamp)

cm_update_state(f, s) ==
  /\ coremap' = [coremap EXCEPT ![f].state = s]
  /\ UNCHANGED timestamp

-----------------------------------------------------------------------------
(***************************************************************************)
(* The coremap on its own, with callers that follow the protocol of vm.c   *)
(* and addrspace.c: a page is given a frame only when it has none, an      *)
(* evicted frame is handed on by cm_update_vaddr, a frame is declared      *)
(* CLEAN by the address space that was loading it, and free_kpages is      *)
(* called on the first frame of an allocation.                             *)
(***************************************************************************)

HasFrame(a, va) ==
  \E i \in Frames : coremap[i].as = a /\ coremap[i].virt_addr = va

Evicted(f) == coremap[f].state = LOADING /\ coremap[f].as = NULL

Loading(f, a) == coremap[f].state = LOADING /\ coremap[f].as = a

\* An address space that is being destroyed has no page fault under way.
Quiet(a) == \A f \in Frames : ~ Loading(f, a)

CMInit == vm_bootstrap

CMNext ==
  \/ \E f \in Frames :
       \/ \E n \in 1 .. ram_frames : frame_kalloc(n, f)
       \/ coremap[f].state = FIXED /\ coremap[f].npages > 0 /\ frame_kfree(f)
       \/ \E a \in AddrSpaces :
            \/ \E va \in VAddrs : /\ ~ HasFrame(a, va)
                                  /\ \/ frame_alloc(va, a, f)
                                     \/ Evicted(f) /\ cm_update_vaddr(a, f, va)
            \/ cm_evict(a, f)
            \/ Loading(f, a) /\ cm_update_state(f, CLEAN)
  \/ \E a \in AddrSpaces : Quiet(a) /\ cm_asfree(a)

CMSpec == CMInit /\ [][CMNext]_cmvars

-----------------------------------------------------------------------------
(***************************************************************************)
(* Properties.                                                             *)
(***************************************************************************)

\* The frames of the kernel allocation that starts at f.
Run(f) == f .. f + coremap[f].npages - 1

\* Every kernel allocation is intact: the frames that frame_kfree would
\* release from its first frame on are inside the coremap, all FIXED and
\* owned by no address space, and no other allocation starts among them.
\* (coremap.c:184 trusts npages of whatever entry it is given.)
KernelRunsIntact ==
  \A f \in Frames : coremap[f].state = FIXED /\ coremap[f].npages > 0 =>
    \A i \in Run(f) :
      /\ i \in Frames
      /\ coremap[i].state = FIXED
      /\ coremap[i].as = NULL
      /\ i # f => coremap[i].npages = 0

\* A frame that is FREE carries no trace of its last use.  frame_kalloc
\* relies on it: it leaves npages of all but the first frame as it finds it.
FreeIsBlank ==
  \A f \in Frames : coremap[f].state = FREE =>
    /\ coremap[f].as = NULL
    /\ coremap[f].virt_addr = NULL
    /\ coremap[f].npages = 0

\* No page of an address space sits in two frames.
OneFramePerPage ==
  \A f, g \in Frames :
    /\ coremap[f].as # NULL
    /\ coremap[f].as = coremap[g].as
    /\ coremap[f].virt_addr = coremap[g].virt_addr
    => f = g

\* A frame belongs to an address space only while it is LOADING or CLEAN,
\* as a single page at a user address: kernel frames and free frames are
\* out of reach of cm_evict and cm_asfree.
UserFramesTagged ==
  \A f \in Frames : coremap[f].as # NULL =>
    /\ coremap[f].state \in {LOADING, CLEAN}
    /\ coremap[f].virt_addr \in VAddrs
    /\ coremap[f].npages = 1

\* What callers of the coremap rely on: allocations of the kernel are
\* intact, frames without an owner are blank, frames with an owner belong to
\* one page, and no page has two.
FramesWellFormed ==
  KernelRunsIntact /\ FreeIsBlank /\ UserFramesTagged /\ OneFramePerPage

\* Only a frame of some address space is CLEAN, and the clock has passed
\* its timestamp.
CleanIsOwned ==
  \A f \in Frames : coremap[f].state = CLEAN =>
    coremap[f].as # NULL /\ coremap[f].timestamp < timestamp

\* cm_evict panics only when its address space really has no frame that
\* could be given up: as long as one of its frames is CLEAN, the scan of
\* coremap.c:236 settles on a victim.
EvictFindsVictim ==
  \A a \in AddrSpaces :
    (\E f \in Frames : coremap[f].as = a /\ coremap[f].state = CLEAN)
      => ~ cm_evict_panics(a)
=============================================================================
