--------------------------- MODULE CoremapProofs ----------------------------
(***************************************************************************)
(* Proofs about the coremap, for any number of frames, address spaces and  *)
(* pages.                                                                  *)
(***************************************************************************)
EXTENDS CoremapFifo, TLAPS

\* The inductive invariant: the conjunction of what the runs check.  Each
\* part is needed for another: frame_kalloc leaves npages of interior frames
\* alone, so KernelRunsIntact needs FreeIsBlank; frame_kfree leaves "as"
\* alone, so FreeIsBlank needs KernelRunsIntact; cm_asfree and cm_evict stay
\* clear of kernel runs because of UserFramesTagged.
CMInv ==
  /\ CMTypeOK
  /\ KernelRunsIntact
  /\ FreeIsBlank
  /\ UserFramesTagged
  /\ OneFramePerPage

\* The steps that frame f can take with address space a.
CMUserStep(f, a) ==
  \/ \E va \in VAddrs : /\ ~ HasFrame(a, va)
                        /\ \/ frame_alloc(va, a, f)
                           \/ Evicted(f) /\ cm_update_vaddr(a, f, va)
  \/ cm_evict(a, f)
  \/ Loading(f, a) /\ cm_update_state(f, CLEAN)

-----------------------------------------------------------------------------
\* unsigned arithmetic stays in range
LEMMA IncType == \A t \in unsigned : Inc(t) \in unsigned
BY CoremapAssumption DEF Inc, unsigned

\* Before the clock wraps, Inc is addition.
LEMMA IncBelow == \A t \in unsigned : t < UINT_MAX => Inc(t) = t + 1
BY CoremapAssumption DEF Inc, unsigned

LEMMA NeverType == Never \in unsigned
BY CoremapAssumption DEF Never, unsigned

\* A blank entry has the type of an entry and belongs to nobody.
LEMMA BlankEntry ==
  ASSUME NEW s \in frame_state, NEW t \in unsigned
  PROVE  /\ Blank(s, t) \in cm_entry
         /\ Blank(s, t).as = NULL /\ Blank(s, t).virt_addr = NULL
         /\ Blank(s, t).npages = 0 /\ Blank(s, t).state = s
         /\ Blank(s, t).timestamp = t
BY CoremapAssumption DEF Blank, cm_entry

\* What vm_bootstrap sets up satisfies the invariant.
LEMMA CMInvInit == CMInit => CMInv
<1> SUFFICES ASSUME CMInit PROVE CMInv
  OBVIOUS
<1>1. /\ timestamp \in unsigned
      /\ coremap = [i \in Frames |-> coremap[i]]
      /\ \A i \in Frames : \E s \in {FREE, FIXED}, t \in unsigned :
                             coremap[i] = Blank(s, t)
  <2>1. CASE SWAP_TEST
    BY <2>1, CoremapAssumption
    DEF CMInit, vm_bootstrap, cm_bootstrap_4test, Frames, unsigned
  <2>2. CASE ~ SWAP_TEST
    BY <2>2, CoremapAssumption, NeverType
    DEF CMInit, vm_bootstrap, cm_bootstrap, Frames, unsigned
  <2> QED BY <2>1, <2>2
<1>2. {FREE, FIXED} \subseteq frame_state
  BY DEF frame_state
<1>3. \A i \in Frames : /\ coremap[i] \in cm_entry
                        /\ coremap[i].as = NULL /\ coremap[i].virt_addr = NULL
                        /\ coremap[i].npages = 0
  BY <1>1, <1>2, BlankEntry
<1>4. CMTypeOK
  BY <1>1, <1>3 DEF CMTypeOK
<1> QED
  BY <1>3, <1>4, CoremapAssumption
  DEF CMInv, KernelRunsIntact, FreeIsBlank, UserFramesTagged, OneFramePerPage

-----------------------------------------------------------------------------
\* A step that touches no kernel frame and makes none keeps the kernel
\* allocations as they are.
LEMMA RunsKept ==
  ASSUME CMTypeOK, KernelRunsIntact,
         \A i \in Frames : coremap[i].state = FIXED => coremap'[i] = coremap[i],
         \A i \in Frames : coremap'[i].state = FIXED => coremap[i].state = FIXED
  PROVE  KernelRunsIntact'
<1> SUFFICES ASSUME NEW f \in Frames,
                    coremap'[f].state = FIXED, coremap'[f].npages > 0,
                    NEW i \in f .. f + coremap'[f].npages - 1
             PROVE  /\ i \in Frames
                    /\ coremap'[i].state = FIXED
                    /\ coremap'[i].as = NULL
                    /\ i # f => coremap'[i].npages = 0
  BY DEF KernelRunsIntact, Run, Frames
<1>1. coremap'[f] = coremap[f] /\ coremap[f].state = FIXED
  OBVIOUS
<1>2. i \in Run(f)
  BY <1>1 DEF Run
<1> QED
  BY <1>1, <1>2 DEF KernelRunsIntact

\* frame_kalloc.
LEMMA KallocInv ==
  ASSUME CMInv, NEW f \in Frames, NEW n \in 1 .. ram_frames, frame_kalloc(n, f)
  PROVE  CMInv'
<1> DEFINE new == f .. f + n - 1
<1>1. /\ new \subseteq Frames
      /\ \A i \in new : coremap[i].state = FREE
  BY CoremapAssumption DEF frame_kalloc, FirstFit, RunIsFree, Frames
<1>2. \A i \in Frames \ new : coremap'[i] = coremap[i]
  BY DEF frame_kalloc
<1>3. \A i \in new : /\ coremap'[i].as = NULL
                     /\ coremap'[i].state = FIXED
                     /\ coremap'[i].virt_addr = KSEG0
                     /\ coremap'[i].npages = IF i = f THEN n ELSE 0
  BY <1>1 DEF frame_kalloc, CMInv, FreeIsBlank
<1>4. f \in new
  BY CoremapAssumption DEF Frames
<1>5. CMTypeOK'
  <2>1. timestamp' \in unsigned
    BY IncType DEF frame_kalloc, CMInv, CMTypeOK
  <2>2. \A i \in Frames : coremap[i] \in cm_entry
    BY DEF CMInv, CMTypeOK
  <2>3. \A i \in Frames : coremap'[i] \in cm_entry
    BY <2>2, <1>2, CoremapAssumption
    DEF frame_kalloc, CMInv, CMTypeOK, cm_entry, frame_state, FIXED
  <2> QED
    BY <2>1, <2>3 DEF CMTypeOK, frame_kalloc
<1>6. KernelRunsIntact'
  <2> SUFFICES ASSUME NEW g \in Frames,
                      coremap'[g].state = FIXED, coremap'[g].npages > 0,
                      NEW i \in g .. g + coremap'[g].npages - 1
               PROVE  /\ i \in Frames
                      /\ coremap'[i].state = FIXED
                      /\ coremap'[i].as = NULL
                      /\ i # g => coremap'[i].npages = 0
    BY DEF KernelRunsIntact, Run, Frames
  <2>1. CASE g \in new
    <3>1. g = f /\ coremap'[g].npages = n
      BY <2>1, <1>3
    <3>2. i \in new
      BY <3>1
    <3> QED BY <3>1, <3>2, <1>1, <1>3
  <2>2. CASE g \notin new
    <3>1. i \in Run(g) /\ coremap[g].state = FIXED /\ coremap[g].npages > 0
      BY <2>2, <1>2 DEF Run
    <3>2. /\ i \in Frames
          /\ coremap[i].state = FIXED
          /\ coremap[i].as = NULL
          /\ i # g => coremap[i].npages = 0
      BY <3>1 DEF CMInv, KernelRunsIntact
    <3>3. i \notin new
      BY <3>2, <1>1 DEF FREE, FIXED
    <3> QED BY <3>2, <3>3, <1>2
  <2> QED BY <2>1, <2>2
<1>7. FreeIsBlank'
  BY <1>2, <1>3 DEF CMInv, FreeIsBlank, FREE, FIXED
<1>8. UserFramesTagged'
  BY <1>2, <1>3 DEF CMInv, UserFramesTagged
<1>9. OneFramePerPage'
  BY <1>2, <1>3 DEF CMInv, OneFramePerPage
<1> QED
  BY <1>5, <1>6, <1>7, <1>8, <1>9 DEF CMInv

\* frame_kfree, on the first frame of an allocation.
LEMMA KfreeInv ==
  ASSUME CMInv, NEW f \in Frames,
         coremap[f].state = FIXED, coremap[f].npages > 0, frame_kfree(f)
  PROVE  CMInv'
<1> DEFINE old == Run(f)
<1>1. \A i \in old : /\ i \in Frames
                     /\ coremap[i].state = FIXED
                     /\ coremap[i].as = NULL
                     /\ i # f => coremap[i].npages = 0
  BY DEF CMInv, KernelRunsIntact
<1>2. \A i \in Frames \ old : coremap'[i] = coremap[i]
  BY DEF frame_kfree, Run
<1>3. \A i \in Frames : coremap[i] \in cm_entry
  BY DEF CMInv, CMTypeOK
<1>4. \A i \in old : /\ coremap'[i] \in cm_entry
                     /\ coremap'[i].as = NULL
                     /\ coremap'[i].state = FREE
                     /\ coremap'[i].virt_addr = NULL
                     /\ coremap'[i].npages = 0
  <2> SUFFICES ASSUME NEW i \in old
               PROVE  /\ coremap'[i] \in cm_entry
                      /\ coremap'[i].as = NULL
                      /\ coremap'[i].state = FREE
                      /\ coremap'[i].virt_addr = NULL
                      /\ coremap'[i].npages = 0
    OBVIOUS
  <2>1. coremap[i] \in cm_entry /\ coremap[i].as = NULL /\ i \in Frames
    BY <1>1, <1>3
  <2>2. coremap'[i] = [coremap[i] EXCEPT !.state = FREE, !.npages = 0,
                                         !.virt_addr = NULL, !.timestamp = Never]
    BY <2>1 DEF frame_kfree, Run
  <2>3. 0 \in 0 .. ram_frames
    BY CoremapAssumption
  <2> HIDE DEF old
  <2> QED
    BY <2>1, <2>2, <2>3, NeverType DEF cm_entry, frame_state
<1>5. CMTypeOK'
  BY <1>2, <1>3, <1>4 DEF frame_kfree, CMInv, CMTypeOK
<1>6. KernelRunsIntact'
  <2> SUFFICES ASSUME NEW g \in Frames,
                      coremap'[g].state = FIXED, coremap'[g].npages > 0,
                      NEW i \in g .. g + coremap'[g].npages - 1
               PROVE  /\ i \in Frames
                      /\ coremap'[i].state = FIXED
                      /\ coremap'[i].as = NULL
                      /\ i # g => coremap'[i].npages = 0
    BY DEF KernelRunsIntact, Run, Frames
  <2>1. g \notin old /\ coremap'[g] = coremap[g]
    BY <1>2, <1>4 DEF FREE, FIXED
  <2>2. /\ i \in Run(g)
        /\ \A j \in Run(g) : /\ j \in Frames
                             /\ coremap[j].state = FIXED
                             /\ coremap[j].as = NULL
                             /\ j # g => coremap[j].npages = 0
    BY <2>1 DEF Run, CMInv, KernelRunsIntact
  <2>3. i \notin old
    <3>1. CASE g < f
      <4>1. f \notin Run(g)
        BY <2>2, <3>1 DEF Frames
      <4> QED BY <4>1, <3>1, <2>2, <1>3 DEF Run, Frames, cm_entry
    <3>2. CASE f <= g
      BY <3>2, <2>1, <2>2, <1>3 DEF Run, Frames, cm_entry
    <3> QED BY <3>1, <3>2 DEF Frames
  <2> QED BY <2>2, <2>3, <1>2
<1>7. FreeIsBlank'
  BY <1>2, <1>4 DEF CMInv, FreeIsBlank
<1>8. UserFramesTagged'
  BY <1>2, <1>4 DEF CMInv, UserFramesTagged
<1>9. OneFramePerPage'
  BY <1>2, <1>4 DEF CMInv, OneFramePerPage
<1> QED
  BY <1>5, <1>6, <1>7, <1>8, <1>9 DEF CMInv

\* frame_alloc, and cm_update_vaddr on a frame that was evicted: frame f,
\* which belonged to nobody, gets page va of address space a.
LEMMA FillInv ==
  ASSUME CMInv, NEW f \in Frames, NEW a \in AddrSpaces, NEW va \in VAddrs,
         ~ HasFrame(a, va),
         coremap[f].state # FIXED,
         coremap' = [coremap EXCEPT ![f] = LoadingEntry(a, va)],
         timestamp' = Inc(timestamp)
  PROVE  CMInv'
<1>1. \A i \in Frames \ {f} : coremap'[i] = coremap[i]
  BY DEF CMInv, CMTypeOK
<1>2. coremap'[f] = LoadingEntry(a, va)
  BY DEF CMInv, CMTypeOK
<1>3. /\ coremap'[f].as = a /\ coremap'[f].virt_addr = va
      /\ coremap'[f].state = LOADING /\ coremap'[f].npages = 1
      /\ coremap'[f] \in cm_entry
  BY <1>2, CoremapAssumption
  DEF LoadingEntry, cm_entry, frame_state, CMInv, CMTypeOK
<1>4. CMTypeOK'
  BY <1>3, IncType DEF CMInv, CMTypeOK
<1>5. KernelRunsIntact'
  BY <1>1, <1>3, RunsKept DEF CMInv, LOADING, FIXED
<1>6. FreeIsBlank'
  BY <1>1, <1>3 DEF CMInv, FreeIsBlank, LOADING, FREE
<1>7. UserFramesTagged'
  BY <1>1, <1>3 DEF CMInv, UserFramesTagged
<1>8. OneFramePerPage'
  BY <1>1, <1>3 DEF CMInv, OneFramePerPage, HasFrame
<1> QED
  BY <1>4, <1>5, <1>6, <1>7, <1>8 DEF CMInv

\* cm_evict.
LEMMA EvictInv ==
  ASSUME CMInv, NEW f \in Frames, NEW a \in AddrSpaces, cm_evict(a, f)
  PROVE  CMInv'
<1>1. \A i \in Frames \ {f} : coremap'[i] = coremap[i]
  BY DEF cm_evict, CMInv, CMTypeOK
<1>2. /\ coremap'[f] \in cm_entry
      /\ coremap'[f].as = NULL /\ coremap'[f].state = LOADING
  <2>1. coremap'[f] = Blank(LOADING, Never) /\ LOADING \in frame_state
    BY DEF cm_evict, CMInv, CMTypeOK, frame_state
  <2> QED BY <2>1, BlankEntry, NeverType
<1>3. coremap[f].state # FIXED
  BY DEF cm_evict, Oldest, Candidates
<1>4. CMTypeOK'
  BY <1>2 DEF cm_evict, CMInv, CMTypeOK
<1>5. KernelRunsIntact'
  BY <1>1, <1>2, <1>3, RunsKept DEF CMInv, LOADING, FIXED
<1>6. FreeIsBlank'
  BY <1>1, <1>2 DEF CMInv, FreeIsBlank, LOADING, FREE
<1>7. UserFramesTagged'
  BY <1>1, <1>2 DEF CMInv, UserFramesTagged
<1>8. OneFramePerPage'
  BY <1>1, <1>2 DEF CMInv, OneFramePerPage
<1> QED
  BY <1>4, <1>5, <1>6, <1>7, <1>8 DEF CMInv

\* cm_update_state, by the address space that was loading the frame.
LEMMA CleanInv ==
  ASSUME CMInv, NEW f \in Frames, NEW a \in AddrSpaces,
         Loading(f, a), cm_update_state(f, CLEAN)
  PROVE  CMInv'
<1>1. \A i \in Frames \ {f} : coremap'[i] = coremap[i]
  BY DEF cm_update_state, CMInv, CMTypeOK
<1>2. /\ coremap'[f] \in cm_entry
      /\ coremap'[f].state = CLEAN
      /\ coremap'[f].as = coremap[f].as
      /\ coremap'[f].virt_addr = coremap[f].virt_addr
      /\ coremap'[f].npages = coremap[f].npages
  BY DEF cm_update_state, CMInv, CMTypeOK, cm_entry, frame_state
<1>3. coremap[f].state = LOADING
  BY DEF Loading
<1>4. CMTypeOK'
  BY <1>2 DEF cm_update_state, CMInv, CMTypeOK
<1>5. KernelRunsIntact'
  BY <1>1, <1>2, <1>3, RunsKept DEF CMInv, LOADING, CLEAN, FIXED
<1>6. FreeIsBlank'
  BY <1>1, <1>2 DEF CMInv, FreeIsBlank, CLEAN, FREE
<1>7. UserFramesTagged'
  BY <1>1, <1>2 DEF CMInv, UserFramesTagged
<1>8. OneFramePerPage'
  BY <1>1, <1>2 DEF CMInv, OneFramePerPage
<1> QED
  BY <1>4, <1>5, <1>6, <1>7, <1>8 DEF CMInv

\* cm_asfree.
LEMMA AsfreeInv ==
  ASSUME CMInv, NEW a \in AddrSpaces, cm_asfree(a)
  PROVE  CMInv'
<1>1. \A i \in Frames : \/ coremap'[i] = coremap[i]
                        \/ /\ coremap[i].state # FIXED
                           /\ coremap'[i] = Blank(FREE, Never)
  BY DEF cm_asfree
<1>2. /\ Blank(FREE, Never) \in cm_entry
      /\ Blank(FREE, Never).state = FREE
      /\ Blank(FREE, Never).as = NULL
      /\ Blank(FREE, Never).virt_addr = NULL
      /\ Blank(FREE, Never).npages = 0
  BY BlankEntry, NeverType DEF frame_state
<1>3. \A i \in Frames : coremap[i].state = FIXED => coremap'[i] = coremap[i]
  BY <1>1
<1>4. \A i \in Frames : coremap'[i].state = FIXED => coremap[i].state = FIXED
  BY <1>1, <1>2 DEF FREE, FIXED
<1>5. CMTypeOK'
  BY <1>1, <1>2 DEF cm_asfree, CMInv, CMTypeOK
<1>6. KernelRunsIntact'
  BY <1>3, <1>4, RunsKept DEF CMInv
<1>7. FreeIsBlank'
  BY <1>1, <1>2 DEF CMInv, FreeIsBlank
<1>8. UserFramesTagged'
  BY <1>1, <1>2 DEF CMInv, UserFramesTagged
<1>9. OneFramePerPage'
  BY <1>1, <1>2 DEF CMInv, OneFramePerPage
<1> QED
  BY <1>5, <1>6, <1>7, <1>8, <1>9 DEF CMInv

\* Every step of the coremap keeps the invariant.
LEMMA CMInvNext == CMInv /\ [CMNext]_cmvars => CMInv'
<1> SUFFICES ASSUME CMInv, [CMNext]_cmvars PROVE CMInv'
  OBVIOUS
<1>1. ASSUME NEW f \in Frames, NEW n \in 1 .. ram_frames, frame_kalloc(n, f)
      PROVE  CMInv'
  BY <1>1, KallocInv
<1>2. ASSUME NEW f \in Frames, coremap[f].state = FIXED,
             coremap[f].npages > 0, frame_kfree(f)
      PROVE  CMInv'
  BY <1>2, KfreeInv
<1>3. ASSUME NEW f \in Frames, NEW a \in AddrSpaces, CMUserStep(f, a)
      PROVE  CMInv'
  <2>1. ASSUME NEW va \in VAddrs, ~ HasFrame(a, va), frame_alloc(va, a, f)
        PROVE  CMInv'
    BY <2>1, FillInv DEF frame_alloc, FirstFree, FREE, FIXED
  <2>2. ASSUME NEW va \in VAddrs, ~ HasFrame(a, va),
               Evicted(f), cm_update_vaddr(a, f, va)
        PROVE  CMInv'
    BY <2>2, FillInv DEF cm_update_vaddr, Evicted, LOADING, FIXED
  <2>3. CASE cm_evict(a, f)
    BY <2>3, EvictInv
  <2>4. CASE Loading(f, a) /\ cm_update_state(f, CLEAN)
    BY <2>4, CleanInv
  <2> QED BY <1>3, <2>1, <2>2, <2>3, <2>4 DEF CMUserStep
<1>4. ASSUME NEW a \in AddrSpaces, cm_asfree(a) PROVE CMInv'
  BY <1>4, AsfreeInv
<1>5. CASE UNCHANGED cmvars
  BY <1>5
  DEF cmvars, CMInv, CMTypeOK, KernelRunsIntact, Run, FreeIsBlank,
      UserFramesTagged, OneFramePerPage
<1> QED
  BY <1>1, <1>2, <1>3, <1>4, <1>5 DEF CMNext, CMUserStep

\* The coremap is always well formed: its entries have their types, every
\* kernel allocation can be freed whole, free frames are blank, user frames
\* are tagged with one page of one address space, and no page has two
\* frames (coremap.c as a whole).
THEOREM CoremapWellFormed ==
  CMSpec => [](CMTypeOK /\ FramesWellFormed)
<1>1. CMInv => (CMTypeOK /\ FramesWellFormed)
  BY DEF CMInv, FramesWellFormed
<1> QED
  BY <1>1, CMInvInit, CMInvNext, PTL DEF CMSpec

-----------------------------------------------------------------------------
(***************************************************************************)
(* The clock.  As long as it does not wrap, it is ahead of every frame     *)
(* that an address space owns; that is what the scan of cm_evict needs.    *)
(***************************************************************************)

NoWrap == TSBound <= UINT_MAX

ClockInv ==
  /\ CleanIsOwned
  /\ \A f \in Frames : coremap[f].as # NULL => coremap[f].timestamp < timestamp

\* The allocation functions advance the clock by one.
LEMMA Ticks ==
  ASSUME NoWrap, CMTypeOK, timestamp < TSBound, timestamp' = Inc(timestamp)
  PROVE  timestamp' = timestamp + 1 /\ timestamp \in Nat
BY CoremapAssumption, IncBelow DEF NoWrap, CMTypeOK, unsigned

\* Nobody owns a frame at first.
LEMMA ClockInit == CMInit => ClockInv
BY CoremapAssumption
DEF CMInit, vm_bootstrap, cm_bootstrap, cm_bootstrap_4test, Blank, Frames,
    ClockInv, CleanIsOwned, FREE, FIXED, CLEAN

\* A step that fills frame f.
LEMMA FillClock ==
  ASSUME NoWrap, CMInv, ClockInv, NEW f \in Frames, NEW a \in AddrSpaces,
         NEW va \in VAddrs, timestamp < TSBound,
         coremap' = [coremap EXCEPT ![f] = LoadingEntry(a, va)],
         timestamp' = Inc(timestamp)
  PROVE  ClockInv'
<1>1. timestamp' = timestamp + 1 /\ timestamp \in Nat
  BY Ticks DEF CMInv
<1>2. \A i \in Frames \ {f} : coremap'[i] = coremap[i]
  BY DEF CMInv, CMTypeOK
<1>3. coremap'[f].state = LOADING /\ coremap'[f].timestamp = timestamp
  BY DEF CMInv, CMTypeOK, LoadingEntry
<1>4. \A i \in Frames : coremap[i].timestamp \in Nat
  BY CoremapAssumption DEF CMInv, CMTypeOK, cm_entry, unsigned
<1> QED
  BY <1>1, <1>2, <1>3, <1>4 DEF ClockInv, CleanIsOwned, LOADING, CLEAN

\* A step that leaves the clock alone and gives no frame to anybody.
LEMMA KeepClock ==
  ASSUME ClockInv, UNCHANGED timestamp,
         \A i \in Frames :
           \/ coremap'[i].as = NULL /\ coremap'[i].state # CLEAN
           \/ /\ coremap[i].as # NULL
              /\ coremap'[i].as = coremap[i].as
              /\ coremap'[i].timestamp = coremap[i].timestamp
           \/ coremap'[i] = coremap[i]
  PROVE  ClockInv'
BY DEF ClockInv, CleanIsOwned

\* Every step keeps the clock ahead.
LEMMA ClockNext == NoWrap /\ CMInv /\ ClockInv /\ [CMNext]_cmvars => ClockInv'
<1> SUFFICES ASSUME NoWrap, CMInv, ClockInv, [CMNext]_cmvars PROVE ClockInv'
  OBVIOUS
<1>1. ASSUME NEW f \in Frames, NEW n \in 1 .. ram_frames, frame_kalloc(n, f)
      PROVE  ClockInv'
  <2>1. timestamp' = timestamp + 1 /\ timestamp \in Nat
    BY <1>1, Ticks DEF frame_kalloc, CMInv
  <2>2. \A i \in Frames : \/ coremap'[i].as = NULL /\ coremap'[i].state = FIXED
                          \/ coremap'[i] = coremap[i]
    BY <1>1 DEF frame_kalloc
  <2>3. \A i \in Frames : coremap[i].timestamp \in Nat
    BY CoremapAssumption DEF CMInv, CMTypeOK, cm_entry, unsigned
  <2> QED BY <2>1, <2>2, <2>3 DEF ClockInv, CleanIsOwned, FIXED, CLEAN
<1>2. ASSUME NEW f \in Frames, coremap[f].state = FIXED,
             coremap[f].npages > 0, frame_kfree(f)
      PROVE  ClockInv'
  <2>1. \A i \in Run(f) : i \in Frames /\ coremap[i].as = NULL
    BY <1>2 DEF CMInv, KernelRunsIntact
  <2>2. ASSUME NEW i \in Frames
        PROVE  \/ coremap'[i].as = NULL /\ coremap'[i].state # CLEAN
               \/ coremap'[i] = coremap[i]
    <3>1. CASE i \in Run(f)
      <4>1. coremap'[i] = [coremap[i] EXCEPT !.state = FREE, !.npages = 0,
                                     !.virt_addr = NULL, !.timestamp = Never]
        BY <1>2, <3>1 DEF frame_kfree, Run
      <4> QED
        BY <2>1, <3>1, <4>1 DEF CMInv, CMTypeOK, cm_entry, FREE, CLEAN
    <3>2. CASE i \notin Run(f)
      BY <1>2, <3>2 DEF frame_kfree, Run
    <3> QED BY <3>1, <3>2
  <2> QED BY <1>2, <2>2, KeepClock DEF frame_kfree
<1>3. ASSUME NEW f \in Frames, NEW a \in AddrSpaces, CMUserStep(f, a)
      PROVE  ClockInv'
  <2>1. ASSUME NEW va \in VAddrs,
               frame_alloc(va, a, f) \/ cm_update_vaddr(a, f, va)
        PROVE  ClockInv'
    BY <2>1, FillClock DEF frame_alloc, cm_update_vaddr
  <2>2. CASE cm_evict(a, f)
    <3>1. \A i \in Frames : \/ coremap'[i] = Blank(LOADING, Never)
                            \/ coremap'[i] = coremap[i]
      BY <2>2 DEF cm_evict, CMInv, CMTypeOK
    <3>2. Blank(LOADING, Never).as = NULL /\ Blank(LOADING, Never).state # CLEAN
      BY DEF Blank, LOADING, CLEAN
    <3> QED BY <2>2, <3>1, <3>2, KeepClock DEF cm_evict
  <2>3. CASE Loading(f, a) /\ cm_update_state(f, CLEAN)
    <3>1. \A i \in Frames \ {f} : coremap'[i] = coremap[i]
      BY <2>3 DEF cm_update_state, CMInv, CMTypeOK
    <3>2. /\ coremap[f].as # NULL
          /\ coremap'[f].as = coremap[f].as
          /\ coremap'[f].timestamp = coremap[f].timestamp
      BY <2>3, CoremapAssumption
      DEF cm_update_state, Loading, CMInv, CMTypeOK, cm_entry
    <3> QED BY <2>3, <3>1, <3>2, KeepClock DEF cm_update_state
  <2> QED BY <1>3, <2>1, <2>2, <2>3 DEF CMUserStep
<1>4. ASSUME NEW a \in AddrSpaces, cm_asfree(a) PROVE ClockInv'
  <2>1. Blank(FREE, Never).as = NULL /\ Blank(FREE, Never).state # CLEAN
    BY DEF Blank, FREE, CLEAN
  <2> QED BY <1>4, <2>1, KeepClock DEF cm_asfree
<1>5. CASE UNCHANGED cmvars
  BY <1>5 DEF cmvars, ClockInv, CleanIsOwned
<1> QED
  BY <1>1, <1>2, <1>3, <1>4, <1>5 DEF CMNext, CMUserStep

\* A CLEAN frame of the address space is a candidate of the scan.
LEMMA CleanIsCandidate ==
  ASSUME ClockInv
  PROVE  EvictFindsVictim
BY DEF ClockInv, CleanIsOwned, EvictFindsVictim, cm_evict_panics, Candidates,
       CLEAN, FIXED, LOADING

\* Until the clock wraps, cm_evict panics ("Cannot find victim!") only when
\* its address space has no frame that could be given up.
THEOREM EvictionSucceeds ==
  ASSUME NoWrap
  PROVE  CMSpec => [](CleanIsOwned /\ EvictFindsVictim)
<1>1. ClockInv => CleanIsOwned /\ EvictFindsVictim
  BY CleanIsCandidate DEF ClockInv
<1>2. CMInv /\ ClockInv /\ [CMNext]_cmvars => (CMInv /\ ClockInv)'
  BY CMInvNext, ClockNext
<1>3. CMInit => CMInv /\ ClockInv
  BY CMInvInit, ClockInit
<1> QED
  BY <1>1, <1>2, <1>3, PTL DEF CMSpec

-----------------------------------------------------------------------------
(***************************************************************************)
(* The replacement policy.                                                 *)
(***************************************************************************)

FifoInv == CMInv /\ ClockInv /\ TimestampsFollowOrder

\* The history variable constrains nothing.
LEMMA FifoStepIsCMStep == [FifoNext]_fifovars => [CMNext]_cmvars
BY DEF FifoNext, UserFifoNext, fifovars, CMNext, cmvars

\* The timestamps keep the order of filling.
LEMMA OrderNext ==
  NoWrap /\ FifoInv /\ [FifoNext]_fifovars => TimestampsFollowOrder'
<1> SUFFICES ASSUME NoWrap, FifoInv, [FifoNext]_fifovars,
                    NEW g \in Frames, NEW h \in Frames,
                    <<g, h>> \in before',
                    coremap'[g].as # NULL, coremap'[h].as # NULL
             PROVE  coremap'[g].timestamp < coremap'[h].timestamp
  BY DEF TimestampsFollowOrder
<1>0. /\ CMInv /\ ClockInv
      /\ <<g, h>> \in before /\ coremap[g].as # NULL /\ coremap[h].as # NULL
           => coremap[g].timestamp < coremap[h].timestamp
  BY DEF FifoInv, TimestampsFollowOrder
<1>1. ASSUME NEW f \in Frames, NEW a \in AddrSpaces, NEW va \in VAddrs,
             frame_alloc(va, a, f) \/ cm_update_vaddr(a, f, va), Refilled(f)
      PROVE  coremap'[g].timestamp < coremap'[h].timestamp
  <2>1. /\ \A i \in Frames \ {f} : coremap'[i] = coremap[i]
        /\ coremap'[f].timestamp = timestamp
    BY <1>0, <1>1
    DEF frame_alloc, cm_update_vaddr, LoadingEntry, CMInv, CMTypeOK
  <2>2. g # f
    BY <1>1 DEF Refilled
  <2>3. CASE h = f
    BY <2>1, <2>2, <2>3, <1>0 DEF ClockInv
  <2>4. CASE h # f
    <3>1. <<g, h>> \in before
      BY <1>1, <2>2, <2>4 DEF Refilled
    <3> QED BY <3>1, <2>1, <2>2, <2>4, <1>0
  <2> QED BY <2>3, <2>4
<1>2. ASSUME UNCHANGED before,
             \A i \in Frames : coremap'[i].as # NULL =>
               /\ coremap[i].as # NULL
               /\ coremap'[i].timestamp = coremap[i].timestamp
      PROVE  coremap'[g].timestamp < coremap'[h].timestamp
  BY <1>0, <1>2
<1>3. ASSUME NEW f \in Frames, NEW n \in 1 .. ram_frames, frame_kalloc(n, f),
             UNCHANGED before
      PROVE  coremap'[g].timestamp < coremap'[h].timestamp
  BY <1>2, <1>3 DEF frame_kalloc
<1>4. ASSUME NEW f \in Frames, coremap[f].state = FIXED,
             coremap[f].npages > 0, frame_kfree(f), UNCHANGED before
      PROVE  coremap'[g].timestamp < coremap'[h].timestamp
  <2>1. ASSUME NEW i \in Frames, coremap'[i].as # NULL
        PROVE  coremap'[i] = coremap[i]
    <3>1. CASE i \in Run(f)
      <4>1. coremap'[i] = [coremap[i] EXCEPT !.state = FREE, !.npages = 0,
                                     !.virt_addr = NULL, !.timestamp = Never]
        BY <1>4, <3>1 DEF frame_kfree, Run
      <4>2. coremap[i].as = NULL
        BY <1>0, <1>4, <3>1 DEF CMInv, KernelRunsIntact
      <4> QED
        BY <1>0, <2>1, <4>1, <4>2 DEF CMInv, CMTypeOK, cm_entry
    <3>2. CASE i \notin Run(f)
      BY <1>4, <3>2 DEF frame_kfree, Run
    <3> QED BY <3>1, <3>2
  <2> QED BY <1>2, <1>4, <2>1
<1>5. ASSUME NEW f \in Frames, NEW a \in AddrSpaces, cm_evict(a, f),
             UNCHANGED before
      PROVE  coremap'[g].timestamp < coremap'[h].timestamp
  <2>1. \A i \in Frames : \/ coremap'[i] = Blank(LOADING, Never)
                          \/ coremap'[i] = coremap[i]
    BY <1>0, <1>5 DEF cm_evict, CMInv, CMTypeOK
  <2> QED BY <1>2, <1>5, <2>1 DEF Blank
<1>6. ASSUME NEW f \in Frames, NEW a \in AddrSpaces, Loading(f, a),
             cm_update_state(f, CLEAN), UNCHANGED before
      PROVE  coremap'[g].timestamp < coremap'[h].timestamp
  <2>1. \A i \in Frames : /\ coremap'[i].as = coremap[i].as
                          /\ coremap'[i].timestamp = coremap[i].timestamp
    BY <1>0, <1>6 DEF cm_update_state, CMInv, CMTypeOK, cm_entry
  <2> QED BY <1>2, <1>6, <2>1
<1>7. ASSUME NEW a \in AddrSpaces, cm_asfree(a), UNCHANGED before
      PROVE  coremap'[g].timestamp < coremap'[h].timestamp
  BY <1>2, <1>7 DEF cm_asfree, Blank
<1>8. CASE UNCHANGED fifovars
  BY <1>2, <1>8 DEF fifovars
<1> QED
  BY <1>1, <1>3, <1>4, <1>5, <1>6, <1>7, <1>8 DEF FifoNext, UserFifoNext

\* The three parts together are inductive.
LEMMA FifoInvInductive ==
  ASSUME NoWrap
  PROVE  /\ FifoInit => FifoInv
         /\ FifoInv /\ [FifoNext]_fifovars => FifoInv'
<1>1. FifoInit => FifoInv
  BY CMInvInit, ClockInit DEF FifoInit, FifoInv, TimestampsFollowOrder
<1>2. FifoInv /\ [FifoNext]_fifovars => FifoInv'
  BY FifoStepIsCMStep, CMInvNext, ClockNext, OrderNext DEF FifoInv
<1> QED BY <1>1, <1>2

\* The frame that a step takes from an address space is its oldest.
LEMMA EvictOldest ==
  ASSUME FifoInv, [FifoNext]_fifovars,
         NEW f \in Frames, NEW g \in Frames,
         Evicts(f), coremap[g].as = coremap[f].as, coremap[g].state = CLEAN
  PROVE  <<g, f>> \notin before
<1>1. /\ CMInv /\ ClockInv
      /\ coremap[f].as # NULL
      /\ coremap[f].timestamp \in Nat /\ coremap[g].timestamp \in Nat
      /\ <<g, f>> \in before => coremap[g].timestamp < coremap[f].timestamp
  BY CoremapAssumption
  DEF FifoInv, TimestampsFollowOrder, ClockInv, CleanIsOwned, Evicts,
      CMInv, CMTypeOK, cm_entry, unsigned
<1>2. \E a \in AddrSpaces : cm_evict(a, f)
  <2>1. coremap[f].state = CLEAN /\ coremap'[f].state = LOADING
    BY DEF Evicts
  <2>2. ASSUME NEW h \in Frames, NEW a \in AddrSpaces, NEW va \in VAddrs,
               \/ frame_alloc(va, a, h)
               \/ Evicted(h) /\ cm_update_vaddr(a, h, va)
        PROVE  FALSE
    BY <1>1, <2>1, <2>2
    DEF frame_alloc, FirstFree, Evicted, cm_update_vaddr, CMInv, CMTypeOK,
        FREE, LOADING, CLEAN
  <2>3. ASSUME NEW h \in Frames, NEW n \in 1 .. ram_frames, frame_kalloc(n, h)
        PROVE  FALSE
    BY <2>1, <2>3 DEF frame_kalloc, FIXED, LOADING, CLEAN
  <2>4. ASSUME NEW h \in Frames, frame_kfree(h) PROVE FALSE
    BY <1>1, <2>1, <2>4
    DEF frame_kfree, CMInv, CMTypeOK, cm_entry, FREE, LOADING, CLEAN
  <2>5. ASSUME NEW h \in Frames, NEW a \in AddrSpaces, Loading(h, a),
               cm_update_state(h, CLEAN)
        PROVE  FALSE
    BY <1>1, <2>1, <2>5
    DEF cm_update_state, CMInv, CMTypeOK, cm_entry, LOADING, CLEAN
  <2>6. ASSUME NEW a \in AddrSpaces, cm_asfree(a) PROVE FALSE
    BY <2>1, <2>6 DEF cm_asfree, Blank, FREE, LOADING, CLEAN
  <2>7. ASSUME NEW h \in Frames, NEW a \in AddrSpaces, cm_evict(a, h)
        PROVE  h = f
    BY <1>1, <2>1, <2>7 DEF cm_evict, CMInv, CMTypeOK, LOADING, CLEAN
  <2>8. ~ UNCHANGED fifovars
    BY <2>1 DEF fifovars, LOADING, CLEAN
  <2> QED
    BY <2>2, <2>3, <2>4, <2>5, <2>6, <2>7, <2>8 DEF FifoNext, UserFifoNext
<1>3. PICK a \in AddrSpaces : cm_evict(a, f)
  BY <1>2
<1>4. Oldest(a, f)
  BY <1>3 DEF cm_evict
<1>5. g \in Candidates(a)
  BY <1>1, <1>4
  DEF Oldest, Candidates, ClockInv, CleanIsOwned, CLEAN, FIXED, LOADING
<1>6. coremap[f].timestamp <= coremap[g].timestamp
  BY <1>1, <1>4, <1>5 DEF Oldest
<1> QED
  BY <1>1, <1>6

\* Until the clock wraps, cm_evict replaces first in, first out: the frame
\* it takes is the one its address space filled first.
THEOREM ReplacementIsFifo ==
  ASSUME NoWrap
  PROVE  FifoSpec => []TimestampsFollowOrder /\ EvictsOldestFirst
<1>1. /\ FifoInit => FifoInv
      /\ FifoInv /\ [FifoNext]_fifovars => FifoInv'
  BY FifoInvInductive
<1>2. FifoInv => TimestampsFollowOrder
  BY DEF FifoInv
<1>3. FifoInv /\ [FifoNext]_fifovars =>
        [\A f, g \in Frames :
           /\ Evicts(f)
           /\ coremap[g].as = coremap[f].as
           /\ coremap[g].state = CLEAN
           => <<g, f>> \notin before]_fifovars
  BY EvictOldest
<1> QED
  BY <1>1, <1>2, <1>3, PTL DEF FifoSpec, EvictsOldestFirst
=============================================================================
