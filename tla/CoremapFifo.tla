---------------------------- MODULE CoremapFifo ----------------------------
(***************************************************************************)
(* The replacement policy of cm_evict.  The coremap keeps the order in     *)
(* which frames were filled only through timestamps; the history variable  *)
(* "before" keeps the order itself, so that the choice of cm_evict can be  *)
(* compared with it.                                                       *)
(***************************************************************************)
EXTENDS Coremap

VARIABLE before   \* <<f, g>>: frame f got its present page before frame g

fifovars == <<coremap, timestamp, before>>

\* Frame f gets a page now, after every other frame.
Refilled(f) ==
  before' = {p \in before : p[1] # f /\ p[2] # f}
              \union {<<g, f>> : g \in Frames \ {f}}

FifoInit == CMInit /\ before = {}

\* The steps of vm.c and addrspace.c.
UserFifoNext ==
  \/ \E f \in Frames, a \in AddrSpaces, va \in VAddrs :
       /\ ~ HasFrame(a, va)
       /\ \/ frame_alloc(va, a, f)
          \/ Evicted(f) /\ cm_update_vaddr(a, f, va)
       /\ Refilled(f)
  \/ /\ \/ \E f \in Frames, a \in AddrSpaces :
             \/ cm_evict(a, f)
             \/ Loading(f, a) /\ cm_update_state(f, CLEAN)
        \/ \E a \in AddrSpaces : Quiet(a) /\ cm_asfree(a)
     /\ UNCHANGED before

\* ... and those of alloc_kpages and free_kpages.
FifoNext ==
  \/ UserFifoNext
  \/ /\ \E f \in Frames :
          \/ \E n \in 1 .. ram_frames : frame_kalloc(n, f)
          \/ coremap[f].state = FIXED /\ coremap[f].npages > 0 /\ frame_kfree(f)
     /\ UNCHANGED before

FifoSpec == FifoInit /\ [][FifoNext]_fifovars

-----------------------------------------------------------------------------
\* Frame f is being taken from the address space that owned it.
Evicts(f) ==
  /\ coremap[f].state = CLEAN
  /\ coremap'[f].state = LOADING

\* "Usa politica FIFO" (coremap.h): when cm_evict takes a frame from an
\* address space, every other CLEAN frame of that address space got its
\* page later.
EvictsOldestFirst ==
  [][\A f, g \in Frames :
       /\ Evicts(f)
       /\ coremap[g].as = coremap[f].as
       /\ coremap[g].state = CLEAN
       => <<g, f>> \notin before]_fifovars

\* What makes it so while the clock has not wrapped: the timestamps of
\* frames that hold user pages follow the order in which they were filled.
TimestampsFollowOrder ==
  \A f, g \in Frames :
    /\ <<f, g>> \in before
    /\ coremap[f].as # NULL
    /\ coremap[g].as # NULL
    => coremap[f].timestamp < coremap[g].timestamp
=============================================================================
