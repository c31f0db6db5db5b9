-------------------------------- MODULE TLB ---------------------------------
(***************************************************************************)
(* The TLB of the processor, as kern/vm/tlb.c and as_activate drive it.    *)
(* Each operation runs at splhigh, so it is one step.  An entry whose      *)
(* vpage is NULL is one that as_activate invalidated.  Entries carry no    *)
(* address space identifier.                                               *)
(***************************************************************************)
EXTENDS Naturals

CONSTANTS
  VAddrs,
  NULL,
  Frames,
  NUM_TLB

VARIABLES
  tlb,            \* the entries
  next_victim     \* the static counter of tlb_get_rr_victim

Entries == 0 .. NUM_TLB - 1

tlb_entry ==
  [vpage : VAddrs \union {NULL}, pframe : Frames \union {NULL}, dirty : BOOLEAN]

TLBTypeOK ==
  /\ tlb \in [Entries -> tlb_entry]
  /\ next_victim \in Entries

Invalid == [vpage |-> NULL, pframe |-> NULL, dirty |-> FALSE]

\* tlb_probe finds entry x
Probe(va, x) == tlb[x].vpage = va

Hit(va) == \E x \in Entries : Probe(va, x)

tlb_write(va, f, w, x) ==
  tlb' = [tlb EXCEPT ![x] = [vpage |-> va, pframe |-> f, dirty |-> w]]

\* as_activate, for an address space that is not NULL
FlushTLB ==
  /\ tlb' = [x \in Entries |-> Invalid]
  /\ UNCHANGED next_victim

\* Let the entry of page va, if there is one, map page new to frame f.
tlbR(va, new, f) ==
  /\ \/ \E x \in Entries : Probe(va, x) /\ tlb_write(new, f, TRUE, x)
     \/ ~ Hit(va) /\ UNCHANGED tlb
  /\ UNCHANGED next_victim

FirstInvalid(x) ==
  tlb[x].vpage = NULL /\ \A y \in 0 .. x - 1 : tlb[y].vpage # NULL

\* Mutants: the TLB is not probed first; next_victim is not reduced.
tlbW_NoProbe(va, f, w) ==
  \/ /\ \E x \in Entries : FirstInvalid(x) /\ tlb_write(va, f, w, x)
     /\ UNCHANGED next_victim
  \/ /\ \A x \in Entries : tlb[x].vpage # NULL
     /\ tlb_write(va, f, w, next_victim)
     /\ next_victim' = (next_victim + 1) % NUM_TLB
tlbW_NoWrap(va, f, w) ==
  \/ /\ \E x \in Entries : Probe(va, x) /\ tlb_write(va, f, w, x)
     /\ UNCHANGED next_victim
  \/ /\ ~ Hit(va)
     /\ \E x \in Entries : FirstInvalid(x) /\ tlb_write(va, f, w, x)
     /\ UNCHANGED next_victim
  \/ /\ ~ Hit(va)
     /\ \A x \in Entries : tlb[x].vpage # NULL
     /\ tlb_write(va, f, w, next_victim)
     /\ next_victim' = next_victim + 1

\* Overwrite the entry of the page; else use the first invalid entry; else
\* the round-robin victim.
tlbW(va, f, w) ==
  \/ /\ \E x \in Entries : Probe(va, x) /\ tlb_write(va, f, w, x)
     /\ UNCHANGED next_victim
  \/ /\ ~ Hit(va)
     /\ \E x \in Entries : FirstInvalid(x) /\ tlb_write(va, f, w, x)
     /\ UNCHANGED next_victim
  \/ /\ ~ Hit(va)
     /\ \A x \in Entries : tlb[x].vpage # NULL
     /\ tlb_write(va, f, w, next_victim)
     /\ next_victim' = (next_victim + 1) % NUM_TLB
=============================================================================
