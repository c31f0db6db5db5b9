-------------------------------- MODULE Swap --------------------------------
(***************************************************************************)
(* The table of the swap file (kern/vm/swap.c): swapspace[i] names the     *)
(* page that slot i of the file holds.  The table is guarded by the        *)
(* spinlock sw_lock; the transfers between a slot and memory are not, and  *)
(* are separate steps of the module Paging.                                *)
(***************************************************************************)
EXTENDS Naturals

CONSTANTS
  AddrSpaces,     \* struct addrspace pointers
  VAddrs,         \* page-aligned user virtual addresses
  NULL,
  SWAP_SIZE       \* number of slots

VARIABLE swapspace

Slots == 0 .. SWAP_SIZE - 1

swap_entry == [as : AddrSpaces \union {NULL}, vaddr : VAddrs \union {NULL}]

SwapTypeOK == swapspace \in [Slots -> swap_entry]

EmptySlot == [as |-> NULL, vaddr |-> NULL]

swapspace_bootstrap == swapspace = [i \in Slots |-> EmptySlot]

Holds(i, a, va) == swapspace[i].as = a /\ swapspace[i].vaddr = va

\* Mutant: the slot is not released.
swap_in_slot_Keep(a, va, i) == Holds(i, a, va) /\ UNCHANGED swapspace

\* The search of swap_in: the first slot that holds the page is released
\* here, before the transfer.
swap_in_slot(a, va, i) ==
  /\ Holds(i, a, va)
  /\ \A j \in 0 .. i - 1 : ~ Holds(j, a, va)
  /\ swapspace' = [swapspace EXCEPT ![i] = EmptySlot]

\* panic("Swapfile - vaddr not found!")
swap_in_panics(a, va) == \A i \in Slots : ~ Holds(i, a, va)

\* The search of swap_out: the first empty slot is taken.
swap_out_slot(a, va, i) ==
  /\ swapspace[i].as = NULL
  /\ \A j \in 0 .. i - 1 : swapspace[j].as # NULL
  /\ swapspace' = [swapspace EXCEPT ![i] = [as |-> a, vaddr |-> va]]

\* panic("Swapfile - swapfile is full!")
swap_out_panics == \A i \in Slots : swapspace[i].as # NULL

swap_asfree(a) ==
  swapspace' = [i \in Slots |->
                  IF swapspace[i].as = a THEN EmptySlot ELSE swapspace[i]]
=============================================================================
