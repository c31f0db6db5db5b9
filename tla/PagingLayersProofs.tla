------------------------- MODULE PagingLayersProofs -------------------------
(***************************************************************************)
(* Proofs about the two modules that add to Paging: the statistics of      *)
(* VMStats and the contents of pages of PagingData, for any number of      *)
(* processes, frames, pages, slots and entries of the TLB.                 *)
(***************************************************************************)
EXTENDS VMStats, PagingData, PagingProofs, FiniteSetTheorems

-----------------------------------------------------------------------------
(***************************************************************************)
(* Statistics.                                                             *)
(***************************************************************************)

\* The counters add up as vmstats_print expects.  (The counters of the model
\* do not wrap.  No bound on the number of processes is assumed: at any time
\* only finitely many have come as far as vm_fault.)
CountersRight ==
  /\ stat_counters \in [Counters -> Int]
  /\ replaced \in Int /\ refused \in Int
  /\ IsFiniteSet(InFault)
  /\ ChecksAddUp

StatsInv == PInv /\ CountersRight

-----------------------------------------------------------------------------
LEMMA StatsStepIsStep == [StatsNext]_<<vars, statvars>> => [Next]_vars
<1> SUFFICES ASSUME StatsNext PROVE Next
  BY DEF statvars
<1> QED
  BY DEF StatsNext, Next, CountedReload, CountedFault, CountedRefusal,
         CountedEvict, CountedTlbReplace, CountedClean, CountedTlbWrite, CountedActivate,
         Uncounted, UserStep, FaultStep

\* What vmstats_inc does to the counters.
LEMMA IncEffect ==
  ASSUME stat_counters \in [Counters -> Int], NEW S, vmstats_inc(S)
  PROVE  /\ stat_counters' \in [Counters -> Int]
         /\ \A c \in Counters :
              stat_counters'[c] = IF c \in S THEN stat_counters[c] + 1
                                    ELSE stat_counters[c]
BY DEF vmstats_inc

\* The counters of the three checks, as integers.
Sums == {"TLB_FAULT_FREE", "TLB_FAULT_REPLACE", "TLB_FAULT", "TLB_RELOAD",
         "PAGE_FAULT_DISK", "PAGE_FAULT_ZERO", "PAGE_FAULT_ELF",
         "PAGE_FAULT_SWAP"}

LEMMA SumsAreCounters ==
  ASSUME stat_counters \in [Counters -> Int]
  PROVE  Sums \subseteq Counters /\ \A c \in Sums : stat_counters[c] \in Int
BY DEF Sums, Counters

LEMMA Finite ==
  ASSUME CountersRight
  PROVE  /\ IsFiniteSet(Pending)
         /\ Cardinality(InFault) \in Nat /\ Cardinality(Pending) \in Nat
<1>1. Pending \in SUBSET InFault
  BY DEF Pending
<1>2. IsFiniteSet(InFault)
  BY DEF CountersRight
<1> QED BY <1>1, <1>2, FS_Subset, FS_CardinalityType

-----------------------------------------------------------------------------
(***************************************************************************)
(* Steps between two counts: p stays in vm_fault, or out of it.            *)
(***************************************************************************)

LEMMA FaultsKept ==
  ASSUME NEW p \in AddrSpaces,
         \A q \in AddrSpaces \ {p} : pc'[q] = pc[q] /\ loc'[q] = loc[q],
         pc'[p] \in Outside <=> pc[p] \in Outside,
         pc'[p] = "tlbW" <=> pc[p] = "tlbW",
         pc[p] = "tlbW" => loc'[p].kind = loc[p].kind
  PROVE  InFault' = InFault /\ Pending' = Pending
BY DEF InFault, Pending, Outside

\* A step that counts nothing for the checks, or the same on both sides.
LEMMA CountersKept ==
  ASSUME CountersRight, InFault' = InFault, Pending' = Pending,
         UNCHANGED refused, stat_counters' \in [Counters -> Int],
         TlbCheck' - TlbCheck = replaced' - replaced, replaced' \in Int,
         FaultCheck' = FaultCheck, DiskCheck' = DiskCheck
  PROVE  CountersRight'
<1>1. /\ Cardinality(InFault) \in Nat /\ Cardinality(Pending) \in Nat
  BY Finite
<1>2. /\ TlbCheck \in Int /\ TlbCheck' \in Int
      /\ replaced \in Int /\ refused \in Int
  BY SumsAreCounters DEF CountersRight, TlbCheck, Sums, Counters
<1>3. /\ TlbCheck = replaced - refused - Cardinality(InFault)
      /\ FaultCheck = - refused - Cardinality(Pending)
      /\ DiskCheck = 0
  BY DEF CountersRight, ChecksAddUp
<1>4. TlbCheck' = replaced' - refused' - Cardinality(InFault)
  <2>1. PICK n \in Nat : n = Cardinality(InFault)
    BY <1>1
  <2>2. PICK a \in Int, b \in Int, c \in Int, d \in Int, e \in Int :
          /\ a = TlbCheck /\ b = TlbCheck'
          /\ c = replaced /\ d = replaced' /\ e = refused
    BY <1>2
  <2>3. a = c - e - n /\ b - a = d - c
    BY <1>3, <2>1, <2>2
  <2>4. b = d - e - n
    BY ONLY <2>3, a \in Int, b \in Int, c \in Int, d \in Int, e \in Int,
            n \in Nat
  <2>5. refused' = e
    BY <2>2
  <2> QED BY <2>1, <2>2, <2>4, <2>5
<1> QED BY <1>3, <1>4 DEF CountersRight, ChecksAddUp

\* The same, when no counter changes.
LEMMA NothingCounted ==
  ASSUME CountersRight, InFault' = InFault, Pending' = Pending,
         UNCHANGED statvars
  PROVE  CountersRight'
BY DEF history, CountersRight, ChecksAddUp, TlbCheck, FaultCheck, DiskCheck, statvars

\* A step of p that leaves everything but its place alone.
LEMMA UncountedKeeps ==
  ASSUME StatsInv, NEW p \in AddrSpaces, Uncounted(p), UNCHANGED statvars
  PROVE  CountersRight'
<1>0. TypeOK /\ CountersRight
  BY DEF StatsInv, PInv
<1>1. CASE UserReadOnly(p) \/ SwapOutPanics(p) \/ SwapOutError(p) \/ SwapInError(p)
  <2>1. UNCHANGED <<pc, loc>>
    BY <1>1 DEF UserReadOnly, SwapOutPanics, SwapOutError, SwapInError, Panic
  <2> QED BY <1>0, <2>1, NothingCounted DEF InFault, Pending
<1>2. CASE \/ FrameAlloc(p) \/ FrameAllocFails(p)
           \/ SwapOutSlot(p) \/ SwapOutCopy(p) \/ SwapOutWrite(p) \/ Remap(p)
           \/ SwapInSlot(p) \/ SwapInRead(p) \/ SwapInCopy(p) \/ Bzero(p)
           \/ ElfRead(p) \/ ElfReadError(p) \/ ElfCopy(p)
           \/ AsDestroyFrames(p) \/ AsDestroySwap(p)
  <2>2. \E m \in PCs \ {"tlbW"} :
          /\ Goto(p, m) /\ pc[p] # "tlbW"
          /\ m \in Outside <=> pc[p] \in Outside
    BY <1>2
    DEF FrameAlloc, FrameAllocFails, SwapOutSlot, SwapOutCopy, SwapOutWrite,
        Remap, SwapInSlot, SwapInRead, SwapInCopy, Bzero, ElfRead,
        ElfReadError, ElfCopy, AsDestroyFrames, AsDestroySwap, At, Fill, PCs,
        Outside
  <2>3. /\ pc[p] # "tlbW" /\ pc'[p] # "tlbW"
        /\ pc'[p] \in Outside <=> pc[p] \in Outside
        /\ \A q \in AddrSpaces \ {p} : pc'[q] = pc[q]
    BY <1>0, <2>2, PcSet
  <2>4. \A q \in AddrSpaces \ {p} : loc'[q] = loc[q]
    BY <1>0, <1>2
    DEF FrameAlloc, FrameAllocFails, SwapOutSlot, SwapOutCopy, SwapOutWrite,
        Remap, SwapInSlot, SwapInRead, SwapInCopy, Bzero, ElfRead,
        ElfReadError, ElfCopy, AsDestroyFrames, AsDestroySwap, TypeOK
  <2>5. InFault' = InFault /\ Pending' = Pending
    BY <2>3, <2>4, FaultsKept
  <2> QED BY <1>0, <2>5, NothingCounted
<1> QED BY <1>1, <1>2 DEF Uncounted

-----------------------------------------------------------------------------
(***************************************************************************)
(* Steps that count.                                                       *)
(***************************************************************************)

\* What tlbW counts.
LEMMA EnteredIsTlb ==
  \A va \in VAddrs : Entered(va) \in {"TLB_FAULT_FREE", "TLB_FAULT_REPLACE"}
BY DEF Entered

\* A reload counts as a fault, as a reload and as an entry of the TLB.
LEMMA ReloadCounts ==
  ASSUME StatsInv, NEW p \in AddrSpaces, NEW va \in VAddrs,
         CountedReload(p, va), UNCHANGED history
  PROVE  CountersRight'
<1>0. CountersRight /\ stat_counters \in [Counters -> Int] /\ replaced \in Int
  BY DEF StatsInv, CountersRight
<1>1. UNCHANGED <<pc, loc>>
  BY DEF CountedReload, UserReload, NestedFault, Reload
<1>2. InFault' = InFault /\ Pending' = Pending
  BY <1>1 DEF InFault, Pending
<1>3. PICK e \in {"TLB_FAULT_FREE", "TLB_FAULT_REPLACE"} :
        vmstats_inc({"TLB_FAULT", "TLB_RELOAD", e})
  BY EnteredIsTlb DEF CountedReload
<1>4. /\ stat_counters' \in [Counters -> Int]
      /\ \A c \in Counters :
           stat_counters'[c] = IF c \in {"TLB_FAULT", "TLB_RELOAD", e}
                                 THEN stat_counters[c] + 1 ELSE stat_counters[c]
  BY <1>0, <1>3, IncEffect
<1>5. \A c \in Sums : c \in Counters /\ stat_counters[c] \in Int
  BY <1>0, SumsAreCounters
<1>6. TlbCheck' - TlbCheck = replaced' - replaced
  <2>1. replaced' = replaced
    BY DEF history
  <2>2. CASE e = "TLB_FAULT_FREE"
    BY <1>0, <1>4, <1>5, <2>1, <2>2 DEF TlbCheck, Sums
  <2>3. CASE e = "TLB_FAULT_REPLACE"
    BY <1>0, <1>4, <1>5, <2>1, <2>3 DEF TlbCheck, Sums
  <2> QED BY <2>2, <2>3
<1>7. FaultCheck' = FaultCheck /\ DiskCheck' = DiskCheck
  BY <1>4, <1>5 DEF FaultCheck, DiskCheck, Sums
<1> QED BY <1>0, <1>2, <1>4, <1>6, <1>7, CountersKept DEF history

\* What cm_evict and as_activate count is in no check.
LEMMA OtherCounts ==
  ASSUME StatsInv, NEW p \in AddrSpaces, CountedEvict(p) \/ CountedActivate(p),
         UNCHANGED history
  PROVE  CountersRight'
<1>0. /\ CountersRight /\ stat_counters \in [Counters -> Int] /\ replaced \in Int
      /\ TypeOK
  BY DEF StatsInv, CountersRight, PInv
<1>1. InFault' = InFault /\ Pending' = Pending
  <2>1. CASE EvictPanics(p) \/ thread_switch(p)
    <3>1. UNCHANGED <<pc, loc>>
      BY <2>1 DEF EvictPanics, thread_switch, Panic
    <3> QED BY <3>1 DEF InFault, Pending
  <2>2. CASE Evict(p) \/ runprogram(p)
    <3>1. \A q \in AddrSpaces \ {p} : loc'[q] = loc[q]
      BY <1>0, <2>2 DEF Evict, runprogram, TypeOK
    <3>2. /\ \/ pc[p] = "evict" /\ pc'[p] = "out_slot"
             \/ pc[p] = "none" /\ pc'[p] = "user"
          /\ \A q \in AddrSpaces \ {p} : pc'[q] = pc[q]
      BY <1>0, <2>2, PcSet DEF Evict, runprogram, At, PCs
    <3> QED BY <3>1, <3>2, FaultsKept DEF Outside
  <2> QED BY <2>1, <2>2 DEF CountedEvict, CountedActivate
<1>2. \/ UNCHANGED stat_counters
      \/ \E c \in {"SWAP_FILE_WRITE", "TLB_INVALID"} : vmstats_inc({c})
  BY DEF CountedEvict, CountedActivate
<1>3. CASE UNCHANGED stat_counters
  BY <1>0, <1>1, <1>3, NothingCounted DEF statvars
<1>4. ASSUME NEW c \in {"SWAP_FILE_WRITE", "TLB_INVALID"}, vmstats_inc({c})
      PROVE  CountersRight'
  <2>1. /\ stat_counters' \in [Counters -> Int]
        /\ \A d \in Sums : d \in Counters /\ stat_counters'[d] = stat_counters[d]
                           /\ stat_counters[d] \in Int
    BY <1>0, <1>4, IncEffect, SumsAreCounters DEF Sums
  <2>2. TlbCheck' = TlbCheck /\ TlbCheck \in Int
    BY <2>1 DEF TlbCheck, Sums
  <2>3. FaultCheck' = FaultCheck /\ DiskCheck' = DiskCheck
    BY <2>1 DEF FaultCheck, DiskCheck, Sums
  <2> QED BY <1>0, <1>1, <2>1, <2>2, <2>3, CountersKept DEF history
<1> QED BY <1>2, <1>3, <1>4

\* tlbR counts an entry of the TLB in addition.
LEMMA ReplaceCounts ==
  ASSUME StatsInv, NEW p \in AddrSpaces, CountedTlbReplace(p)
  PROVE  CountersRight'
<1>0. /\ CountersRight /\ stat_counters \in [Counters -> Int] /\ replaced \in Int
      /\ TypeOK
  BY DEF StatsInv, CountersRight, PInv
<1>1. InFault' = InFault /\ Pending' = Pending
  <2>1. pc[p] = "tlbR" /\ UNCHANGED loc
    BY DEF CountedTlbReplace, TlbReplace, At
  <2>2. /\ pc'[p] \in {"in_slot", "bzero"}
        /\ \A q \in AddrSpaces \ {p} : pc'[q] = pc[q]
    BY <1>0, PcSet DEF CountedTlbReplace, TlbReplace, Fill, PCs
  <2> QED BY <2>1, <2>2, FaultsKept DEF Outside
<1>2. PICK S \in {{}, {"TLB_FAULT_FREE"}} :
        vmstats_inc(S) /\ replaced' = replaced + Cardinality(S)
  BY DEF CountedTlbReplace, Replaces
<1>3. /\ stat_counters' \in [Counters -> Int]
      /\ \A c \in Counters :
           stat_counters'[c] = IF c \in S THEN stat_counters[c] + 1
                                 ELSE stat_counters[c]
  BY <1>0, <1>2, IncEffect
<1>4. \A c \in Sums : c \in Counters /\ stat_counters[c] \in Int
  BY <1>0, SumsAreCounters
<1>5. TlbCheck' - TlbCheck = replaced' - replaced /\ replaced' \in Int
  <2>1. Cardinality({}) = 0 /\ Cardinality({"TLB_FAULT_FREE"}) = 1
    BY FS_EmptySet, FS_Singleton
  <2>2. CASE S = {}
    BY <1>0, <1>2, <1>3, <1>4, <2>1, <2>2 DEF TlbCheck, Sums
  <2>3. CASE S = {"TLB_FAULT_FREE"}
    BY <1>0, <1>2, <1>3, <1>4, <2>1, <2>3 DEF TlbCheck, Sums
  <2> QED BY <1>2, <2>2, <2>3
<1>6. FaultCheck' = FaultCheck /\ DiskCheck' = DiskCheck
  BY <1>2, <1>3, <1>4 DEF FaultCheck, DiskCheck, Sums
<1>7. UNCHANGED refused
  BY DEF CountedTlbReplace
<1> QED BY <1>0, <1>1, <1>3, <1>5, <1>6, <1>7, CountersKept

\* What counting a fault does to the checks.
LEMMA OneMoreFault ==
  ASSUME CountersRight, vmstats_inc({"TLB_FAULT"})
  PROVE  /\ stat_counters' \in [Counters -> Int]
         /\ TlbCheck' = TlbCheck - 1 /\ FaultCheck' = FaultCheck - 1
         /\ DiskCheck' = DiskCheck
         /\ TlbCheck \in Int /\ FaultCheck \in Int
<1>0. stat_counters \in [Counters -> Int]
  BY DEF CountersRight
<1>1. /\ stat_counters' \in [Counters -> Int]
      /\ \A c \in Counters :
           stat_counters'[c] = IF c \in {"TLB_FAULT"} THEN stat_counters[c] + 1
                                 ELSE stat_counters[c]
  BY <1>0, IncEffect
<1>2. \A c \in Sums : c \in Counters /\ stat_counters[c] \in Int
  BY <1>0, SumsAreCounters
<1> QED BY <1>1, <1>2 DEF TlbCheck, FaultCheck, DiskCheck, Sums

\* A fault: p is in vm_fault now.
LEMMA FaultCounts ==
  ASSUME StatsInv, NEW p \in AddrSpaces, CountedFault(p), UNCHANGED history
  PROVE  CountersRight'
<1>0. /\ CountersRight /\ replaced \in Int /\ refused \in Int
      /\ TypeOK /\ IsFiniteSet(InFault) /\ ChecksAddUp
      /\ UNCHANGED <<replaced, refused>>
  BY DEF StatsInv, CountersRight, PInv, history
<1>1. /\ stat_counters' \in [Counters -> Int]
      /\ TlbCheck' = TlbCheck - 1 /\ FaultCheck' = FaultCheck - 1
      /\ DiskCheck' = DiskCheck
      /\ TlbCheck \in Int /\ FaultCheck \in Int
  BY <1>0, OneMoreFault DEF CountedFault
<1>2. /\ IsFiniteSet(Pending)
      /\ Cardinality(InFault) \in Nat /\ Cardinality(Pending) \in Nat
  BY <1>0, Finite
<1>3. PICK va \in VAddrs : UserFault(p, va)
  BY DEF CountedFault
<1>4. /\ pc[p] = "user"
      /\ \A q \in AddrSpaces \ {p} : loc'[q] = loc[q]
  BY <1>0, <1>3 DEF UserFault, At, TypeOK
<1>5. pc'[p] = "alloc" /\ \A q \in AddrSpaces \ {p} : pc'[q] = pc[q]
  BY <1>0, <1>3, PcSet DEF UserFault, PCs
<1>6. /\ p \notin InFault /\ InFault' = InFault \union {p}
      /\ p \notin Pending /\ Pending' = Pending \union {p}
  BY <1>4, <1>5 DEF InFault, Pending
<1>7. /\ IsFiniteSet(InFault')
      /\ Cardinality(InFault') = Cardinality(InFault) + 1
      /\ Cardinality(Pending') = Cardinality(Pending) + 1
  BY <1>0, <1>2, <1>6, FS_AddElement
<1> QED
  BY <1>0, <1>1, <1>2, <1>7 DEF CountersRight, ChecksAddUp

\* A fault outside of every segment counts as one, and as nothing else.
LEMMA RefusalCounts ==
  ASSUME StatsInv, NEW p \in AddrSpaces, CountedRefusal(p)
  PROVE  CountersRight'
<1>0. /\ CountersRight /\ replaced \in Int /\ refused \in Int
      /\ IsFiniteSet(InFault) /\ ChecksAddUp
      /\ replaced' = replaced /\ refused' = refused + 1
  BY DEF StatsInv, CountersRight, CountedRefusal
<1>1. /\ stat_counters' \in [Counters -> Int]
      /\ TlbCheck' = TlbCheck - 1 /\ FaultCheck' = FaultCheck - 1
      /\ DiskCheck' = DiskCheck
      /\ TlbCheck \in Int /\ FaultCheck \in Int
  BY <1>0, OneMoreFault DEF CountedRefusal
<1>2. Cardinality(InFault) \in Nat /\ Cardinality(Pending) \in Nat
  BY <1>0, Finite
<1>3. UNCHANGED <<pc, loc>>
  BY DEF CountedRefusal, UserSegv, CopyoutFails, Panic, vars
<1>4. InFault' = InFault /\ Pending' = Pending
  BY <1>3 DEF InFault, Pending
<1> QED
  BY <1>0, <1>1, <1>2, <1>4 DEF CountersRight, ChecksAddUp

\* A page that was read is counted when it is declared clean.
LEMMA CleanCounts ==
  ASSUME StatsInv, NEW p \in AddrSpaces, CountedClean(p), UNCHANGED history
  PROVE  CountersRight'
<1>0. /\ CountersRight /\ stat_counters \in [Counters -> Int] /\ replaced \in Int
      /\ TypeOK /\ IsFiniteSet(InFault) /\ ChecksAddUp
      /\ refused \in Int /\ UNCHANGED <<replaced, refused>>
  BY DEF StatsInv, CountersRight, PInv, history
<1>1. /\ pc[p] = "clean" /\ UNCHANGED loc /\ loc[p].kind \in Kinds
  BY DEF CountedClean, Clean, At, StatsInv, PInv, PagesRight, LocalsRight, Outside
<1>2. pc'[p] = "tlbW" /\ \A q \in AddrSpaces \ {p} : pc'[q] = pc[q]
  BY <1>0, PcSet DEF CountedClean, Clean, PCs
<1>3. InFault' = InFault
  BY <1>1, <1>2 DEF InFault
<1>4. PICK S \in SUBSET Sums : S = FromDisk(loc[p].kind) /\ vmstats_inc(S)
  BY DEF CountedClean, FromDisk, Sums
<1>5. /\ stat_counters' \in [Counters -> Int]
      /\ \A c \in Counters :
           stat_counters'[c] = IF c \in S THEN stat_counters[c] + 1
                                 ELSE stat_counters[c]
  BY <1>0, <1>4, IncEffect
<1>6. \A c \in Sums : c \in Counters /\ stat_counters[c] \in Int
  BY <1>0, SumsAreCounters
<1>7. CASE loc[p].kind = "zero"
  <2>1. S = {}
    BY <1>4, <1>7 DEF FromDisk
  <2>2. Pending' = Pending
    BY <1>1, <1>2, <1>7 DEF Pending, InFault
  <2>3. /\ TlbCheck' = TlbCheck /\ FaultCheck' = FaultCheck
        /\ DiskCheck' = DiskCheck /\ TlbCheck \in Int
    BY <1>5, <1>6, <2>1 DEF TlbCheck, FaultCheck, DiskCheck, Sums
  <2> QED BY <1>0, <1>3, <1>5, <2>2, <2>3, CountersKept
<1>8. CASE loc[p].kind # "zero"
  <2>1. S = {"PAGE_FAULT_SWAP", "PAGE_FAULT_DISK"}
          \/ S = {"PAGE_FAULT_ELF", "PAGE_FAULT_DISK"}
    BY <1>1, <1>4, <1>8 DEF FromDisk, Kinds
  <2>2. /\ TlbCheck' = TlbCheck /\ FaultCheck' = FaultCheck + 1
        /\ DiskCheck' = DiskCheck
    <3>1. CASE S = {"PAGE_FAULT_SWAP", "PAGE_FAULT_DISK"}
      BY <1>5, <1>6, <3>1 DEF TlbCheck, FaultCheck, DiskCheck, Sums
    <3>2. CASE S = {"PAGE_FAULT_ELF", "PAGE_FAULT_DISK"}
      BY <1>5, <1>6, <3>2 DEF TlbCheck, FaultCheck, DiskCheck, Sums
    <3> QED BY <2>1, <3>1, <3>2
  <2>3. p \in Pending /\ Pending' = Pending \ {p}
    BY <1>1, <1>2, <1>8 DEF Pending, InFault
  <2>4. /\ Cardinality(Pending) \in Nat
        /\ Cardinality(Pending') = Cardinality(Pending) - 1
    BY <1>0, <2>3, Finite, FS_RemoveElement
  <2> QED
    BY <1>0, <1>3, <1>5, <2>2, <2>4 DEF CountersRight, ChecksAddUp
<1> QED BY <1>7, <1>8

\* The end of a fault is counted by tlbW, and by vm_fault if the page was
\* zeroed.
LEMMA WriteCounts ==
  ASSUME StatsInv, NEW p \in AddrSpaces, CountedTlbWrite(p), UNCHANGED history
  PROVE  CountersRight'
<1>0. /\ CountersRight /\ stat_counters \in [Counters -> Int] /\ replaced \in Int
      /\ TypeOK /\ IsFiniteSet(InFault) /\ ChecksAddUp
      /\ refused \in Int /\ UNCHANGED <<replaced, refused>>
  BY DEF StatsInv, CountersRight, PInv, history
<1>1. /\ pc[p] = "tlbW"
      /\ loc[p].va \in VAddrs
      /\ \A q \in AddrSpaces \ {p} : loc'[q] = loc[q]
  BY <1>0
  DEF CountedTlbWrite, TlbWrite, At, StatsInv, PInv, PagesRight, LocalsRight,
      Outside, TypeOK
<1>2. pc'[p] = "user" /\ \A q \in AddrSpaces \ {p} : pc'[q] = pc[q]
  BY <1>0, PcSet DEF CountedTlbWrite, TlbWrite, PCs
<1>3. p \in InFault /\ InFault' = InFault \ {p}
  BY <1>1, <1>2 DEF InFault
<1>4. /\ IsFiniteSet(InFault') /\ Cardinality(InFault) \in Nat
      /\ Cardinality(InFault') = Cardinality(InFault) - 1
      /\ IsFiniteSet(Pending) /\ Cardinality(Pending) \in Nat
  BY <1>0, <1>3, Finite, FS_RemoveElement
<1>5. \A c \in Sums : c \in Counters /\ stat_counters[c] \in Int
  BY <1>0, SumsAreCounters
<1>6. PICK e \in {"TLB_FAULT_FREE", "TLB_FAULT_REPLACE"} :
        vmstats_inc({e} \union (IF loc[p].kind = "zero"
                                  THEN {"PAGE_FAULT_ZERO"} ELSE {}))
  BY <1>1, EnteredIsTlb DEF CountedTlbWrite
<1> DEFINE S == {e} \union (IF loc[p].kind = "zero"
                              THEN {"PAGE_FAULT_ZERO"} ELSE {})
<1>7. /\ stat_counters' \in [Counters -> Int]
      /\ \A c \in Counters :
           stat_counters'[c] = IF c \in S THEN stat_counters[c] + 1
                                 ELSE stat_counters[c]
  BY <1>0, <1>6, IncEffect
<1>8. CASE loc[p].kind = "zero"
  <2>1. S = {e, "PAGE_FAULT_ZERO"}
    BY <1>8
  <2> HIDE DEF S
  <2>2. /\ TlbCheck' = TlbCheck + 1 /\ FaultCheck' = FaultCheck + 1
        /\ DiskCheck' = DiskCheck /\ TlbCheck \in Int /\ FaultCheck \in Int
    <3>1. CASE e = "TLB_FAULT_FREE"
      BY <1>5, <1>7, <2>1, <3>1 DEF TlbCheck, FaultCheck, DiskCheck, Sums
    <3>2. CASE e = "TLB_FAULT_REPLACE"
      BY <1>5, <1>7, <2>1, <3>2 DEF TlbCheck, FaultCheck, DiskCheck, Sums
    <3> QED BY <3>1, <3>2
  <2>3. p \in Pending /\ Pending' = Pending \ {p}
    BY <1>1, <1>2, <1>8 DEF Pending, InFault
  <2>4. Cardinality(Pending') = Cardinality(Pending) - 1
    BY <1>4, <2>3, FS_RemoveElement
  <2> QED
    BY <1>0, <1>3, <1>4, <1>7, <2>2, <2>4 DEF CountersRight, ChecksAddUp
<1>9. CASE loc[p].kind # "zero"
  <2>1. S = {e}
    BY <1>9
  <2> HIDE DEF S
  <2>2. /\ TlbCheck' = TlbCheck + 1 /\ FaultCheck' = FaultCheck
        /\ DiskCheck' = DiskCheck /\ TlbCheck \in Int
    BY <1>5, <1>7, <2>1 DEF TlbCheck, FaultCheck, DiskCheck, Sums
  <2>3. Pending' = Pending
    BY <1>1, <1>2, <1>9 DEF Pending, InFault
  <2> QED
    BY <1>0, <1>3, <1>4, <1>7, <2>2, <2>3 DEF CountersRight, ChecksAddUp
<1> QED BY <1>8, <1>9

-----------------------------------------------------------------------------
LEMMA StatsInvInit == StatsInit => StatsInv
<1> SUFFICES ASSUME StatsInit PROVE StatsInv
  OBVIOUS
<1>1. PInv
  BY PInvInit DEF StatsInit
<1>2. InFault = {} /\ Pending = {}
  BY DEF StatsInit, Init, InFault, Pending
<1>3. \A c \in Counters : stat_counters[c] = 0
  BY DEF StatsInit, vmstats_init
<1>4. TlbCheck = 0 /\ FaultCheck = 0 /\ DiskCheck = 0
  BY <1>3 DEF TlbCheck, FaultCheck, DiskCheck, Counters
<1>5. CountersRight
  BY <1>2, <1>4, FS_EmptySet
  DEF StatsInit, vmstats_init, CountersRight, ChecksAddUp
<1> QED BY <1>1, <1>5 DEF StatsInv

LEMMA StatsInvNext == StatsInv /\ [StatsNext]_<<vars, statvars>> => StatsInv'
<1> SUFFICES ASSUME StatsInv, [StatsNext]_<<vars, statvars>> PROVE StatsInv'
  OBVIOUS
<1>1. PInv'
  BY StatsStepIsStep, PInvNext DEF StatsInv
<1>2. ASSUME UNCHANGED <<pc, loc>>, UNCHANGED statvars PROVE CountersRight'
  BY <1>2, NothingCounted DEF StatsInv, InFault, Pending
<1>3. ASSUME KernelStep \/ Halted, UNCHANGED statvars PROVE CountersRight'
  <2>1. UNCHANGED <<pc, loc>>
    BY <1>3 DEF KernelStep, free_kpages, alloc_kpages, Halted, vars
  <2> QED BY <1>2, <1>3, <2>1
<1>4. ASSUME UNCHANGED <<vars, statvars>> PROVE CountersRight'
  <2>1. UNCHANGED <<pc, loc>> /\ UNCHANGED statvars
    BY <1>4 DEF vars, statvars
  <2> QED BY <1>2, <2>1
<1>5. ASSUME NEW p \in AddrSpaces,
             \/ CountedFault(p) \/ CountedEvict(p) \/ CountedClean(p)
             \/ CountedTlbWrite(p) \/ CountedActivate(p)
             \/ \E va \in VAddrs : CountedReload(p, va)
             \/ Uncounted(p) /\ UNCHANGED stat_counters,
             UNCHANGED history
      PROVE  CountersRight'
  BY <1>5, FaultCounts, OtherCounts, CleanCounts, WriteCounts, ReloadCounts,
     UncountedKeeps
  DEF statvars
<1>6. ASSUME NEW p \in AddrSpaces, CountedTlbReplace(p) \/ CountedRefusal(p)
      PROVE  CountersRight'
  BY <1>6, ReplaceCounts, RefusalCounts
<1>7. CountersRight'
  <2>1. CASE StatsNext
    BY <1>3, <1>5, <1>6, <2>1 DEF StatsNext
  <2>2. CASE UNCHANGED <<vars, statvars>>
    BY <1>4, <2>2
  <2> QED BY <2>1, <2>2
<1> QED BY <1>1, <1>7 DEF StatsInv

\* The checks of vmstats_print (vm_stats.c) come out as they should whenever
\* no process is in vm_fault, and differ by one for each that is, for any
\* number of processes, however their faults interleave and nest.
THEOREM StatisticsAddUp == StatsSpec => []ChecksAddUp
<1>1. StatsInv => ChecksAddUp
  BY DEF StatsInv, CountersRight
<1> QED BY <1>1, StatsInvInit, StatsInvNext, PTL DEF StatsSpec

\* Counting changes nothing: the system with its statistics is demand paging,
\* so what is proved of Spec holds of it.
THEOREM StatsImplementsPaging == StatsSpec => Spec
<1>1. StatsInit => Init
  BY DEF StatsInit
<1> QED BY <1>1, StatsStepIsStep, PTL DEF StatsSpec, Spec

-----------------------------------------------------------------------------
(***************************************************************************)
(* Contents of pages: the inductive invariant.                             *)
(***************************************************************************)

\* Where the content of a page is in the buffer of the device, or in a slot
\* of the swap file that swap_in has released: from there to the end of the
\* transfer nothing in the code keeps others out.
Transfer == {"out_write", "in_read", "in_copy", "elf_copy"}

\* One process at a time is there.  (This is what e_lock is for, if it excluded
\* others and swap_in took it before it released the slot.)
OneTransfer ==
  \A p, q \in AddrSpaces : pc[p] \in Transfer /\ pc[q] \in Transfer => p = q

DataTypes ==
  /\ mem \in [Frames -> Contents]
  /\ swapfile \in [Slots -> Contents]
  /\ e_iobuf \in Contents

\* What vm_fault knows of contents at each place.
DataRight(p) ==
  LET l == loc[p]
  IN  /\ pc[p] \in {"out_copy", "out_write", "remap"} =>
           l.slot \in Slots /\ Holds(l.slot, p, l.victim)
      /\ pc[p] = "in_read" => l.slot \in Slots
      /\ pc[p] = "out_write" => e_iobuf = mem[l.frame]
      /\ pc[p] = "remap" => swapfile[l.slot] = mem[l.frame]
      /\ pc[p] = "elf_copy" => e_iobuf = Image(p, l.va)
      /\ pc[p] \notin Outside =>
           /\ l.kind = "elf" => l.va \in ElfPages
           /\ l.kind = "zero" => l.va \notin ElfPages
      /\ pc[p] \in {"elf_read", "elf_copy"} => l.kind = "elf"

DataInv ==
  /\ PInv
  /\ DataTypes
  /\ \A p \in AddrSpaces : DataRight(p)

\* What is left of it when transfers overlap: the slot that a page is written
\* to is held for that page.
SlotRight(p) ==
  /\ pc[p] \in {"out_copy", "out_write", "remap"} =>
       loc[p].slot \in Slots /\ Holds(loc[p].slot, p, loc[p].victim)
  /\ pc[p] = "in_read" => loc[p].slot \in Slots

RestInv ==
  /\ PInv
  /\ DataTypes
  /\ \A p \in AddrSpaces : SlotRight(p)

-----------------------------------------------------------------------------
LEMMA DataStepIsStep == [DataNext]_<<vars, datavars>> => [Next]_vars
<1> SUFFICES ASSUME DataNext PROVE [Next]_vars
  BY DEF datavars
<1>1. ASSUME NEW p \in AddrSpaces, QuietStep(p) PROVE Next
  BY <1>1 DEF QuietStep, Next, UserStep, FaultStep
<1>2. ASSUME NEW p \in AddrSpaces,
             \/ DataSwapOutCopy(p) \/ DataSwapOutWrite(p)
             \/ DataSwapInRead(p) \/ DataSwapInCopy(p)
             \/ DataBzero(p) \/ DataElfRead(p) \/ DataElfCopy(p)
             \/ DataAsDestroy(p)
      PROVE  Next
  BY <1>2
  DEF DataSwapOutCopy, DataSwapOutWrite, DataSwapInRead, DataSwapInCopy,
      DataBzero, DataElfRead, DataElfCopy, DataAsDestroy, Next, FaultStep
<1>3. ASSUME NEW p \in AddrSpaces, NEW va \in VAddrs,
             LoadPage(p, va) \/ StorePage(p, va)
      PROVE  UNCHANGED vars
  BY <1>3 DEF LoadPage, StorePage
<1>4. ASSUME NEW f \in Frames,
             free_kpages(f) \/ \E n \in 1 .. KMaxPages : DataKalloc(n, f)
      PROVE  Next
  BY <1>4 DEF DataKalloc, Next, KernelStep
<1>5. Halted => Next
  BY DEF Next
<1> QED BY <1>1, <1>2, <1>3, <1>4, <1>5 DEF DataNext

-----------------------------------------------------------------------------
(***************************************************************************)
(* Where the content of a page is.                                         *)
(***************************************************************************)

\* The page has its content in the swap file.
InSwap(p, va) ==
  \/ pt[p][va].in_swap
  \/ Filling(p, va) /\ pc[p] = "in_slot"

LEMMA SlotIsUnique ==
  ASSUME PInv, NEW p \in AddrSpaces, NEW va \in VAddrs, Swapped(p, va)
  PROVE  \E i \in Slots : /\ \A j \in Slots : Holds(j, p, va) <=> j = i
                          /\ InSlot(p, va) = swapfile[i]
<1>1. PICK i \in Slots : SlotsOf(p, va) = {i}
  BY DEF PInv, SwapSlotsMatch
<1>2. \A j \in Slots : Holds(j, p, va) <=> j = i
  BY <1>1 DEF SlotsOf
<1>3. (CHOOSE j \in Slots : Holds(j, p, va)) = i
  BY <1>2
<1> QED BY <1>2, <1>3 DEF InSlot

\* The cases of PageContent.
Located(p, va) ==
  /\ ~ Filling(p, va) /\ pt[p][va].in_mem =>
       PageContent(p, va) = mem[pt[p][va].frame]
  /\ ~ Filling(p, va) /\ ~ pt[p][va].in_mem /\ ~ pt[p][va].in_swap =>
       PageContent(p, va) = Image(p, va)
  /\ InSwap(p, va) =>
       \E i \in Slots : /\ \A j \in Slots : Holds(j, p, va) <=> j = i
                        /\ PageContent(p, va) = swapfile[i]
  /\ Filling(p, va) =>
       /\ pc[p] = "in_read" => PageContent(p, va) = swapfile[loc[p].slot]
       /\ pc[p] = "in_copy" => PageContent(p, va) = e_iobuf
       /\ pc[p] \in {"bzero", "elf_read", "elf_copy"} =>
            PageContent(p, va) = Image(p, va)

\* A page that is in the swap file, or being filled, and one in memory.
LEMMA FillingIsMapped ==
  ASSUME PInv, NEW p \in AddrSpaces, NEW va \in VAddrs, Filling(p, va)
  PROVE  /\ pt[p][va].in_mem /\ ~ pt[p][va].in_swap
         /\ pt[p][va].frame = loc[p].frame
<1>1. LocalsRight(p) /\ TableRight(p)
  BY DEF PInv, PagesRight
<1> QED BY <1>1 DEF Filling, LocalsRight, TableRight, Bringing, SwapIn

PagesLocated == \A p \in AddrSpaces, va \in VAddrs : Located(p, va)

LEMMA ContentIsLocated == PInv => PagesLocated
<1> SUFFICES ASSUME PInv, NEW p \in AddrSpaces, NEW va \in VAddrs
             PROVE  Located(p, va)
  BY DEF PagesLocated
<1>0. LocalsRight(p) /\ TableRight(p)
  BY DEF PInv, PagesRight
<1>1. CASE Filling(p, va)
  <2>1. pt[p][va].in_mem /\ ~ pt[p][va].in_swap
    BY <1>1, FillingIsMapped
  <2>2. pc[p] = "in_slot" => Swapped(p, va)
    BY <1>0, <1>1 DEF Filling, Swapped, LocalsRight, SwapIn
  <2>3. PageContent(p, va) =
          CASE pc[p] = "in_slot" -> InSlot(p, va)
            [] pc[p] = "in_read" -> swapfile[loc[p].slot]
            [] pc[p] = "in_copy" -> e_iobuf
            [] OTHER -> Image(p, va)
    BY <1>1, <2>1 DEF PageContent
  <2>4. CASE pc[p] = "in_slot"
    <3>1. PageContent(p, va) = InSlot(p, va)
      BY <2>3, <2>4
    <3>2. \E i \in Slots : /\ \A j \in Slots : Holds(j, p, va) <=> j = i
                           /\ InSlot(p, va) = swapfile[i]
      BY <2>2, <2>4, SlotIsUnique
    <3> QED BY <1>1, <2>1, <2>4, <3>1, <3>2 DEF Located
  <2>5. CASE pc[p] # "in_slot"
    BY <1>1, <2>1, <2>3, <2>5 DEF Located, InSwap
  <2> QED BY <2>4, <2>5
<1>2. CASE ~ Filling(p, va) /\ pt[p][va].in_mem
  <2>1. ~ pt[p][va].in_swap
    BY <1>0, <1>2 DEF TableRight
  <2>2. PageContent(p, va) = mem[pt[p][va].frame]
    BY <1>2, <2>1 DEF PageContent
  <2> QED BY <1>2, <2>1, <2>2 DEF Located, InSwap
<1>3. CASE ~ Filling(p, va) /\ ~ pt[p][va].in_mem /\ pt[p][va].in_swap
  <2>1. PageContent(p, va) = InSlot(p, va)
    BY <1>3 DEF PageContent
  <2>2. \E i \in Slots : /\ \A j \in Slots : Holds(j, p, va) <=> j = i
                         /\ InSlot(p, va) = swapfile[i]
    BY <1>3, SlotIsUnique DEF Swapped
  <2> QED BY <1>3, <2>1, <2>2 DEF Located
<1>4. CASE ~ Filling(p, va) /\ ~ pt[p][va].in_mem /\ ~ pt[p][va].in_swap
  <2>1. PageContent(p, va) = Image(p, va)
    BY <1>4 DEF PageContent
  <2> QED BY <1>4, <2>1 DEF Located, InSwap
<1> QED BY <1>1, <1>2, <1>3, <1>4

LEMMA ContentIsLocatedNext == PInv' => PagesLocated'
BY ContentIsLocated, PTL
-----------------------------------------------------------------------------
(***************************************************************************)
(* What keeps the content of a page, and what is known of contents.        *)
(***************************************************************************)

\* A step that leaves page va of p where it is, and what is there.
LEMMA PageKept ==
  ASSUME PInv, PInv', NEW p \in AddrSpaces, NEW va \in VAddrs,
         pt'[p][va] = pt[p][va],
         Filling(p, va)' <=> Filling(p, va),
         Filling(p, va) => pc'[p] = pc[p] /\ loc'[p] = loc[p],
         ~ Filling(p, va) /\ pt[p][va].in_mem =>
           mem'[pt[p][va].frame] = mem[pt[p][va].frame],
         InSwap(p, va) => \A i \in Slots : Holds(i, p, va) =>
           Holds(i, p, va)' /\ swapfile'[i] = swapfile[i],
         Filling(p, va) /\ pc[p] = "in_read" =>
           swapfile'[loc[p].slot] = swapfile[loc[p].slot],
         Filling(p, va) /\ pc[p] = "in_copy" => e_iobuf' = e_iobuf
  PROVE  PageContent(p, va)' = PageContent(p, va)
<1>1. Located(p, va) /\ Located(p, va)'
  BY ContentIsLocated, ContentIsLocatedNext DEF PagesLocated
<1>2. InSwap(p, va)' <=> InSwap(p, va)
  BY DEF InSwap
<1>3. CASE InSwap(p, va)
  <2>1. PICK i \in Slots : /\ \A j \in Slots : Holds(j, p, va) <=> j = i
                           /\ PageContent(p, va) = swapfile[i]
    BY <1>1, <1>3 DEF Located
  <2>2. \E k \in Slots : /\ \A j \in Slots : Holds(j, p, va)' <=> j = k
                         /\ PageContent(p, va)' = swapfile'[k]
    BY <1>1, <1>2, <1>3 DEF Located
  <2>3. Holds(i, p, va)' /\ swapfile'[i] = swapfile[i]
    BY <1>3, <2>1
  <2> QED BY <2>1, <2>2, <2>3
<1>4. CASE Filling(p, va) /\ ~ InSwap(p, va)
  <2>1. pc[p] \in {"in_read", "in_copy", "bzero", "elf_read", "elf_copy"}
    BY <1>4 DEF Filling, InSwap
  <2> QED BY <1>1, <1>4, <2>1 DEF Located, Image
<1>5. CASE ~ Filling(p, va) /\ ~ InSwap(p, va)
  <2>1. ~ pt[p][va].in_swap
    BY <1>5 DEF InSwap
  <2> QED BY <1>1, <1>5, <2>1 DEF Located, Image
<1> QED BY <1>3, <1>4, <1>5

\* The frame of a page that is in memory: no other page is in it.
LEMMA FrameIsOwn ==
  ASSUME PInv, NEW p \in AddrSpaces, NEW va \in VAddrs, pt[p][va].in_mem
  PROVE  LET f == pt[p][va].frame
         IN  /\ f \in Frames
             /\ coremap[f].state # FREE
             /\ Evicted(f) => Leaving(p, va)
             /\ \A q \in AddrSpaces, w \in VAddrs :
                  pt[q][w].in_mem /\ pt[q][w].frame = f => q = p /\ w = va
<1> DEFINE f == pt[p][va].frame
<1>0. \A q \in AddrSpaces : LocalsRight(q) /\ TableRight(q)
  BY DEF PInv, PagesRight
<1>1. HandsApart /\ FreeIsBlank
  BY DEF PInv, PagesRight, CMInv, FramesWellFormed
<1>2. f \in Frames
  BY <1>0 DEF TableRight
<1>3. ASSUME NEW q \in AddrSpaces, NEW w \in VAddrs, pt[q][w].in_mem
      PROVE  LET g == pt[q][w].frame
             IN  \/ Leaving(q, w) /\ g = loc[q].frame /\ Evicted(g)
                 \/ ~ Leaving(q, w) /\ coremap[g].as = q /\ coremap[g].virt_addr = w
  BY <1>0, <1>3 DEF TableRight, LocalsRight, Leaving, Giving
<1>4. coremap[f].state # FREE
  BY <1>1, <1>2, <1>3, CoremapAssumption DEF FreeIsBlank, Evicted, FREE, LOADING
<1>5. Evicted(f) => Leaving(p, va)
  BY <1>3, CoremapAssumption DEF Evicted
<1>6. ASSUME NEW q \in AddrSpaces, NEW w \in VAddrs,
             pt[q][w].in_mem, pt[q][w].frame = f
      PROVE  q = p /\ w = va
  <2>1. CASE Leaving(p, va)
    <3>1. Leaving(q, w) /\ loc[q].frame = loc[p].frame
      BY <1>3, <1>6, <2>1, CoremapAssumption DEF Evicted
    <3> QED BY <1>1, <2>1, <3>1 DEF HandsApart, Leaving, Giving
  <2>2. CASE ~ Leaving(p, va)
    BY <1>3, <1>6, <2>2, CoremapAssumption DEF Evicted
  <2> QED BY <2>1, <2>2
<1> QED BY <1>2, <1>4, <1>5, <1>6

\* The TLB leads a process to its own pages.
LEMMA TranslatesToOwn ==
  ASSUME PInv, NEW p \in AddrSpaces, NEW va \in VAddrs, cur = p,
         pc[p] \notin Gone, pc[p] # "tlbR", NEW x \in Entries, Probe(va, x)
  PROVE  pt[p][va].in_mem /\ tlb[x].pframe = pt[p][va].frame
BY CoremapAssumption DEF PInv, TlbRight, Probe

\* A step that leaves q alone, its slots and what it has in the buffer.
LEMMA DataKept ==
  ASSUME PInv, NEW q \in AddrSpaces, DataRight(q),
         pc'[q] = pc[q], loc'[q] = loc[q],
         \A i \in Slots, va \in VAddrs : Holds(i, q, va) =>
           Holds(i, q, va)' /\ swapfile'[i] = swapfile[i],
         \A f \in Frames : Evicted(f) => mem'[f] = mem[f],
         pc[q] \in {"out_write", "elf_copy"} => e_iobuf' = e_iobuf
  PROVE  DataRight(q)'
<1>1. pc[q] \in Giving =>
        /\ loc[q].victim \in VAddrs
        /\ loc[q].frame \in Frames /\ Evicted(loc[q].frame)
  BY DEF PInv, PagesRight, LocalsRight
<1>2. pc[q] \in {"out_copy", "out_write", "remap"} =>
        /\ Holds(loc[q].slot, q, loc[q].victim)'
        /\ swapfile'[loc[q].slot] = swapfile[loc[q].slot]
  BY <1>1 DEF DataRight, Giving
<1>3. pc[q] \in {"out_write", "remap"} => mem'[loc[q].frame] = mem[loc[q].frame]
  BY <1>1 DEF Giving
<1> QED BY <1>2, <1>3 DEF DataRight, Image
-----------------------------------------------------------------------------
(***************************************************************************)
(* A step of one process and the others.                                   *)
(***************************************************************************)

\* The steps of Paging that p takes.
ProcessStep(p) ==
  \/ UserStep(p) \/ FaultStep(p) \/ thread_switch(p)
  \/ AsDestroyFrames(p) \/ AsDestroySwap(p)

LEMMA StepLeavesOthers ==
  ASSUME PInv, NEW p \in AddrSpaces, ProcessStep(p),
         NEW q \in AddrSpaces \ {p}
  PROVE  /\ pc'[q] = pc[q] /\ loc'[q] = loc[q] /\ pt'[q] = pt[q]
         /\ \A i \in Slots, va \in VAddrs : Holds(i, q, va) => Holds(i, q, va)'
<1>0. TypeOK /\ LocalsRight(p)
  BY DEF PInv, PagesRight
<1>1. ASSUME UserStep(p)
      PROVE  UNCHANGED swapspace /\ UNCHANGED <<pc[q], loc[q], pt[q]>>
  BY <1>0, <1>1
  DEF UserStep, runprogram, UserSegv, CopyoutFails, UserReadOnly, UserReload,
      Reload, UserFault, Panic, Goto, TypeOK, vars
<1>2. CASE FrameAlloc(p) \/ Remap(p) \/ TlbReplace(p)
  <2>1. UNCHANGED swapspace /\ UNCHANGED <<pc[q], loc[q], pt[q]>>
    BY <1>0, <1>2
    DEF FrameAlloc, Remap, TlbReplace, Goto, TypeOK, pt_map, pt_update
  <2> QED BY <2>1 DEF Holds
<1>3. CASE \/ FrameAllocFails(p) \/ Evict(p) \/ EvictPanics(p)
           \/ SwapOutPanics(p) \/ SwapOutCopy(p) \/ SwapOutWrite(p)
           \/ SwapOutError(p)
           \/ SwapInRead(p) \/ SwapInError(p) \/ SwapInCopy(p) \/ Bzero(p)
           \/ ElfRead(p) \/ ElfReadError(p) \/ ElfCopy(p) \/ NestedFault(p)
           \/ Clean(p) \/ TlbWrite(p) \/ thread_switch(p)
  <2>1. UNCHANGED swapspace /\ UNCHANGED <<pc[q], loc[q], pt[q]>>
    BY <1>0, <1>3
    DEF FrameAllocFails, Evict, EvictPanics, SwapOutPanics, SwapOutCopy,
        SwapOutWrite, SwapOutError, SwapInRead, SwapInError, SwapInCopy, Bzero,
        ElfRead, ElfReadError, ElfCopy, NestedFault, Reload, Clean, TlbWrite,
        thread_switch, Panic, Goto, TypeOK
  <2> QED BY <2>1 DEF Holds
<1>4. CASE AsDestroyFrames(p)
  BY <1>0, <1>4 DEF AsDestroyFrames, Goto, TypeOK, Holds
<1>5. CASE AsDestroySwap(p)
  <2>1. UNCHANGED <<pc[q], loc[q], pt[q]>>
    BY <1>0, <1>5 DEF AsDestroySwap, Goto, TypeOK
  <2>2. \A i \in Slots : swapspace[i].as = q => swapspace'[i] = swapspace[i]
    BY <1>5 DEF AsDestroySwap, swap_asfree
  <2> QED BY <2>1, <2>2 DEF Holds
<1>6. CASE SwapOutSlot(p)
  <2>1. UNCHANGED <<pc[q], loc[q], pt[q]>>
    BY <1>0, <1>6 DEF SwapOutSlot, Goto, TypeOK
  <2>2. PICK k \in Slots : swap_out_slot(p, loc[p].victim, k)
    BY <1>6 DEF SwapOutSlot
  <2>3. \A i \in Slots : swapspace[i].as = q => swapspace'[i] = swapspace[i]
    BY <1>0, <2>2, CoremapAssumption DEF swap_out_slot, TypeOK, SwapTypeOK
  <2> QED BY <2>1, <2>3 DEF Holds
<1>7. CASE SwapInSlot(p)
  <2>1. UNCHANGED <<pc[q], loc[q], pt[q]>>
    BY <1>0, <1>7 DEF SwapInSlot, Goto, TypeOK
  <2>2. PICK k \in Slots : swap_in_slot(p, loc[p].va, k)
    BY <1>7 DEF SwapInSlot
  <2>3. \A i \in Slots : swapspace[i].as = q => swapspace'[i] = swapspace[i]
    BY <1>0, <2>2 DEF swap_in_slot, Holds, TypeOK, SwapTypeOK
  <2> QED BY <2>1, <2>3 DEF Holds
<1> QED
  BY <1>1, <1>2, <1>3, <1>4, <1>5, <1>6, <1>7 DEF ProcessStep, FaultStep, Holds

\* A process that a step leaves alone, with its frames, its slots and what it
\* has in the buffer.
LEMMA OtherKeeps ==
  ASSUME DataInv, PInv', NEW q \in AddrSpaces,
         pc'[q] = pc[q], loc'[q] = loc[q], pt'[q] = pt[q],
         \A i \in Slots, va \in VAddrs : Holds(i, q, va) =>
           Holds(i, q, va)' /\ swapfile'[i] = swapfile[i],
         \A f \in Frames :
           \/ Evicted(f)
           \/ \E va \in VAddrs : pt[q][va].in_mem /\ pt[q][va].frame = f
           => mem'[f] = mem[f],
         pc[q] = "in_read" => swapfile'[loc[q].slot] = swapfile[loc[q].slot],
         pc[q] \in {"out_write", "in_copy", "elf_copy"} => e_iobuf' = e_iobuf
  PROVE  /\ DataRight(q)'
         /\ \A va \in VAddrs : PageContent(q, va)' = PageContent(q, va)
<1>0. PInv /\ DataRight(q)
  BY DEF DataInv
<1>1. DataRight(q)'
  BY <1>0, DataKept
<1>2. ASSUME NEW va \in VAddrs PROVE PageContent(q, va)' = PageContent(q, va)
  <2>1. Filling(q, va)' <=> Filling(q, va)
    BY DEF Filling
  <2>2. pt[q][va].in_mem => pt[q][va].frame \in Frames
    BY <1>0, FrameIsOwn
  <2>3. ~ Filling(q, va) /\ pt[q][va].in_mem =>
          mem'[pt[q][va].frame] = mem[pt[q][va].frame]
    BY <2>2
  <2>4. Filling(q, va) /\ pc[q] = "in_read" =>
          swapfile'[loc[q].slot] = swapfile[loc[q].slot]
    OBVIOUS
  <2>5. Filling(q, va) /\ pc[q] = "in_copy" => e_iobuf' = e_iobuf
    OBVIOUS
  <2>6. InSwap(q, va) => \A i \in Slots : Holds(i, q, va) =>
          Holds(i, q, va)' /\ swapfile'[i] = swapfile[i]
    OBVIOUS
  <2> QED BY <1>0, <2>1, <2>3, <2>4, <2>5, <2>6, PageKept
<1> QED BY <1>1, <1>2
-----------------------------------------------------------------------------
(***************************************************************************)
(* Stores go to pages of the process that makes them.                      *)
(***************************************************************************)

\* Of the kernel, to the page that is being filled.
LEMMA FillsOwn ==
  ASSUME PInv, NEW p \in AddrSpaces, cur = p,
         pc[p] \in {"in_copy", "bzero", "elf_copy"}, NEW d, FillWith(p, d)
  PROVE  /\ loc[p].va \in VAddrs /\ loc[p].frame \in Frames
         /\ Filling(p, loc[p].va)
         /\ pt[p][loc[p].va].in_mem /\ pt[p][loc[p].va].frame = loc[p].frame
         /\ mem' = [mem EXCEPT ![loc[p].frame] = d]
         /\ UNCHANGED <<swapfile, e_iobuf, last>>
<1>1. LocalsRight(p)
  BY DEF PInv, PagesRight
<1>2. /\ loc[p].va \in VAddrs /\ loc[p].frame \in Frames
      /\ pt[p][loc[p].va].in_mem /\ pt[p][loc[p].va].frame = loc[p].frame
  BY <1>1 DEF LocalsRight, Bringing, SwapIn, Outside
<1>3. PICK f \in Frames : Translates(loc[p].va, f) /\ mem' = [mem EXCEPT ![f] = d]
  BY DEF FillWith
<1>4. PICK x \in Entries : Probe(loc[p].va, x) /\ tlb[x].pframe = f
  BY <1>3 DEF Translates
<1>5. f = loc[p].frame
  BY <1>2, <1>4, TranslatesToOwn DEF Gone
<1> QED BY <1>2, <1>3, <1>5 DEF FillWith, Filling

\* Of the program, to a page that is in memory.
LEMMA StoresToOwn ==
  ASSUME PInv, NEW p \in AddrSpaces, NEW va \in VAddrs, StorePage(p, va)
  PROVE  /\ cur = p /\ pc[p] = "user"
         /\ pt[p][va].in_mem /\ pt[p][va].frame \in Frames
         /\ \E v \in Stored(p) : /\ mem' = [mem EXCEPT ![pt[p][va].frame] = v]
                                 /\ last' = [last EXCEPT ![p] = <<va, v>>]
         /\ UNCHANGED vars /\ UNCHANGED <<swapfile, e_iobuf>>
<1>1. PICK x \in Entries, v \in Stored(p) :
        /\ Probe(va, x)
        /\ mem' = [mem EXCEPT ![tlb[x].pframe] = v]
        /\ last' = [last EXCEPT ![p] = <<va, v>>]
  BY DEF StorePage
<1>2. cur = p /\ pc[p] = "user"
  BY DEF StorePage, At
<1>3. pt[p][va].in_mem /\ tlb[x].pframe = pt[p][va].frame
  BY <1>1, <1>2, TranslatesToOwn DEF Gone
<1>4. pt[p][va].frame \in Frames
  BY <1>3, FrameIsOwn
<1> QED BY <1>1, <1>2, <1>3, <1>4 DEF StorePage

\* A step that stores to page va of p changes no other page in memory, and no
\* frame that is being given up.
LEMMA StoreIsApart ==
  ASSUME PInv, NEW p \in AddrSpaces, NEW va \in VAddrs, pt[p][va].in_mem,
         ~ Leaving(p, va), NEW d, mem' = [mem EXCEPT ![pt[p][va].frame] = d],
         mem \in [Frames -> Contents]
  PROVE  /\ \A f \in Frames : Evicted(f) => mem'[f] = mem[f]
         /\ \A q \in AddrSpaces, w \in VAddrs :
              pt[q][w].in_mem /\ ~ (q = p /\ w = va) =>
                mem'[pt[q][w].frame] = mem[pt[q][w].frame]
<1>1. /\ pt[p][va].frame \in Frames
      /\ ~ Evicted(pt[p][va].frame)
      /\ \A q \in AddrSpaces, w \in VAddrs :
           pt[q][w].in_mem /\ pt[q][w].frame = pt[p][va].frame => q = p /\ w = va
  BY FrameIsOwn
<1>2. \A q \in AddrSpaces, w \in VAddrs :
        pt[q][w].in_mem => pt[q][w].frame \in Frames
  BY FrameIsOwn
<1> QED BY <1>1, <1>2

\* The steps of p in PagingData.
DataStep(p) ==
  \/ \E va \in VAddrs : LoadPage(p, va) \/ StorePage(p, va)
  \/ DataSwapOutCopy(p) \/ DataSwapOutWrite(p)
  \/ DataSwapInRead(p) \/ DataSwapInCopy(p)
  \/ DataBzero(p) \/ DataElfRead(p) \/ DataElfCopy(p) \/ DataAsDestroy(p)
  \/ QuietStep(p) /\ UNCHANGED datavars

LEMMA DataStepLeavesOthers ==
  ASSUME DataInv, PInv', OneTransfer, OneTransfer', NEW p \in AddrSpaces,
         DataStep(p), NEW q \in AddrSpaces \ {p}
  PROVE  /\ DataRight(q)' /\ pc'[q] = pc[q]
         /\ \A va \in VAddrs : PageContent(q, va)' = PageContent(q, va)
<1>0. /\ PInv /\ TypeOK /\ DataTypes /\ mem \in [Frames -> Contents]
      /\ DataRight(p) /\ DataRight(q)
      /\ \A r \in AddrSpaces : LocalsRight(r)
  BY DEF DataInv, PInv, PagesRight, DataTypes
<1>1. \A w \in VAddrs : pt[q][w].in_mem => pt[q][w].frame \in Frames
  BY <1>0, FrameIsOwn
<1>2. CASE UNCHANGED <<mem, swapfile, e_iobuf>> /\ (ProcessStep(p) \/ UNCHANGED vars)
  <2>1. /\ pc'[q] = pc[q] /\ loc'[q] = loc[q] /\ pt'[q] = pt[q]
        /\ \A i \in Slots, va \in VAddrs : Holds(i, q, va) => Holds(i, q, va)'
    BY <1>0, <1>2, StepLeavesOthers DEF vars, Holds
  <2> QED BY <1>2, <2>1, OtherKeeps
<1>3. CASE DataSwapOutCopy(p) \/ DataSwapInRead(p) \/ DataElfRead(p)
  <2>1. /\ pc'[q] = pc[q] /\ loc'[q] = loc[q] /\ pt'[q] = pt[q]
        /\ \A i \in Slots, va \in VAddrs : Holds(i, q, va) => Holds(i, q, va)'
    BY <1>0, <1>3, StepLeavesOthers
    DEF DataSwapOutCopy, DataSwapInRead, DataElfRead, ProcessStep, FaultStep
  <2>2. pc'[p] \in Transfer
    BY <1>0, <1>3
    DEF DataSwapOutCopy, DataSwapInRead, DataElfRead, SwapOutCopy, SwapInRead,
        ElfRead, Goto, TypeOK, Transfer
  <2>3. pc'[q] \notin Transfer
    BY <2>2 DEF OneTransfer
  <2>4. UNCHANGED <<mem, swapfile>>
    BY <1>3 DEF DataSwapOutCopy, DataSwapInRead, DataElfRead, Buffer
  <2>5. pc[q] \notin {"out_write", "in_copy", "elf_copy"}
    BY <2>1, <2>3 DEF Transfer
  <2> QED BY <2>1, <2>4, <2>5, OtherKeeps
<1>4. CASE DataSwapOutWrite(p)
  <2>1. /\ pc'[q] = pc[q] /\ loc'[q] = loc[q] /\ pt'[q] = pt[q]
        /\ \A i \in Slots, va \in VAddrs : Holds(i, q, va) => Holds(i, q, va)'
    BY <1>0, <1>4, StepLeavesOthers
    DEF DataSwapOutWrite, ProcessStep, FaultStep
  <2>2. /\ pc[p] = "out_write" /\ UNCHANGED <<mem, e_iobuf>>
        /\ swapfile' = [swapfile EXCEPT ![loc[p].slot] = e_iobuf]
    BY <1>4 DEF DataSwapOutWrite, SwapOutWrite, At
  <2>3. pc[q] # "in_read"
    BY <2>2 DEF OneTransfer, Transfer
  <2>4. loc[p].slot \in Slots /\ swapspace[loc[p].slot].as = p
    BY <1>0, <2>2 DEF DataRight, Holds
  <2>5. \A i \in Slots, va \in VAddrs : Holds(i, q, va) => swapfile'[i] = swapfile[i]
    BY <1>0, <2>2, <2>4 DEF Holds, DataTypes
  <2> QED BY <2>1, <2>2, <2>3, <2>5, OtherKeeps
<1>5. ASSUME NEW w \in VAddrs, NEW d, pt[p][w].in_mem, ~ Leaving(p, w),
             mem' = [mem EXCEPT ![pt[p][w].frame] = d],
             UNCHANGED <<swapfile, e_iobuf>>, ProcessStep(p) \/ UNCHANGED vars
      PROVE  /\ DataRight(q)' /\ pc'[q] = pc[q]
             /\ \A va \in VAddrs : PageContent(q, va)' = PageContent(q, va)
  <2>1. /\ pc'[q] = pc[q] /\ loc'[q] = loc[q] /\ pt'[q] = pt[q]
        /\ \A i \in Slots, va \in VAddrs : Holds(i, q, va) => Holds(i, q, va)'
    BY <1>0, <1>5, StepLeavesOthers DEF vars, Holds
  <2>2. /\ \A f \in Frames : Evicted(f) => mem'[f] = mem[f]
        /\ \A v \in VAddrs : pt[q][v].in_mem =>
             mem'[pt[q][v].frame] = mem[pt[q][v].frame]
    <3>1. /\ \A f \in Frames : Evicted(f) => mem'[f] = mem[f]
          /\ \A r \in AddrSpaces, v \in VAddrs :
               pt[r][v].in_mem /\ ~ (r = p /\ v = w) =>
                 mem'[pt[r][v].frame] = mem[pt[r][v].frame]
      BY <1>0, <1>5, StoreIsApart
    <3> QED BY <3>1
  <2> QED BY <1>5, <2>1, <2>2, OtherKeeps
<1>6. ASSUME NEW va \in VAddrs, StorePage(p, va)
      PROVE  /\ DataRight(q)' /\ pc'[q] = pc[q]
             /\ \A v \in VAddrs : PageContent(q, v)' = PageContent(q, v)
  BY <1>0, <1>5, <1>6, StoresToOwn DEF Leaving
<1>7. CASE DataSwapInCopy(p) \/ DataBzero(p) \/ DataElfCopy(p)
  <2>1. /\ cur = p /\ pc[p] \in {"in_copy", "bzero", "elf_copy"}
        /\ ProcessStep(p)
    BY <1>7
    DEF DataSwapInCopy, DataBzero, DataElfCopy, SwapInCopy, Bzero, ElfCopy, At,
        ProcessStep, FaultStep
  <2>2. PICK d : FillWith(p, d)
    BY <1>7 DEF DataSwapInCopy, DataBzero, DataElfCopy
  <2>3. ~ Leaving(p, loc[p].va)
    BY <2>1 DEF Leaving
  <2> QED BY <1>0, <1>5, <2>1, <2>2, <2>3, FillsOwn
<1>8. CASE DataAsDestroy(p)
  BY <1>2, <1>8 DEF DataAsDestroy, ProcessStep
<1>9. CASE QuietStep(p) /\ UNCHANGED datavars
  BY <1>2, <1>9 DEF QuietStep, ProcessStep, FaultStep, datavars
<1>10. ASSUME NEW va \in VAddrs, LoadPage(p, va)
       PROVE  /\ DataRight(q)' /\ pc'[q] = pc[q]
              /\ \A v \in VAddrs : PageContent(q, v)' = PageContent(q, v)
  BY <1>2, <1>10 DEF LoadPage
<1> QED BY <1>3, <1>4, <1>6, <1>7, <1>8, <1>9, <1>10 DEF DataStep
-----------------------------------------------------------------------------
(***************************************************************************)
(* A step of a process and its own pages.                                  *)
(***************************************************************************)

\* What a step of p must show: the contents of its own pages stay.
OwnKept(p) ==
  DataRight(p)' /\ \A va \in VAddrs : PageContent(p, va)' = PageContent(p, va)

\* A step that moves no page and has p outside of the transfers.
LEMMA CalmKeeps ==
  ASSUME DataInv, PInv', NEW p \in AddrSpaces,
         UNCHANGED mem, pt'[p] = pt[p],
         \A va \in VAddrs : ~ Filling(p, va) /\ ~ Filling(p, va)',
         \A i \in Slots, va \in VAddrs : pt[p][va].in_swap /\ Holds(i, p, va) =>
           Holds(i, p, va)' /\ swapfile'[i] = swapfile[i]
  PROVE  \A va \in VAddrs : PageContent(p, va)' = PageContent(p, va)
<1>0. PInv
  BY DEF DataInv
<1> TAKE va \in VAddrs
<1>1. /\ pt'[p][va] = pt[p][va] /\ ~ Filling(p, va) /\ ~ Filling(p, va)'
      /\ InSwap(p, va) => \A i \in Slots : Holds(i, p, va) =>
           Holds(i, p, va)' /\ swapfile'[i] = swapfile[i]
  BY DEF InSwap
<1> QED BY <1>0, <1>1, PageKept

\* A step that changes no table.
LEMMA NothingMoved ==
  ASSUME DataInv, PInv', NEW p \in AddrSpaces,
         UNCHANGED <<swapspace, pt, pc, loc, mem, swapfile, e_iobuf>>
  PROVE  OwnKept(p)
<1>1. /\ \A i \in Slots, va \in VAddrs : Holds(i, p, va) =>
           Holds(i, p, va)' /\ swapfile'[i] = swapfile[i]
      /\ \A f \in Frames : mem'[f] = mem[f]
  BY DEF Holds
<1> QED BY <1>1, OtherKeeps DEF OwnKept

LEMMA QuietUserSteps ==
  ASSUME DataInv, PInv', NEW p \in AddrSpaces, UserStep(p), UNCHANGED datavars
  PROVE  OwnKept(p)
<1>0. PInv /\ TypeOK /\ LocalsRight(p) /\ TableRight(p) /\ DataRight(p)
  BY DEF DataInv, PInv, PagesRight
<1>1. CASE runprogram(p)
  <2>1. pc[p] = "none" /\ pc'[p] = "user"
    BY <1>0, <1>1 DEF runprogram, At, Goto, TypeOK
  <2>2. pt'[p] = pt[p]
    <3>1. \A va \in VAddrs : pt[p][va] = pt_create
      BY <1>0, <2>1 DEF TableRight, Gone
    <3>2. pt'[p] = [va \in VAddrs |-> pt_create]
      BY <1>0, <1>1 DEF runprogram, TypeOK
    <3>3. pt[p] \in [VAddrs -> pt_entry]
      BY <1>0 DEF TypeOK
    <3> QED BY <3>1, <3>2, <3>3
  <2>3. \A va \in VAddrs : ~ Filling(p, va) /\ ~ Filling(p, va)'
    BY <2>1 DEF Filling
  <2>4. \A va \in VAddrs : PageContent(p, va)' = PageContent(p, va)
    BY <1>1, <2>2, <2>3, CalmKeeps DEF runprogram, Holds, datavars
  <2>5. DataRight(p)'
    BY <2>1 DEF DataRight, Outside
  <2> QED BY <2>4, <2>5 DEF OwnKept
<1>2. ASSUME NEW v \in VAddrs, UserReload(p, v) PROVE OwnKept(p)
  BY <1>2, NothingMoved DEF UserReload, Reload, datavars
<1>3. CASE UserSegv(p) \/ CopyoutFails(p) \/ UserReadOnly(p)
  BY <1>3, NothingMoved
  DEF UserSegv, CopyoutFails, UserReadOnly, Panic, vars, datavars
<1>4. ASSUME NEW v \in VAddrs, UserFault(p, v) PROVE OwnKept(p)
  <2>1. pc[p] = "user" /\ pc'[p] = "alloc" /\ UNCHANGED <<pt, swapspace>>
    BY <1>0, <1>4 DEF UserFault, At, Goto, TypeOK
  <2>2. loc'[p].va = v /\ loc'[p].kind = Kind(p, v)
    BY <1>0, <1>4 DEF UserFault, TypeOK, NoLocals
  <2>3. /\ Kind(p, v) = "elf" => v \in ElfPages
        /\ Kind(p, v) = "zero" => v \notin ElfPages
    BY DEF Kind
  <2>4. DataRight(p)'
    BY <2>1, <2>2, <2>3 DEF DataRight
  <2>5. \A va \in VAddrs : ~ Filling(p, va) /\ ~ Filling(p, va)'
    BY <2>1 DEF Filling
  <2>6. \A va \in VAddrs : PageContent(p, va)' = PageContent(p, va)
    BY <2>1, <2>5, CalmKeeps DEF Holds, datavars
  <2> QED BY <2>4, <2>6 DEF OwnKept
<1> QED BY <1>1, <1>2, <1>3, <1>4 DEF UserStep

\* FrameAllocFails, Evict, Clean, TlbWrite, AsDestroySwap and the steps that
\* change no table.
LEMMA CalmSteps ==
  ASSUME DataInv, PInv', NEW p \in AddrSpaces, UNCHANGED datavars,
         \/ FrameAllocFails(p) \/ Evict(p) \/ EvictPanics(p) \/ SwapOutPanics(p)
         \/ SwapOutError(p) \/ SwapInError(p) \/ NestedFault(p) \/ Clean(p)
         \/ TlbWrite(p) \/ thread_switch(p) \/ AsDestroySwap(p)
  PROVE  OwnKept(p)
<1>0. PInv /\ TypeOK /\ LocalsRight(p) /\ TableRight(p) /\ DataRight(p)
  BY DEF DataInv, PInv, PagesRight
<1>1. CASE \/ EvictPanics(p) \/ SwapOutPanics(p) \/ SwapOutError(p)
           \/ SwapInError(p) \/ NestedFault(p) \/ thread_switch(p)
  BY <1>1, NothingMoved
  DEF EvictPanics, SwapOutPanics, SwapOutError, SwapInError, NestedFault,
      Reload, thread_switch, Panic, datavars
<1>2. CASE FrameAllocFails(p) \/ Evict(p) \/ Clean(p) \/ TlbWrite(p)
  <2>1. /\ pc[p] \in {"alloc", "evict", "clean", "tlbW"}
        /\ pc'[p] \in {"evict", "out_slot", "tlbW", "user"}
        /\ UNCHANGED <<pt, swapspace>>
    BY <1>0, <1>2
    DEF FrameAllocFails, Evict, Clean, TlbWrite, At, Goto, TypeOK
  <2>2. pc'[p] # "user" => loc'[p].va = loc[p].va /\ loc'[p].kind = loc[p].kind
    <3>1. CASE FrameAllocFails(p) \/ Clean(p)
      BY <3>1 DEF FrameAllocFails, Clean
    <3>2. CASE TlbWrite(p)
      BY <1>0, <3>2 DEF TlbWrite, Goto, TypeOK
    <3>3. CASE Evict(p)
      <4>1. loc \in [AddrSpaces -> Locals]
        BY <1>0 DEF TypeOK
      <4> QED BY <3>3, <4>1 DEF Evict, Locals
    <3> QED BY <1>2, <3>1, <3>2, <3>3
  <2>3. DataRight(p)'
    BY <1>0, <2>1, <2>2 DEF DataRight, Outside
  <2>4. \A va \in VAddrs : ~ Filling(p, va) /\ ~ Filling(p, va)'
    BY <2>1 DEF Filling
  <2>5. \A va \in VAddrs : PageContent(p, va)' = PageContent(p, va)
    BY <2>1, <2>4, CalmKeeps DEF Holds, datavars
  <2> QED BY <2>3, <2>5 DEF OwnKept
<1>3. CASE AsDestroySwap(p)
  <2>1. pc[p] = "exit" /\ pc'[p] = "none" /\ UNCHANGED pt
    BY <1>0, <1>3 DEF AsDestroySwap, At, Goto, TypeOK
  <2>2. \A va \in VAddrs : ~ pt[p][va].in_swap
    BY <1>0, <2>1 DEF TableRight, Gone, pt_create
  <2>3. DataRight(p)'
    BY <2>1 DEF DataRight, Outside
  <2>4. \A va \in VAddrs : ~ Filling(p, va) /\ ~ Filling(p, va)'
    BY <2>1 DEF Filling
  <2>5. \A va \in VAddrs : PageContent(p, va)' = PageContent(p, va)
    BY <2>1, <2>2, <2>4, CalmKeeps DEF datavars
  <2> QED BY <2>3, <2>5 DEF OwnKept
<1> QED BY <1>1, <1>2, <1>3

\* SwapOutSlot, SwapOutCopy and SwapOutWrite: the victim is still in memory.
LEMMA SwapOutKeeps ==
  ASSUME DataInv, PInv', NEW p \in AddrSpaces,
         \/ SwapOutSlot(p) /\ UNCHANGED datavars
         \/ DataSwapOutCopy(p) \/ DataSwapOutWrite(p)
  PROVE  OwnKept(p)
<1>0. /\ PInv /\ TypeOK /\ DataTypes /\ LocalsRight(p) /\ TableRight(p)
      /\ DataRight(p)
  BY DEF DataInv, PInv, PagesRight
<1> DEFINE v == loc[p].victim
<1>1. /\ cur = p
      /\ pc[p] \in {"out_slot", "out_copy", "out_write"}
      /\ pc'[p] \in {"out_copy", "out_write", "remap"}
      /\ UNCHANGED <<pt, mem>>
  BY <1>0
  DEF SwapOutSlot, SwapOutCopy, SwapOutWrite, DataSwapOutCopy,
      DataSwapOutWrite, Buffer, At, Goto, TypeOK, datavars
<1>2. /\ v \in VAddrs /\ pt[p][v].in_mem /\ ~ pt[p][v].in_swap
      /\ pt[p][v].frame = loc[p].frame
  BY <1>0, <1>1 DEF LocalsRight, TableRight, Giving
<1>3. \A va \in VAddrs : ~ Filling(p, va) /\ ~ Filling(p, va)'
  BY <1>1 DEF Filling
<1>4. CASE SwapOutSlot(p) /\ UNCHANGED datavars
  <2>1. PICK i \in Slots : /\ swap_out_slot(p, v, i)
                           /\ loc' = [loc EXCEPT ![p].slot = i]
    BY <1>4 DEF SwapOutSlot
  <2>2. /\ loc'[p].va = loc[p].va /\ loc'[p].kind = loc[p].kind
        /\ loc'[p].victim = v /\ loc'[p].slot = i
    BY <1>0, <2>1 DEF TypeOK, Locals
  <2>3. swapspace[i].as # p
    BY <2>1, CoremapAssumption DEF swap_out_slot
  <2>4. /\ swapspace'[i].as = p /\ swapspace'[i].vaddr = v
        /\ \A j \in Slots \ {i} : swapspace'[j] = swapspace[j]
    <3>1. swapspace' = [swapspace EXCEPT ![i] = [as |-> p, vaddr |-> v]]
      BY <2>1 DEF swap_out_slot
    <3> HIDE DEF v
    <3>2. swapspace'[i].as = p /\ swapspace'[i].vaddr = v
      BY <1>0, <3>1 DEF TypeOK, SwapTypeOK
    <3> QED BY <1>0, <3>1, <3>2 DEF TypeOK, SwapTypeOK
  <2>5. pc'[p] = "out_copy"
    BY <1>0, <1>4 DEF SwapOutSlot, Goto, TypeOK
  <2>6. DataRight(p)'
    BY <1>0, <1>1, <2>2, <2>4, <2>5 DEF DataRight, Holds, Outside
  <2>7. \A j \in Slots, va \in VAddrs : Holds(j, p, va) => Holds(j, p, va)'
    BY <2>3, <2>4 DEF Holds
  <2>8. \A va \in VAddrs : PageContent(p, va)' = PageContent(p, va)
    BY <1>1, <1>3, <1>4, <2>7, CalmKeeps DEF datavars
  <2> QED BY <2>6, <2>8 DEF OwnKept
<1>5. CASE DataSwapOutCopy(p)
  <2>1. /\ pc[p] = "out_copy" /\ pc'[p] = "out_write"
        /\ UNCHANGED <<swapspace, loc, swapfile>>
    BY <1>0, <1>5 DEF DataSwapOutCopy, SwapOutCopy, Buffer, At, Goto, TypeOK
  <2>2. PICK f \in Frames : Translates(v, f) /\ e_iobuf' = mem[f]
    BY <1>5 DEF DataSwapOutCopy, Buffer
  <2>3. PICK x \in Entries : Probe(v, x) /\ tlb[x].pframe = f
    BY <2>2 DEF Translates
  <2>4. f = loc[p].frame
    BY <1>0, <1>1, <1>2, <2>1, <2>3, TranslatesToOwn DEF Gone
  <2>5. DataRight(p)'
    BY <1>0, <1>1, <2>1, <2>2, <2>4 DEF DataRight, Holds, Outside
  <2>6. \A va \in VAddrs : PageContent(p, va)' = PageContent(p, va)
    BY <1>1, <1>3, <2>1, CalmKeeps DEF Holds
  <2> QED BY <2>5, <2>6 DEF OwnKept
<1>6. CASE DataSwapOutWrite(p)
  <2>1. /\ pc[p] = "out_write" /\ pc'[p] = "remap"
        /\ UNCHANGED <<swapspace, loc, e_iobuf>>
        /\ swapfile' = [swapfile EXCEPT ![loc[p].slot] = e_iobuf]
    BY <1>0, <1>6 DEF DataSwapOutWrite, SwapOutWrite, At, Goto, TypeOK
  <2>2. loc[p].slot \in Slots /\ Holds(loc[p].slot, p, v) /\ e_iobuf = mem[loc[p].frame]
    BY <1>0, <2>1 DEF DataRight
  <2>3. DataRight(p)'
    BY <1>0, <1>1, <2>1, <2>2 DEF DataRight, DataTypes, Holds, Outside
  <2>4. \A i \in Slots, va \in VAddrs : pt[p][va].in_swap /\ Holds(i, p, va) =>
          Holds(i, p, va)' /\ swapfile'[i] = swapfile[i]
    BY <1>0, <1>2, <2>1, <2>2 DEF Holds, DataTypes
  <2>5. \A va \in VAddrs : PageContent(p, va)' = PageContent(p, va)
    BY <1>1, <1>3, <2>4, CalmKeeps
  <2> QED BY <2>3, <2>5 DEF OwnKept
<1> QED BY <1>4, <1>5, <1>6
\* The pages of p other than va, in a step that is about va.
LEMMA OtherPagesKept ==
  ASSUME DataInv, PInv', NEW p \in AddrSpaces, NEW va \in VAddrs,
         loc[p].va = va, loc'[p].va = va \/ UNCHANGED loc,
         \A w \in VAddrs \ {va} :
           /\ pt'[p][w] = pt[p][w]
           /\ pt[p][w].in_mem => mem'[pt[p][w].frame] = mem[pt[p][w].frame]
           /\ pt[p][w].in_swap => \A i \in Slots : Holds(i, p, w) =>
                Holds(i, p, w)' /\ swapfile'[i] = swapfile[i]
  PROVE  \A w \in VAddrs \ {va} : PageContent(p, w)' = PageContent(p, w)
<1>0. PInv
  BY DEF DataInv
<1> TAKE w \in VAddrs \ {va}
<1>1. /\ ~ Filling(p, w) /\ ~ Filling(p, w)'
      /\ pt'[p][w] = pt[p][w]
      /\ pt[p][w].in_mem => mem'[pt[p][w].frame] = mem[pt[p][w].frame]
      /\ InSwap(p, w) => \A i \in Slots : Holds(i, p, w) =>
           Holds(i, p, w)' /\ swapfile'[i] = swapfile[i]
  BY DEF Filling, InSwap
<1> QED BY <1>0, <1>1, PageKept

\* FrameAlloc and TlbReplace: the page that is brought in is where it was.
LEMMA MapKeeps ==
  ASSUME DataInv, PInv', NEW p \in AddrSpaces,
         FrameAlloc(p) \/ TlbReplace(p), UNCHANGED datavars
  PROVE  OwnKept(p)
<1>0. /\ PInv /\ TypeOK /\ LocalsRight(p) /\ TableRight(p) /\ DataRight(p)
      /\ \A v \in VAddrs : Located(p, v) /\ Located(p, v)'
  BY ContentIsLocated, ContentIsLocatedNext
  DEF DataInv, PInv, PagesRight, PagesLocated
<1>va. PICK va \in VAddrs : va = loc[p].va
  BY <1>0 DEF FrameAlloc, TlbReplace, At, LocalsRight, Outside
<1>1. /\ pc[p] \in {"alloc", "tlbR"} /\ loc[p].kind \in Kinds
      /\ ~ pt[p][va].in_mem /\ (pt[p][va].in_swap <=> loc[p].kind = "swap")
      /\ UNCHANGED swapspace
  BY <1>0, <1>va DEF FrameAlloc, TlbReplace, At, LocalsRight, Outside, Seeking
<1>2. PICK f \in Frames :
        /\ pt' = pt_map(p, va, f)
        /\ loc' = loc \/ loc' = [loc EXCEPT ![p].frame = f]
  BY <1>0, <1>va DEF FrameAlloc, TlbReplace, At, LocalsRight
<1>3. \A w \in VAddrs \ {va} : pt'[p][w] = pt[p][w]
  BY <1>0, <1>1, <1>2, PtMapped
<1>4. loc'[p].va = va /\ loc'[p].kind = loc[p].kind
  BY <1>0, <1>va, <1>2, LocFrame
<1>5. pc'[p] = IF loc[p].kind = "swap" THEN "in_slot" ELSE "bzero"
  BY <1>0, PcSet DEF FrameAlloc, TlbReplace, Fill, PCs
<1>6. \A w \in VAddrs \ {va} : PageContent(p, w)' = PageContent(p, w)
  BY <1>va, <1>1, <1>3, <1>4, OtherPagesKept DEF Holds, datavars
<1>7. PageContent(p, va)' = PageContent(p, va)
  <2>1. Located(p, va) /\ Located(p, va)'
    BY <1>0
  <2>2. ~ Filling(p, va)
    BY <1>1 DEF Filling
  <2>3. pc'[p] \in {"in_slot", "bzero"} /\ loc'[p].va = va
    BY <1>4, <1>5
  <2>4. CASE loc[p].kind = "swap"
    <3>1. /\ pt[p][va].in_swap
          /\ \E i \in Slots : /\ \A j \in Slots : Holds(j, p, va) <=> j = i
                              /\ PageContent(p, va) = swapfile[i]
      BY <1>1, <2>1, <2>4 DEF Located, InSwap
    <3>2. \E i \in Slots : /\ \A j \in Slots : Holds(j, p, va)' <=> j = i
                           /\ PageContent(p, va)' = swapfile'[i]
      <4>1. pc'[p] = "in_slot"
        BY <1>5, <2>4
      <4> QED BY <2>1, <2>3, <4>1 DEF Located, InSwap, Filling, Holds
    <3> QED BY <1>1, <3>1, <3>2 DEF Holds, datavars
  <2>5. CASE loc[p].kind # "swap"
    <3>1. PageContent(p, va) = Image(p, va)
      BY <1>1, <2>1, <2>2, <2>5 DEF Located
    <3>2. PageContent(p, va)' = Image(p, va)
      BY <1>5, <2>1, <2>3, <2>5 DEF Located, Filling, Image
    <3> QED BY <3>1, <3>2
  <2> QED BY <2>4, <2>5
<1>8. DataRight(p)'
  BY <1>0, <1>va, <1>1, <1>4, <1>5 DEF DataRight, Outside
<1> QED BY <1>6, <1>7, <1>8 DEF OwnKept

\* Remap: the victim, which was in memory, is in its slot.
LEMMA RemapKeeps ==
  ASSUME DataInv, PInv', NEW p \in AddrSpaces, Remap(p), UNCHANGED datavars
  PROVE  OwnKept(p)
<1>0. /\ PInv /\ TypeOK /\ LocalsRight(p) /\ TableRight(p) /\ DataRight(p)
      /\ \A v \in VAddrs : Located(p, v) /\ Located(p, v)'
  BY ContentIsLocated, ContentIsLocatedNext
  DEF DataInv, PInv, PagesRight, PagesLocated
<1>va. PICK va \in VAddrs : va = loc[p].victim
  BY <1>0 DEF Remap, At, LocalsRight, Giving
<1>1. /\ pc[p] = "remap" /\ pc'[p] = "tlbR"
      /\ UNCHANGED <<swapspace, loc, mem, swapfile, e_iobuf>>
  BY <1>0 DEF Remap, At, Goto, TypeOK, datavars
<1>2. /\ pt[p][va].in_mem /\ pt[p][va].frame = loc[p].frame
  BY <1>0, <1>va, <1>1 DEF LocalsRight, Giving
<1>3. /\ loc[p].slot \in Slots /\ Holds(loc[p].slot, p, va)
      /\ swapfile[loc[p].slot] = mem[loc[p].frame]
  BY <1>0, <1>va, <1>1 DEF DataRight
<1>4. /\ ~ pt'[p][va].in_mem /\ pt'[p][va].in_swap
      /\ \A w \in VAddrs \ {va} : pt'[p][w] = pt[p][w]
  BY <1>0, <1>va, PtUpdated DEF Remap
<1>5. \A w \in VAddrs : ~ Filling(p, w) /\ ~ Filling(p, w)'
  BY <1>1 DEF Filling
<1>6. ASSUME NEW w \in VAddrs \ {va} PROVE PageContent(p, w)' = PageContent(p, w)
  <2>1. /\ InSwap(p, w) => \A i \in Slots : Holds(i, p, w) =>
             Holds(i, p, w)' /\ swapfile'[i] = swapfile[i]
        /\ pt[p][w].in_mem => mem'[pt[p][w].frame] = mem[pt[p][w].frame]
    BY <1>1 DEF Holds
  <2> QED BY <1>0, <1>4, <1>5, <2>1, PageKept
<1>7. PageContent(p, va)' = PageContent(p, va)
  <2>1. PageContent(p, va) = mem[loc[p].frame]
    BY <1>0, <1>2, <1>5 DEF Located
  <2>2. PageContent(p, va)' = swapfile[loc[p].slot]
    <3>1. \E i \in Slots : /\ \A j \in Slots : Holds(j, p, va)' <=> j = i
                           /\ PageContent(p, va)' = swapfile'[i]
      BY <1>0, <1>4 DEF Located, InSwap
    <3> QED BY <1>1, <1>3, <3>1 DEF Holds
  <2> QED BY <1>3, <2>1, <2>2
<1>8. DataRight(p)'
  BY <1>0, <1>1 DEF DataRight, Outside
<1> QED BY <1>6, <1>7, <1>8 DEF OwnKept
\* SwapInSlot and SwapInRead: the page is in the slot, then in the buffer.
LEMMA SwapInKeeps ==
  ASSUME DataInv, PInv', NEW p \in AddrSpaces,
         \/ SwapInSlot(p) /\ UNCHANGED datavars
         \/ DataSwapInRead(p)
  PROVE  OwnKept(p)
<1>0. /\ PInv /\ TypeOK /\ LocalsRight(p) /\ TableRight(p) /\ DataRight(p)
      /\ \A v \in VAddrs : Located(p, v) /\ Located(p, v)'
  BY ContentIsLocated, ContentIsLocatedNext
  DEF DataInv, PInv, PagesRight, PagesLocated
<1>1. /\ pc[p] \in {"in_slot", "in_read"}
      /\ UNCHANGED <<pt, mem, swapfile>>
  BY DEF SwapInSlot, DataSwapInRead, SwapInRead, Buffer, At, datavars
<1>va. PICK va \in VAddrs : va = loc[p].va
  BY <1>0, <1>1 DEF LocalsRight, Outside
<1>2. Filling(p, va)
  BY <1>va, <1>1 DEF Filling
<1>3. CASE SwapInSlot(p) /\ UNCHANGED datavars
  <2>1. PICK i \in Slots : /\ swap_in_slot(p, va, i)
                           /\ loc' = [loc EXCEPT ![p].slot = i]
    BY <1>va, <1>3 DEF SwapInSlot
  <2>2. /\ loc'[p].va = va /\ loc'[p].kind = loc[p].kind /\ loc'[p].slot = i
    BY <1>0, <1>va, <2>1 DEF TypeOK, Locals
  <2>3. pc[p] = "in_slot" /\ pc'[p] = "in_read"
    BY <1>0, <1>3 DEF SwapInSlot, At, Goto, TypeOK
  <2>4. /\ swapspace[i].as = p /\ swapspace[i].vaddr = va
        /\ \A j \in Slots \ {i} : swapspace'[j] = swapspace[j]
    BY <1>0, <2>1 DEF swap_in_slot, Holds, TypeOK, SwapTypeOK
  <2>5. \A w \in VAddrs \ {va} : PageContent(p, w)' = PageContent(p, w)
    <3>1. \A w \in VAddrs \ {va} : \A j \in Slots : Holds(j, p, w) => Holds(j, p, w)'
      BY <2>4 DEF Holds
    <3> QED BY <1>va, <1>1, <2>2, <3>1, OtherPagesKept
  <2>6. PageContent(p, va) = swapfile[i]
    <3>1. \E k \in Slots : /\ \A j \in Slots : Holds(j, p, va) <=> j = k
                           /\ PageContent(p, va) = swapfile[k]
      BY <1>0, <1>2, <2>3 DEF Located, InSwap
    <3> QED BY <2>4, <3>1 DEF Holds
  <2>7. PageContent(p, va)' = swapfile'[i]
    <3>1. Filling(p, va)'
      BY <2>2, <2>3 DEF Filling
    <3> QED BY <1>0, <2>2, <2>3, <3>1 DEF Located
  <2>8. DataRight(p)'
    BY <1>0, <1>va, <2>2, <2>3 DEF DataRight, Outside
  <2> QED BY <1>1, <2>5, <2>6, <2>7, <2>8 DEF OwnKept
<1>4. CASE DataSwapInRead(p)
  <2>1. /\ pc[p] = "in_read" /\ pc'[p] = "in_copy" /\ UNCHANGED <<loc, swapspace>>
        /\ e_iobuf' = swapfile[loc[p].slot]
    BY <1>0, <1>4 DEF DataSwapInRead, SwapInRead, Buffer, At, Goto, TypeOK
  <2>2. \A w \in VAddrs \ {va} : PageContent(p, w)' = PageContent(p, w)
    BY <1>va, <1>1, <2>1, OtherPagesKept DEF Holds
  <2>3. PageContent(p, va) = swapfile[loc[p].slot]
    BY <1>0, <1>2, <2>1 DEF Located
  <2>4. PageContent(p, va)' = e_iobuf'
    <3>1. Filling(p, va)'
      BY <1>va, <2>1 DEF Filling
    <3> QED BY <1>0, <2>1, <3>1 DEF Located
  <2>5. DataRight(p)'
    BY <1>0, <1>va, <2>1 DEF DataRight, Outside
  <2> QED BY <2>1, <2>2, <2>3, <2>4, <2>5 DEF OwnKept
<1> QED BY <1>3, <1>4

\* The kernel stores to the page that is being filled: what it stores is the
\* content of the page in the end, and before the end the content is
\* elsewhere.
LEMMA FillKeeps ==
  ASSUME DataInv, PInv', NEW p \in AddrSpaces,
         DataSwapInCopy(p) \/ DataBzero(p) \/ DataElfCopy(p)
  PROVE  OwnKept(p)
<1>0. /\ PInv /\ TypeOK /\ DataTypes /\ mem \in [Frames -> Contents]
      /\ LocalsRight(p) /\ TableRight(p) /\ DataRight(p)
      /\ \A v \in VAddrs : Located(p, v) /\ Located(p, v)'
  BY ContentIsLocated, ContentIsLocatedNext
  DEF DataInv, DataTypes, PInv, PagesRight, PagesLocated
<1>1. /\ cur = p /\ pc[p] \in {"in_copy", "bzero", "elf_copy"}
      /\ UNCHANGED <<pt, loc, swapspace>>
  BY DEF DataSwapInCopy, DataBzero, DataElfCopy, SwapInCopy, Bzero, ElfCopy, At
<1>va. PICK va \in VAddrs : va = loc[p].va
  BY <1>0, <1>1 DEF LocalsRight, Outside
<1> DEFINE d == IF pc[p] = "bzero" THEN Zero ELSE e_iobuf
<1>2. FillWith(p, d)
  BY DEF DataSwapInCopy, DataBzero, DataElfCopy, SwapInCopy, Bzero, ElfCopy, At
<1> HIDE DEF d
<1>3. /\ loc[p].frame \in Frames /\ Filling(p, va)
      /\ pt[p][va].in_mem /\ pt[p][va].frame = loc[p].frame
      /\ mem' = [mem EXCEPT ![pt[p][va].frame] = d]
      /\ UNCHANGED <<swapfile, e_iobuf, last>>
  BY <1>0, <1>va, <1>1, <1>2, FillsOwn
<1>4. ~ Leaving(p, va)
  BY <1>1 DEF Leaving
<1>5. /\ \A f \in Frames : Evicted(f) => mem'[f] = mem[f]
      /\ \A q \in AddrSpaces, w \in VAddrs :
           pt[q][w].in_mem /\ ~ (q = p /\ w = va) =>
             mem'[pt[q][w].frame] = mem[pt[q][w].frame]
  BY <1>0, <1>3, <1>4, StoreIsApart
<1>6. \A w \in VAddrs \ {va} : PageContent(p, w)' = PageContent(p, w)
  <2>1. \A w \in VAddrs \ {va} :
          /\ pt'[p][w] = pt[p][w]
          /\ pt[p][w].in_mem => mem'[pt[p][w].frame] = mem[pt[p][w].frame]
          /\ pt[p][w].in_swap => \A i \in Slots : Holds(i, p, w) =>
               Holds(i, p, w)' /\ swapfile'[i] = swapfile[i]
    BY <1>1, <1>3, <1>5 DEF Holds
  <2> QED BY <1>va, <1>1, <2>1, OtherPagesKept
<1>7. /\ DataSwapInCopy(p) => pc[p] = "in_copy" /\ pc'[p] = "clean"
      /\ DataBzero(p) => /\ pc[p] = "bzero"
                         /\ pc'[p] = IF loc[p].kind = "elf" THEN "elf_read" ELSE "clean"
      /\ DataElfCopy(p) => pc[p] = "elf_copy" /\ pc'[p] = "clean"
  BY <1>0
  DEF DataSwapInCopy, DataBzero, DataElfCopy, SwapInCopy, Bzero, ElfCopy, At,
      Goto, TypeOK
<1>8. pc'[p] = "clean" => PageContent(p, va)' = d
  <2>1. pc'[p] = "clean" => ~ Filling(p, va)'
    BY DEF Filling
  <2>2. mem'[pt'[p][va].frame] = d
    BY <1>0, <1>1, <1>3
  <2> QED BY <1>0, <1>1, <1>3, <2>1, <2>2 DEF Located
<1>9. CASE DataSwapInCopy(p)
  <2>1. d = e_iobuf /\ PageContent(p, va) = e_iobuf
    BY <1>0, <1>3, <1>7, <1>9 DEF d, Located
  <2>2. DataRight(p)'
    BY <1>0, <1>1, <1>7, <1>9 DEF DataRight, Outside
  <2> QED BY <1>6, <1>7, <1>8, <1>9, <2>1, <2>2 DEF OwnKept
<1>10. CASE DataElfCopy(p)
  <2>1. d = e_iobuf /\ PageContent(p, va) = Image(p, va)
    BY <1>0, <1>3, <1>7, <1>10 DEF d, Located
  <2>2. e_iobuf = Image(p, va)
    BY <1>0, <1>va, <1>7, <1>10 DEF DataRight
  <2>3. DataRight(p)'
    BY <1>0, <1>1, <1>7, <1>10 DEF DataRight, Outside
  <2> QED BY <1>6, <1>7, <1>8, <1>10, <2>1, <2>2, <2>3 DEF OwnKept
<1>11. CASE DataBzero(p)
  <2>1. d = Zero /\ PageContent(p, va) = Image(p, va)
    BY <1>0, <1>3, <1>7, <1>11 DEF d, Located
  <2>2. DataRight(p)'
    BY <1>0, <1>1, <1>7, <1>11 DEF DataRight, Outside
  <2>3. CASE loc[p].kind = "elf"
    <3>1. pc'[p] = "elf_read" /\ Filling(p, va)'
      BY <1>va, <1>1, <1>7, <1>11, <2>3 DEF Filling
    <3>2. PageContent(p, va)' = Image(p, va)
      BY <1>0, <3>1 DEF Located, Image
    <3> QED BY <1>6, <2>1, <2>2, <3>2 DEF OwnKept
  <2>4. CASE loc[p].kind # "elf"
    <3>1. loc[p].kind = "zero"
      BY <1>0, <1>7, <1>11, <2>4 DEF LocalsRight, Kinds, Outside
    <3>2. Image(p, va) = Zero
      BY <1>0, <1>va, <1>7, <1>11, <3>1 DEF DataRight, Image, Outside
    <3> QED BY <1>6, <1>7, <1>8, <1>11, <2>1, <2>2, <2>4, <3>2 DEF OwnKept
  <2> QED BY <2>3, <2>4
<1> QED BY <1>9, <1>10, <1>11

\* DataElfRead: the page of the executable is in the buffer.
LEMMA ElfReadKeeps ==
  ASSUME DataInv, PInv', NEW p \in AddrSpaces, DataElfRead(p)
  PROVE  OwnKept(p)
<1>0. /\ PInv /\ TypeOK /\ LocalsRight(p) /\ TableRight(p) /\ DataRight(p)
      /\ \A v \in VAddrs : Located(p, v) /\ Located(p, v)'
  BY ContentIsLocated, ContentIsLocatedNext
  DEF DataInv, PInv, PagesRight, PagesLocated
<1>1. /\ pc[p] = "elf_read" /\ pc'[p] = "elf_copy"
      /\ UNCHANGED <<pt, loc, swapspace, mem, swapfile>>
      /\ e_iobuf' = Image(p, loc[p].va)
  BY <1>0 DEF DataElfRead, ElfRead, Buffer, At, Goto, TypeOK
<1>va. PICK va \in VAddrs : va = loc[p].va
  BY <1>0, <1>1 DEF LocalsRight, Outside
<1>2. \A w \in VAddrs \ {va} : PageContent(p, w)' = PageContent(p, w)
  BY <1>va, <1>1, OtherPagesKept DEF Holds
<1>3. Filling(p, va) /\ Filling(p, va)'
  BY <1>va, <1>1 DEF Filling
<1>4. PageContent(p, va) = Image(p, va) /\ PageContent(p, va)' = Image(p, va)
  BY <1>0, <1>1, <1>3 DEF Located, Image
<1>5. DataRight(p)'
  BY <1>0, <1>1 DEF DataRight, Outside, Image
<1> QED BY <1>2, <1>4, <1>5 DEF OwnKept
\* A store of the program.
LEMMA StoreWrites ==
  ASSUME DataInv, PInv', NEW p \in AddrSpaces, NEW va \in VAddrs, StorePage(p, va)
  PROVE  /\ DataRight(p)'
         /\ \E v \in Stored(p) : /\ PageContent(p, va)' = v
                                 /\ last' = [last EXCEPT ![p] = <<va, v>>]
         /\ \A w \in VAddrs \ {va} : PageContent(p, w)' = PageContent(p, w)
<1>0. /\ PInv /\ TypeOK /\ mem \in [Frames -> Contents]
      /\ \A v \in VAddrs : Located(p, v) /\ Located(p, v)'
  BY ContentIsLocated, ContentIsLocatedNext
  DEF DataInv, DataTypes, PInv, PagesLocated
<1>1. /\ cur = p /\ pc[p] = "user"
      /\ pt[p][va].in_mem /\ pt[p][va].frame \in Frames
      /\ UNCHANGED vars /\ UNCHANGED <<swapfile, e_iobuf>>
  BY <1>0, StoresToOwn
<1>2. PICK v \in Stored(p) : /\ mem' = [mem EXCEPT ![pt[p][va].frame] = v]
                             /\ last' = [last EXCEPT ![p] = <<va, v>>]
  BY <1>0, StoresToOwn
<1>3. \A w \in VAddrs : ~ Filling(p, w) /\ ~ Filling(p, w)' /\ ~ Leaving(p, w)
  BY <1>1 DEF Filling, Leaving, vars
<1>4. \A q \in AddrSpaces, w \in VAddrs :
        pt[q][w].in_mem /\ ~ (q = p /\ w = va) =>
          mem'[pt[q][w].frame] = mem[pt[q][w].frame]
  BY <1>0, <1>1, <1>2, <1>3, StoreIsApart
<1>5. ASSUME NEW w \in VAddrs \ {va} PROVE PageContent(p, w)' = PageContent(p, w)
  <2>1. /\ pt'[p][w] = pt[p][w]
        /\ pt[p][w].in_mem => mem'[pt[p][w].frame] = mem[pt[p][w].frame]
        /\ InSwap(p, w) => \A i \in Slots : Holds(i, p, w) =>
             Holds(i, p, w)' /\ swapfile'[i] = swapfile[i]
    BY <1>1, <1>4 DEF Holds, vars
  <2> QED BY <1>0, <1>3, <2>1, PageKept
<1>6. PageContent(p, va)' = v
  <2>1. pt'[p][va] = pt[p][va] /\ mem'[pt[p][va].frame] = v
    BY <1>0, <1>1, <1>2 DEF vars
  <2> QED BY <1>0, <1>1, <1>3, <2>1 DEF Located
<1>7. DataRight(p)'
  BY <1>1 DEF DataRight, Outside, vars
<1> QED BY <1>2, <1>5, <1>6, <1>7

\* A load of the program returns the content of the page.
LEMMA LoadReads ==
  ASSUME PInv, NEW p \in AddrSpaces, NEW va \in VAddrs, LoadPage(p, va)
  PROVE  /\ pc[p] = "user" /\ UNCHANGED vars
         /\ UNCHANGED <<mem, swapfile, e_iobuf>>
         /\ last' = [last EXCEPT ![p] = <<va, PageContent(p, va)>>]
<1>0. Located(p, va)
  BY ContentIsLocated DEF PagesLocated
<1>1. /\ cur = p /\ pc[p] = "user" /\ UNCHANGED vars
      /\ UNCHANGED <<mem, swapfile, e_iobuf>>
  BY DEF LoadPage, At
<1>2. PICK f \in Frames : /\ Translates(va, f)
                          /\ last' = [last EXCEPT ![p] = <<va, mem[f]>>]
  BY DEF LoadPage
<1>3. PICK x \in Entries : Probe(va, x) /\ tlb[x].pframe = f
  BY <1>2 DEF Translates
<1>4. pt[p][va].in_mem /\ f = pt[p][va].frame
  BY <1>0, <1>1, <1>3, TranslatesToOwn DEF Gone
<1>5. PageContent(p, va) = mem[f]
  BY <1>0, <1>1, <1>4 DEF Located, Filling
<1> QED BY <1>1, <1>2, <1>5

\* The pages of a process that is gone are as they were at first.
LEMMA DestroyClears ==
  ASSUME DataInv, PInv', NEW p \in AddrSpaces, DataAsDestroy(p)
  PROVE  /\ pc[p] = "user" /\ pc'[p] = "exit"
         /\ DataRight(p)'
         /\ \A va \in VAddrs : PageContent(p, va)' = Image(p, va)
<1>0. /\ PInv /\ TypeOK
      /\ \A v \in VAddrs : Located(p, v)'
  BY ContentIsLocatedNext DEF DataInv, PInv, PagesLocated
<1>1. pc[p] = "user" /\ pc'[p] = "exit"
  BY <1>0 DEF DataAsDestroy, AsDestroyFrames, At, Goto, TypeOK
<1>2. \A va \in VAddrs : pt'[p][va] = pt_create
  BY <1>0 DEF DataAsDestroy, AsDestroyFrames, TypeOK
<1>3. \A va \in VAddrs : ~ Filling(p, va)'
  BY <1>1 DEF Filling
<1>4. \A va \in VAddrs : PageContent(p, va)' = Image(p, va)
  BY <1>0, <1>2, <1>3 DEF Located, pt_create, Image
<1>5. DataRight(p)'
  BY <1>1 DEF DataRight, Outside
<1> QED BY <1>1, <1>4, <1>5

\* The kernel uses frames that nobody had.
LEMMA KernelKeeps ==
  ASSUME DataInv, PInv', NEW f \in Frames, NEW q \in AddrSpaces,
         \/ free_kpages(f) /\ UNCHANGED datavars
         \/ \E n \in 1 .. KMaxPages : DataKalloc(n, f)
  PROVE  OwnKept(q)
<1>0. PInv
  BY DEF DataInv
<1>1. CASE free_kpages(f) /\ UNCHANGED datavars
  BY <1>1, NothingMoved DEF free_kpages, datavars
<1>2. ASSUME NEW n \in 1 .. KMaxPages, DataKalloc(n, f) PROVE OwnKept(q)
  <2>1. /\ UNCHANGED <<swapspace, pt, pc, loc, swapfile, e_iobuf>>
        /\ \A i \in f .. f + n - 1 : coremap[i].state = FREE
        /\ mem' = [i \in Frames |-> IF i \in f .. f + n - 1 THEN KernelData ELSE mem[i]]
    BY <1>2 DEF DataKalloc, alloc_kpages, frame_kalloc, FirstFit, RunIsFree
  <2>2. \A g \in Frames :
          \/ Evicted(g)
          \/ \E va \in VAddrs : pt[q][va].in_mem /\ pt[q][va].frame = g
          => coremap[g].state # FREE
    BY <1>0, FrameIsOwn DEF Evicted, LOADING, FREE
  <2>3. \A g \in Frames :
          \/ Evicted(g)
          \/ \E va \in VAddrs : pt[q][va].in_mem /\ pt[q][va].frame = g
          => mem'[g] = mem[g]
    BY <2>1, <2>2
  <2>4. \A i \in Slots, va \in VAddrs : Holds(i, q, va) =>
          Holds(i, q, va)' /\ swapfile'[i] = swapfile[i]
    BY <2>1 DEF Holds
  <2> QED BY <2>1, <2>3, <2>4, OtherKeeps DEF OwnKept
<1> QED BY <1>1, <1>2

-----------------------------------------------------------------------------
(***************************************************************************)
(* Types.                                                                  *)
(***************************************************************************)

LEMMA ContentTypes ==
  /\ Zero \in Contents /\ KernelData \in Contents
  /\ \A p \in AddrSpaces : /\ Stored(p) \subseteq Contents
                           /\ \A va : Image(p, va) \in Contents
<1>1. Zero \in Contents /\ KernelData \in Contents
  BY DEF Contents
<1>2. \A p \in AddrSpaces : Stored(p) \subseteq Contents
  BY DEF Contents
<1>3. ASSUME NEW p \in AddrSpaces, NEW va PROVE Image(p, va) \in Contents
  <2>1. va \in ElfPages => <<p, va>> \in AddrSpaces \X ElfPages
    OBVIOUS
  <2>2. AddrSpaces \X ElfPages \subseteq Contents
    BY DEF Contents
  <2> QED BY <1>1, <2>1, <2>2 DEF Image
<1> QED BY <1>1, <1>2, <1>3

LEMMA DataTypesNext ==
  ASSUME RestInv, [DataNext]_<<vars, datavars>>
  PROVE  DataTypes'
<1>0. /\ PInv /\ DataTypes
      /\ mem \in [Frames -> Contents] /\ swapfile \in [Slots -> Contents]
      /\ e_iobuf \in Contents
  BY DEF RestInv, DataTypes
<1>1. ASSUME UNCHANGED <<mem, swapfile, e_iobuf>> PROVE DataTypes'
  BY <1>0, <1>1 DEF DataTypes
<1>2. ASSUME NEW p \in AddrSpaces, NEW d \in Contents, FillWith(p, d) PROVE DataTypes'
  BY <1>0, <1>2 DEF FillWith, DataTypes
<1>3. ASSUME NEW d \in Contents, Buffer(d) PROVE DataTypes'
  BY <1>0, <1>3 DEF Buffer, DataTypes
<1>4. ASSUME NEW p \in AddrSpaces, DataStep(p) PROVE DataTypes'
  <2>1. ASSUME NEW va \in VAddrs, LoadPage(p, va) PROVE DataTypes'
    BY <1>1, <2>1 DEF LoadPage
  <2>2. ASSUME NEW va \in VAddrs, StorePage(p, va) PROVE DataTypes'
    <3>1. \E v \in Stored(p) : mem' = [mem EXCEPT ![pt[p][va].frame] = v]
      BY <1>0, <2>2, StoresToOwn
    <3>2. UNCHANGED <<swapfile, e_iobuf>>
      BY <2>2 DEF StorePage
    <3> QED BY <1>0, <3>1, <3>2, ContentTypes DEF DataTypes
  <2>3. CASE DataSwapOutCopy(p)
    BY <1>0, <1>3, <2>3 DEF DataSwapOutCopy
  <2>4. CASE DataSwapOutWrite(p)
    BY <1>0, <2>4 DEF DataSwapOutWrite, DataTypes
  <2>5. CASE DataSwapInRead(p)
    <3>1. loc[p].slot \in Slots
      BY <2>5 DEF RestInv, SlotRight, DataSwapInRead, SwapInRead, At
    <3> QED BY <1>0, <1>3, <2>5, <3>1 DEF DataSwapInRead
  <2>6. CASE DataSwapInCopy(p) \/ DataBzero(p) \/ DataElfCopy(p)
    BY <1>0, <1>2, <2>6, ContentTypes DEF DataSwapInCopy, DataBzero, DataElfCopy
  <2>7. CASE DataElfRead(p)
    BY <1>3, <2>7, ContentTypes DEF DataElfRead
  <2>8. CASE DataAsDestroy(p)
    BY <1>1, <2>8 DEF DataAsDestroy
  <2>9. CASE QuietStep(p) /\ UNCHANGED datavars
    BY <1>1, <2>9 DEF datavars
  <2> QED BY <1>4, <2>1, <2>2, <2>3, <2>4, <2>5, <2>6, <2>7, <2>8, <2>9 DEF DataStep
<1>5. ASSUME NEW f \in Frames, NEW n \in 1 .. KMaxPages, DataKalloc(n, f)
      PROVE  DataTypes'
  BY <1>0, <1>5, ContentTypes DEF DataKalloc, DataTypes
<1>6. ASSUME UNCHANGED datavars PROVE DataTypes'
  BY <1>1, <1>6 DEF datavars
<1> QED BY <1>4, <1>5, <1>6 DEF DataNext, DataStep
-----------------------------------------------------------------------------
(***************************************************************************)
(* The refinement.                                                         *)
(***************************************************************************)

\* runprogram: p begins.
Begins(p) == pc[p] = "none" /\ pc'[p] = "user"

\* No page changes its content.
Alike ==
  \A p \in AddrSpaces, va \in VAddrs : PageContent(p, va)' = PageContent(p, va)

\* Nobody begins or ends.
SameAlive == \A p \in AddrSpaces : pc'[p] \in Gone <=> pc[p] \in Gone

\* The steps that move no content that a process could see.
LEMMA HiddenSteps ==
  ASSUME DataInv, PInv', ~ ElfErrors, NEW p \in AddrSpaces,
         \/ QuietStep(p) /\ UNCHANGED datavars
         \/ DataSwapOutCopy(p) \/ DataSwapOutWrite(p)
         \/ DataSwapInRead(p) \/ DataSwapInCopy(p)
         \/ DataBzero(p) \/ DataElfRead(p) \/ DataElfCopy(p)
  PROVE  /\ OwnKept(p) /\ UNCHANGED last
         /\ (pc'[p] \in Gone <=> pc[p] \in Gone) \/ Begins(p)
<1>0. TypeOK
  BY DEF DataInv, PInv
<1>1. OwnKept(p)
  <2>1. CASE QuietStep(p) /\ UNCHANGED datavars
    BY <2>1, QuietUserSteps, CalmSteps, SwapOutKeeps, MapKeeps, RemapKeeps,
       SwapInKeeps
    DEF QuietStep
  <2>2. CASE \/ DataSwapOutCopy(p) \/ DataSwapOutWrite(p)
             \/ DataSwapInRead(p) \/ DataSwapInCopy(p)
             \/ DataBzero(p) \/ DataElfRead(p) \/ DataElfCopy(p)
    BY <2>2, SwapOutKeeps, SwapInKeeps, FillKeeps, ElfReadKeeps
  <2> QED BY <2>1, <2>2
<1>2. UNCHANGED last
  <2>1. CASE QuietStep(p) /\ UNCHANGED datavars
    BY <2>1 DEF datavars
  <2>2. CASE \/ DataSwapOutCopy(p) \/ DataSwapOutWrite(p)
             \/ DataSwapInRead(p) \/ DataSwapInCopy(p)
             \/ DataBzero(p) \/ DataElfRead(p) \/ DataElfCopy(p)
    BY <2>2
    DEF DataSwapOutCopy, DataSwapOutWrite, DataSwapInRead, DataSwapInCopy,
        DataBzero, DataElfRead, DataElfCopy, Buffer, FillWith
  <2> QED BY <2>1, <2>2
<1>3. (pc'[p] \in Gone <=> pc[p] \in Gone) \/ Begins(p)
  <2>1. CASE UserStep(p)
    BY <1>0, <2>1
    DEF UserStep, runprogram, UserSegv, CopyoutFails, UserReadOnly, UserReload,
        Reload, UserFault, Panic, At, Goto, TypeOK, Gone, Begins, vars
  <2>2. CASE AsDestroySwap(p)
    BY <1>0, <2>2 DEF AsDestroySwap, At, Goto, TypeOK, Gone
  <2>3. CASE thread_switch(p)
    BY <2>3 DEF thread_switch
  <2>4. CASE FaultStep(p)
    BY <1>0, <2>4
    DEF FaultStep, FrameAlloc, FrameAllocFails, Evict, EvictPanics,
        SwapOutSlot, SwapOutPanics, SwapOutCopy, SwapOutWrite, SwapOutError,
        Remap, TlbReplace, SwapInSlot, SwapInRead, SwapInError, SwapInCopy,
        Bzero, ElfRead, ElfReadError, ElfCopy, NestedFault, Reload, Clean,
        TlbWrite, Panic, Fill, At, Goto, TypeOK, Gone
  <2> QED
    BY <2>1, <2>2, <2>3, <2>4
    DEF QuietStep, FaultStep, DataSwapOutCopy, DataSwapOutWrite,
        DataSwapInRead, DataSwapInCopy, DataBzero, DataElfRead, DataElfCopy
<1> QED BY <1>1, <1>2, <1>3

LEMMA DataInvNext ==
  ~ ElfErrors /\ DataInv /\ OneTransfer /\ OneTransfer'
    /\ [DataNext]_<<vars, datavars>> => DataInv'
<1> SUFFICES ASSUME ~ ElfErrors, DataInv, OneTransfer, OneTransfer',
                    [DataNext]_<<vars, datavars>>
             PROVE  DataInv'
  OBVIOUS
<1>1. PInv'
  BY DataStepIsStep, PInvNext DEF DataInv
<1>2. DataTypes'
  <2>1. RestInv
    BY DEF DataInv, DataRight, RestInv, SlotRight
  <2> QED BY <2>1, DataTypesNext
<1>3. ASSUME NEW q \in AddrSpaces PROVE DataRight(q)'
  <2>1. ASSUME NEW p \in AddrSpaces, DataStep(p) PROVE DataRight(q)'
    <3>1. CASE q # p
      BY <1>1, <2>1, <3>1, DataStepLeavesOthers
    <3>2. CASE q = p
      <4>1. ASSUME NEW va \in VAddrs, LoadPage(p, va) PROVE DataRight(p)'
        BY <1>1, <4>1, LoadReads, NothingMoved DEF DataInv, OwnKept, vars
      <4>2. ASSUME NEW va \in VAddrs, StorePage(p, va) PROVE DataRight(p)'
        BY <1>1, <4>2, StoreWrites
      <4>3. CASE DataAsDestroy(p)
        BY <1>1, <3>2, <4>3, DestroyClears
      <4>4. CASE \/ QuietStep(p) /\ UNCHANGED datavars
                 \/ DataSwapOutCopy(p) \/ DataSwapOutWrite(p)
                 \/ DataSwapInRead(p) \/ DataSwapInCopy(p)
                 \/ DataBzero(p) \/ DataElfRead(p) \/ DataElfCopy(p)
        BY <1>1, <3>2, <4>4, HiddenSteps DEF OwnKept
      <4> QED BY <2>1, <3>2, <4>1, <4>2, <4>3, <4>4 DEF DataStep
    <3> QED BY <3>1, <3>2
  <2>2. ASSUME NEW f \in Frames,
               \/ free_kpages(f) /\ UNCHANGED datavars
               \/ \E n \in 1 .. KMaxPages : DataKalloc(n, f)
        PROVE  DataRight(q)'
    BY <1>1, <2>2, KernelKeeps DEF OwnKept
  <2>3. CASE UNCHANGED vars /\ UNCHANGED datavars
    BY <1>1, <2>3, NothingMoved DEF OwnKept, vars, datavars
  <2> QED BY <2>1, <2>2, <2>3 DEF DataNext, DataStep, Halted
<1> QED BY <1>1, <1>2, <1>3 DEF DataInv

LEMMA DataInvInit == DataInit => DataInv
<1> SUFFICES ASSUME DataInit PROVE DataInv
  OBVIOUS
<1>1. PInv
  BY PInvInit DEF DataInit
<1>2. DataTypes
  BY ContentTypes DEF DataInit, DataTypes
<1>3. \A p \in AddrSpaces : DataRight(p)
  BY DEF DataInit, Init, DataRight, Outside
<1> QED BY <1>1, <1>2, <1>3 DEF DataInv

LEMMA MemoryKept ==
  ASSUME Alike PROVE Memory' = Memory
BY DEF Alike, Memory

LEMMA AliveKept ==
  ASSUME SameAlive PROVE Alive' = Alive
BY DEF SameAlive, Alive, Gone

LEMMA DataStepMaps ==
  ~ ElfErrors /\ DataInv /\ OneTransfer /\ OneTransfer'
    /\ [DataNext]_<<vars, datavars>> => [Abs!AbsNext]_(Abs!absvars)
<1> SUFFICES ASSUME ~ ElfErrors, DataInv, OneTransfer, OneTransfer',
                    [DataNext]_<<vars, datavars>>
             PROVE  Abs!AbsNext \/ UNCHANGED <<Alive, Memory, last>>
  BY DEF Abs!absvars
<1>0. PInv /\ PInv' /\ TypeOK
  BY DataStepIsStep, PInvNext DEF DataInv, PInv
<1>1. ASSUME Alike, SameAlive, UNCHANGED last
      PROVE  UNCHANGED <<Alive, Memory, last>>
  BY <1>1, MemoryKept, AliveKept
<1>2. ASSUME NEW p \in AddrSpaces, DataStep(p)
      PROVE  Abs!AbsNext \/ UNCHANGED <<Alive, Memory, last>>
  <2>1. \A q \in AddrSpaces \ {p} :
          /\ pc'[q] = pc[q]
          /\ \A va \in VAddrs : PageContent(q, va)' = PageContent(q, va)
    BY <1>0, <1>2, DataStepLeavesOthers
  <2>2. CASE \/ QuietStep(p) /\ UNCHANGED datavars
             \/ DataSwapOutCopy(p) \/ DataSwapOutWrite(p)
             \/ DataSwapInRead(p) \/ DataSwapInCopy(p)
             \/ DataBzero(p) \/ DataElfRead(p) \/ DataElfCopy(p)
    <3>1. /\ OwnKept(p) /\ UNCHANGED last
          /\ (pc'[p] \in Gone <=> pc[p] \in Gone) \/ Begins(p)
      BY <1>0, <2>2, HiddenSteps
    <3>2. Alike
      BY <2>1, <3>1 DEF Alike, OwnKept
    <3>3. CASE pc'[p] \in Gone <=> pc[p] \in Gone
      BY <1>1, <2>1, <3>1, <3>2, <3>3 DEF SameAlive
    <3>4. CASE Begins(p)
      <4>1. p \notin Alive /\ Alive' = Alive \union {p}
        BY <2>1, <3>4 DEF Begins, Alive
      <4>2. Abs!Begin(p)
        BY <3>1, <3>2, <4>1, MemoryKept DEF Abs!Begin
      <4> QED BY <4>2 DEF Abs!AbsNext
    <3> QED BY <3>1, <3>3, <3>4
  <2>3. ASSUME NEW va \in VAddrs, LoadPage(p, va) PROVE Abs!Load(p, va)
    <3>1. /\ pc[p] = "user" /\ UNCHANGED vars
          /\ UNCHANGED <<mem, swapfile, e_iobuf>>
          /\ last' = [last EXCEPT ![p] = <<va, PageContent(p, va)>>]
      BY <1>0, <2>3, LoadReads
    <3>2. Alike
      <4>1. ASSUME NEW q \in AddrSpaces PROVE OwnKept(q)
        BY <1>0, <3>1, NothingMoved DEF vars
      <4> QED BY <4>1 DEF Alike, OwnKept
    <3>3. UNCHANGED <<Alive, Memory>> /\ p \in Alive
      BY <3>1, <3>2, MemoryKept DEF Alive, vars
    <3>4. Memory[p][va] = PageContent(p, va)
      BY DEF Memory
    <3> QED BY <3>1, <3>3, <3>4 DEF Abs!Load
  <2>4. ASSUME NEW va \in VAddrs, StorePage(p, va)
        PROVE  \E v \in Contents : Abs!Store(p, va, v)
    <3>1. PICK v \in Stored(p) : /\ PageContent(p, va)' = v
                                 /\ last' = [last EXCEPT ![p] = <<va, v>>]
      BY <1>0, <2>4, StoreWrites
    <3>2. \A w \in VAddrs \ {va} : PageContent(p, w)' = PageContent(p, w)
      BY <1>0, <2>4, StoreWrites
    <3>3. Memory' = [Memory EXCEPT ![p][va] = v]
      BY <2>1, <3>1, <3>2 DEF Memory
    <3>4. UNCHANGED Alive /\ p \in Alive
      BY <2>4 DEF StorePage, At, Alive, vars
    <3>5. Abs!Store(p, va, v)
      BY <3>1, <3>3, <3>4 DEF Abs!Store
    <3> QED BY <3>1, <3>5, ContentTypes
  <2>5. ASSUME DataAsDestroy(p) PROVE Abs!End(p)
    <3>1. /\ pc[p] = "user" /\ pc'[p] = "exit"
          /\ \A va \in VAddrs : PageContent(p, va)' = Image(p, va)
      BY <1>0, <2>5, DestroyClears
    <3>2. p \in Alive /\ Alive' = Alive \ {p}
      BY <2>1, <3>1 DEF Alive
    <3>3. Memory' = [Memory EXCEPT ![p] = [va \in VAddrs |-> Image(p, va)]]
      BY <2>1, <3>1 DEF Memory
    <3>4. last' = [last EXCEPT ![p] = NoAccess]
      BY <2>5 DEF DataAsDestroy
    <3> QED BY <3>2, <3>3, <3>4 DEF Abs!End, Abs!Nothing
  <2> QED BY <1>2, <2>2, <2>3, <2>4, <2>5 DEF DataStep, Abs!AbsNext
<1>3. ASSUME NEW f \in Frames,
             \/ free_kpages(f) /\ UNCHANGED datavars
             \/ \E n \in 1 .. KMaxPages : DataKalloc(n, f)
      PROVE  UNCHANGED <<Alive, Memory, last>>
  <2>1. Alike
    BY <1>0, <1>3, KernelKeeps DEF Alike, OwnKept
  <2>2. UNCHANGED <<pc, last>>
    BY <1>3 DEF free_kpages, DataKalloc, alloc_kpages, datavars
  <2> QED BY <1>1, <2>1, <2>2 DEF SameAlive
<1>4. CASE UNCHANGED vars /\ UNCHANGED datavars
  <2>1. ASSUME NEW q \in AddrSpaces PROVE OwnKept(q)
    BY <1>0, <1>4, NothingMoved DEF vars, datavars
  <2> QED BY <1>1, <1>4, <2>1 DEF Alike, OwnKept, SameAlive, vars, datavars
<1> QED BY <1>2, <1>3, <1>4 DEF DataNext, DataStep, Halted

LEMMA DataInitMaps == DataInit => Abs!AbsInit
<1> SUFFICES ASSUME DataInit PROVE Abs!AbsInit
  OBVIOUS
<1>1. PInv /\ \A p \in AddrSpaces, va \in VAddrs : Located(p, va)
  BY DataInvInit, ContentIsLocated DEF DataInv, PagesLocated
<1>2. \A p \in AddrSpaces : pc[p] = "none" /\ \A va \in VAddrs : pt[p][va] = pt_create
  BY DEF DataInit, Init
<1>3. \A p \in AddrSpaces, va \in VAddrs : PageContent(p, va) = Image(p, va)
  BY <1>1, <1>2 DEF Located, Filling, pt_create
<1>4. Alive = {}
  BY <1>2 DEF Alive
<1>5. Memory = [p \in AddrSpaces |-> [va \in VAddrs |-> Image(p, va)]]
  BY <1>3 DEF Memory
<1>6. last = [p \in AddrSpaces |-> NoAccess]
  BY DEF DataInit
<1> QED BY <1>4, <1>5, <1>6 DEF Abs!AbsInit, Abs!Nothing

\* A lemma for the case of one process below: with several nothing in the code
\* keeps their transfers apart (see PagesAtRestStay for what holds then).
LEMMA MemoryIsPrivate ==
  ASSUME ~ ElfErrors
  PROVE  DataSpec /\ []OneTransfer => PrivateMemory
<1>1. DataSpec /\ []OneTransfer => []DataInv
  BY DataInvInit, DataInvNext, PTL DEF DataSpec
<1>2. DataSpec /\ []OneTransfer =>
        Abs!AbsInit /\ [][Abs!AbsNext]_(Abs!absvars)
  BY <1>1, DataInitMaps, DataStepMaps, PTL DEF DataSpec
<1> QED BY <1>2 DEF PrivateMemory, Abs!AbsSpec

\* With one process the condition holds by itself, and vm_fault implements a
\* private memory with nothing assumed of e_lock.
THEOREM OneProcessKeepsItsMemory ==
  ASSUME ~ ElfErrors, \A p, q \in AddrSpaces : p = q
  PROVE  DataSpec => PrivateMemory
<1>1. OneTransfer
  BY DEF OneTransfer
<1>2. DataSpec => []OneTransfer
  BY <1>1, PTL
<1> QED BY <1>2, MemoryIsPrivate, PTL

-----------------------------------------------------------------------------
(***************************************************************************)
(* Overlapping transfers.                                                  *)
(***************************************************************************)

LEMMA SlotsRightNext ==
  ASSUME PInv, NEW p \in AddrSpaces, ProcessStep(p),
         \A q \in AddrSpaces : SlotRight(q)
  PROVE  \A q \in AddrSpaces : SlotRight(q)'
<1>0. TypeOK /\ LocalsRight(p) /\ SlotRight(p)
  BY DEF PInv, PagesRight
<1>1. ASSUME NEW q \in AddrSpaces \ {p} PROVE SlotRight(q)'
  <2>1. /\ pc'[q] = pc[q] /\ loc'[q] = loc[q]
        /\ \A i \in Slots, va \in VAddrs : Holds(i, q, va) => Holds(i, q, va)'
    BY StepLeavesOthers
  <2>2. pc[q] \in {"out_copy", "out_write", "remap"} => loc[q].victim \in VAddrs
    BY DEF PInv, PagesRight, LocalsRight, Giving
  <2> QED BY <2>1, <2>2 DEF SlotRight
<1>2. SlotRight(p)'
  <2>1. CASE SwapOutSlot(p)
    <3>1. PICK i \in Slots : /\ swap_out_slot(p, loc[p].victim, i)
                             /\ loc' = [loc EXCEPT ![p].slot = i]
      BY <2>1 DEF SwapOutSlot
    <3>2. loc'[p].victim = loc[p].victim /\ loc'[p].slot = i
      BY <1>0, <3>1 DEF TypeOK, Locals
    <3>3. PICK v : v = loc[p].victim
      OBVIOUS
    <3>4. swapspace' = [swapspace EXCEPT ![i] = [as |-> p, vaddr |-> v]]
      BY <3>1, <3>3 DEF swap_out_slot
    <3>5. swapspace'[i].as = p /\ swapspace'[i].vaddr = v
      BY <1>0, <3>4 DEF TypeOK, SwapTypeOK
    <3>6. pc'[p] = "out_copy"
      BY <1>0, <2>1 DEF SwapOutSlot, Goto, TypeOK
    <3> QED BY <3>2, <3>3, <3>5, <3>6 DEF SlotRight, Holds
  <2>2. CASE SwapInSlot(p)
    <3>1. PICK i \in Slots : loc' = [loc EXCEPT ![p].slot = i]
      BY <2>2 DEF SwapInSlot
    <3>2. loc'[p].slot = i
      BY <1>0, <3>1 DEF TypeOK, Locals
    <3>3. pc'[p] = "in_read"
      BY <1>0, <2>2 DEF SwapInSlot, Goto, TypeOK
    <3> QED BY <3>2, <3>3 DEF SlotRight
  <2>3. CASE SwapOutCopy(p) \/ SwapOutWrite(p)
    <3>1. /\ pc[p] \in {"out_copy", "out_write"}
          /\ pc'[p] \in {"out_write", "remap"}
          /\ UNCHANGED <<loc, swapspace>>
      BY <1>0, <2>3 DEF SwapOutCopy, SwapOutWrite, At, Goto, TypeOK
    <3> QED BY <1>0, <3>1 DEF SlotRight, Holds
  <2>4. CASE \/ UserReadOnly(p) \/ UserSegv(p) \/ CopyoutFails(p)
             \/ (\E va \in VAddrs : UserReload(p, va))
             \/ EvictPanics(p) \/ SwapOutPanics(p) \/ SwapOutError(p)
             \/ SwapInError(p) \/ NestedFault(p) \/ thread_switch(p)
    <3>1. UNCHANGED <<pc, loc, swapspace>>
      BY <2>4
      DEF UserReadOnly, UserSegv, CopyoutFails, UserReload, Reload, EvictPanics,
          SwapOutPanics, SwapOutError, SwapInError, NestedFault, thread_switch,
          Panic, vars
    <3> QED BY <1>0, <3>1 DEF SlotRight, Holds
  <2>5. CASE \/ runprogram(p) \/ (\E va \in VAddrs : UserFault(p, va))
             \/ FrameAlloc(p) \/ FrameAllocFails(p) \/ Evict(p) \/ Remap(p)
             \/ TlbReplace(p) \/ SwapInRead(p) \/ SwapInCopy(p) \/ Bzero(p)
             \/ ElfRead(p) \/ ElfReadError(p) \/ ElfCopy(p) \/ Clean(p)
             \/ TlbWrite(p) \/ AsDestroyFrames(p) \/ AsDestroySwap(p)
    <3>1. pc'[p] \notin {"out_copy", "out_write", "remap", "in_read"}
      BY <1>0, <2>5
      DEF runprogram, UserFault, FrameAlloc, FrameAllocFails, Evict, Remap,
          TlbReplace, SwapInRead, SwapInCopy, Bzero, ElfRead, ElfReadError,
          ElfCopy, Clean, TlbWrite, AsDestroyFrames, AsDestroySwap, Fill, Goto,
          TypeOK
    <3> QED BY <3>1 DEF SlotRight
  <2> QED
    BY <2>1, <2>2, <2>3, <2>4, <2>5 DEF ProcessStep, UserStep, FaultStep
<1> QED BY <1>1, <1>2

LEMMA DataStepIsProcessStep ==
  ASSUME NEW p \in AddrSpaces, DataStep(p)
  PROVE  ProcessStep(p) \/ UNCHANGED vars
BY DEF DataStep, LoadPage, StorePage, DataSwapOutCopy, DataSwapOutWrite,
       DataSwapInRead, DataSwapInCopy, DataBzero, DataElfRead, DataElfCopy,
       DataAsDestroy, QuietStep, ProcessStep, FaultStep

LEMMA RestInvNext == RestInv /\ [DataNext]_<<vars, datavars>> => RestInv'
<1> SUFFICES ASSUME RestInv, [DataNext]_<<vars, datavars>> PROVE RestInv'
  OBVIOUS
<1>1. PInv' /\ DataTypes'
  BY DataStepIsStep, PInvNext, DataTypesNext DEF RestInv
<1>2. ASSUME UNCHANGED <<pc, loc, swapspace>>, NEW q \in AddrSpaces
      PROVE  SlotRight(q)'
  BY <1>2 DEF RestInv, SlotRight, Holds
<1>3. ASSUME NEW p \in AddrSpaces, DataStep(p), NEW q \in AddrSpaces
      PROVE  SlotRight(q)'
  <2>1. CASE ProcessStep(p)
    BY <2>1, SlotsRightNext DEF RestInv
  <2>2. CASE UNCHANGED vars
    BY <1>2, <2>2 DEF vars
  <2> QED BY <1>3, <2>1, <2>2, DataStepIsProcessStep
<1>4. ASSUME NEW f \in Frames,
             \/ free_kpages(f) /\ UNCHANGED datavars
             \/ \E n \in 1 .. KMaxPages : DataKalloc(n, f)
      PROVE  UNCHANGED <<pc, loc, swapspace>>
  BY <1>4 DEF free_kpages, DataKalloc, alloc_kpages
<1>5. CASE UNCHANGED vars
  BY <1>1, <1>2, <1>5 DEF RestInv, vars
<1> QED
  BY <1>1, <1>2, <1>3, <1>4, <1>5 DEF RestInv, DataNext, DataStep, Halted

LEMMA RestInvInit == DataInit => RestInv
BY DataInvInit DEF DataInv, DataRight, RestInv, SlotRight

-----------------------------------------------------------------------------
\* A page at rest stays where it is.
LEMMA RestStays ==
  ASSUME PInv, NEW p \in AddrSpaces, ProcessStep(p), NEW q \in AddrSpaces,
         NEW va \in VAddrs, AtRest(q, va), AtRest(q, va)'
  PROVE  /\ pt'[q][va] = pt[q][va]
         /\ \A i \in Slots : Holds(i, q, va) => Holds(i, q, va)'
<1>0. TypeOK /\ LocalsRight(p)
  BY DEF PInv, PagesRight
<1>1. CASE q # p
  BY <1>1, StepLeavesOthers
<1>2. CASE q = p
  <2>0. /\ pc[p] \notin {"none", "exit"} /\ pc'[p] \notin {"none", "exit"}
        /\ ~ Filling(p, va) /\ ~ Filling(p, va)' /\ ~ Leaving(p, va)
    BY <1>2 DEF AtRest, Alive
  <2>1. CASE FrameAlloc(p) \/ TlbReplace(p)
    <3>va. PICK w \in VAddrs : w = loc[p].va
      BY <1>0, <2>1 DEF FrameAlloc, TlbReplace, At, LocalsRight, Outside
    <3>1. PICK f \in Frames :
            /\ pt' = pt_map(p, w, f)
            /\ loc' = loc \/ loc' = [loc EXCEPT ![p].frame = f]
      BY <1>0, <2>1, <3>va DEF FrameAlloc, TlbReplace, At, LocalsRight
    <3>2. loc'[p].va = w
      BY <1>0, <3>va, <3>1, LocFrame
    <3>3. pc'[p] \in {"in_slot", "bzero"}
      BY <1>0, <2>1, PcSet DEF FrameAlloc, TlbReplace, Fill, PCs
    <3>4. va # w
      BY <2>0, <3>2, <3>3 DEF Filling
    <3>5. pt'[p][va] = pt[p][va]
      BY <1>0, <3>1, <3>4, PtMapped
    <3> QED BY <1>2, <2>1, <3>5 DEF FrameAlloc, TlbReplace, Holds
  <2>2. CASE Remap(p)
    <3>1. /\ pc[p] = "remap" /\ loc[p].victim \in VAddrs
          /\ UNCHANGED swapspace /\ pt' = pt_update(p, loc[p].victim)
      BY <1>0, <2>2 DEF Remap, At, LocalsRight, Giving
    <3>2. va # loc[p].victim
      BY <2>0, <3>1 DEF Leaving
    <3>3. pt'[p][va] = pt[p][va]
      BY <1>0, <3>1, <3>2, PtUpdated
    <3> QED BY <1>2, <3>1, <3>3 DEF Holds
  <2>3. CASE SwapOutSlot(p)
    <3>1. PICK k \in Slots : swap_out_slot(p, loc[p].victim, k)
      BY <2>3 DEF SwapOutSlot
    <3>2. \A i \in Slots : swapspace[i].as = p => swapspace'[i] = swapspace[i]
      BY <1>0, <3>1, CoremapAssumption DEF swap_out_slot, TypeOK, SwapTypeOK
    <3> QED BY <1>2, <2>3, <3>2 DEF SwapOutSlot, Holds
  <2>4. CASE SwapInSlot(p)
    <3>1. pc[p] = "in_slot" /\ UNCHANGED pt
      BY <2>4 DEF SwapInSlot, At
    <3>2. PICK k \in Slots : swap_in_slot(p, loc[p].va, k)
      BY <2>4 DEF SwapInSlot
    <3>3. va # loc[p].va
      BY <2>0, <3>1 DEF Filling
    <3>4. \A i \in Slots : Holds(i, p, va) => swapspace'[i] = swapspace[i]
      BY <1>0, <3>2, <3>3 DEF swap_in_slot, Holds, TypeOK, SwapTypeOK
    <3> QED BY <1>2, <3>1, <3>4 DEF Holds
  <2>5. CASE runprogram(p) \/ AsDestroyFrames(p) \/ AsDestroySwap(p)
    <3>1. pc[p] \in {"none", "exit"} \/ pc'[p] = "exit"
      BY <1>0, <2>5
      DEF runprogram, AsDestroyFrames, AsDestroySwap, At, Goto, TypeOK
    <3> QED BY <2>0, <3>1
  <2>6. CASE \/ UserReadOnly(p) \/ UserSegv(p) \/ CopyoutFails(p)
             \/ (\E w \in VAddrs : UserReload(p, w) \/ UserFault(p, w))
             \/ FrameAllocFails(p) \/ Evict(p) \/ EvictPanics(p)
             \/ SwapOutPanics(p) \/ SwapOutCopy(p) \/ SwapOutWrite(p)
             \/ SwapOutError(p) \/ SwapInRead(p) \/ SwapInError(p)
             \/ SwapInCopy(p) \/ Bzero(p) \/ ElfRead(p) \/ ElfReadError(p)
             \/ ElfCopy(p) \/ NestedFault(p) \/ Clean(p) \/ TlbWrite(p)
             \/ thread_switch(p)
    <3>1. UNCHANGED <<pt, swapspace>>
      BY <2>6
      DEF UserReadOnly, UserSegv, CopyoutFails, UserReload, UserFault,
          FrameAllocFails, Evict, EvictPanics, SwapOutPanics, SwapOutCopy,
          SwapOutWrite, SwapOutError, SwapInRead, SwapInError, SwapInCopy,
          Bzero, ElfRead, ElfReadError, ElfCopy, NestedFault, Reload, Clean,
          TlbWrite, thread_switch, Panic, vars
    <3> QED BY <3>1 DEF Holds
  <2> QED
    BY <2>1, <2>2, <2>3, <2>4, <2>5, <2>6 DEF ProcessStep, UserStep, FaultStep
<1> QED BY <1>1, <1>2

\* ... and keeps its content when its frame and its slot keep theirs.
LEMMA RestKeeps ==
  ASSUME PInv, PInv', NEW q \in AddrSpaces, NEW va \in VAddrs,
         AtRest(q, va), AtRest(q, va)',
         pt'[q][va] = pt[q][va],
         \A i \in Slots : Holds(i, q, va) =>
           Holds(i, q, va)' /\ swapfile'[i] = swapfile[i],
         pt[q][va].in_mem => mem'[pt[q][va].frame] = mem[pt[q][va].frame]
  PROVE  PageContent(q, va)' = PageContent(q, va)
<1>1. ~ Filling(q, va) /\ ~ Filling(q, va)'
  BY DEF AtRest
<1> QED BY <1>1, PageKept

\* The steps that store to memory store to a page that is being filled, or to
\* the page that the program names.
LEMMA RestFrames ==
  ASSUME RestInv, NEW p \in AddrSpaces, DataStep(p), NEW q \in AddrSpaces,
         NEW va \in VAddrs, AtRest(q, va), pt[q][va].in_mem
  PROVE  \/ mem'[pt[q][va].frame] = mem[pt[q][va].frame]
         \/ q = p /\ StorePage(p, va)
<1>0. PInv /\ mem \in [Frames -> Contents]
  BY DEF RestInv, DataTypes
<1>1. ASSUME NEW w \in VAddrs, StorePage(p, w), ~ (q = p /\ w = va)
      PROVE  mem'[pt[q][va].frame] = mem[pt[q][va].frame]
  <2>1. /\ pc[p] = "user" /\ pt[p][w].in_mem
        /\ \E v \in Stored(p) : mem' = [mem EXCEPT ![pt[p][w].frame] = v]
    BY <1>0, <1>1, StoresToOwn
  <2>2. ~ Leaving(p, w)
    BY <2>1 DEF Leaving
  <2>3. PICK v : mem' = [mem EXCEPT ![pt[p][w].frame] = v]
    BY <2>1
  <2>4. \A r \in AddrSpaces, u \in VAddrs :
          pt[r][u].in_mem /\ ~ (r = p /\ u = w) =>
            mem'[pt[r][u].frame] = mem[pt[r][u].frame]
    BY <1>0, <2>1, <2>2, <2>3, StoreIsApart
  <2> QED BY <1>1, <2>4
<1>2. CASE DataSwapInCopy(p) \/ DataBzero(p) \/ DataElfCopy(p)
  <2>1. cur = p /\ pc[p] \in {"in_copy", "bzero", "elf_copy"}
    BY <1>2
    DEF DataSwapInCopy, DataBzero, DataElfCopy, SwapInCopy, Bzero, ElfCopy, At
  <2>2. PICK d : FillWith(p, d)
    BY <1>2 DEF DataSwapInCopy, DataBzero, DataElfCopy
  <2>3. PICK w \in VAddrs :
          /\ w = loc[p].va /\ Filling(p, w) /\ pt[p][w].in_mem
          /\ mem' = [mem EXCEPT ![pt[p][w].frame] = d]
    BY <1>0, <2>1, <2>2, FillsOwn
  <2>4. ~ (q = p /\ va = w)
    BY <2>3 DEF AtRest
  <2>5. ~ Leaving(p, w)
    BY <2>1 DEF Leaving
  <2>6. \A r \in AddrSpaces, u \in VAddrs :
          pt[r][u].in_mem /\ ~ (r = p /\ u = w) =>
            mem'[pt[r][u].frame] = mem[pt[r][u].frame]
    BY <1>0, <2>3, <2>5, StoreIsApart
  <2> QED BY <2>4, <2>6
<1>3. CASE \/ (\E w \in VAddrs : LoadPage(p, w))
           \/ DataSwapOutCopy(p) \/ DataSwapOutWrite(p) \/ DataSwapInRead(p)
           \/ DataElfRead(p) \/ DataAsDestroy(p)
           \/ QuietStep(p) /\ UNCHANGED datavars
  BY <1>3
  DEF LoadPage, DataSwapOutCopy, DataSwapOutWrite, DataSwapInRead, DataElfRead,
      DataAsDestroy, Buffer, datavars
<1> QED BY <1>1, <1>2, <1>3 DEF DataStep

\* The device writes to the slot of a page that is leaving.
LEMMA RestSlots ==
  ASSUME RestInv, NEW p \in AddrSpaces, DataStep(p), NEW q \in AddrSpaces,
         NEW va \in VAddrs, AtRest(q, va), NEW i \in Slots, Holds(i, q, va)
  PROVE  swapfile'[i] = swapfile[i]
<1>1. CASE DataSwapOutWrite(p)
  <2>1. /\ pc[p] = "out_write"
        /\ swapfile' = [swapfile EXCEPT ![loc[p].slot] = e_iobuf]
    BY <1>1 DEF DataSwapOutWrite, SwapOutWrite, At
  <2>2. Holds(loc[p].slot, p, loc[p].victim)
    BY <2>1 DEF RestInv, SlotRight
  <2>3. loc[p].slot # i
    BY <2>1, <2>2 DEF Holds, AtRest, Leaving
  <2> QED BY <2>1, <2>3 DEF RestInv, DataTypes
<1>2. CASE ~ DataSwapOutWrite(p)
  BY <1>2
  DEF DataStep, LoadPage, StorePage, DataSwapOutCopy, DataSwapInRead,
      DataSwapInCopy, DataBzero, DataElfRead, DataElfCopy, DataAsDestroy,
      Buffer, FillWith, datavars
<1> QED BY <1>1, <1>2

LEMMA RestStep ==
  ASSUME RestInv, [DataNext]_<<vars, datavars>>, NEW q \in AddrSpaces,
         NEW va \in VAddrs, AtRest(q, va), AtRest(q, va)'
  PROVE  PageContent(q, va)' = PageContent(q, va) \/ StorePage(q, va)
<1>0. PInv /\ PInv'
  BY DataStepIsStep, PInvNext DEF RestInv
<1>1. ASSUME UNCHANGED <<pt, swapspace, swapfile>>,
             pt[q][va].in_mem => mem'[pt[q][va].frame] = mem[pt[q][va].frame]
      PROVE  PageContent(q, va)' = PageContent(q, va)
  BY <1>0, <1>1, RestKeeps DEF Holds
<1>2. ASSUME NEW p \in AddrSpaces, DataStep(p), ~ StorePage(q, va)
      PROVE  PageContent(q, va)' = PageContent(q, va)
  <2>1. /\ pt'[q][va] = pt[q][va]
        /\ \A i \in Slots : Holds(i, q, va) => Holds(i, q, va)'
    <3>1. CASE ProcessStep(p)
      BY <1>0, <3>1, RestStays
    <3>2. CASE UNCHANGED vars
      BY <3>2 DEF vars, Holds
    <3> QED BY <1>2, <3>1, <3>2, DataStepIsProcessStep
  <2>2. \A i \in Slots : Holds(i, q, va) => swapfile'[i] = swapfile[i]
    BY <1>2, RestSlots
  <2>3. pt[q][va].in_mem => mem'[pt[q][va].frame] = mem[pt[q][va].frame]
    BY <1>2, RestFrames
  <2> QED BY <1>0, <2>1, <2>2, <2>3, RestKeeps
<1>3. ASSUME NEW f \in Frames,
             \/ free_kpages(f) /\ UNCHANGED datavars
             \/ \E n \in 1 .. KMaxPages : DataKalloc(n, f)
      PROVE  PageContent(q, va)' = PageContent(q, va)
  <2>1. CASE free_kpages(f) /\ UNCHANGED datavars
    BY <1>1, <2>1 DEF free_kpages, datavars
  <2>2. ASSUME NEW n \in 1 .. KMaxPages, DataKalloc(n, f)
        PROVE  PageContent(q, va)' = PageContent(q, va)
    <3>1. /\ UNCHANGED <<pt, swapspace, swapfile>>
          /\ \A i \in f .. f + n - 1 : coremap[i].state = FREE
          /\ mem' = [i \in Frames |->
                       IF i \in f .. f + n - 1 THEN KernelData ELSE mem[i]]
      BY <2>2 DEF DataKalloc, alloc_kpages, frame_kalloc, FirstFit, RunIsFree
    <3>2. pt[q][va].in_mem => /\ pt[q][va].frame \in Frames
                              /\ coremap[pt[q][va].frame].state # FREE
      BY <1>0, FrameIsOwn
    <3>3. pt[q][va].in_mem => mem'[pt[q][va].frame] = mem[pt[q][va].frame]
      BY <3>1, <3>2
    <3> QED BY <1>1, <3>1, <3>3
  <2> QED BY <1>3, <2>1, <2>2
<1>4. CASE UNCHANGED vars /\ UNCHANGED datavars
  BY <1>1, <1>4 DEF vars, datavars
<1> QED BY <1>2, <1>3, <1>4 DEF DataNext, DataStep, Halted

\* However the transfers of any number of processes overlap, the contents of
\* pages that are not being moved are safe: in memory and in the swap file
\* they change only when their process stores to them, and loads return them.
\* (What overlapping transfers do to a page that is being moved, the runs
\* paging_buffer_race and paging_slot_race show.)
THEOREM PagesAtRestStay == DataSpec => PagesAtRestKept
<1>1. RestInv /\ [DataNext]_<<vars, datavars>> =>
        [\A p \in AddrSpaces, va \in VAddrs :
           /\ AtRest(p, va) /\ AtRest(p, va)' =>
                PageContent(p, va)' = PageContent(p, va) \/ StorePage(p, va)
           /\ LoadPage(p, va) =>
                last' = [last EXCEPT ![p] = <<va, PageContent(p, va)>>]
        ]_<<vars, datavars>>
  BY RestStep, LoadReads DEF RestInv
<1> QED BY <1>1, RestInvInit, RestInvNext, PTL DEF DataSpec, PagesAtRestKept
=============================================================================
