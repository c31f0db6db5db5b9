------------------------------ MODULE ElfPage -------------------------------
(***************************************************************************)
(* What a page of an executable holds once vm_fault has loaded it: the     *)
(* geometry of as_define_region, compute_memsz, compute_offset and         *)
(* load_page_from_elf, byte by byte, for one segment of an executable and  *)
(* any order in which its pages are touched.                               *)
(*                                                                         *)
(* A byte of memory is described by where it comes from: its index in the  *)
(* file, ZERO or STORED by the program.  The segment is writable and its   *)
(* first page is at address 0.                                             *)
(***************************************************************************)
EXTENDS Integers

CONSTANTS
  PAGE_SIZE,
  MaxSize,        \* bound of the model: largest p_memsz
  FileSize,       \* length of the executable
  Bss,            \* segments may have p_filesz < p_memsz
  SmallCrossing,  \* segments shorter than a page may cross a page boundary
  ZERO, STORED

ASSUME ElfAssumption ==
  /\ PAGE_SIZE \in Nat \ {0} /\ MaxSize \in Nat \ {0} /\ FileSize \in Nat
  /\ Bss \in BOOLEAN /\ SmallCrossing \in BOOLEAN
  /\ ZERO # STORED /\ ZERO \notin Int /\ STORED \notin Int

VARIABLES
  ph,             \* the program header
  loaded,         \* the pages of the segment that are in memory, from 1
  bytes,          \* what is at each address of those pages
  stored          \* the address that the program stored to, or -1

elfvars == <<ph, loaded, bytes, stored>>

InPage(x) == x % PAGE_SIZE            \* x & ~PAGE_FRAME
PageFrame(x) == x - InPage(x)         \* x & PAGE_FRAME
Crossing(h) == InPage(h.p_vaddr) + h.p_memsz > PAGE_SIZE

\* The headers of well-formed executables: the address and the offset agree
\* modulo the page size and the segment is inside the file.
Headers ==
  {h \in [p_vaddr : 0 .. PAGE_SIZE - 1, p_offset : 0 .. 2 * PAGE_SIZE - 1,
          p_filesz : 1 .. MaxSize, p_memsz : 1 .. MaxSize] :
     /\ InPage(h.p_vaddr) = InPage(h.p_offset)
     /\ h.p_filesz <= h.p_memsz
     /\ h.p_offset + h.p_filesz <= FileSize
     /\ ~ Bss => h.p_filesz = h.p_memsz
     /\ ~ SmallCrossing => ~ (h.p_memsz < PAGE_SIZE /\ Crossing(h))}

-----------------------------------------------------------------------------
\* as_define_region: the number of pages; size and offset of the segment are
\* p_memsz and p_offset.
npages(h) ==
  PageFrame(h.p_memsz + InPage(h.p_vaddr) + PAGE_SIZE - 1) \div PAGE_SIZE

\* Mutant: the offset of the first byte is not taken off the rest.
compute_memsz_Resid(h, i) ==
  IF h.p_memsz < PAGE_SIZE THEN h.p_memsz
  ELSE IF i = 1 THEN PAGE_SIZE - InPage(h.p_offset)
  ELSE IF i = npages(h) THEN PAGE_SIZE - (npages(h) * PAGE_SIZE - h.p_memsz)
  ELSE PAGE_SIZE

compute_memsz(h, i) ==
  IF h.p_memsz < PAGE_SIZE THEN h.p_memsz
  ELSE IF i = 1 THEN PAGE_SIZE - InPage(h.p_offset)
  ELSE IF i = npages(h)
    THEN LET resid == npages(h) * PAGE_SIZE - h.p_memsz
         IN  PAGE_SIZE - (resid - InPage(h.p_offset))
  ELSE PAGE_SIZE

compute_offset(offset, i) ==
  LET ret == offset + (i - 1) * PAGE_SIZE
  IN  IF i # 1 THEN PageFrame(ret) ELSE ret

Base(i) == (i - 1) * PAGE_SIZE
Page(i) == Base(i) .. Base(i) + PAGE_SIZE - 1

bzero(b, i) == [a \in DOMAIN b |-> IF a \in Page(i) THEN ZERO ELSE b[a]]

\* Mutant: every page starts at the offset of the first.
CopyStart_EveryPage(h, i) == Base(i) + InPage(h.p_offset)

\* Where the copy of page i starts and how long it is (filesz = memsz).
CopyStart(h, i) == Base(i) + (IF i = 1 THEN InPage(h.p_offset) ELSE 0)
CopyRange(h, i) == CopyStart(h, i) .. CopyStart(h, i) + compute_memsz(h, i) - 1

\* load_page_from_elf: the read ends early at the end of the file.
load_page_from_elf(h, b, i) ==
  [a \in DOMAIN b |->
     LET src == compute_offset(h.p_offset, i) + (a - CopyStart(h, i))
     IN  IF a \in CopyRange(h, i) /\ src < FileSize THEN src ELSE b[a]]

\* A copy that runs on into page i + 1 faults on it if it is not in memory.
Spills(h, i) == CopyRange(h, i) \cap Page(i + 1) # {}

vm_fault(i) ==
  /\ i \in 1 .. npages(ph) \ loaded
  /\ LET nested == {j \in {i + 1} \ loaded : Spills(ph, i)}
         b == bzero(bytes, i)
     IN  /\ bytes' = load_page_from_elf(ph,
                       IF nested = {} THEN b
                         ELSE load_page_from_elf(ph, bzero(b, i + 1), i + 1), i)
         /\ loaded' = loaded \union {i} \union nested
  /\ UNCHANGED <<ph, stored>>

\* The program stores to a byte of the segment, once.
UserStore(a) ==
  /\ stored = -1
  /\ \E i \in loaded : a \in Page(i)
  /\ a \in ph.p_vaddr .. ph.p_vaddr + ph.p_memsz - 1
  /\ bytes' = [bytes EXCEPT ![a] = STORED]
  /\ stored' = a
  /\ UNCHANGED <<ph, loaded>>

Addresses == 0 .. PAGE_SIZE + MaxSize + PAGE_SIZE

ElfInit ==
  /\ ph \in Headers
  /\ loaded = {}
  /\ bytes = [a \in Addresses |-> ZERO]
  /\ stored = -1

ElfNext ==
  \/ \E i \in 1 .. npages(ph) : vm_fault(i)
  \/ \E a \in Addresses : UserStore(a)

ElfSpec == ElfInit /\ [][ElfNext]_elfvars

-----------------------------------------------------------------------------
\* The addresses of the segment that are in loaded pages and that the
\* program has left alone.
Untouched ==
  {a \in ph.p_vaddr .. ph.p_vaddr + ph.p_memsz - 1 :
     a # stored /\ \E i \in loaded : a \in Page(i)}

\* The executable's bytes are where its header puts them, whatever the
\* order of the page faults.
FileBytesInPlace ==
  \A a \in Untouched : a - ph.p_vaddr < ph.p_filesz =>
    bytes[a] = ph.p_offset + (a - ph.p_vaddr)

\* "FILESIZE may be less than MEMSIZE; if so the remaining portion of the
\* in-memory segment should be zero-filled" (loadelf.c).
BssZeroFilled ==
  \A a \in Untouched : a - ph.p_vaddr >= ph.p_filesz => bytes[a] = ZERO

\* "carica solo la pagina che ha causato il page fault" (loadelf.c): loading
\* a page changes no byte of a page that was in memory before, so that what
\* the program stored there stays.
LoadsOnlyFaultingPage ==
  [][loaded' # loaded =>
       \A i \in loaded : \A a \in Page(i) : bytes'[a] = bytes[a]]_elfvars
=============================================================================
