--------------------------- MODULE ElfPageProofs ----------------------------
(***************************************************************************)
(* Proofs about what a page of an executable holds, for any page size, any *)
(* length of the file and any segment whose header Headers allows, with    *)
(* p_filesz = p_memsz or not.  A segment shorter than a page that crosses  *)
(* a page boundary (Short) is a case of its own: compute_memsz returns     *)
(* p_memsz for both of its pages, so that the copy into the first runs on  *)
(* into the second.  Its bytes are still the right ones, but those that    *)
(* the program has stored are lost; the hypothesis ~ SmallCrossing of the  *)
(* second theorem leaves such segments out.                                *)
(***************************************************************************)
EXTENDS ElfPage, TLAPS

-----------------------------------------------------------------------------
(***************************************************************************)
(* Arithmetic of pages.                                                    *)
(***************************************************************************)

\* An address is the start of its page and the offset in it.
LEMMA DivMod ==
  ASSUME NEW P \in Nat \ {0}, NEW x \in Int
  PROVE  /\ x = (x \div P) * P + (x % P)
         /\ x % P \in 0 .. P - 1 /\ x \div P \in Int
OBVIOUS

\* ... in one way only.
LEMMA DivModUnique ==
  ASSUME NEW P \in Nat \ {0}, NEW q \in Int, NEW r \in 0 .. P - 1
  PROVE  (q * P + r) % P = r /\ (q * P + r) \div P = q
OBVIOUS

\* Pages follow one another.
LEMMA Multiples ==
  ASSUME NEW P \in Nat \ {0}, NEW i \in Int, NEW j \in Int, i < j
  PROVE  i * P + P <= j * P
OBVIOUS

\* Whole pages may be taken off an address without changing its offset.
LEMMA ModShift ==
  ASSUME NEW P \in Nat \ {0}, NEW x \in Int, NEW i \in Int
  PROVE  (x + i * P) % P = x % P
<1>1. /\ x = (x \div P) * P + (x % P)
      /\ x % P \in 0 .. P - 1 /\ x \div P \in Int
  BY DivMod
<1>2. x + i * P = ((x \div P) + i) * P + (x % P)
  BY <1>1
<1>3. (x \div P) + i \in Int
  BY <1>1
<1> QED
  BY <1>1, <1>2, <1>3, DivModUnique

\* Where page i is.
LEMMA PageBounds ==
  ASSUME NEW i \in Int
  PROVE  /\ Base(i) \in Int /\ Base(i + 1) = Base(i) + PAGE_SIZE
         /\ Base(1) = 0
         /\ \A a \in Int : a \in Page(i) <=> Base(i) <= a /\ a < Base(i) + PAGE_SIZE
BY ElfAssumption DEF Base, Page

\* A byte is in one page.
LEMMA PagesDisjoint ==
  ASSUME NEW i \in Int, NEW j \in Int, NEW a \in Page(i), a \in Page(j)
  PROVE  i = j
<1> DEFINE P == PAGE_SIZE
<1>1. P \in Nat \ {0}
  BY ElfAssumption
<1>2. /\ a \in Int
      /\ (i - 1) * P <= a /\ a < (i - 1) * P + P
      /\ (j - 1) * P <= a /\ a < (j - 1) * P + P
  BY <1>1 DEF Page, Base
<1> HIDE DEF P
<1>3. CASE i < j
  <2>1. (i - 1) * P + P <= (j - 1) * P
    BY <1>1, <1>3, Multiples
  <2> QED
    BY <1>1, <1>2, <2>1
<1>4. CASE j < i
  <2>1. (j - 1) * P + P <= (i - 1) * P
    BY <1>1, <1>4, Multiples
  <2> QED
    BY <1>1, <1>2, <2>1
<1> QED
  BY <1>3, <1>4

-----------------------------------------------------------------------------
(***************************************************************************)
(* The geometry of a segment.                                              *)
(***************************************************************************)

\* A segment shorter than a page that crosses a page boundary.
Short(h) == h.p_memsz < PAGE_SIZE /\ h.p_vaddr + h.p_memsz > PAGE_SIZE

\* The fields of a header; the segment starts in the first page, at the
\* offset in it that its bytes have in their page of the file.
LEMMA HeaderFields ==
  ASSUME NEW h \in Headers
  PROVE  /\ h.p_vaddr \in 0 .. PAGE_SIZE - 1 /\ h.p_offset \in Nat
         /\ h.p_filesz \in Nat \ {0} /\ h.p_memsz \in Nat \ {0}
         /\ h.p_memsz <= MaxSize
         /\ h.p_offset + h.p_filesz <= FileSize
         /\ InPage(h.p_vaddr) = h.p_vaddr /\ InPage(h.p_offset) = h.p_vaddr
         /\ ~ SmallCrossing => ~ Short(h)
<1>1. /\ h.p_vaddr \in 0 .. PAGE_SIZE - 1
      /\ h.p_offset \in 0 .. 2 * PAGE_SIZE - 1
      /\ h.p_filesz \in 1 .. MaxSize /\ h.p_memsz \in 1 .. MaxSize
      /\ InPage(h.p_vaddr) = InPage(h.p_offset)
      /\ h.p_offset + h.p_filesz <= FileSize
      /\ ~ SmallCrossing => ~ (h.p_memsz < PAGE_SIZE /\ Crossing(h))
  BY DEF Headers
<1>2. h.p_vaddr % PAGE_SIZE = h.p_vaddr
  BY <1>1, ElfAssumption
<1> QED
  BY <1>1, <1>2, ElfAssumption DEF InPage, Crossing, Short

\* as_define_region reserves as many pages as the segment reaches into.
LEMMA PagesOfSegment ==
  ASSUME NEW h \in Headers
  PROVE  /\ npages(h) \in Nat \ {0}
         /\ Base(npages(h)) < h.p_vaddr + h.p_memsz
         /\ h.p_vaddr + h.p_memsz <= Base(npages(h)) + PAGE_SIZE
<1> DEFINE P == PAGE_SIZE
           x == h.p_memsz + h.p_vaddr + P - 1
           q == x \div P
<1>1. /\ P \in Nat \ {0} /\ h.p_vaddr \in Nat /\ h.p_memsz \in Nat \ {0}
      /\ InPage(h.p_vaddr) = h.p_vaddr
  BY HeaderFields, ElfAssumption
<1>2. x \in Int /\ x >= P
  BY <1>1
<1>a. P \in Int /\ npages(h) = PageFrame(x) \div P
  BY <1>1 DEF npages
<1>b. PageFrame(x) = x - (x % P)
  BY DEF PageFrame, InPage
<1>c. x = h.p_memsz + h.p_vaddr + P - 1
  OBVIOUS
<1>d. Base(npages(h)) = (npages(h) - 1) * P
  BY DEF Base
<1> HIDE DEF P, x
<1>3. x = q * P + (x % P) /\ x % P \in 0 .. P - 1 /\ q \in Int
  BY <1>1, <1>2, DivMod
<1> HIDE DEF q
<1>4. npages(h) = q
  <2>1. PageFrame(x) = q * P + 0
    BY <1>1, <1>2, <1>3, <1>b
  <2>2. 0 \in 0 .. P - 1
    BY <1>1
  <2> QED
    BY <1>1, <1>3, <1>a, <2>1, <2>2, DivModUnique
<1>5. q >= 1
  <2>1. CASE q < 1
    <3>1. q * P + P <= 1 * P
      BY <1>1, <1>3, <2>1, Multiples
    <3> QED
      BY <1>1, <1>2, <1>3, <3>1
  <2> QED
    BY <1>3, <2>1
<1>6. (q - 1) * P = q * P - P
  BY <1>1, <1>3
<1>7. q * P \in Int
  BY <1>1, <1>3
<1> QED
  BY <1>1, <1>3, <1>4, <1>5, <1>6, <1>7, <1>c, <1>d DEF P

\* Of the others only a segment of one page is shorter than a page, and every
\* page but the last ends inside the segment.
LEMMA PagesInside ==
  ASSUME NEW h \in Headers, NEW i \in 1 .. npages(h), ~ Short(h)
  PROVE  /\ h.p_memsz < PAGE_SIZE => npages(h) = 1
         /\ i < npages(h) => Base(i) + PAGE_SIZE < h.p_vaddr + h.p_memsz
         /\ i # 1 => Base(i) >= PAGE_SIZE
<1> DEFINE P == PAGE_SIZE
           n == npages(h)
<1>1. /\ P \in Nat \ {0} /\ h.p_vaddr \in 0 .. P - 1 /\ h.p_memsz \in Nat \ {0}
      /\ h.p_memsz < P => h.p_vaddr + h.p_memsz <= P
  BY HeaderFields, ElfAssumption DEF Short
<1>2. /\ n \in Nat \ {0}
      /\ Base(n) < h.p_vaddr + h.p_memsz
  BY PagesOfSegment
<1>3. /\ Base(n) = (n - 1) * P /\ Base(i) = (i - 1) * P
  BY DEF Base
<1>4. i \in Nat /\ 1 <= i /\ i <= n
  BY <1>2
<1> HIDE DEF P, n
<1>5. h.p_memsz < P => n = 1
  <2> SUFFICES ASSUME h.p_memsz < P, n # 1
               PROVE  FALSE
    OBVIOUS
  <2>1. 0 * P + P <= (n - 1) * P
    BY <1>1, <1>2, Multiples
  <2> QED
    BY <1>1, <1>2, <1>3, <2>1
<1>6. i < n => Base(i) + P < h.p_vaddr + h.p_memsz
  <2> SUFFICES ASSUME i < n
               PROVE  Base(i) + P < h.p_vaddr + h.p_memsz
    OBVIOUS
  <2>1. (i - 1) * P + P <= (n - 1) * P
    BY <1>1, <1>2, <1>4, Multiples
  <2>2. Base(i) \in Int /\ Base(n) \in Int
    BY <1>1, <1>2, <1>3, <1>4
  <2> QED
    BY <1>1, <1>2, <1>3, <2>1, <2>2
<1>7. i # 1 => Base(i) >= P
  <2> SUFFICES ASSUME i # 1
               PROVE  Base(i) >= P
    OBVIOUS
  <2>1. 0 * P + P <= (i - 1) * P
    BY <1>1, <1>4, Multiples
  <2> QED
    BY <1>1, <1>3, <2>1
<1> QED
  BY <1>5, <1>6, <1>7 DEF P, n

\* The addresses of a segment.
Segment(h) == h.p_vaddr .. h.p_vaddr + h.p_memsz - 1

\* The copy into a page covers exactly the part of the segment that is in
\* the page: it starts and ends there, so it never runs on into another one.
LEMMA CopyIsPartOfPage ==
  ASSUME NEW h \in Headers, NEW i \in 1 .. npages(h), ~ Short(h),
         NEW a \in Int
  PROVE  a \in CopyRange(h, i) <=> a \in Page(i) /\ a \in Segment(h)
<1>1. /\ PAGE_SIZE \in Nat \ {0} /\ h.p_vaddr \in 0 .. PAGE_SIZE - 1
      /\ h.p_memsz \in Nat \ {0} /\ InPage(h.p_offset) = h.p_vaddr
      /\ h.p_memsz < PAGE_SIZE => h.p_vaddr + h.p_memsz <= PAGE_SIZE
  BY HeaderFields, ElfAssumption DEF Short
<1>2. /\ npages(h) \in Nat \ {0}
      /\ Base(npages(h)) < h.p_vaddr + h.p_memsz
      /\ h.p_vaddr + h.p_memsz <= Base(npages(h)) + PAGE_SIZE
      /\ Base(npages(h)) = npages(h) * PAGE_SIZE - PAGE_SIZE
  BY PagesOfSegment, ElfAssumption DEF Base
<1>3. /\ h.p_memsz < PAGE_SIZE => npages(h) = 1
      /\ i < npages(h) => Base(i) + PAGE_SIZE < h.p_vaddr + h.p_memsz
      /\ i # 1 => Base(i) >= PAGE_SIZE
  BY PagesInside
<1>4. /\ i \in Int /\ 1 <= i /\ i <= npages(h)
      /\ Base(i) \in Int /\ Base(1) = 0
      /\ a \in Page(i) <=> Base(i) <= a /\ a < Base(i) + PAGE_SIZE
  BY <1>2, PageBounds
<1>5. a \in Segment(h) <=> h.p_vaddr <= a /\ a < h.p_vaddr + h.p_memsz
  BY <1>1 DEF Segment
<1>6. /\ compute_memsz(h, i) \in Int /\ CopyStart(h, i) \in Int
      /\ a \in CopyRange(h, i) <=>
           CopyStart(h, i) <= a /\ a < CopyStart(h, i) + compute_memsz(h, i)
  <2>1. npages(h) * PAGE_SIZE \in Int
    BY <1>1, <1>2
  <2>2. compute_memsz(h, i) \in Int
    BY <1>1, <2>1 DEF compute_memsz
  <2>3. CopyStart(h, i) \in Int
    BY <1>1, <1>4 DEF CopyStart
  <2> QED
    BY <2>2, <2>3 DEF CopyRange
<1>7. CASE i = 1
  <2>1. CopyStart(h, i) = h.p_vaddr
    BY <1>1, <1>4, <1>7 DEF CopyStart
  <2>2. CASE h.p_memsz < PAGE_SIZE
    <3>1. compute_memsz(h, i) = h.p_memsz
      BY <2>2 DEF compute_memsz
    <3> QED
      BY <1>1, <1>3, <1>4, <1>5, <1>6, <1>7, <2>1, <2>2, <3>1
  <2>3. CASE ~ (h.p_memsz < PAGE_SIZE)
    <3>1. compute_memsz(h, i) = PAGE_SIZE - h.p_vaddr
      BY <1>1, <1>7, <2>3 DEF compute_memsz
    <3> QED
      BY <1>1, <1>4, <1>5, <1>6, <1>7, <2>1, <2>3, <3>1
  <2> QED
    BY <2>2, <2>3
<1>8. CASE i # 1
  <2>1. CopyStart(h, i) = Base(i)
    BY <1>4, <1>8 DEF CopyStart
  <2>2. ~ (h.p_memsz < PAGE_SIZE)
    BY <1>3, <1>4, <1>8
  <2>3. CASE i = npages(h)
    <3>1. compute_memsz(h, i)
            = PAGE_SIZE - ((npages(h) * PAGE_SIZE - h.p_memsz) - h.p_vaddr)
      BY <1>1, <1>8, <2>2, <2>3 DEF compute_memsz
    <3>2. compute_memsz(h, i) = h.p_vaddr + h.p_memsz - Base(i)
      <4>1. npages(h) * PAGE_SIZE \in Int
        BY <1>1, <1>2
      <4> QED
        BY <1>1, <1>2, <2>3, <3>1, <4>1
    <3> QED
      BY <1>1, <1>2, <1>3, <1>4, <1>5, <1>6, <1>8, <2>1, <2>3, <3>2
  <2>4. CASE i # npages(h)
    <3>1. compute_memsz(h, i) = PAGE_SIZE
      BY <1>8, <2>2, <2>4 DEF compute_memsz
    <3> QED
      BY <1>1, <1>2, <1>3, <1>4, <1>5, <1>6, <1>8, <2>1, <2>4, <3>1
  <2> QED
    BY <2>3, <2>4
<1> QED
  BY <1>7, <1>8

\* A short segment has two pages; the copy into the first is the whole segment.
LEMMA ShortSegment ==
  ASSUME NEW h \in Headers, Short(h)
  PROVE  /\ npages(h) = 2
         /\ CopyRange(h, 1) = Segment(h)
         /\ CopyRange(h, 2) = PAGE_SIZE .. PAGE_SIZE + h.p_memsz - 1
<1> DEFINE P == PAGE_SIZE
           n == npages(h)
<1>1. /\ P \in Nat \ {0} /\ h.p_vaddr \in 0 .. P - 1 /\ h.p_memsz \in Nat \ {0}
      /\ h.p_memsz < P /\ h.p_vaddr + h.p_memsz > P /\ InPage(h.p_offset) = h.p_vaddr
  BY HeaderFields, ElfAssumption DEF Short
<1>2. /\ n \in Nat \ {0}
      /\ (n - 1) * P < h.p_vaddr + h.p_memsz
      /\ h.p_vaddr + h.p_memsz <= (n - 1) * P + P
  BY PagesOfSegment DEF Base
<1>3. Base(1) = 0 /\ Base(2) = P
  BY <1>1 DEF Base
<1>4. \A i \in {1, 2} : compute_memsz(h, i) = h.p_memsz
  BY <1>1 DEF compute_memsz
<1>5. /\ CopyRange(h, 1) = Segment(h)
      /\ CopyRange(h, 2) = P .. P + h.p_memsz - 1
  BY <1>1, <1>3, <1>4 DEF CopyRange, CopyStart, Segment
<1> HIDE DEF P, n
<1>6. n # 1
  BY <1>1, <1>2
<1>7. n < 3
  <2> SUFFICES ASSUME 2 < n PROVE FALSE
    BY <1>2
  <2>1. 1 * P + P <= (n - 1) * P
    BY <1>1, <1>2, Multiples
  <2> QED
    BY <1>1, <1>2, <2>1
<1> QED
  BY <1>2, <1>5, <1>6, <1>7 DEF P, n

\* The copy into a page of any segment covers the part of the segment that is
\* in the page, and where it runs on into another page it stays in the segment.
LEMMA CopyCoversPage ==
  ASSUME NEW h \in Headers, NEW i \in 1 .. npages(h), NEW a \in Int
  PROVE  /\ a \in Page(i) /\ a \in Segment(h) => a \in CopyRange(h, i)
         /\ a \in CopyRange(h, i) /\ a \notin Page(i) => a \in Segment(h)
<1>1. CASE ~ Short(h)
  BY <1>1, CopyIsPartOfPage
<1>2. CASE Short(h)
  <2>1. /\ PAGE_SIZE \in Nat \ {0} /\ h.p_vaddr \in 0 .. PAGE_SIZE - 1
        /\ h.p_memsz \in Nat \ {0} /\ h.p_memsz < PAGE_SIZE
    BY <1>2, HeaderFields, ElfAssumption DEF Short
  <2>2. CASE i = 1
    BY <1>2, <2>2, ShortSegment
  <2>3. CASE i = 2
    <3>1. Page(i) = PAGE_SIZE .. PAGE_SIZE + PAGE_SIZE - 1
      BY <2>1, <2>3 DEF Page, Base
    <3> QED
      BY <1>2, <2>1, <2>3, <3>1, ShortSegment DEF Segment
  <2> QED
    BY <1>2, <2>2, <2>3, ShortSegment
<1> QED
  BY <1>1, <1>2

\* ... and takes each byte from where the header says it is in the file.
LEMMA CopySource ==
  ASSUME NEW h \in Headers, NEW i \in 1 .. npages(h), NEW a \in Int
  PROVE  compute_offset(h.p_offset, i) + (a - CopyStart(h, i))
           = h.p_offset + (a - h.p_vaddr)
<1>1. /\ PAGE_SIZE \in Nat \ {0} /\ h.p_vaddr \in 0 .. PAGE_SIZE - 1
      /\ h.p_offset \in Nat /\ InPage(h.p_offset) = h.p_vaddr
  BY HeaderFields, ElfAssumption
<1>2. i \in Int /\ Base(i) \in Int /\ Base(i) = (i - 1) * PAGE_SIZE
  BY PagesOfSegment, PageBounds DEF Base
<1>3. compute_offset(h.p_offset, i)
        = IF i # 1 THEN PageFrame(h.p_offset + Base(i)) ELSE h.p_offset + Base(i)
  BY <1>2 DEF compute_offset
<1>4. CASE i = 1
  <2>1. Base(i) = 0
    BY <1>4, PageBounds
  <2>2. CopyStart(h, i) = h.p_vaddr
    BY <1>1, <1>4, <2>1 DEF CopyStart
  <2> QED
    BY <1>1, <1>3, <1>4, <2>1, <2>2
<1>5. CASE i # 1
  <2>1. InPage(h.p_offset + Base(i)) = InPage(h.p_offset)
    <3>1. i - 1 \in Int
      BY <1>2
    <3>2. \A x, k \in Int : (x + k * PAGE_SIZE) % PAGE_SIZE = x % PAGE_SIZE
      BY <1>1, ModShift
    <3>3. h.p_offset \in Int
      BY <1>1
    <3> QED
      BY <1>2, <3>1, <3>2, <3>3 DEF InPage
  <2>2. compute_offset(h.p_offset, i) = h.p_offset + Base(i) - h.p_vaddr
    BY <1>1, <1>2, <1>3, <1>5, <2>1 DEF PageFrame
  <2>3. CopyStart(h, i) = Base(i)
    BY <1>2, <1>5 DEF CopyStart
  <2> QED
    BY <1>1, <1>2, <2>2, <2>3
<1> QED
  BY <1>4, <1>5

-----------------------------------------------------------------------------
(***************************************************************************)
(* The invariant: a byte of the segment that is in memory, and that the    *)
(* program has not stored to, is the one that the file has for it, or zero *)
(* past the end of the file. Where p_filesz ends makes no difference to a  *)
(* page fault.                                                             *)
(***************************************************************************)

\* What a page fault puts at address a.
Loaded(a) ==
  LET src == ph.p_offset + (a - ph.p_vaddr)
  IN  IF src < FileSize THEN src ELSE ZERO

ElfInv ==
  /\ ph \in Headers
  /\ loaded \subseteq 1 .. npages(ph)
  /\ DOMAIN bytes = Addresses
  /\ bytes = [a \in Addresses |-> bytes[a]]
  /\ \A a \in Untouched : bytes[a] = Loaded(a)

\* The segment fits into the addresses of the model.
LEMMA SegmentAddresses ==
  ASSUME NEW h \in Headers
  PROVE  Segment(h) \subseteq Addresses
BY HeaderFields, ElfAssumption DEF Segment, Addresses

\* ... and so do its pages.
LEMMA PageAddresses ==
  ASSUME NEW h \in Headers, NEW i \in 1 .. npages(h)
  PROVE  Page(i) \subseteq Addresses
<1> DEFINE n == npages(h)
<1>1. /\ PAGE_SIZE \in Nat \ {0} /\ h.p_vaddr \in 0 .. PAGE_SIZE - 1
      /\ h.p_memsz \in Nat /\ h.p_memsz <= MaxSize /\ MaxSize \in Nat
  BY HeaderFields, ElfAssumption
<1>2. n \in Nat \ {0} /\ Base(n) < h.p_vaddr + h.p_memsz
  BY PagesOfSegment
<1>3. Base(n) = (n - 1) * PAGE_SIZE /\ Base(i) = (i - 1) * PAGE_SIZE
  BY DEF Base
<1>4. i \in Nat /\ 1 <= i /\ i <= n
  BY <1>2
<1> HIDE DEF n
<1>5. Base(i) \in Nat /\ Base(n) \in Nat /\ Base(i) <= Base(n)
  <2>1. CASE i = n
    BY <1>1, <1>2, <1>3, <2>1
  <2>2. CASE i < n
    <3>1. (i - 1) * PAGE_SIZE + PAGE_SIZE <= (n - 1) * PAGE_SIZE
      BY <1>1, <1>2, <1>4, <2>2, Multiples
    <3> QED
      BY <1>1, <1>2, <1>3, <1>4, <3>1
  <2> QED
    BY <1>2, <1>4, <2>1, <2>2
<1> QED
  BY <1>1, <1>2, <1>5 DEF Page, Addresses

\* What load_page_from_elf does to a byte of the segment.
LEMMA LoadEffect ==
  ASSUME NEW h \in Headers, NEW i \in 1 .. npages(h), NEW b,
         DOMAIN b = Addresses, NEW a \in Addresses \cap Segment(h)
  PROVE  LET src == h.p_offset + (a - h.p_vaddr)
             new == load_page_from_elf(h, b, i)[a]
         IN  /\ src < FileSize /\ a \in Page(i) => new = src
             /\ src < FileSize => new \in {src, b[a]}
             /\ ~ (src < FileSize) => new = b[a]
<1>1. a \in Int
  BY DEF Addresses
<1>2. compute_offset(h.p_offset, i) + (a - CopyStart(h, i))
        = h.p_offset + (a - h.p_vaddr)
  BY <1>1, CopySource
<1>3. a \in Page(i) => a \in CopyRange(h, i)
  BY <1>1, CopyCoversPage
<1> QED
  BY <1>2, <1>3 DEF load_page_from_elf

\* A page fault gives each byte of the segment that it brings in the value that
\* the file has for it; a byte that was in memory keeps its value or gets that.
LEMMA FaultLoadsFile ==
  ASSUME ElfInv, NEW i \in 1 .. npages(ph), vm_fault(i)
  PROVE  /\ loaded' \subseteq 1 .. npages(ph)
         /\ ph' = ph /\ stored' = stored
         /\ bytes' = [a \in Addresses |-> bytes'[a]]
         /\ \A a \in Addresses \cap Segment(ph) : \A j \in loaded' :
              a \in Page(j) => \/ bytes'[a] = Loaded(a)
                               \/ j \in loaded /\ bytes'[a] = bytes[a]
<1> DEFINE nested == {j \in {i + 1} \ loaded : Spills(ph, i)}
           b == bzero(bytes, i)
           c == bzero(b, i + 1)
           d == IF nested = {} THEN b ELSE load_page_from_elf(ph, c, i + 1)
<1>1. /\ i \notin loaded /\ ph' = ph /\ stored' = stored
      /\ bytes' = load_page_from_elf(ph, d, i)
      /\ loaded' = loaded \union {i} \union nested
  BY DEF vm_fault
<1>2. /\ ph \in Headers /\ npages(ph) \in Nat /\ i \in Int
      /\ loaded \subseteq 1 .. npages(ph)
  BY PagesOfSegment DEF ElfInv
<1>3. /\ b = [a \in Addresses |-> IF a \in Page(i) THEN ZERO ELSE bytes[a]]
      /\ c = [a \in Addresses |-> IF a \in Page(i + 1) THEN ZERO ELSE b[a]]
  BY DEF bzero, ElfInv
<1>4. nested = {} \/ (nested = {i + 1} /\ i + 1 \notin loaded)
  OBVIOUS
<1>5. ASSUME nested # {}
      PROVE  i + 1 \in 1 .. npages(ph)
  <2>1. PICK a \in CopyRange(ph, i) : a \in Page(i + 1)
    BY <1>5 DEF Spills
  <2>2. a \in Int /\ Base(i) \in Int /\ Base(i) + PAGE_SIZE <= a
    BY <1>2, <2>1, PageBounds, ElfAssumption DEF Page
  <2>3. a \notin Page(i)
    BY <1>2, <2>2, PageBounds
  <2>4. a < ph.p_vaddr + ph.p_memsz
    BY <1>2, <2>1, <2>2, <2>3, CopyCoversPage, HeaderFields DEF Segment
  <2>5. i # npages(ph)
    BY <1>2, <2>2, <2>4, PagesOfSegment, HeaderFields, ElfAssumption
  <2> QED
    BY <1>2, <2>5
<1>6. DOMAIN d = Addresses
  BY <1>3 DEF load_page_from_elf
<1> HIDE DEF nested, b, c, d
<1>7. bytes' = [a \in Addresses |-> bytes'[a]]
  BY <1>1, <1>6 DEF load_page_from_elf
<1>8. loaded' \subseteq 1 .. npages(ph)
  BY <1>1, <1>2, <1>4, <1>5
<1>9. ASSUME NEW a \in Addresses \cap Segment(ph), NEW j \in loaded', a \in Page(j)
      PROVE  \/ bytes'[a] = Loaded(a)
             \/ j \in loaded /\ bytes'[a] = bytes[a]
  <2> DEFINE src == ph.p_offset + (a - ph.p_vaddr)
  <2>1. /\ src < FileSize /\ a \in Page(i) => bytes'[a] = src
        /\ src < FileSize => bytes'[a] \in {src, d[a]}
        /\ ~ (src < FileSize) => bytes'[a] = d[a]
    BY <1>1, <1>2, <1>6, LoadEffect
  <2>2. ASSUME nested # {}
        PROVE  /\ src < FileSize /\ a \in Page(i + 1) => d[a] = src
               /\ src < FileSize => d[a] \in {src, c[a]}
               /\ ~ (src < FileSize) => d[a] = c[a]
    BY <1>2, <1>3, <1>5, <2>2, LoadEffect DEF d
  <2>3. /\ b[a] = IF a \in Page(i) THEN ZERO ELSE bytes[a]
        /\ c[a] = IF a \in Page(i + 1) THEN ZERO ELSE b[a]
    BY <1>3
  <2>4. nested = {} => d[a] = b[a]
    BY DEF d
  <2>5. Loaded(a) = IF src < FileSize THEN src ELSE ZERO
    BY DEF Loaded
  <2> HIDE DEF src
  <2>6. CASE a \in Page(i)
    BY <2>1, <2>2, <2>3, <2>4, <2>5, <2>6
  <2>7. CASE a \notin Page(i) /\ j = i + 1 /\ nested # {}
    BY <1>9, <2>1, <2>2, <2>3, <2>5, <2>7
  <2>8. CASE a \notin Page(i) /\ ~ (j = i + 1 /\ nested # {})
    <3>1. j \in loaded
      BY <1>1, <1>4, <1>9, <2>8
    <3>2. nested # {} => a \notin Page(i + 1)
      BY <1>2, <1>4, <1>9, <3>1, PagesDisjoint
    <3> QED
      BY <2>1, <2>2, <2>3, <2>4, <2>5, <2>8, <3>1, <3>2
  <2> QED
    BY <2>6, <2>7, <2>8
<1> QED
  BY <1>1, <1>7, <1>8, <1>9

\* A page fault loads its page and leaves the others alone.
LEMMA FaultLoadsPage ==
  ASSUME ElfInv, ~ SmallCrossing, NEW i \in 1 .. npages(ph), vm_fault(i)
  PROVE  /\ i \notin loaded /\ loaded' = loaded \union {i}
         /\ ph' = ph /\ stored' = stored
         /\ bytes' = [a \in Addresses |-> bytes'[a]]
         /\ \A a \in Addresses \ Page(i) : bytes'[a] = bytes[a]
         /\ \A a \in Addresses \cap Page(i) : a \in Segment(ph) => bytes'[a] = Loaded(a)
<1> DEFINE nested == {j \in {i + 1} \ loaded : Spills(ph, i)}
           b == bzero(bytes, i)
<1>1. /\ i \notin loaded /\ ph' = ph /\ stored' = stored
      /\ bytes' = load_page_from_elf(ph,
                    IF nested = {} THEN b
                      ELSE load_page_from_elf(ph, bzero(b, i + 1), i + 1), i)
      /\ loaded' = loaded \union {i} \union nested
  BY DEF vm_fault
<1>2. ph \in Headers /\ npages(ph) \in Nat /\ i \in Int
  BY PagesOfSegment DEF ElfInv
<1>3. ~ Spills(ph, i)
  <2>0. ~ Short(ph)
    BY <1>2, HeaderFields
  <2> SUFFICES ASSUME NEW a \in CopyRange(ph, i) \cap Page(i + 1)
               PROVE  FALSE
    BY DEF Spills
  <2>1. a \in Int
    BY <1>2, PageBounds, ElfAssumption DEF Page
  <2>2. a \in Page(i)
    BY <1>2, <2>0, <2>1, CopyIsPartOfPage
  <2> QED
    BY <1>2, <2>2, PagesDisjoint
<1>4. nested = {}
  BY <1>3
<1>5. bytes' = load_page_from_elf(ph, b, i) /\ loaded' = loaded \union {i}
  BY <1>1, <1>4
<1>6. b = [a \in Addresses |-> IF a \in Page(i) THEN ZERO ELSE bytes[a]]
  BY DEF bzero, ElfInv
<1> HIDE DEF nested, b
<1>7. /\ bytes' = [a \in Addresses |-> bytes'[a]]
      /\ \A a \in Addresses :
           LET src == compute_offset(ph.p_offset, i) + (a - CopyStart(ph, i))
           IN  bytes'[a] = IF a \in CopyRange(ph, i) /\ src < FileSize THEN src ELSE b[a]
  BY <1>5, <1>6 DEF load_page_from_elf
<1>8. \A a \in Addresses :
        /\ a \in Int
        /\ a \in CopyRange(ph, i) <=> a \in Page(i) /\ a \in Segment(ph)
        /\ compute_offset(ph.p_offset, i) + (a - CopyStart(ph, i))
             = ph.p_offset + (a - ph.p_vaddr)
  <2>1. Addresses \subseteq Int
    BY DEF Addresses
  <2>2. ~ Short(ph)
    BY <1>2, HeaderFields
  <2> QED
    BY <1>2, <2>1, <2>2, CopyIsPartOfPage, CopySource
<1>9. \A a \in Addresses \ Page(i) : bytes'[a] = bytes[a]
  BY <1>6, <1>7, <1>8
<1>10. \A a \in Addresses \cap Page(i) : a \in Segment(ph) => bytes'[a] = Loaded(a)
  BY <1>6, <1>7, <1>8 DEF Loaded
<1> QED
  BY <1>1, <1>5, <1>7, <1>9, <1>10

\* The addresses of Untouched.
LEMMA UntouchedAddress ==
  ASSUME ElfInv, NEW a \in Untouched
  PROVE  /\ a \in Int /\ a \in Addresses /\ a \in Segment(ph) /\ a # stored
         /\ \E i \in loaded : a \in Page(i)
<1>1. a \in Segment(ph) /\ a # stored /\ \E i \in loaded : a \in Page(i)
  BY DEF Untouched, Segment
<1>2. ph \in Headers
  BY DEF ElfInv
<1>3. a \in Addresses
  BY <1>1, <1>2, SegmentAddresses
<1> QED
  BY <1>1, <1>3 DEF Addresses

\* The invariant is inductive.
LEMMA ElfInvInductive ==
  /\ ElfInit => ElfInv
  /\ ElfInv /\ [ElfNext]_elfvars => ElfInv'
<1>1. ElfInit => ElfInv
  BY DEF ElfInit, ElfInv, Untouched
<1>2. ASSUME ElfInv, NEW i \in 1 .. npages(ph), vm_fault(i)
      PROVE  ElfInv'
  <2>1. /\ loaded' \subseteq 1 .. npages(ph)
        /\ ph' = ph /\ stored' = stored
        /\ bytes' = [a \in Addresses |-> bytes'[a]]
        /\ \A a \in Addresses \cap Segment(ph) : \A j \in loaded' :
             a \in Page(j) => \/ bytes'[a] = Loaded(a)
                              \/ j \in loaded /\ bytes'[a] = bytes[a]
    BY <1>2, FaultLoadsFile
  <2>2. /\ ph' \in Headers /\ npages(ph)' = npages(ph)
        /\ loaded' \subseteq 1 .. npages(ph)'
    BY <1>2, <2>1 DEF ElfInv
  <2>3. ASSUME NEW a \in Untouched'
        PROVE  bytes'[a] = Loaded(a)'
    <3>1. /\ a \in Segment(ph) /\ a # stored
          /\ \E j \in loaded' : a \in Page(j)
      BY <2>1, <2>3 DEF Untouched, Segment
    <3>2. a \in Addresses
      BY <1>2, <3>1, SegmentAddresses DEF ElfInv
    <3>3. Loaded(a)' = Loaded(a)
      BY <2>1 DEF Loaded
    <3>4. PICK j \in loaded' : a \in Page(j)
      BY <3>1
    <3>5. CASE j \in loaded /\ bytes'[a] = bytes[a]
      <4>1. a \in Untouched
        BY <3>1, <3>4, <3>5 DEF Untouched, Segment
      <4> QED
        BY <1>2, <3>3, <3>5, <4>1 DEF ElfInv
    <3> QED
      BY <2>1, <3>1, <3>2, <3>3, <3>4, <3>5
  <2> QED
    BY <1>2, <2>1, <2>2, <2>3 DEF ElfInv
<1>3. ASSUME ElfInv, NEW x \in Addresses, UserStore(x)
      PROVE  ElfInv'
  <2>1. /\ ph' = ph /\ loaded' = loaded /\ stored' = x
        /\ bytes' = [bytes EXCEPT ![x] = STORED] /\ stored = -1
    BY <1>3 DEF UserStore
  <2>2. bytes' = [a \in Addresses |-> IF a = x THEN STORED ELSE bytes[a]]
    BY <1>3, <2>1 DEF ElfInv
  <2>3. ASSUME NEW a \in Untouched'
        PROVE  bytes'[a] = Loaded(a)'
    <3>1. /\ a \in Segment(ph) /\ a # x
          /\ \E j \in loaded : a \in Page(j)
      BY <2>1, <2>3 DEF Untouched, Segment
    <3>2. a \in Addresses /\ a \in Nat
      BY <1>3, <3>1, SegmentAddresses DEF ElfInv, Addresses
    <3>3. a \in Untouched
      BY <2>1, <3>1, <3>2 DEF Untouched, Segment
    <3>4. Loaded(a)' = Loaded(a)
      BY <2>1 DEF Loaded
    <3> QED
      BY <1>3, <2>2, <3>1, <3>2, <3>3, <3>4 DEF ElfInv
  <2> QED
    BY <1>3, <2>1, <2>2, <2>3 DEF ElfInv
<1>4. ASSUME ElfInv, UNCHANGED elfvars
      PROVE  ElfInv'
  <2>1. ph' = ph /\ loaded' = loaded /\ bytes' = bytes /\ stored' = stored
    BY <1>4 DEF elfvars
  <2> QED
    BY <1>4, <2>1 DEF ElfInv, Untouched, Loaded
<1> QED
  BY <1>1, <1>2, <1>3, <1>4 DEF ElfNext

\* The executable's bytes are where its header puts them, whatever the order
\* of the page faults (compute_memsz, compute_offset, load_page_from_elf): of
\* any segment, a short one that crosses a page boundary too.
THEOREM ExecutableLoaded == ElfSpec => []FileBytesInPlace
<1>1. ElfInv => FileBytesInPlace
  <2> SUFFICES ASSUME ElfInv, NEW a \in Untouched, a - ph.p_vaddr < ph.p_filesz
               PROVE  bytes[a] = ph.p_offset + (a - ph.p_vaddr)
    BY DEF FileBytesInPlace
  <2>1. a \in Int /\ ph \in Headers /\ bytes[a] = Loaded(a)
    BY UntouchedAddress DEF ElfInv
  <2>2. ph.p_offset + (a - ph.p_vaddr) < FileSize
    BY <2>1, HeaderFields, ElfAssumption
  <2> QED
    BY <2>1, <2>2 DEF Loaded
<1> QED
  BY <1>1, ElfInvInductive, PTL DEF ElfSpec

\* "carica solo la pagina che ha causato il page fault" (loadelf.c): a page
\* fault changes no byte of a page that was in memory before.
THEOREM OnlyFaultingPageLoaded ==
  ASSUME ~ SmallCrossing
  PROVE  ElfSpec => LoadsOnlyFaultingPage
<1>1. ElfInv /\ [ElfNext]_elfvars
        => [loaded' # loaded =>
              \A i \in loaded : \A a \in Page(i) : bytes'[a] = bytes[a]]_elfvars
  <2> SUFFICES ASSUME ElfInv, ElfNext, loaded' # loaded,
                      NEW j \in loaded, NEW a \in Page(j)
               PROVE  bytes'[a] = bytes[a]
    OBVIOUS
  <2>1. PICK i \in 1 .. npages(ph) : vm_fault(i)
    BY DEF ElfNext, UserStore
  <2>2. /\ i \notin loaded
        /\ bytes' = [c \in Addresses |-> bytes'[c]]
        /\ \A c \in Addresses \ Page(i) : bytes'[c] = bytes[c]
    BY <2>1, FaultLoadsPage
  <2>3. i \in Int /\ j \in Int /\ i # j
    BY <2>2, PagesOfSegment DEF ElfInv
  <2>4. a \notin Page(i)
    BY <2>3, PagesDisjoint
  <2>5. a \in Addresses
    BY PageAddresses DEF ElfInv
  <2> QED
    BY <2>2, <2>4, <2>5
<1> QED
  BY <1>1, ElfInvInductive, PTL DEF ElfSpec, LoadsOnlyFaultingPage
=============================================================================
