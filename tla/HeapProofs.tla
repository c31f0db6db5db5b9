----------------------------- MODULE HeapProofs -----------------------------
(***************************************************************************)
(* Proofs about the kernel heap, for any number of threads, block sizes,   *)
(* pagerefs and frames.  The hypothesis LargeCoremap is that the coremap   *)
(* takes whole pages: with a smaller one the frame of the first pageref    *)
(* page, which ram_stealmem handed out, is FREE in the coremap, and        *)
(* KernelFramesAccounted is false from the start.                          *)
(***************************************************************************)
EXTENDS Heap, CoremapProofs, FiniteSetTheorems, SequenceTheorems

LargeCoremap == space >= LARGEST_SUBPAGE_SIZE

-----------------------------------------------------------------------------
(***************************************************************************)
(* Lists without repetition.                                               *)
(***************************************************************************)

Elems(s) == {s[k] : k \in DOMAIN s}
Inj(s) == \A j, k \in DOMAIN s : s[j] = s[k] => j = k

\* The domain of a sequence.
LEMMA SeqFacts ==
  ASSUME NEW S, NEW s \in Seq(S)
  PROVE  /\ Len(s) \in Nat /\ DOMAIN s = 1 .. Len(s)
         /\ \A k \in 1 .. Len(s) : s[k] \in S
         /\ Elems(s) \subseteq S
<1>1. Len(s) \in Nat /\ DOMAIN s = 1 .. Len(s) /\ s \in [1 .. Len(s) -> S]
  BY LenProperties
<1> QED
  BY <1>1 DEF Elems

\* The empty list.
LEMMA EmptyList == Inj(<<>>) /\ Elems(<<>>) = {} /\ Len(<<>>) = 0
BY DEF Inj, Elems

\* A new element goes to the head of a list.
LEMMA ConsList ==
  ASSUME NEW S, NEW s \in Seq(S), NEW x \in S, Inj(s), x \notin Elems(s)
  PROVE  /\ <<x>> \o s \in Seq(S) /\ Inj(<<x>> \o s)
         /\ Len(<<x>> \o s) = Len(s) + 1
         /\ Elems(<<x>> \o s) = Elems(s) \union {x}
<1> DEFINE t == <<x>> \o s
<1>1. <<x>> \in Seq(S) /\ Len(<<x>>) = 1 /\ <<x>>[1] = x
  OBVIOUS
<1>2. /\ t \in Seq(S) /\ Len(t) = Len(s) + 1
      /\ \A i \in 1 .. Len(s) + 1 : t[i] = IF i <= 1 THEN x ELSE s[i - 1]
  <2>1. /\ t \in Seq(S) /\ Len(t) = Len(<<x>>) + Len(s)
        /\ \A i \in 1 .. Len(<<x>>) + Len(s) :
             t[i] = IF i <= Len(<<x>>) THEN <<x>>[i] ELSE s[i - Len(<<x>>)]
    BY <1>1, ConcatProperties
  <2> QED
    BY <1>1, <2>1, SeqFacts
<1>3. /\ Len(s) \in Nat /\ DOMAIN s = 1 .. Len(s) /\ DOMAIN t = 1 .. Len(s) + 1
  BY <1>2, SeqFacts
<1> HIDE DEF t
<1>4. Inj(t)
  <2> SUFFICES ASSUME NEW j \in 1 .. Len(s) + 1, NEW k \in 1 .. Len(s) + 1,
                      t[j] = t[k]
               PROVE  j = k
    BY <1>3 DEF Inj
  <2>1. \A i \in 1 .. Len(s) + 1 : i > 1 => i - 1 \in DOMAIN s /\ t[i] = s[i - 1]
    BY <1>2, <1>3
  <2>2. \A i \in 1 .. Len(s) + 1 : i > 1 => t[i] \in Elems(s)
    BY <2>1 DEF Elems
  <2>3. CASE j = 1 \/ k = 1
    BY <1>2, <1>3, <2>2, <2>3
  <2>4. CASE j > 1 /\ k > 1
    <3>1. j - 1 = k - 1
      BY <2>1, <2>4 DEF Inj
    <3> QED
      BY <1>3, <3>1
  <2> QED
    BY <1>3, <2>3, <2>4
<1>5. Elems(t) = Elems(s) \union {x}
  <2>1. ASSUME NEW k \in DOMAIN t
        PROVE  t[k] \in Elems(s) \union {x}
    BY <1>2, <1>3 DEF Elems
  <2>2. x \in Elems(t)
    BY <1>2, <1>3 DEF Elems
  <2>3. ASSUME NEW k \in DOMAIN s
        PROVE  s[k] \in Elems(t)
    <3>1. k + 1 \in DOMAIN t /\ t[k + 1] = s[k]
      BY <1>2, <1>3
    <3> QED
      BY <3>1 DEF Elems
  <2> QED
    BY <2>1, <2>2, <2>3 DEF Elems
<1> QED
  BY <1>2, <1>4, <1>5 DEF t

\* The head of a list is taken.
LEMMA TailList ==
  ASSUME NEW S, NEW s \in Seq(S), Inj(s), Len(s) > 0
  PROVE  /\ Tail(s) \in Seq(S) /\ Inj(Tail(s)) /\ Len(Tail(s)) = Len(s) - 1
         /\ Head(s) \in Elems(s) /\ Elems(Tail(s)) = Elems(s) \ {Head(s)}
<1> DEFINE t == Tail(s)
<1>1. Len(s) \in Nat /\ DOMAIN s = 1 .. Len(s) /\ s # <<>> /\ Head(s) = s[1]
  BY SeqFacts
<1>2. /\ t \in Seq(S) /\ Len(t) = Len(s) - 1
      /\ \A i \in 1 .. Len(t) : t[i] = s[i + 1]
  BY <1>1, HeadTailProperties
<1>3. DOMAIN t = 1 .. Len(s) - 1
  BY <1>2, SeqFacts
<1> HIDE DEF t
<1>4. \A i \in DOMAIN t : i + 1 \in DOMAIN s /\ t[i] = s[i + 1] /\ i \in Nat
  BY <1>1, <1>2, <1>3
<1>5. Inj(t)
  <2> SUFFICES ASSUME NEW j \in DOMAIN t, NEW k \in DOMAIN t, t[j] = t[k]
               PROVE  j = k
    BY DEF Inj
  <2>1. j + 1 = k + 1
    BY <1>4 DEF Inj
  <2> QED
    BY <1>4, <2>1
<1>6. Elems(t) = Elems(s) \ {Head(s)}
  <2>1. ASSUME NEW i \in DOMAIN t
        PROVE  t[i] \in Elems(s) \ {Head(s)}
    <3>1. 1 \in DOMAIN s /\ i + 1 # 1
      BY <1>1, <1>4
    <3> QED
      BY <1>1, <1>4, <3>1 DEF Inj, Elems
  <2>2. ASSUME NEW k \in DOMAIN s, s[k] # Head(s)
        PROVE  s[k] \in Elems(t)
    <3>1. k - 1 \in DOMAIN t /\ t[k - 1] = s[k]
      BY <1>1, <1>2, <1>3, <2>2
    <3> QED
      BY <3>1 DEF Elems
  <2> QED
    BY <2>1, <2>2 DEF Elems
<1>7. Head(s) \in Elems(s)
  BY <1>1 DEF Elems
<1> QED
  BY <1>2, <1>5, <1>6, <1>7 DEF t

\* remove_lists takes an element out of a list (kmalloc.c:823).
LEMMA WithoutList ==
  ASSUME NEW S, NEW s \in Seq(S), Inj(s), NEW x \in Elems(s)
  PROVE  /\ Without(s, x) \in Seq(S) /\ Inj(Without(s, x))
         /\ Elems(Without(s, x)) = Elems(s) \ {x}
<1> DEFINE k == CHOOSE k \in DOMAIN s : FirstAt(s, x, k)
           n == Len(s)
           u == SubSeq(s, 1, k - 1)
           v == SubSeq(s, k + 1, n)
           t == u \o v
<1>1. n \in Nat /\ DOMAIN s = 1 .. n /\ \A i \in 1 .. n : s[i] \in S
  BY SeqFacts
<1>2. k \in 1 .. n /\ s[k] = x
  <2>1. PICK i \in DOMAIN s : s[i] = x
    BY DEF Elems
  <2>2. FirstAt(s, x, i)
    BY <1>1, <2>1 DEF FirstAt, Inj
  <2>3. FirstAt(s, x, k)
    BY <2>2
  <2> QED
    BY <1>1, <2>3 DEF FirstAt
<1>3. Without(s, x) = t
  BY <1>1, <1>2 DEF Without
<1> HIDE DEF k, n
<1>4. /\ u \in Seq(S) /\ Len(u) = k - 1
      /\ \A i \in 1 .. k - 1 : u[i] = s[i]
  <2>1. \A i \in 1 .. k - 1 : s[i] \in S
    BY <1>1, <1>2
  <2>2. /\ u \in Seq(S) /\ Len(u) = IF 1 <= k - 1 THEN (k - 1) - 1 + 1 ELSE 0
        /\ \A i \in 1 .. (k - 1) - 1 + 1 : u[i] = s[1 + i - 1]
    BY <1>1, <1>2, <2>1, SubSeqProperties
  <2> QED
    BY <1>1, <1>2, <2>2
<1>5. /\ v \in Seq(S) /\ Len(v) = n - k
      /\ \A i \in 1 .. n - k : v[i] = s[k + i]
  <2>1. \A i \in k + 1 .. n : s[i] \in S
    BY <1>1, <1>2
  <2>2. /\ v \in Seq(S) /\ Len(v) = IF k + 1 <= n THEN n - (k + 1) + 1 ELSE 0
        /\ \A i \in 1 .. n - (k + 1) + 1 : v[i] = s[(k + 1) + i - 1]
    BY <1>1, <1>2, <2>1, SubSeqProperties
  <2> QED
    BY <1>1, <1>2, <2>2
<1> HIDE DEF u, v
<1>6. /\ t \in Seq(S) /\ Len(t) = n - 1
      /\ \A i \in 1 .. n - 1 : t[i] = IF i < k THEN s[i] ELSE s[i + 1]
  <2>1. /\ t \in Seq(S) /\ Len(t) = Len(u) + Len(v)
        /\ \A i \in 1 .. Len(u) + Len(v) :
             t[i] = IF i <= Len(u) THEN u[i] ELSE v[i - Len(u)]
    BY <1>4, <1>5, ConcatProperties
  <2>2. Len(u) + Len(v) = n - 1
    BY <1>1, <1>2, <1>4, <1>5
  <2>3. ASSUME NEW i \in 1 .. n - 1
        PROVE  t[i] = IF i < k THEN s[i] ELSE s[i + 1]
    <3>1. CASE i < k
      BY <1>1, <1>2, <1>4, <2>1, <2>2, <3>1
    <3>2. CASE ~ (i < k)
      <4>1. i - Len(u) \in 1 .. n - k /\ k + (i - Len(u)) = i + 1 /\ ~ (i <= Len(u))
        BY <1>1, <1>2, <1>4, <3>2
      <4> QED
        BY <1>5, <2>1, <2>2, <3>2, <4>1
    <3> QED
      BY <3>1, <3>2
  <2> QED
    BY <2>1, <2>2, <2>3
<1> HIDE DEF t
<1>7. DOMAIN t = 1 .. n - 1
  BY <1>6, SeqFacts
<1>8. Inj(t)
  <2> SUFFICES ASSUME NEW i \in 1 .. n - 1, NEW j \in 1 .. n - 1, t[i] = t[j]
               PROVE  i = j
    BY <1>7 DEF Inj
  <2> DEFINE at(m) == IF m < k THEN m ELSE m + 1
  <2>1. at(i) \in DOMAIN s /\ at(j) \in DOMAIN s /\ s[at(i)] = s[at(j)]
    BY <1>1, <1>2, <1>6
  <2>2. at(i) = at(j)
    BY <2>1 DEF Inj
  <2> QED
    BY <1>1, <1>2, <2>2
<1>9. Elems(t) = Elems(s) \ {x}
  <2>1. ASSUME NEW i \in 1 .. n - 1
        PROVE  t[i] \in Elems(s) \ {x}
    <3>1. CASE i < k
      <4>1. i \in DOMAIN s /\ i # k /\ t[i] = s[i]
        BY <1>1, <1>2, <1>6, <3>1
      <4> QED
        BY <1>1, <1>2, <4>1 DEF Inj, Elems
    <3>2. CASE ~ (i < k)
      <4>1. i + 1 \in DOMAIN s /\ i + 1 # k /\ t[i] = s[i + 1]
        BY <1>1, <1>2, <1>6, <3>2
      <4> QED
        BY <1>1, <1>2, <4>1 DEF Inj, Elems
    <3> QED
      BY <3>1, <3>2
  <2>2. ASSUME NEW i \in 1 .. n, s[i] # x
        PROVE  s[i] \in Elems(t)
    <3>1. CASE i < k
      <4>1. i \in DOMAIN t /\ t[i] = s[i]
        BY <1>1, <1>2, <1>6, <1>7, <3>1
      <4> QED
        BY <4>1 DEF Elems
    <3>2. CASE i > k
      <4>1. i - 1 \in DOMAIN t /\ t[i - 1] = s[i]
        BY <1>1, <1>2, <1>6, <1>7, <3>2
      <4> QED
        BY <4>1 DEF Elems
    <3> QED
      BY <1>1, <1>2, <2>2, <3>1, <3>2
  <2> QED
    BY <1>1, <1>7, <2>1, <2>2 DEF Elems
<1> QED
  BY <1>3, <1>6, <1>8, <1>9

\* A list without repetition is as long as it has elements.
LEMMA LenIsCardinality ==
  ASSUME NEW S, NEW s \in Seq(S), Inj(s)
  PROVE  IsFiniteSet(Elems(s)) /\ Cardinality(Elems(s)) = Len(s)
<1>1. Len(s) \in Nat /\ DOMAIN s = 1 .. Len(s) /\ s \in [1 .. Len(s) -> Elems(s)]
  BY SeqFacts, LenProperties DEF Elems
<1>2. s \in Bijection(1 .. Len(s), Elems(s))
  BY <1>1 DEF Bijection, Injection, IsInjective, Surjection, Elems, Inj
<1>3. /\ IsFiniteSet(1 .. Len(s))
      /\ Cardinality(1 .. Len(s)) = Len(s)
  BY <1>1, FS_Interval
<1>4. ExistsBijection(1 .. Len(s), Elems(s))
  BY <1>2 DEF ExistsBijection
<1> QED
  BY <1>3, <1>4, FS_Bijection

-----------------------------------------------------------------------------
(***************************************************************************)
(* The blocks of a heap page.                                              *)
(***************************************************************************)

Blocks(b) == {i * sizes[b] : i \in 0 .. NumBlocks(b) - 1}

\* Different multiples of a block size differ by a block at least.
LEMMA BlockMultiples ==
  ASSUME NEW z \in Nat \ {0}, NEW i \in Int, NEW j \in Int, i < j
  PROVE  i * z + z <= j * z
OBVIOUS

\* The blocks fill the page.
LEMMA BlockSizes ==
  ASSUME NEW b \in BlockTypes
  PROVE  /\ sizes[b] \in Nat \ {0} /\ NumBlocks(b) \in Nat \ {0}
         /\ NumBlocks(b) * sizes[b] = PAGE_SIZE
         /\ Blocks(b) \subseteq 0 .. PAGE_SIZE - 1
<1> DEFINE z == sizes[b]
           N == NumBlocks(b)
<1>1. /\ PAGE_SIZE \in Nat \ {0} /\ z \in Nat \ {0} /\ PAGE_SIZE % z = 0
      /\ N = PAGE_SIZE \div z
  BY HeapAssumption, SeqFacts DEF BlockTypes, NSIZES, NumBlocks
<1>2. Blocks(b) = {i * z : i \in 0 .. N - 1}
  BY DEF Blocks
<1> HIDE DEF z, N
<1>3. N \in Int /\ N * z = PAGE_SIZE
  BY <1>1
<1>4. N \in Nat \ {0}
  <2>1. CASE N < 1
    <3>1. N * z + z <= 1 * z
      BY <1>1, <1>3, <2>1, BlockMultiples
    <3> QED
      BY <1>1, <1>3, <3>1
  <2> QED
    BY <1>3, <2>1
<1>5. ASSUME NEW i \in 0 .. N - 1
      PROVE  i * z \in 0 .. PAGE_SIZE - 1
  <2>1. i * z + z <= N * z /\ i * z \in Nat
    BY <1>1, <1>4, BlockMultiples
  <2> QED
    BY <1>1, <1>3, <2>1
<1> QED
  BY <1>1, <1>2, <1>3, <1>4, <1>5 DEF z, N

\* The chain through a new page has every block, once.
LEMMA NewPageFree ==
  ASSUME NEW b \in BlockTypes, NEW f
  PROVE  LET fl == NewPage(f, b).freelist IN
         /\ fl \in Seq(Nat) /\ Len(fl) = NumBlocks(b) /\ Inj(fl)
         /\ Elems(fl) = Blocks(b)
<1> DEFINE z == sizes[b]
           N == NumBlocks(b)
           fl == [i \in 1 .. N |-> (N - i) * z]
<1>1. /\ NewPage(f, b).freelist = fl
      /\ Blocks(b) = {i * z : i \in 0 .. N - 1}
  BY DEF NewPage, Blocks
<1>2. z \in Nat \ {0} /\ N \in Nat \ {0}
  BY BlockSizes
<1> HIDE DEF z, N
<1>3. \A i \in 1 .. N : (N - i) * z \in Nat
  BY <1>2
<1>4. fl \in Seq(Nat) /\ Len(fl) = N /\ DOMAIN fl = 1 .. N
  BY <1>2, <1>3
<1>5. Inj(fl)
  <2> SUFFICES ASSUME NEW i \in 1 .. N, NEW j \in 1 .. N, fl[i] = fl[j], i < j
               PROVE  FALSE
    BY <1>2, <1>4 DEF Inj
  <2>1. (N - j) * z + z <= (N - i) * z
    BY <1>2, BlockMultiples
  <2>2. (N - i) * z = (N - j) * z /\ (N - i) * z \in Nat
    BY <1>2, <1>3
  <2> QED
    BY <1>2, <2>1, <2>2
<1>6. Elems(fl) = {i * z : i \in 0 .. N - 1}
  <2>1. ASSUME NEW i \in 1 .. N
        PROVE  fl[i] \in {j * z : j \in 0 .. N - 1}
    <3>1. N - i \in 0 .. N - 1
      BY <1>2
    <3> QED
      BY <3>1
  <2>2. ASSUME NEW j \in 0 .. N - 1
        PROVE  j * z \in Elems(fl)
    <3>1. N - j \in 1 .. N /\ N - (N - j) = j
      BY <1>2
    <3>2. fl[N - j] = j * z
      BY <3>1
    <3> QED
      BY <1>4, <3>1, <3>2 DEF Elems
  <2> QED
    BY <1>4, <2>1, <2>2 DEF Elems
<1> QED
  BY <1>1, <1>4, <1>5, <1>6 DEF N

\* ... and there are NumBlocks of them.
LEMMA BlocksFinite ==
  ASSUME NEW b \in BlockTypes
  PROVE  IsFiniteSet(Blocks(b)) /\ Cardinality(Blocks(b)) = NumBlocks(b)
<1> DEFINE fl == NewPage(NULL, b).freelist
<1>1. /\ fl \in Seq(Nat) /\ Len(fl) = NumBlocks(b) /\ Inj(fl)
      /\ Elems(fl) = Blocks(b)
  BY NewPageFree
<1> HIDE DEF fl
<1> QED
  BY <1>1, LenIsCardinality

-----------------------------------------------------------------------------
(***************************************************************************)
(* One heap page, with the blocks of it that are given out.                *)
(***************************************************************************)

Pageref == [page : Frames \union {NULL}, blktype : BlockTypes,
            nfree : Nat, freelist : Seq(Nat)]

PageRight(pr, used) ==
  /\ Inj(pr.freelist) /\ Len(pr.freelist) = pr.nfree
  /\ Elems(pr.freelist) \intersect used = {}
  /\ Elems(pr.freelist) \union used = Blocks(pr.blktype)

\* The head of the free list goes from the free blocks to the used ones.
LEMMA TakeRight ==
  ASSUME NEW pr \in Pageref, NEW used, PageRight(pr, used), pr.nfree > 0
  PROVE  LET new == TakeBlock(pr) IN
         /\ new \in Pageref /\ new.page = pr.page /\ new.blktype = pr.blktype
         /\ Head(pr.freelist) \in Blocks(pr.blktype)
         /\ PageRight(new, used \union {Head(pr.freelist)})
<1> DEFINE new == TakeBlock(pr)
           fl == pr.freelist
<1>1. /\ fl \in Seq(Nat) /\ Inj(fl) /\ Len(fl) = pr.nfree /\ pr.nfree \in Nat
      /\ pr.blktype \in BlockTypes
  BY DEF Pageref, PageRight
<1>2. /\ Tail(fl) \in Seq(Nat) /\ Inj(Tail(fl)) /\ Len(Tail(fl)) = Len(fl) - 1
      /\ Head(fl) \in Elems(fl) /\ Elems(Tail(fl)) = Elems(fl) \ {Head(fl)}
  BY <1>1, TailList
<1>3. /\ new.page = pr.page /\ new.blktype = pr.blktype
      /\ new.nfree = pr.nfree - 1 /\ new.freelist = Tail(fl)
      /\ new \in Pageref
  <2>1. pr.nfree - 1 \in Nat
    BY <1>1
  <2>2. new = [pr EXCEPT !.nfree = pr.nfree - 1, !.freelist = Tail(fl)]
    BY DEF TakeBlock
  <2> QED
    BY <1>2, <2>1, <2>2 DEF Pageref
<1> HIDE DEF new
<1> QED
  BY <1>1, <1>2, <1>3 DEF PageRight, new

\* A block that is used goes back to the free ones.
LEMMA PutRight ==
  ASSUME NEW pr \in Pageref, NEW used, NEW off \in used, PageRight(pr, used)
  PROVE  LET new == PutBlock(pr, off) IN
         /\ new \in Pageref /\ new.page = pr.page /\ new.blktype = pr.blktype
         /\ PageRight(new, used \ {off})
         /\ new.nfree = NumBlocks(pr.blktype) <=> used = {off}
<1> DEFINE new == PutBlock(pr, off)
           fl == pr.freelist
           B == Blocks(pr.blktype)
<1>1. /\ fl \in Seq(Nat) /\ Inj(fl) /\ Len(fl) = pr.nfree /\ pr.nfree \in Nat
      /\ pr.blktype \in BlockTypes /\ off \in B /\ off \notin Elems(fl)
      /\ Elems(fl) \union used = B /\ Elems(fl) \intersect used = {}
  BY DEF Pageref, PageRight
<1>2. off \in Nat
  BY <1>1, BlockSizes
<1>3. /\ <<off>> \o fl \in Seq(Nat) /\ Inj(<<off>> \o fl)
      /\ Len(<<off>> \o fl) = Len(fl) + 1
      /\ Elems(<<off>> \o fl) = Elems(fl) \union {off}
  BY <1>1, <1>2, ConsList
<1>4. /\ new.page = pr.page /\ new.blktype = pr.blktype
      /\ new.nfree = pr.nfree + 1 /\ new.freelist = <<off>> \o fl
      /\ new \in Pageref
  <2>1. pr.nfree + 1 \in Nat
    BY <1>1
  <2>2. new = [pr EXCEPT !.nfree = pr.nfree + 1, !.freelist = <<off>> \o fl]
    BY DEF PutBlock
  <2> QED
    BY <1>3, <2>1, <2>2 DEF Pageref
<1> HIDE DEF new, B
<1>5. PageRight(new, used \ {off})
  BY <1>1, <1>3, <1>4 DEF PageRight, B
<1>6. /\ IsFiniteSet(B) /\ Cardinality(B) = NumBlocks(pr.blktype)
      /\ Cardinality(Elems(new.freelist)) = new.nfree
      /\ Elems(new.freelist) \subseteq B
  BY <1>1, <1>3, <1>4, BlocksFinite, LenIsCardinality DEF B
<1>7. new.nfree = NumBlocks(pr.blktype) <=> Elems(new.freelist) = B
  BY <1>6, FS_Subset
<1>8. Elems(new.freelist) = B <=> used = {off}
  BY <1>1, <1>3, <1>4
<1> QED
  BY <1>4, <1>5, <1>7, <1>8 DEF new

\* A new page gives its first block.
LEMMA NewRight ==
  ASSUME NEW f \in Frames, NEW b \in BlockTypes
  PROVE  LET pr == NewPage(f, b)
             new == TakeBlock(pr) IN
         /\ new \in Pageref /\ new.page = f /\ new.blktype = b /\ pr.page = f
         /\ Head(pr.freelist) \in Blocks(b)
         /\ PageRight(new, {Head(pr.freelist)})
<1> DEFINE pr == NewPage(f, b)
<1>1. /\ pr.freelist \in Seq(Nat) /\ Len(pr.freelist) = NumBlocks(b)
      /\ Inj(pr.freelist) /\ Elems(pr.freelist) = Blocks(b)
  BY NewPageFree
<1>2. NumBlocks(b) \in Nat /\ NumBlocks(b) > 0
  BY BlockSizes
<1>3. /\ pr.page = f /\ pr.blktype = b /\ pr.nfree = NumBlocks(b)
      /\ pr = [page |-> f, blktype |-> b, nfree |-> NumBlocks(b), freelist |-> pr.freelist]
  BY DEF NewPage
<1> HIDE DEF pr
<1>4. pr \in Pageref
  BY <1>1, <1>2, <1>3 DEF Pageref
<1>5. PageRight(pr, {})
  BY <1>1, <1>3 DEF PageRight
<1> QED
  BY <1>2, <1>3, <1>4, <1>5, TakeRight DEF pr

-----------------------------------------------------------------------------
(***************************************************************************)
(* What the heap sees of the coremap: the first frames of the kernel's     *)
(* allocations (Starts) and the frames that were taken at boot.            *)
(***************************************************************************)

\* The frames of the coremap itself.
BootRight ==
  \A f \in 0 .. BootFrames - 1 :
    coremap[f].state = FIXED /\ coremap[f].as = NULL /\ coremap[f].npages = 0

\* An entry of the coremap and the frames at its start.
LEMMA EntryFacts ==
  ASSUME CMInv
  PROVE  /\ \A i \in Frames : i \in Nat /\ coremap[i].npages \in Nat
         /\ 0 .. BootFrames - 1 \subseteq Frames
         /\ ram_frames \in Nat
BY CoremapAssumption DEF CMInv, CMTypeOK, cm_entry, Frames

\* The steps of the address spaces leave the kernel's frames alone.
LEMMA UserKeepsFixed ==
  ASSUME CMInv, UserFifoNext
  PROVE  \A i \in Frames : /\ coremap[i].state = FIXED => coremap'[i] = coremap[i]
                           /\ coremap'[i].state = FIXED => coremap[i].state = FIXED
<1>1. coremap = [i \in Frames |-> coremap[i]]
  BY DEF CMInv, CMTypeOK
<1>2. \A a \in AddrSpaces, va \in VAddrs : LoadingEntry(a, va).state # FIXED
  BY DEF LoadingEntry, LOADING, FIXED
<1>3. /\ Blank(LOADING, Never).state # FIXED /\ Blank(FREE, Never).state # FIXED
      /\ FREE # FIXED /\ LOADING # FIXED /\ CLEAN # FIXED
  BY DEF Blank, LOADING, FIXED, FREE, CLEAN
<1>4. ASSUME NEW f \in Frames, NEW a \in AddrSpaces, NEW va \in VAddrs,
             frame_alloc(va, a, f) \/ (Evicted(f) /\ cm_update_vaddr(a, f, va))
      PROVE  \A i \in Frames : /\ coremap[i].state = FIXED => coremap'[i] = coremap[i]
                               /\ coremap'[i].state = FIXED => coremap[i].state = FIXED
  <2>1. coremap' = [coremap EXCEPT ![f] = LoadingEntry(a, va)] /\ coremap[f].state # FIXED
    BY <1>3, <1>4 DEF frame_alloc, FirstFree, Evicted, cm_update_vaddr
  <2> QED
    BY <1>1, <1>2, <2>1
<1>5. ASSUME NEW f \in Frames, NEW a \in AddrSpaces, cm_evict(a, f)
      PROVE  \A i \in Frames : /\ coremap[i].state = FIXED => coremap'[i] = coremap[i]
                               /\ coremap'[i].state = FIXED => coremap[i].state = FIXED
  <2>1. /\ coremap' = [coremap EXCEPT ![f] = Blank(LOADING, Never)]
        /\ coremap[f].state # FIXED
    BY <1>5 DEF cm_evict, Oldest, Candidates
  <2> QED
    BY <1>1, <1>3, <2>1
<1>6. ASSUME NEW f \in Frames, NEW a \in AddrSpaces,
             Loading(f, a), cm_update_state(f, CLEAN)
      PROVE  \A i \in Frames : /\ coremap[i].state = FIXED => coremap'[i] = coremap[i]
                               /\ coremap'[i].state = FIXED => coremap[i].state = FIXED
  <2>1. /\ coremap' = [coremap EXCEPT ![f].state = CLEAN]
        /\ coremap[f].state # FIXED /\ coremap[f] \in cm_entry
    BY <1>3, <1>6 DEF cm_update_state, Loading, CMInv, CMTypeOK
  <2>2. coremap'[f].state = CLEAN
    BY <1>1, <2>1 DEF cm_entry
  <2> QED
    BY <1>1, <1>3, <2>1, <2>2
<1>7. ASSUME NEW a \in AddrSpaces, cm_asfree(a)
      PROVE  \A i \in Frames : /\ coremap[i].state = FIXED => coremap'[i] = coremap[i]
                               /\ coremap'[i].state = FIXED => coremap[i].state = FIXED
  BY <1>3, <1>7 DEF cm_asfree
<1> QED
  BY <1>4, <1>5, <1>6, <1>7 DEF UserFifoNext

\* ... and so neither take a frame from it nor give it one.
LEMMA UserKeepsStarts ==
  ASSUME CMInv, UserFifoNext
  PROVE  CMInv' /\ Starts' = Starts /\ (BootRight => BootRight')
<1>1. \A i \in Frames : /\ coremap[i].state = FIXED => coremap'[i] = coremap[i]
                        /\ coremap'[i].state = FIXED => coremap[i].state = FIXED
  BY UserKeepsFixed
<1>2. CMInv'
  BY FifoStepIsCMStep, CMInvNext DEF FifoNext
<1> QED
  BY <1>1, <1>2, EntryFacts DEF Starts, BootRight

\* alloc_kpages starts a kernel allocation at a frame that was FREE.
LEMMA AllocStarts ==
  ASSUME CMInv, NEW f \in Frames, NEW n \in Nat \ {0}, frame_kalloc(n, f)
  PROVE  /\ n \in 1 .. ram_frames /\ CMInv'
         /\ f \notin Starts /\ Starts' = Starts \union {f}
         /\ BootRight => BootRight'
<1>1. /\ f + n <= ram_frames /\ \A i \in f .. f + n - 1 : coremap[i].state = FREE
  BY DEF frame_kalloc, FirstFit, RunIsFree
<1>2. n \in 1 .. ram_frames /\ f \in f .. f + n - 1 /\ f .. f + n - 1 \subseteq Frames
  BY <1>1, CoremapAssumption DEF Frames
<1>3. CMInv'
  BY <1>2, KallocInv
<1>4. \A i \in Frames :
        IF i \in f .. f + n - 1
          THEN /\ coremap[i].state = FREE /\ coremap[i].npages = 0
               /\ coremap'[i].state = FIXED
               /\ coremap'[i].npages = IF i = f THEN n ELSE 0
          ELSE coremap'[i] = coremap[i]
  BY <1>1 DEF frame_kalloc, CMInv, FreeIsBlank
<1>5. FREE # FIXED
  BY DEF FREE, FIXED
<1>6. f \notin Starts /\ Starts' = Starts \union {f}
  <2>1. f \notin Starts
    BY <1>2, <1>4, <1>5 DEF Starts
  <2>2. ASSUME NEW i \in Frames
        PROVE  i \in Starts' <=> i \in Starts \/ i = f
    BY <1>2, <1>4, <1>5 DEF Starts
  <2> QED
    BY <2>1, <2>2 DEF Starts
<1>7. BootRight => BootRight'
  BY <1>4, <1>5, EntryFacts DEF BootRight
<1> QED
  BY <1>2, <1>3, <1>6, <1>7

\* free_kpages ends the allocation that starts at the frame it is given, and
\* no other: an allocation that started inside it would not be intact.
LEMMA FreeStarts ==
  ASSUME CMInv, BootRight, NEW f \in Starts, frame_kfree(f)
  PROVE  CMInv' /\ Starts' = Starts \ {f} /\ BootRight'
<1>1. f \in Frames /\ coremap[f].state = FIXED /\ coremap[f].npages > 0
  BY DEF Starts
<1>2. CMInv'
  BY <1>1, KfreeInv
<1>3. \A i \in f .. f + coremap[f].npages - 1 :
        i \in Frames /\ (i # f => coremap[i].npages = 0)
  BY <1>1 DEF CMInv, KernelRunsIntact, Run
<1>4. /\ f \in Nat /\ coremap[f].npages \in Nat
      /\ f \in f .. f + coremap[f].npages - 1
  BY <1>1, EntryFacts
<1>5. \A i \in Frames :
        IF i \in f .. f + coremap[f].npages - 1
          THEN coremap'[i].npages = 0
          ELSE coremap'[i] = coremap[i]
  <2>1. \A i \in Frames : coremap[i] \in cm_entry
    BY DEF CMInv, CMTypeOK
  <2> QED
    BY <2>1 DEF frame_kfree, cm_entry
<1>6. Starts' = Starts \ {f}
  <2>1. ASSUME NEW i \in Frames
        PROVE  i \in Starts' <=> i \in Starts /\ i # f
    BY <1>3, <1>4, <1>5 DEF Starts
  <2> QED
    BY <2>1 DEF Starts
<1>7. BootRight'
  <2> SUFFICES ASSUME NEW i \in 0 .. BootFrames - 1
               PROVE  coremap'[i] = coremap[i]
    BY DEF BootRight
  <2>1. i \in Frames /\ f \notin 0 .. BootFrames - 1 /\ BootFrames \in Nat
    BY <1>1, EntryFacts, CoremapAssumption DEF BootRight
  <2>2. i < f
    BY <1>4, <2>1
  <2> QED
    BY <1>4, <1>5, <2>1, <2>2
<1> QED
  BY <1>2, <1>6, <1>7

\* Both are steps of the coremap.
LEMMA HeapFifoStep ==
  ASSUME CMInv, NEW f \in Frames, UNCHANGED before,
         \/ \E n \in 1 .. ram_frames : frame_kalloc(n, f)
         \/ f \in Starts /\ frame_kfree(f)
  PROVE  FifoNext
BY DEF FifoNext, Starts

\* What ram_stealmem handed out is among the frames the coremap keeps.
LEMMA StolenFrames ==
  ASSUME LargeCoremap
  PROVE  ram_stealmem \subseteq 0 .. BootFrames - 1
<1> DEFINE q == (space + PAGE_SIZE - 1) \div PAGE_SIZE
           p == space \div PAGE_SIZE
<1>1. /\ PAGE_SIZE \in Nat \ {0} /\ space \in Nat /\ BootFrames = p + 1
  BY HeapAssumption, CoremapAssumption DEF space
<1>2. ram_stealmem = 0 .. q - 1
  BY DEF ram_stealmem, LargeCoremap
<1>3. q \in Int /\ p \in Int /\ q <= p + 1
  BY <1>1
<1> QED
  BY <1>1, <1>2, <1>3

-----------------------------------------------------------------------------
(***************************************************************************)
(* The invariant.  The lists are what checksubpages() wants them to be;    *)
(* every heap page has each of its blocks free or given out; a thread that *)
(* has released the spinlock still owns its pageref and the frames in its  *)
(* hands; and every frame of the kernel has one use.  Each part needs the  *)
(* others: a page goes into the lists from a thread's hands, its first     *)
(* block is new because nobody else has that frame, and kfree finds the    *)
(* right page because no two have the same frame.                          *)
(***************************************************************************)

\* Where a thread is when it has a page, and when it has a pageref.
HasPage == {"ref", "rootpage", "rootset", "rootdup", "rootok", "giveup", "freepage"}
HasRef  == {"rootpage", "rootset", "rootdup", "rootok"}

Progress ==
  [at : {"idle", "page"} \union HasPage, blktype : BlockTypes,
   page : Frames \union {NULL}, ref : PageRefs \union {NULL},
   va : Frames \union {NULL}]

RefNumbers == 0 .. NPAGEREFS_PER_PAGE - 1
Root == [page : Frames \union {NULL}, inuse : SUBSET RefNumbers]

HeapTypes ==
  /\ kheaproots \in [Roots -> Root]
  /\ pagerefs \in [PageRefs -> Pageref]
  /\ sizebases \in [BlockTypes -> Seq(PageRefs)]
  /\ allbase \in Seq(PageRefs)
  /\ pointers \subseteq Frames \X (0 .. PAGE_SIZE - 1)
  /\ kpc \in [KThreads -> Progress]

InUse(roots, p) == p[2] \in roots[p[1]].inuse
RootThere(roots, p) == roots[p[1]].page # NULL

ListsRight ==
  /\ Inj(allbase)
  /\ \A b \in BlockTypes :
       /\ Inj(sizebases[b])
       /\ Elems(sizebases[b]) = {p \in Listed : pagerefs[p].blktype = b}
  /\ \A p \in Listed : /\ InUse(kheaproots, p) /\ RootThere(kheaproots, p)
                       /\ pagerefs[p].page # NULL

\* The blocks of the page in frame f that ptrs point to.
BlocksUsed(ptrs, fr) == {ptr[2] : ptr \in {q \in ptrs : q[1] = fr}}

BlocksRight ==
  /\ \A p \in Listed : /\ PageRight(pagerefs[p], BlocksUsed(pointers, pagerefs[p].page))
                       /\ BlocksUsed(pointers, pagerefs[p].page) # {}
  /\ \A ptr \in pointers : ptr[1] \notin HeapFrames => ptr[2] = 0

\* A thread with progress r.
ThreadRight(r, roots, listed) ==
  /\ r.page # NULL <=> r.at \in HasPage
  /\ r.va # NULL => r.at \in {"rootset", "rootdup"}
  /\ r.at = "rootdup" => r.va # NULL
  /\ r.at \in HasRef => r.ref \in PageRefs /\ InUse(roots, r.ref) /\ r.ref \notin listed
  /\ r.at \in {"rootdup", "rootok"} => RootThere(roots, r.ref)

ThreadsRight ==
  /\ \A t \in KThreads : ThreadRight(kpc[t], kheaproots, Listed)
  /\ \A t, u \in KThreads :
       kpc[t].at \in HasRef /\ kpc[u].at \in HasRef /\ kpc[t].ref = kpc[u].ref => t = u

Hand(r) == {r.page, r.va} \ {NULL}

HandsRight ==
  /\ \A t \in KThreads : kpc[t].page # NULL => kpc[t].page # kpc[t].va
  /\ \A t, u \in KThreads : t # u => Disjoint(Hand(kpc[t]), Hand(kpc[u]))

\* S are the frames of the kernel, the others the uses of them.
Accounted(S, H, R, B, I) ==
  /\ S = H \union R \union B \union I
  /\ Disjoint(H, R) /\ Disjoint(H, B) /\ Disjoint(H, I)
  /\ Disjoint(R, B) /\ Disjoint(R, I) /\ Disjoint(B, I)

OnePage == \A p, q \in Listed : pagerefs[p].page = pagerefs[q].page => p = q
OneRoot ==
  \A r, q \in Roots :
    kheaproots[r].page # NULL /\ kheaproots[r].page = kheaproots[q].page => r = q

UsesRight ==
  /\ Accounted(Starts, HeapFrames, RootFrames, BigFrames, InHand)
  /\ OnePage /\ OneRoot

HeapInv ==
  /\ CMInv /\ BootRight
  /\ HeapTypes /\ ListsRight /\ BlocksRight
  /\ ThreadsRight /\ HandsRight /\ UsesRight

-----------------------------------------------------------------------------
(***************************************************************************)
(* Lemmas about the parts of the state that several steps change.          *)
(***************************************************************************)

\* The listed pagerefs are the elements of the list of all pages.
LEMMA ListedIs == Listed = Elems(allbase) /\ Listed' = Elems(allbase')
BY DEF Listed, Elems

\* A pageref has a root and a number in it.
LEMMA PageRefParts ==
  ASSUME NEW p \in PageRefs
  PROVE  p[1] \in Roots /\ p[2] \in RefNumbers /\ p = <<p[1], p[2]>>
BY DEF PageRefs, RefNumbers

\* The frames in the hands of the threads.
LEMMA InHandIs ==
  /\ InHand = UNION {Hand(kpc[t]) : t \in KThreads}
  /\ InHand' = UNION {Hand(kpc'[t]) : t \in KThreads}
BY DEF InHand, Hand

\* A pointer less.
LEMMA UsedDel ==
  ASSUME HeapTypes, NEW ptr \in pointers, pointers' = pointers \ {ptr}
  PROVE  /\ ptr[2] \in BlocksUsed(pointers, ptr[1])
         /\ BlocksUsed(pointers', ptr[1]) = BlocksUsed(pointers, ptr[1]) \ {ptr[2]}
         /\ \A f : f # ptr[1] => BlocksUsed(pointers', f) = BlocksUsed(pointers, f)
<1>1. \A q \in pointers : q[1] = ptr[1] /\ q[2] = ptr[2] => q = ptr
  BY DEF HeapTypes
<1>2. ASSUME NEW f, f # ptr[1]
      PROVE  BlocksUsed(pointers', f) = BlocksUsed(pointers, f)
  <2>1. {q \in pointers' : q[1] = f} = {q \in pointers : q[1] = f}
    BY <1>2
  <2> QED
    BY <2>1 DEF BlocksUsed
<1> QED
  BY <1>1, <1>2 DEF BlocksUsed

\* A step of thread t that takes it to r, with nothing new in its hands that
\* another thread has, and that leaves the pagerefs of the others alone.
LEMMA ThreadStep ==
  ASSUME HeapTypes, ThreadsRight, HandsRight,
         NEW t \in KThreads, NEW r \in Progress, kpc' = [kpc EXCEPT ![t] = r],
         ThreadRight(r, kheaproots', Listed'),
         \A u \in KThreads \ {t} : kpc[u].at \in HasRef =>
           /\ InUse(kheaproots', kpc[u].ref) /\ kpc[u].ref \notin Listed'
           /\ r.at \in HasRef => r.ref # kpc[u].ref,
         \A p \in PageRefs : RootThere(kheaproots, p) => RootThere(kheaproots', p),
         r.page # NULL => r.page # r.va,
         Disjoint(Hand(r) \ Hand(kpc[t]), InHand)
  PROVE  /\ kpc' \in [KThreads -> Progress] /\ ThreadsRight' /\ HandsRight'
         /\ InHand' = (InHand \ Hand(kpc[t])) \union Hand(r)
<1>1. /\ kpc' \in [KThreads -> Progress] /\ kpc'[t] = r
      /\ \A u \in KThreads \ {t} : kpc'[u] = kpc[u]
  BY DEF HeapTypes
<1>2. ThreadsRight'
  <2>1. \A u \in KThreads : ThreadRight(kpc'[u], kheaproots', Listed')
    <3> SUFFICES ASSUME NEW u \in KThreads \ {t}
                 PROVE  ThreadRight(kpc[u], kheaproots', Listed')
      BY <1>1
    <3>1. ThreadRight(kpc[u], kheaproots, Listed)
      BY DEF ThreadsRight
    <3> QED
      BY <3>1 DEF ThreadRight, HasRef
  <2>2. \A u, v \in KThreads :
          kpc'[u].at \in HasRef /\ kpc'[v].at \in HasRef /\ kpc'[u].ref = kpc'[v].ref => u = v
    BY <1>1 DEF ThreadsRight
  <2> QED
    BY <2>1, <2>2 DEF ThreadsRight
<1>3. HandsRight'
  <2>1. \A u \in KThreads : kpc'[u].page # NULL => kpc'[u].page # kpc'[u].va
    BY <1>1 DEF HandsRight
  <2>2. ASSUME NEW u \in KThreads \ {t}
        PROVE  Disjoint(Hand(r), Hand(kpc[u]))
    <3>1. Hand(kpc[u]) \subseteq InHand
      BY InHandIs
    <3>2. Disjoint(Hand(kpc[t]), Hand(kpc[u]))
      BY DEF HandsRight
    <3> QED
      BY <3>1, <3>2 DEF Disjoint
  <2>3. ASSUME NEW u \in KThreads, NEW v \in KThreads, u # v
        PROVE  Disjoint(Hand(kpc'[u]), Hand(kpc'[v]))
    <3>1. CASE u = t
      BY <1>1, <2>2, <2>3, <3>1
    <3>2. CASE v = t
      BY <1>1, <2>2, <2>3, <3>2 DEF Disjoint
    <3>3. CASE u # t /\ v # t
      BY <1>1, <2>3, <3>3 DEF HandsRight
    <3> QED
      BY <3>1, <3>2, <3>3
  <2> QED
    BY <2>1, <2>3 DEF HandsRight
<1>4. InHand' = (InHand \ Hand(kpc[t])) \union Hand(r)
  <2>1. \A u \in KThreads \ {t} : Hand(kpc'[u]) = Hand(kpc[u])
                                    /\ Disjoint(Hand(kpc[t]), Hand(kpc[u]))
    BY <1>1 DEF HandsRight
  <2>2. Hand(kpc'[t]) = Hand(r)
    BY <1>1
  <2> QED
    BY <2>1, <2>2, InHandIs DEF Disjoint
<1> QED
  BY <1>1, <1>2, <1>3, <1>4

\* What a thread's hands hold is in the kernel's frames and nowhere else.
LEMMA HandFacts ==
  ASSUME HeapInv, NEW t \in KThreads
  PROVE  /\ kpc[t] \in Progress
         /\ Hand(kpc[t]) \subseteq InHand /\ Hand(kpc[t]) \subseteq Frames
         /\ \A f \in Hand(kpc[t]) : /\ f \in Starts /\ f \notin HeapFrames
                                    /\ f \notin RootFrames /\ f \notin BigFrames
<1>1. kpc[t] \in Progress /\ Hand(kpc[t]) \subseteq InHand
  BY InHandIs DEF HeapInv, HeapTypes
<1>2. Hand(kpc[t]) \subseteq Frames
  BY <1>1 DEF Progress, Hand
<1>3. Accounted(Starts, HeapFrames, RootFrames, BigFrames, InHand)
  BY DEF HeapInv, UsesRight
<1> QED
  BY <1>1, <1>2, <1>3 DEF Accounted, Disjoint

\* What is unchanged when the lists, the pagerefs and the pointers are.
LEMMA ListsStay ==
  ASSUME HeapInv, listsunchanged, UNCHANGED pointers
  PROVE  /\ ListsRight' /\ BlocksRight' /\ OnePage' /\ OneRoot'
         /\ Listed' = Listed /\ HeapFrames' = HeapFrames
         /\ RootFrames' = RootFrames /\ BigFrames' = BigFrames
<1>1. /\ kheaproots' = kheaproots /\ pagerefs' = pagerefs /\ sizebases' = sizebases
      /\ allbase' = allbase /\ pointers' = pointers
  BY DEF listsunchanged
<1>2. Listed' = Listed
  BY <1>1, ListedIs
<1>3. HeapFrames' = HeapFrames /\ RootFrames' = RootFrames
  BY <1>1, <1>2 DEF HeapFrames, RootFrames
<1>4. BigFrames' = BigFrames
  BY <1>1, <1>3 DEF BigFrames
<1>5. ListsRight /\ BlocksRight /\ OnePage /\ OneRoot
  BY DEF HeapInv, UsesRight
<1>6. ListsRight'
  BY <1>1, <1>2, <1>5 DEF ListsRight
<1>7. BlocksRight'
  BY <1>1, <1>2, <1>3, <1>5 DEF BlocksRight
<1>8. OnePage' /\ OneRoot'
  BY <1>1, <1>2, <1>5 DEF OnePage, OneRoot
<1> QED
  BY <1>2, <1>3, <1>4, <1>6, <1>7, <1>8

\* The coremap is as it was.
LEMMA CoremapStays ==
  ASSUME CMInv, BootRight, cmunchanged
  PROVE  CMInv' /\ BootRight' /\ Starts' = Starts
<1>1. coremap' = coremap /\ timestamp' = timestamp
  BY DEF cmunchanged
<1>2. CMInv'
  BY <1>1, CMInvNext DEF cmvars
<1> QED
  BY <1>1, <1>2 DEF BootRight, Starts

\* A step in which only the hands of thread t and the coremap change: what
\* the thread takes or gives back is taken from or given back to the coremap.
LEMMA HandStep ==
  ASSUME HeapInv, CMInv', BootRight', listsunchanged, UNCHANGED pointers,
         NEW t \in KThreads, NEW r \in Progress, kpc' = [kpc EXCEPT ![t] = r],
         ThreadRight(r, kheaproots, Listed),
         r.at \in HasRef => kpc[t].at \in HasRef /\ r.ref = kpc[t].ref,
         r.page # NULL => r.page # r.va,
         Starts' = (Starts \ Hand(kpc[t])) \union Hand(r),
         Disjoint(Hand(r) \ Hand(kpc[t]), Starts)
  PROVE  HeapInv'
<1>1. /\ ListsRight' /\ BlocksRight' /\ OnePage' /\ OneRoot'
      /\ Listed' = Listed /\ HeapFrames' = HeapFrames
      /\ RootFrames' = RootFrames /\ BigFrames' = BigFrames
  BY ListsStay
<1>2. kheaproots' = kheaproots
  BY DEF listsunchanged
<1>3. Accounted(Starts, HeapFrames, RootFrames, BigFrames, InHand)
  BY DEF HeapInv, UsesRight
<1>4. Hand(kpc[t]) \subseteq InHand
  BY InHandIs
<1>5. Disjoint(Hand(r) \ Hand(kpc[t]), InHand)
  BY <1>3 DEF Accounted, Disjoint
<1>6. ASSUME NEW u \in KThreads \ {t}, kpc[u].at \in HasRef
      PROVE  /\ InUse(kheaproots', kpc[u].ref) /\ kpc[u].ref \notin Listed'
             /\ r.at \in HasRef => r.ref # kpc[u].ref
  <2>1. ThreadRight(kpc[u], kheaproots, Listed)
    BY DEF HeapInv, ThreadsRight
  <2>2. r.at \in HasRef => r.ref # kpc[u].ref
    BY <1>6 DEF HeapInv, ThreadsRight
  <2> QED
    BY <1>1, <1>2, <1>6, <2>1, <2>2 DEF ThreadRight
<1>7. HeapTypes /\ ThreadsRight /\ HandsRight
  BY DEF HeapInv
<1>8. /\ kpc' \in [KThreads -> Progress] /\ ThreadsRight' /\ HandsRight'
      /\ InHand' = (InHand \ Hand(kpc[t])) \union Hand(r)
  BY <1>1, <1>2, <1>5, <1>6, <1>7, ThreadStep
<1>9. Accounted(Starts, HeapFrames, RootFrames, BigFrames, InHand)'
  BY <1>1, <1>3, <1>4, <1>8 DEF Accounted, Disjoint
<1>10. HeapTypes'
  BY <1>7, <1>8 DEF HeapTypes, listsunchanged
<1> QED
  BY <1>1, <1>8, <1>9, <1>10 DEF HeapInv, UsesRight

\* What the guards of the steps say of a thread.
LEMMA AtFacts ==
  ASSUME HeapInv, NEW t \in KThreads
  PROVE  /\ kpc[t] \in Progress /\ ThreadRight(kpc[t], kheaproots, Listed)
         /\ kpc[t].page # NULL => kpc[t].page # kpc[t].va
BY DEF HeapInv, HeapTypes, ThreadsRight, HandsRight

\* Where Goto and Return take a thread.
LEMMA GotoIs ==
  ASSUME HeapTypes, NEW t \in KThreads,
         NEW s \in {"idle", "page"} \union HasPage, Goto(t, s)
  PROVE  \E r \in Progress :
           /\ kpc' = [kpc EXCEPT ![t] = r]
           /\ r.at = s /\ r.page = kpc[t].page /\ r.va = kpc[t].va
           /\ r.ref = kpc[t].ref /\ Hand(r) = Hand(kpc[t])
<1> DEFINE r == [kpc[t] EXCEPT !.at = s]
<1>1. kpc[t] \in Progress /\ kpc' = [kpc EXCEPT ![t] = r]
  BY DEF HeapTypes, Goto
<1>2. /\ r \in Progress /\ r.at = s /\ r.page = kpc[t].page /\ r.va = kpc[t].va
      /\ r.ref = kpc[t].ref
  BY <1>1 DEF Progress
<1> HIDE DEF r
<1> QED
  BY <1>1, <1>2 DEF Hand

\* A thread that is in neither call has nothing in its hands.
LEMMA IdleFacts ==
  /\ Idle \in Progress /\ Hand(Idle) = {} /\ Idle.at = "idle"
  /\ Idle.page = NULL /\ Idle.va = NULL
  /\ \A roots, listed : ThreadRight(Idle, roots, listed)
<1>1. 1 \in BlockTypes
  BY HeapAssumption, SeqFacts DEF BlockTypes, NSIZES
<1> QED
  BY <1>1 DEF Idle, Progress, Hand, ThreadRight, HasPage, HasRef

-----------------------------------------------------------------------------
(***************************************************************************)
(* The steps in which a thread takes a frame or gives one back.            *)
(***************************************************************************)

\* The page of a new heap page, or NULL and the end of the call.
LEMMA alloc_heap_page_Inv ==
  ASSUME HeapInv, NEW t \in KThreads, alloc_heap_page(t)
  PROVE  HeapInv'
<1>1. /\ kpc[t] \in Progress /\ ThreadRight(kpc[t], kheaproots, Listed)
      /\ kpc[t].at = "page" /\ listsunchanged /\ UNCHANGED pointers
  BY AtFacts DEF alloc_heap_page, At
<1>2. kpc[t].page = NULL /\ kpc[t].va = NULL /\ Hand(kpc[t]) = {}
  BY <1>1 DEF ThreadRight, HasPage, Hand
<1>3. CMInv /\ BootRight /\ HeapTypes
  BY DEF HeapInv
<1>4. ASSUME NEW f \in Frames, frame_kalloc(1, f),
             kpc' = [kpc EXCEPT ![t].at = "ref", ![t].page = f]
      PROVE  HeapInv'
  <2> DEFINE r == [kpc[t] EXCEPT !.at = "ref", !.page = f]
  <2>1. kpc' = [kpc EXCEPT ![t] = r]
    BY <1>3, <1>4 DEF HeapTypes
  <2>2. /\ r \in Progress /\ r.at = "ref" /\ r.page = f /\ r.va = NULL
    BY <1>1, <1>2 DEF Progress, HasPage
  <2> HIDE DEF r
  <2>3. f # NULL
    BY HeapAssumption
  <2>4. ThreadRight(r, kheaproots, Listed) /\ r.at \notin HasRef /\ Hand(r) = {f}
    BY <2>2, <2>3 DEF ThreadRight, HasPage, HasRef, Hand
  <2>5. CMInv' /\ BootRight' /\ f \notin Starts /\ Starts' = Starts \union {f}
    BY <1>3, <1>4, AllocStarts
  <2> QED
    BY <1>1, <1>2, <2>1, <2>2, <2>3, <2>4, <2>5, HandStep DEF Disjoint
<1>5. ASSUME Return(t), cmunchanged
      PROVE  HeapInv'
  <2>1. CMInv' /\ BootRight' /\ Starts' = Starts
    BY <1>3, <1>5, CoremapStays
  <2> QED
    BY <1>1, <1>2, <1>5, <2>1, IdleFacts, HandStep DEF Disjoint, Return, HasRef
<1> QED
  BY <1>4, <1>5 DEF alloc_heap_page

\* A page for pagerefs: until it is set it is in the thread's hands.
LEMMA alloc_root_page_Inv ==
  ASSUME HeapInv, NEW t \in KThreads, alloc_root_page(t)
  PROVE  HeapInv'
<1>1. /\ kpc[t] \in Progress /\ ThreadRight(kpc[t], kheaproots, Listed)
      /\ kpc[t].at = "rootpage" /\ listsunchanged /\ UNCHANGED pointers
  BY AtFacts DEF alloc_root_page, At
<1>2. /\ kpc[t].page # NULL /\ kpc[t].va = NULL /\ Hand(kpc[t]) = {kpc[t].page}
      /\ kpc[t].at \in HasRef
  BY <1>1 DEF ThreadRight, HasPage, HasRef, Hand
<1>3. CMInv /\ BootRight /\ HeapTypes
  BY DEF HeapInv
<1>4. ASSUME NEW f \in Frames, frame_kalloc(1, f),
             kpc' = [kpc EXCEPT ![t].at = "rootset", ![t].va = f]
      PROVE  HeapInv'
  <2> DEFINE r == [kpc[t] EXCEPT !.at = "rootset", !.va = f]
  <2>1. kpc' = [kpc EXCEPT ![t] = r]
    BY <1>3, <1>4 DEF HeapTypes
  <2>2. /\ r \in Progress /\ r.at = "rootset" /\ r.page = kpc[t].page /\ r.va = f
        /\ r.ref = kpc[t].ref
    BY <1>1, <1>2 DEF Progress, HasPage
  <2> HIDE DEF r
  <2>3. f # NULL
    BY HeapAssumption
  <2>4. ThreadRight(r, kheaproots, Listed) /\ Hand(r) = Hand(kpc[t]) \union {f}
    BY <1>1, <1>2, <2>2, <2>3 DEF ThreadRight, HasPage, HasRef, Hand
  <2>5. CMInv' /\ BootRight' /\ f \notin Starts /\ Starts' = Starts \union {f}
    BY <1>3, <1>4, AllocStarts
  <2>6. kpc[t].page \in Starts
    BY <1>2, HandFacts
  <2> QED
    BY <1>1, <1>2, <2>1, <2>2, <2>3, <2>4, <2>5, <2>6, HandStep DEF Disjoint
<1>5. ASSUME Goto(t, "rootset"), cmunchanged
      PROVE  HeapInv'
  <2>1. CMInv' /\ BootRight' /\ Starts' = Starts
    BY <1>3, <1>5, CoremapStays
  <2>2. PICK r \in Progress :
          /\ kpc' = [kpc EXCEPT ![t] = r]
          /\ r.at = "rootset" /\ r.page = kpc[t].page /\ r.va = kpc[t].va
          /\ r.ref = kpc[t].ref /\ Hand(r) = Hand(kpc[t])
    BY <1>3, <1>5, GotoIs DEF HasPage
  <2>3. ThreadRight(r, kheaproots, Listed)
    BY <1>1, <2>2 DEF ThreadRight, HasPage, HasRef
  <2>4. Starts' = (Starts \ Hand(kpc[t])) \union Hand(r)
    BY <2>1, <2>2, HandFacts
  <2> QED
    BY <1>1, <1>2, <2>1, <2>2, <2>3, <2>4, HandStep DEF Disjoint
<1> QED
  BY <1>4, <1>5 DEF alloc_root_page

\* "Oops, somebody else allocated it": the second page goes back.
LEMMA free_duplicate_Inv ==
  ASSUME HeapInv, NEW t \in KThreads, free_duplicate(t)
  PROVE  HeapInv'
<1>1. /\ kpc[t] \in Progress /\ ThreadRight(kpc[t], kheaproots, Listed)
      /\ kpc[t].page # NULL => kpc[t].page # kpc[t].va
      /\ kpc[t].at = "rootdup" /\ listsunchanged /\ UNCHANGED pointers
      /\ frame_kfree(kpc[t].va)
      /\ kpc' = [kpc EXCEPT ![t].at = "rootok", ![t].va = NULL]
  BY AtFacts DEF free_duplicate, At
<1>2. /\ kpc[t].page # NULL /\ kpc[t].va # NULL /\ kpc[t].at \in HasRef
      /\ Hand(kpc[t]) = {kpc[t].page, kpc[t].va} /\ kpc[t].page # kpc[t].va
  BY <1>1 DEF ThreadRight, HasPage, HasRef, Hand
<1>3. CMInv /\ BootRight /\ HeapTypes
  BY DEF HeapInv
<1> DEFINE r == [kpc[t] EXCEPT !.at = "rootok", !.va = NULL]
<1>4. kpc' = [kpc EXCEPT ![t] = r]
  BY <1>1, <1>3 DEF HeapTypes
<1>5. /\ r \in Progress /\ r.at = "rootok" /\ r.page = kpc[t].page /\ r.va = NULL
      /\ r.ref = kpc[t].ref
  BY <1>1 DEF Progress, HasPage
<1> HIDE DEF r
<1>6. ThreadRight(r, kheaproots, Listed) /\ Hand(r) = {kpc[t].page}
  BY <1>1, <1>2, <1>5 DEF ThreadRight, HasPage, HasRef, Hand
<1>7. kpc[t].page \in Starts /\ kpc[t].va \in Starts
  BY <1>2, HandFacts
<1>8. CMInv' /\ BootRight' /\ Starts' = Starts \ {kpc[t].va}
  BY <1>1, <1>3, <1>7, FreeStarts
<1>9. /\ Starts' = (Starts \ Hand(kpc[t])) \union Hand(r)
      /\ Disjoint(Hand(r) \ Hand(kpc[t]), Starts)
  BY <1>2, <1>6, <1>7, <1>8 DEF Disjoint
<1> QED
  BY <1>1, <1>2, <1>4, <1>5, <1>6, <1>8, <1>9, HandStep

\* The page for which there is no pageref, and the page that kfree took.
LEMMA free_page_Inv ==
  ASSUME HeapInv, NEW t \in KThreads, giveup(t) \/ free_kpages(t)
  PROVE  HeapInv'
<1>1. /\ kpc[t] \in Progress /\ ThreadRight(kpc[t], kheaproots, Listed)
      /\ kpc[t].at \in {"giveup", "freepage"} /\ listsunchanged /\ UNCHANGED pointers
      /\ frame_kfree(kpc[t].page) /\ kpc' = [kpc EXCEPT ![t] = Idle]
  BY AtFacts DEF giveup, free_kpages, At, Return
<1>2. kpc[t].page # NULL /\ kpc[t].va = NULL /\ Hand(kpc[t]) = {kpc[t].page}
  BY <1>1 DEF ThreadRight, HasPage, Hand
<1>3. kpc[t].page \in Starts
  BY <1>2, HandFacts
<1>4. CMInv' /\ BootRight' /\ Starts' = Starts \ {kpc[t].page}
  BY <1>1, <1>3, FreeStarts DEF HeapInv
<1> QED
  BY <1>1, <1>2, <1>4, IdleFacts, HandStep DEF Disjoint, HasRef

-----------------------------------------------------------------------------
(***************************************************************************)
(* The steps of allocpageref: a pageref is marked in use, its page is      *)
(* found or set, and the new heap page goes into the lists.                *)
(***************************************************************************)

\* A thread goes on without a change to anything else.
LEMMA GotoStep ==
  ASSUME HeapInv, NEW t \in KThreads, NEW s \in HasPage, Goto(t, s),
         listsunchanged, UNCHANGED pointers, cmunchanged,
         kpc[t].at \in HasPage, s \in HasRef => kpc[t].at \in HasRef,
         kpc[t].va # NULL => s \in {"rootset", "rootdup"},
         s = "rootdup" => kpc[t].va # NULL,
         s \in {"rootdup", "rootok"} => RootThere(kheaproots, kpc[t].ref)
  PROVE  HeapInv'
<1>1. PICK r \in Progress :
        /\ kpc' = [kpc EXCEPT ![t] = r]
        /\ r.at = s /\ r.page = kpc[t].page /\ r.va = kpc[t].va
        /\ r.ref = kpc[t].ref /\ Hand(r) = Hand(kpc[t])
  BY GotoIs DEF HeapInv
<1>2. /\ ThreadRight(kpc[t], kheaproots, Listed)
      /\ kpc[t].page # NULL => kpc[t].page # kpc[t].va
  BY AtFacts
<1>3. ThreadRight(r, kheaproots, Listed)
  BY <1>1, <1>2 DEF ThreadRight
<1>4. CMInv' /\ BootRight' /\ Starts' = Starts
  BY CoremapStays DEF HeapInv
<1>5. Starts' = (Starts \ Hand(kpc[t])) \union Hand(r)
  BY <1>1, <1>4, HandFacts
<1>6. Disjoint(Hand(r) \ Hand(kpc[t]), Starts)
  BY <1>1 DEF Disjoint
<1> QED
  BY <1>1, <1>2, <1>3, <1>4, <1>5, <1>6, HandStep

\* A pageref is marked in use.
LEMMA MarkInUse ==
  ASSUME HeapTypes, NEW p \in PageRefs,
         kheaproots' = [kheaproots EXCEPT ![p[1]].inuse = @ \union {p[2]}]
  PROVE  /\ kheaproots' \in [Roots -> Root]
         /\ \A q \in PageRefs :
              /\ InUse(kheaproots, q) => InUse(kheaproots', q)
              /\ RootThere(kheaproots', q) <=> RootThere(kheaproots, q)
         /\ InUse(kheaproots', p)
         /\ RootFrames' = RootFrames /\ (OneRoot => OneRoot')
<1>1. p[1] \in Roots /\ p[2] \in RefNumbers
  BY PageRefParts
<1>2. \A r \in Roots : kheaproots[r] \in Root
  BY DEF HeapTypes
<1>3. \A r \in Roots :
        /\ kheaproots'[r] \in Root
        /\ kheaproots'[r].page = kheaproots[r].page
        /\ kheaproots'[r].inuse
             = IF r = p[1] THEN kheaproots[r].inuse \union {p[2]} ELSE kheaproots[r].inuse
  <2>1. kheaproots'
          = [kheaproots EXCEPT ![p[1]] =
               [kheaproots[p[1]] EXCEPT !.inuse = kheaproots[p[1]].inuse \union {p[2]}]]
    OBVIOUS
  <2>2. kheaproots[p[1]].inuse \union {p[2]} \in SUBSET RefNumbers
    BY <1>1, <1>2 DEF Root
  <2> DEFINE new == [kheaproots[p[1]] EXCEPT !.inuse = kheaproots[p[1]].inuse \union {p[2]}]
  <2>3. /\ new \in Root /\ new.page = kheaproots[p[1]].page
        /\ new.inuse = kheaproots[p[1]].inuse \union {p[2]}
    BY <1>1, <1>2, <2>2 DEF Root
  <2>4. kheaproots' = [kheaproots EXCEPT ![p[1]] = new]
    BY <2>1
  <2> HIDE DEF new
  <2>5. \A r \in Roots : kheaproots'[r] = IF r = p[1] THEN new ELSE kheaproots[r]
    BY <1>1, <2>4 DEF HeapTypes
  <2> QED
    BY <1>1, <1>2, <2>3, <2>5
<1>4. kheaproots' \in [Roots -> Root]
  <2>1. kheaproots' = [r \in Roots |-> kheaproots'[r]]
    BY <1>1 DEF HeapTypes
  <2> QED
    BY <1>3, <2>1
<1>5. \A q \in PageRefs : q[1] \in Roots
  BY PageRefParts
<1> QED
  BY <1>1, <1>3, <1>4, <1>5 DEF InUse, RootThere, RootFrames, OneRoot

\* Only marks in use and pages of pagerefs are added.
LEMMA RootsStep ==
  ASSUME HeapInv, UNCHANGED <<pagerefs, sizebases, allbase, pointers>>,
         \A q \in PageRefs : /\ InUse(kheaproots, q) => InUse(kheaproots', q)
                             /\ RootThere(kheaproots, q) => RootThere(kheaproots', q)
  PROVE  /\ ListsRight' /\ BlocksRight' /\ OnePage'
         /\ Listed' = Listed /\ HeapFrames' = HeapFrames /\ BigFrames' = BigFrames
<1>1. Listed' = Listed
  BY ListedIs
<1>2. Listed \subseteq PageRefs
  BY ListedIs, SeqFacts DEF HeapInv, HeapTypes
<1>3. HeapFrames' = HeapFrames
  BY <1>1 DEF HeapFrames
<1>4. BigFrames' = BigFrames
  BY <1>3 DEF BigFrames
<1>5. ListsRight /\ BlocksRight /\ OnePage
  BY DEF HeapInv, UsesRight
<1>6. ListsRight'
  BY <1>1, <1>2, <1>5 DEF ListsRight
<1>7. BlocksRight' /\ OnePage'
  BY <1>1, <1>3, <1>5 DEF BlocksRight, OnePage
<1> QED
  BY <1>1, <1>3, <1>4, <1>6, <1>7

\* A thread that has a page and a pageref makes a heap page of them.
LEMMA UsePageStep ==
  ASSUME HeapInv, NEW t \in KThreads, NEW p \in PageRefs, p \notin Listed,
         UsePage(t, p), cmunchanged, kpc[t].at \in HasPage,
         \A u \in KThreads \ {t} : kpc[u].at \in HasRef => kpc[u].ref # p,
         kheaproots' \in [Roots -> Root],
         \A q \in PageRefs : /\ InUse(kheaproots, q) => InUse(kheaproots', q)
                             /\ RootThere(kheaproots, q) => RootThere(kheaproots', q),
         InUse(kheaproots', p), RootThere(kheaproots', p),
         RootFrames' = RootFrames \union (Hand(kpc[t]) \ {kpc[t].page}), OneRoot'
  PROVE  HeapInv'
<1> DEFINE f == kpc[t].page
           b == kpc[t].blktype
           new == TakeBlock(NewPage(f, b))
           o == Head(NewPage(f, b).freelist)
<1>1. kpc[t] \in Progress /\ ThreadRight(kpc[t], kheaproots, Listed)
  BY AtFacts
<1>2. f \in Frames /\ f # NULL /\ f \in Hand(kpc[t]) /\ b \in BlockTypes
  BY <1>1 DEF ThreadRight, Progress, Hand
<1>3. f \notin HeapFrames /\ f \notin BigFrames
  BY <1>2, HandFacts
<1>4. /\ new \in Pageref /\ new.page = f /\ new.blktype = b
      /\ NewPage(f, b).page = f
      /\ o \in Blocks(b) /\ PageRight(new, {o})
  BY <1>2, NewRight
<1>5. /\ pagerefs' = [pagerefs EXCEPT ![p] = new]
      /\ sizebases' = [sizebases EXCEPT ![b] = <<p>> \o sizebases[b]]
      /\ allbase' = <<p>> \o allbase
      /\ pointers' = pointers \union {<<f, o>>}
      /\ kpc' = [kpc EXCEPT ![t] = Idle]
  BY <1>4 DEF UsePage, Return
<1> HIDE DEF f, b, new, o
<1>6. /\ HeapTypes /\ ListsRight /\ BlocksRight /\ ThreadsRight /\ HandsRight
      /\ OnePage /\ Accounted(Starts, HeapFrames, RootFrames, BigFrames, InHand)
  BY DEF HeapInv, UsesRight
<1>7. /\ pagerefs' \in [PageRefs -> Pageref] /\ pagerefs'[p] = new
      /\ \A q \in PageRefs \ {p} : pagerefs'[q] = pagerefs[q]
  BY <1>4, <1>5, <1>6 DEF HeapTypes
<1>8. Listed \subseteq PageRefs
  BY <1>6, ListedIs, SeqFacts DEF HeapTypes
<1>9. allbase' \in Seq(PageRefs) /\ Inj(allbase') /\ Listed' = Listed \union {p}
  BY <1>5, <1>6, ListedIs, ConsList DEF HeapTypes, ListsRight
<1>10. /\ sizebases' \in [BlockTypes -> Seq(PageRefs)]
       /\ \A c \in BlockTypes :
            /\ Inj(sizebases'[c])
            /\ Elems(sizebases'[c]) = {q \in Listed' : pagerefs'[q].blktype = c}
  <2>1. /\ sizebases[b] \in Seq(PageRefs) /\ Inj(sizebases[b])
        /\ Elems(sizebases[b]) = {q \in Listed : pagerefs[q].blktype = b}
    BY <1>2, <1>6 DEF HeapTypes, ListsRight
  <2>2. /\ <<p>> \o sizebases[b] \in Seq(PageRefs) /\ Inj(<<p>> \o sizebases[b])
        /\ Elems(<<p>> \o sizebases[b]) = Elems(sizebases[b]) \union {p}
    BY <2>1, ConsList
  <2>3. /\ sizebases' \in [BlockTypes -> Seq(PageRefs)]
        /\ sizebases'[b] = <<p>> \o sizebases[b]
        /\ \A c \in BlockTypes \ {b} : sizebases'[c] = sizebases[c]
    BY <1>2, <1>5, <1>6, <2>2 DEF HeapTypes
  <2>4. {q \in Listed' : pagerefs'[q].blktype = b}
          = {q \in Listed : pagerefs[q].blktype = b} \union {p}
    BY <1>4, <1>7, <1>8, <1>9
  <2>5. \A c \in BlockTypes \ {b} :
          {q \in Listed' : pagerefs'[q].blktype = c}
            = {q \in Listed : pagerefs[q].blktype = c}
    BY <1>4, <1>7, <1>8, <1>9
  <2>6. \A c \in BlockTypes \ {b} :
          /\ Inj(sizebases[c])
          /\ Elems(sizebases[c]) = {q \in Listed : pagerefs[q].blktype = c}
    BY <1>6 DEF ListsRight
  <2>7. ASSUME NEW c \in BlockTypes
        PROVE  /\ Inj(sizebases'[c])
               /\ Elems(sizebases'[c]) = {q \in Listed' : pagerefs'[q].blktype = c}
    <3>1. CASE c = b
      BY <2>1, <2>2, <2>3, <2>4, <3>1
    <3>2. CASE c # b
      BY <2>3, <2>5, <2>6, <3>2
    <3> QED
      BY <3>1, <3>2
  <2> QED
    BY <2>3, <2>7
<1>11. ListsRight'
  <2>1. \A q \in Listed : /\ InUse(kheaproots, q) /\ RootThere(kheaproots, q)
                          /\ pagerefs[q].page # NULL
    BY <1>6 DEF ListsRight
  <2>2. \A q \in Listed' : /\ InUse(kheaproots', q) /\ RootThere(kheaproots', q)
                           /\ pagerefs'[q].page # NULL
    BY <1>2, <1>4, <1>7, <1>8, <1>9, <2>1
  <2> QED
    BY <1>9, <1>10, <2>2 DEF ListsRight
<1>12. HeapFrames' = HeapFrames \union {f}
  BY <1>4, <1>7, <1>8, <1>9 DEF HeapFrames
<1>13. BigFrames' = BigFrames
  BY <1>3, <1>5, <1>12 DEF BigFrames
<1>14. OnePage'
  BY <1>3, <1>4, <1>6, <1>7, <1>8, <1>9 DEF OnePage, HeapFrames
<1>15. BlocksUsed(pointers, f) = {}
  BY <1>3 DEF BlocksUsed, BigFrames
<1>16. BlocksRight'
  <2>5. pointers' = pointers \union {<<f, o>>}
    BY <1>5
  <2>4. ASSUME NEW g
        PROVE  BlocksUsed(pointers', g)
                 = IF g = f THEN BlocksUsed(pointers, g) \union {o} ELSE BlocksUsed(pointers, g)
    <3>1. <<f, o>>[1] = f /\ <<f, o>>[2] = o
      OBVIOUS
    <3> QED
      BY <2>5, <3>1 DEF BlocksUsed
  <2>1. ASSUME NEW q \in Listed
        PROVE  /\ PageRight(pagerefs'[q], BlocksUsed(pointers', pagerefs'[q].page))
               /\ BlocksUsed(pointers', pagerefs'[q].page) # {}
    <3>1. pagerefs'[q] = pagerefs[q] /\ pagerefs[q].page # f
      BY <1>3, <1>7, <1>8 DEF HeapFrames
    <3>2. BlocksUsed(pointers', pagerefs[q].page) = BlocksUsed(pointers, pagerefs[q].page)
      BY <2>4, <3>1
    <3> QED
      BY <1>6, <3>1, <3>2 DEF BlocksRight
  <2>2. BlocksUsed(pointers', f) = {o}
    BY <1>15, <2>4
  <2>3. \A ptr \in pointers' : ptr[1] \notin HeapFrames' => ptr[2] = 0
    BY <1>5, <1>6, <1>12 DEF BlocksRight
  <2> QED
    BY <1>4, <1>7, <1>9, <2>1, <2>2, <2>3 DEF BlocksRight
<1>17. ASSUME NEW u \in KThreads \ {t}, kpc[u].at \in HasRef
       PROVE  /\ InUse(kheaproots', kpc[u].ref) /\ kpc[u].ref \notin Listed'
              /\ Idle.at \in HasRef => Idle.ref # kpc[u].ref
  <2>1. ThreadRight(kpc[u], kheaproots, Listed)
    BY <1>6 DEF ThreadsRight
  <2> QED
    BY <1>9, <1>17, <2>1, IdleFacts DEF ThreadRight, HasRef
<1>18. /\ kpc' \in [KThreads -> Progress] /\ ThreadsRight' /\ HandsRight'
       /\ InHand' = (InHand \ Hand(kpc[t])) \union Hand(Idle)
  <2>1. Disjoint(Hand(Idle) \ Hand(kpc[t]), InHand)
    BY IdleFacts DEF Disjoint
  <2> QED
    BY <1>5, <1>6, <1>17, <2>1, IdleFacts, ThreadStep
<1>19. CMInv' /\ BootRight' /\ Starts' = Starts
  BY CoremapStays DEF HeapInv
<1>20. Accounted(Starts, HeapFrames, RootFrames, BigFrames, InHand)'
  <2>1. Hand(kpc[t]) \subseteq InHand /\ RootFrames' = RootFrames \union (Hand(kpc[t]) \ {f})
    BY InHandIs DEF f
  <2> QED
    BY <1>2, <1>6, <1>12, <1>13, <1>18, <1>19, <2>1, IdleFacts DEF Accounted, Disjoint
<1>21. pointers' \subseteq Frames \X (0 .. PAGE_SIZE - 1)
  BY <1>2, <1>4, <1>5, <1>6, BlockSizes DEF HeapTypes
<1>22. HeapTypes'
  BY <1>7, <1>9, <1>10, <1>18, <1>21 DEF HeapTypes
<1> QED
  BY <1>11, <1>14, <1>16, <1>18, <1>19, <1>20, <1>22 DEF HeapInv, UsesRight

\* What is in the hands of a thread at one of these steps.
LEMMA RefStepFacts ==
  ASSUME HeapInv, NEW t \in KThreads, kpc[t].at \in HasRef
  PROVE  /\ kpc[t].ref \in PageRefs /\ kpc[t].ref \notin Listed
         /\ InUse(kheaproots, kpc[t].ref) /\ kpc[t].at \in HasPage
         /\ kpc[t].page # NULL /\ kpc[t].page # kpc[t].va
         /\ \A u \in KThreads \ {t} : kpc[u].at \in HasRef => kpc[u].ref # kpc[t].ref
<1>1. ThreadRight(kpc[t], kheaproots, Listed) /\ kpc[t].at \in HasPage
  BY AtFacts DEF HasRef, HasPage
<1>2. \A u \in KThreads \ {t} : kpc[u].at \in HasRef => kpc[u].ref # kpc[t].ref
  BY DEF HeapInv, ThreadsRight
<1> QED
  BY <1>1, <1>2, AtFacts DEF ThreadRight

\* The pageref is the thread's from here on, with or without its page.
LEMMA allocpageref_Inv ==
  ASSUME HeapInv, NEW t \in KThreads, allocpageref(t)
  PROVE  HeapInv'
<1>1. /\ kpc[t] \in Progress /\ ThreadRight(kpc[t], kheaproots, Listed)
      /\ kpc[t].at = "ref" /\ cmunchanged
  BY AtFacts DEF allocpageref, At
<1>2. /\ kpc[t].page # NULL /\ kpc[t].va = NULL /\ Hand(kpc[t]) = {kpc[t].page}
      /\ kpc[t].at \in HasPage
  BY <1>1 DEF ThreadRight, HasPage, Hand
<1>3. HeapTypes /\ OneRoot /\ ListsRight /\ ThreadsRight /\ HandsRight
  BY DEF HeapInv, UsesRight
<1>4. ASSUME NEW p \in PageRefs, FreeRef(p[1], p[2]),
             kheaproots' = [kheaproots EXCEPT ![p[1]].inuse = @ \union {p[2]}],
             \/ kheaproots[p[1]].page # NULL /\ UsePage(t, p)
             \/ /\ kheaproots[p[1]].page = NULL
                /\ kpc' = [kpc EXCEPT ![t].at = "rootpage", ![t].ref = p]
                /\ UNCHANGED <<pagerefs, sizebases, allbase, pointers>>
      PROVE  HeapInv'
  <2>1. /\ kheaproots' \in [Roots -> Root]
        /\ \A q \in PageRefs :
             /\ InUse(kheaproots, q) => InUse(kheaproots', q)
             /\ RootThere(kheaproots', q) <=> RootThere(kheaproots, q)
        /\ InUse(kheaproots', p)
        /\ RootFrames' = RootFrames /\ OneRoot'
    BY <1>3, <1>4, MarkInUse
  <2>2. ~ InUse(kheaproots, p)
    BY <1>4 DEF FreeRef, InUse
  <2>3. p \notin Listed
    BY <1>3, <2>2 DEF ListsRight
  <2>4. \A u \in KThreads : kpc[u].at \in HasRef => kpc[u].ref # p
    BY <1>3, <2>2 DEF ThreadsRight, ThreadRight
  <2>5. CASE kheaproots[p[1]].page # NULL /\ UsePage(t, p)
    <3>1. RootThere(kheaproots', p)
      BY <2>1, <2>5 DEF RootThere
    <3>2. RootFrames' = RootFrames \union (Hand(kpc[t]) \ {kpc[t].page})
      BY <1>2, <2>1
    <3> QED
      BY <1>1, <1>2, <2>1, <2>3, <2>4, <2>5, <3>1, <3>2, UsePageStep
  <2>6. CASE /\ kpc' = [kpc EXCEPT ![t].at = "rootpage", ![t].ref = p]
             /\ UNCHANGED <<pagerefs, sizebases, allbase, pointers>>
    <3> DEFINE r == [kpc[t] EXCEPT !.at = "rootpage", !.ref = p]
    <3>1. kpc' = [kpc EXCEPT ![t] = r]
      BY <1>3, <2>6 DEF HeapTypes
    <3>2. /\ r \in Progress /\ r.at = "rootpage" /\ r.page = kpc[t].page
          /\ r.va = NULL /\ r.ref = p
      BY <1>1, <1>2 DEF Progress, HasPage
    <3> HIDE DEF r
    <3>3. /\ ListsRight' /\ BlocksRight' /\ OnePage'
          /\ Listed' = Listed /\ HeapFrames' = HeapFrames /\ BigFrames' = BigFrames
      BY <2>1, <2>6, RootsStep
    <3>4. ThreadRight(r, kheaproots', Listed') /\ Hand(r) = Hand(kpc[t])
      BY <1>2, <2>1, <2>3, <3>2, <3>3 DEF ThreadRight, HasPage, HasRef, Hand
    <3>5. ASSUME NEW u \in KThreads \ {t}, kpc[u].at \in HasRef
          PROVE  /\ InUse(kheaproots', kpc[u].ref) /\ kpc[u].ref \notin Listed'
                 /\ r.at \in HasRef => r.ref # kpc[u].ref
      BY <2>1, <2>4, <3>2, <3>3, <3>5, RefStepFacts
    <3>6. Hand(kpc[t]) \subseteq InHand /\ Disjoint(Hand(r) \ Hand(kpc[t]), InHand)
      BY <3>4, InHandIs DEF Disjoint
    <3>7. /\ kpc' \in [KThreads -> Progress] /\ ThreadsRight' /\ HandsRight'
          /\ InHand' = (InHand \ Hand(kpc[t])) \union Hand(r)
      BY <1>2, <1>3, <2>1, <3>1, <3>2, <3>4, <3>5, <3>6, ThreadStep
    <3>8. CMInv' /\ BootRight' /\ Starts' = Starts /\ InHand' = InHand
      BY <1>1, <3>4, <3>6, <3>7, CoremapStays DEF HeapInv
    <3>9. UsesRight'
      BY <2>1, <3>3, <3>8 DEF HeapInv, UsesRight
    <3>10. HeapTypes'
      BY <1>3, <2>1, <2>6, <3>7 DEF HeapTypes
    <3> QED
      BY <3>3, <3>7, <3>8, <3>9, <3>10 DEF HeapInv
  <2> QED
    BY <1>4, <2>5, <2>6
<1>5. ASSUME Goto(t, "giveup"), listsunchanged, UNCHANGED pointers
      PROVE  HeapInv'
  BY <1>1, <1>2, <1>5, GotoStep DEF HasPage, HasRef
<1> QED
  BY <1>4, <1>5 DEF allocpageref

\* The page is set, was set by another thread, or there is none.
LEMMA allocpagerefpage_Inv ==
  ASSUME HeapInv, NEW t \in KThreads, allocpagerefpage(t)
  PROVE  HeapInv'
<1> DEFINE p == kpc[t].ref
           va == kpc[t].va
<1>1. /\ kpc[t] \in Progress /\ kpc[t].at = "rootset" /\ cmunchanged
      /\ kpc[t].at \in HasRef
  BY AtFacts DEF allocpagerefpage, At, HasRef
<1>2. /\ p \in PageRefs /\ p \notin Listed /\ InUse(kheaproots, p)
      /\ kpc[t].at \in HasPage /\ kpc[t].page # NULL /\ kpc[t].page # va
      /\ \A u \in KThreads \ {t} : kpc[u].at \in HasRef => kpc[u].ref # p
      /\ p[1] \in Roots
  BY <1>1, RefStepFacts, PageRefParts
<1>3. HeapTypes /\ OneRoot
  BY DEF HeapInv, UsesRight
<1>4. ASSUME va # NULL, kheaproots[p[1]].page = NULL,
             kheaproots' = [kheaproots EXCEPT ![p[1]].page = va], UsePage(t, p)
      PROVE  HeapInv'
  <2>1. va \in Frames /\ va \in Hand(kpc[t]) /\ Hand(kpc[t]) \ {kpc[t].page} = {va}
    BY <1>1, <1>2, <1>4 DEF Progress, Hand
  <2>2. va \notin RootFrames
    BY <2>1, HandFacts
  <2>3. \A r \in Roots : kheaproots[r] \in Root
    BY <1>3 DEF HeapTypes
  <2>4. \A r \in Roots :
          /\ kheaproots'[r] \in Root
          /\ kheaproots'[r].inuse = kheaproots[r].inuse
          /\ kheaproots'[r].page = IF r = p[1] THEN va ELSE kheaproots[r].page
    <3>1. kheaproots' = [kheaproots EXCEPT ![p[1]] = [kheaproots[p[1]] EXCEPT !.page = va]]
      BY <1>4
    <3> HIDE DEF va
    <3> QED
      BY <1>2, <1>3, <2>1, <2>3, <3>1 DEF Root, HeapTypes
  <2>5. kheaproots' \in [Roots -> Root]
    BY <1>3, <1>4, <2>4 DEF HeapTypes
  <2>6. \A q \in PageRefs : /\ InUse(kheaproots, q) => InUse(kheaproots', q)
                            /\ RootThere(kheaproots, q) => RootThere(kheaproots', q)
    BY <1>4, <2>4, PageRefParts DEF InUse, RootThere
  <2>7. InUse(kheaproots', p) /\ RootThere(kheaproots', p)
    BY <1>2, <1>4, <2>4, <2>6 DEF RootThere
  <2>8. RootFrames' = RootFrames \union {va}
    BY <1>2, <1>4, <2>4 DEF RootFrames
  <2>9. OneRoot'
    BY <1>3, <2>2, <2>4 DEF OneRoot, RootFrames
  <2> QED
    BY <1>1, <1>2, <1>4, <2>1, <2>5, <2>6, <2>7, <2>8, <2>9, UsePageStep
<1>5. ASSUME va # NULL, kheaproots[p[1]].page # NULL, Goto(t, "rootdup"),
             listsunchanged, UNCHANGED pointers
      PROVE  HeapInv'
  <2>1. RootThere(kheaproots, kpc[t].ref)
    BY <1>5 DEF RootThere
  <2> QED
    BY <1>1, <1>2, <1>5, <2>1, GotoStep DEF HasPage
<1>6. ASSUME va = NULL, kheaproots[p[1]].page # NULL, UsePage(t, p), UNCHANGED kheaproots
      PROVE  HeapInv'
  <2>1. Hand(kpc[t]) \ {kpc[t].page} = {} /\ RootThere(kheaproots, p)
    BY <1>6 DEF Hand, RootThere
  <2>2. RootFrames' = RootFrames /\ OneRoot'
    BY <1>3, <1>6 DEF RootFrames, OneRoot
  <2> QED
    BY <1>1, <1>2, <1>3, <1>6, <2>1, <2>2, UsePageStep DEF HeapTypes
<1>7. ASSUME va = NULL, Goto(t, "giveup"), listsunchanged, UNCHANGED pointers
      PROVE  HeapInv'
  BY <1>1, <1>2, <1>7, GotoStep DEF HasPage, HasRef
<1> QED
  BY <1>4, <1>5, <1>6, <1>7 DEF allocpagerefpage

\* The thread that gave its page back uses the one that is there.
LEMMA use_page_Inv ==
  ASSUME HeapInv, NEW t \in KThreads, use_page(t)
  PROVE  HeapInv'
<1>1. /\ kpc[t].at = "rootok" /\ kpc[t].at \in HasRef /\ cmunchanged
      /\ UsePage(t, kpc[t].ref) /\ kheaproots' = kheaproots
  BY DEF use_page, At, HasRef
<1>2. /\ kpc[t].ref \in PageRefs /\ kpc[t].ref \notin Listed
      /\ InUse(kheaproots, kpc[t].ref)
      /\ kpc[t].at \in HasPage /\ kpc[t].page # NULL /\ kpc[t].page # kpc[t].va
      /\ \A u \in KThreads \ {t} : kpc[u].at \in HasRef => kpc[u].ref # kpc[t].ref
  BY <1>1, RefStepFacts
<1>3. kpc[t].va = NULL /\ RootThere(kheaproots, kpc[t].ref)
  BY <1>1, AtFacts DEF ThreadRight
<1>4. HeapTypes /\ OneRoot
  BY DEF HeapInv, UsesRight
<1>5. RootFrames' = RootFrames /\ OneRoot' /\ Hand(kpc[t]) \ {kpc[t].page} = {}
  BY <1>1, <1>3, <1>4 DEF RootFrames, OneRoot, Hand
<1> QED
  BY <1>1, <1>2, <1>3, <1>4, <1>5, UsePageStep DEF HeapTypes

-----------------------------------------------------------------------------
(***************************************************************************)
(* kmalloc where there is no need to wait for a page, and kfree.           *)
(***************************************************************************)

\* Whole pages: the first frame of the run gets the use of a large block.
LEMMA kmalloc_pages_Inv ==
  ASSUME HeapInv, NEW t \in KThreads, kmalloc_pages(t)
  PROVE  HeapInv'
<1>1. PICK n \in 1 .. MaxPages, f \in Frames :
        frame_kalloc(n, f) /\ pointers' = pointers \union {<<f, 0>>}
  BY DEF kmalloc_pages
<1>2. /\ kheaproots' = kheaproots /\ pagerefs' = pagerefs /\ sizebases' = sizebases
      /\ allbase' = allbase /\ kpc' = kpc
  BY DEF kmalloc_pages, listsunchanged
<1>3. n \in Nat \ {0}
  BY HeapAssumption
<1>4. /\ CMInv /\ BootRight /\ HeapTypes /\ ListsRight /\ BlocksRight
      /\ ThreadsRight /\ HandsRight /\ OnePage /\ OneRoot
      /\ Accounted(Starts, HeapFrames, RootFrames, BigFrames, InHand)
  BY DEF HeapInv, UsesRight
<1>5. CMInv' /\ BootRight' /\ f \notin Starts /\ Starts' = Starts \union {f}
  BY <1>1, <1>3, <1>4, AllocStarts
<1>6. /\ f \notin HeapFrames /\ f \notin RootFrames /\ f \notin BigFrames
      /\ f \notin InHand
  BY <1>4, <1>5 DEF Accounted
<1>7. Listed' = Listed
  BY <1>2, ListedIs
<1>8. /\ HeapFrames' = HeapFrames /\ RootFrames' = RootFrames /\ InHand' = InHand
  BY <1>2, <1>7 DEF HeapFrames, RootFrames, InHand
<1>9. <<f, 0>>[1] = f /\ <<f, 0>>[2] = 0
  OBVIOUS
<1>10. BigFrames' = BigFrames \union {f}
  BY <1>1, <1>6, <1>8, <1>9 DEF BigFrames
<1>11. ASSUME NEW p \in Listed
       PROVE  BlocksUsed(pointers', pagerefs[p].page) = BlocksUsed(pointers, pagerefs[p].page)
  <2>1. pagerefs[p].page # f
    BY <1>6 DEF HeapFrames
  <2> QED
    BY <1>1, <1>9, <2>1 DEF BlocksUsed
<1>12. BlocksRight'
  <2>1. \A ptr \in pointers' : ptr[1] \notin HeapFrames' => ptr[2] = 0
    BY <1>1, <1>4, <1>8, <1>9 DEF BlocksRight
  <2> QED
    BY <1>2, <1>4, <1>7, <1>11, <2>1 DEF BlocksRight
<1>13. Accounted(Starts, HeapFrames, RootFrames, BigFrames, InHand)'
  BY <1>4, <1>5, <1>6, <1>8, <1>10 DEF Accounted, Disjoint
<1>14. OnePage' /\ OneRoot' /\ ListsRight' /\ ThreadsRight' /\ HandsRight'
  BY <1>2, <1>4, <1>7 DEF OnePage, OneRoot, ListsRight, ThreadsRight, HandsRight
<1>15. HeapTypes'
  <2>1. <<f, 0>> \in Frames \X (0 .. PAGE_SIZE - 1)
    BY HeapAssumption
  <2> QED
    BY <1>1, <1>2, <1>4, <2>1 DEF HeapTypes
<1> QED
  BY <1>5, <1>12, <1>13, <1>14, <1>15 DEF HeapInv, UsesRight

\* Blocks of one heap page are taken or put back, and that page is kept.
LEMMA PagerefStep ==
  ASSUME HeapInv, UNCHANGED <<kheaproots, sizebases, allbase, kpc>>, cmunchanged,
         NEW p \in Listed, NEW new \in Pageref,
         pagerefs' = [pagerefs EXCEPT ![p] = new],
         new.page = pagerefs[p].page, new.blktype = pagerefs[p].blktype,
         pointers' \subseteq Frames \X (0 .. PAGE_SIZE - 1),
         \A ptr \in pointers \union pointers' :
           ptr[1] # new.page => (ptr \in pointers' <=> ptr \in pointers),
         PageRight(new, BlocksUsed(pointers', new.page)),
         BlocksUsed(pointers, new.page) # {}, BlocksUsed(pointers', new.page) # {}
  PROVE  HeapInv'
<1>1. /\ HeapTypes /\ ListsRight /\ BlocksRight /\ ThreadsRight /\ HandsRight
      /\ OnePage /\ OneRoot
      /\ Accounted(Starts, HeapFrames, RootFrames, BigFrames, InHand)
  BY DEF HeapInv, UsesRight
<1>2. Listed' = Listed /\ Listed \subseteq PageRefs
  BY <1>1, ListedIs, SeqFacts DEF HeapTypes
<1>3. /\ pagerefs' \in [PageRefs -> Pageref] /\ pagerefs'[p] = new
      /\ \A q \in PageRefs \ {p} : pagerefs'[q] = pagerefs[q]
  BY <1>1, <1>2 DEF HeapTypes
<1>4. \A q \in Listed : /\ pagerefs'[q].page = pagerefs[q].page
                        /\ pagerefs'[q].blktype = pagerefs[q].blktype
  BY <1>2, <1>3
<1>5. /\ HeapFrames' = HeapFrames /\ RootFrames' = RootFrames /\ InHand' = InHand
  BY <1>2, <1>4 DEF HeapFrames, RootFrames, InHand
<1>6. new.page \in HeapFrames
  BY DEF HeapFrames
<1>7. BigFrames' = BigFrames
  BY <1>5, <1>6 DEF BigFrames
<1>8. ListsRight'
  <2>1. \A b \in BlockTypes :
          {q \in Listed' : pagerefs'[q].blktype = b} = {q \in Listed : pagerefs[q].blktype = b}
    BY <1>2, <1>4
  <2> QED
    BY <1>1, <1>2, <1>4, <2>1 DEF ListsRight
<1>9. OnePage' /\ OneRoot'
  BY <1>1, <1>2, <1>4 DEF OnePage, OneRoot
<1>10. BlocksRight'
  <2>1. ASSUME NEW q \in Listed, q # p
        PROVE  /\ PageRight(pagerefs'[q], BlocksUsed(pointers', pagerefs'[q].page))
               /\ BlocksUsed(pointers', pagerefs'[q].page) # {}
    <3>1. pagerefs'[q] = pagerefs[q] /\ pagerefs[q].page # new.page
      BY <1>1, <1>2, <1>3, <2>1 DEF OnePage
    <3>2. BlocksUsed(pointers', pagerefs[q].page) = BlocksUsed(pointers, pagerefs[q].page)
      <4>1. {ptr \in pointers' : ptr[1] = pagerefs[q].page}
              = {ptr \in pointers : ptr[1] = pagerefs[q].page}
        BY <3>1
      <4> QED
        BY <4>1 DEF BlocksUsed
    <3> QED
      BY <1>1, <3>1, <3>2 DEF BlocksRight
  <2>2. \A ptr \in pointers' : ptr[1] \notin HeapFrames' => ptr[2] = 0
    BY <1>1, <1>5, <1>6 DEF BlocksRight
  <2> QED
    BY <1>2, <1>3, <2>1, <2>2 DEF BlocksRight
<1>11. ThreadsRight' /\ HandsRight'
  BY <1>1, <1>2 DEF ThreadsRight, HandsRight
<1>12. CMInv' /\ BootRight' /\ Starts' = Starts
  BY CoremapStays DEF HeapInv
<1>13. HeapTypes'
  BY <1>1, <1>3 DEF HeapTypes
<1>14. UsesRight'
  BY <1>1, <1>5, <1>7, <1>9, <1>12 DEF UsesRight
<1> QED
  BY <1>8, <1>10, <1>11, <1>12, <1>13, <1>14 DEF HeapInv

\* A block of a page that is listed, or a page has to be got.
LEMMA subpage_kmalloc_Inv ==
  ASSUME HeapInv, NEW t \in KThreads, subpage_kmalloc(t)
  PROVE  HeapInv'
<1>1. /\ HeapTypes /\ ListsRight /\ BlocksRight
  BY DEF HeapInv
<1>2. cmunchanged /\ UNCHANGED <<kheaproots, sizebases, allbase>> /\ kpc[t].at = "idle"
  BY DEF subpage_kmalloc, At
<1>3. ASSUME NEW b \in BlockTypes, NEW k \in DOMAIN sizebases[b], HasBlock(b, k),
             NEW p, p = sizebases[b][k],
             pagerefs' = [pagerefs EXCEPT ![p] = TakeBlock(@)],
             pointers' = pointers \union {<<pagerefs[p].page, Head(pagerefs[p].freelist)>>},
             UNCHANGED kpc
      PROVE  HeapInv'
  <2> DEFINE pr == pagerefs[p]
             new == TakeBlock(pr)
             off == Head(pr.freelist)
             used == BlocksUsed(pointers, pr.page)
  <2>1. p \in Listed /\ p \in PageRefs /\ pr.nfree > 0
    <3>1. p \in Elems(sizebases[b])
      BY <1>3 DEF Elems
    <3> QED
      BY <1>1, <1>3, <3>1, ListedIs, SeqFacts DEF ListsRight, HasBlock, HeapTypes
  <2>2. /\ pr \in Pageref /\ pr.page # NULL /\ PageRight(pr, used) /\ used # {}
    BY <1>1, <2>1 DEF HeapTypes, ListsRight, BlocksRight
  <2>3. pagerefs' = [pagerefs EXCEPT ![p] = new]
    BY <1>3
  <2>4. <<pr.page, off>>[1] = pr.page /\ <<pr.page, off>>[2] = off
    OBVIOUS
  <2>5. pointers' = pointers \union {<<pr.page, off>>}
    BY <1>3
  <2> HIDE DEF pr, used, off
  <2>6. /\ new \in Pageref /\ new.page = pr.page /\ new.blktype = pr.blktype
        /\ off \in Blocks(pr.blktype) /\ PageRight(new, used \union {off})
    BY <2>1, <2>2, TakeRight DEF pr, used, off
  <2> HIDE DEF new
  <2>7. BlocksUsed(pointers', pr.page) = used \union {off}
    BY <2>4, <2>5 DEF BlocksUsed, used
  <2>8. pr.page \in Frames /\ off \in 0 .. PAGE_SIZE - 1
    BY <2>2, <2>6, BlockSizes DEF Pageref
  <2>9. pointers' \subseteq Frames \X (0 .. PAGE_SIZE - 1)
    BY <1>1, <2>5, <2>8 DEF HeapTypes
  <2>10. \A ptr \in pointers \union pointers' :
           ptr[1] # new.page => (ptr \in pointers' <=> ptr \in pointers)
    BY <2>4, <2>5, <2>6
  <2>11. /\ new.page = pagerefs[p].page /\ new.blktype = pagerefs[p].blktype
         /\ BlocksUsed(pointers, new.page) # {}
         /\ BlocksUsed(pointers', new.page) # {}
         /\ PageRight(new, BlocksUsed(pointers', new.page))
    BY <2>2, <2>6, <2>7 DEF pr, used
  <2> QED
    BY <1>2, <1>3, <2>1, <2>3, <2>6, <2>9, <2>10, <2>11, PagerefStep
<1>4. ASSUME NEW b \in BlockTypes, kpc' = [kpc EXCEPT ![t].at = "page", ![t].blktype = b],
             UNCHANGED <<pagerefs, pointers>>
      PROVE  HeapInv'
  <2> DEFINE r == [kpc[t] EXCEPT !.at = "page", !.blktype = b]
  <2>1. kpc[t] \in Progress /\ ThreadRight(kpc[t], kheaproots, Listed)
    BY AtFacts
  <2>2. kpc' = [kpc EXCEPT ![t] = r]
    BY <1>1, <1>4 DEF HeapTypes
  <2>3. r \in Progress /\ r.at = "page" /\ r.page = kpc[t].page /\ r.va = kpc[t].va
    BY <2>1 DEF Progress
  <2> HIDE DEF r
  <2>4. /\ ThreadRight(r, kheaproots, Listed) /\ Hand(r) = {} /\ Hand(kpc[t]) = {}
        /\ r.page = NULL /\ r.at \notin HasRef
    BY <1>2, <2>1, <2>3 DEF ThreadRight, HasPage, HasRef, Hand
  <2>5. CMInv' /\ BootRight' /\ Starts' = Starts
    BY <1>2, CoremapStays DEF HeapInv
  <2>6. listsunchanged /\ UNCHANGED pointers
    BY <1>2, <1>4 DEF listsunchanged
  <2>7. /\ Starts' = (Starts \ Hand(kpc[t])) \union Hand(r)
        /\ Disjoint(Hand(r) \ Hand(kpc[t]), Starts)
    BY <2>4, <2>5 DEF Disjoint
  <2> QED
    BY <2>2, <2>3, <2>4, <2>5, <2>6, <2>7, HandStep
<1> QED
  BY <1>3, <1>4 DEF subpage_kmalloc

\* A pageref is no longer in use.
LEMMA MarkFree ==
  ASSUME HeapTypes, NEW p \in PageRefs, freepageref(p)
  PROVE  /\ kheaproots' \in [Roots -> Root]
         /\ \A q \in PageRefs \ {p} : InUse(kheaproots, q) => InUse(kheaproots', q)
         /\ \A q \in PageRefs : RootThere(kheaproots', q) <=> RootThere(kheaproots, q)
         /\ RootFrames' = RootFrames /\ (OneRoot => OneRoot')
<1> DEFINE root == [kheaproots[p[1]] EXCEPT !.inuse = kheaproots[p[1]].inuse \ {p[2]}]
<1>1. p[1] \in Roots /\ \A r \in Roots : kheaproots[r] \in Root
  BY PageRefParts DEF HeapTypes
<1>2. /\ root \in Root /\ root.page = kheaproots[p[1]].page
      /\ root.inuse = kheaproots[p[1]].inuse \ {p[2]}
  BY <1>1 DEF Root
<1>3. kheaproots' = [kheaproots EXCEPT ![p[1]] = root]
  BY DEF freepageref
<1> HIDE DEF root
<1>4. /\ kheaproots' \in [Roots -> Root]
      /\ \A r \in Roots : kheaproots'[r] = IF r = p[1] THEN root ELSE kheaproots[r]
  BY <1>1, <1>2, <1>3 DEF HeapTypes
<1>5. \A r \in Roots : kheaproots'[r].page = kheaproots[r].page
  BY <1>2, <1>4
<1>6. \A q \in PageRefs : q[1] \in Roots /\ (q[1] = p[1] /\ q[2] = p[2] => q = p)
  BY PageRefParts
<1>7. \A q \in PageRefs \ {p} : InUse(kheaproots, q) => InUse(kheaproots', q)
  BY <1>2, <1>4, <1>6 DEF InUse
<1> QED
  BY <1>4, <1>5, <1>6, <1>7 DEF RootThere, RootFrames, OneRoot

\* A page that thread t took out of the lists, or that never was in them, is
\* in its hands until free_kpages has it back.
LEMMA FreePageStep ==
  ASSUME HeapInv, cmunchanged, NEW t \in KThreads, kpc[t].at = "idle", NEW f \in Frames,
         kpc' = [kpc EXCEPT ![t].at = "freepage", ![t].page = f],
         f \notin InHand, Listed' \subseteq Listed,
         \A u \in KThreads : kpc[u].at \in HasRef => InUse(kheaproots', kpc[u].ref),
         \A p \in PageRefs : RootThere(kheaproots, p) => RootThere(kheaproots', p)
  PROVE  /\ kpc' \in [KThreads -> Progress] /\ ThreadsRight' /\ HandsRight'
         /\ InHand' = InHand \union {f}
         /\ CMInv' /\ BootRight' /\ Starts' = Starts
<1> DEFINE r == [kpc[t] EXCEPT !.at = "freepage", !.page = f]
<1>1. kpc[t] \in Progress /\ ThreadRight(kpc[t], kheaproots, Listed)
  BY AtFacts
<1>2. /\ HeapTypes /\ ThreadsRight /\ HandsRight /\ f # NULL
      /\ kpc[t].page = NULL /\ kpc[t].va = NULL /\ Hand(kpc[t]) = {}
  BY <1>1, HeapAssumption DEF HeapInv, ThreadRight, HasPage, Hand
<1>3. kpc' = [kpc EXCEPT ![t] = r]
  BY <1>2 DEF HeapTypes
<1>4. r \in Progress /\ r.at = "freepage" /\ r.page = f /\ r.va = NULL
  BY <1>1, <1>2 DEF Progress, HasPage
<1> HIDE DEF r
<1>5. /\ ThreadRight(r, kheaproots', Listed') /\ Hand(r) = {f}
      /\ r.at \notin HasRef /\ r.page # r.va
  BY <1>2, <1>4 DEF ThreadRight, HasPage, HasRef, Hand
<1>6. ASSUME NEW u \in KThreads \ {t}, kpc[u].at \in HasRef
      PROVE  /\ InUse(kheaproots', kpc[u].ref) /\ kpc[u].ref \notin Listed'
             /\ r.at \in HasRef => r.ref # kpc[u].ref
  BY <1>5, <1>6, RefStepFacts
<1>7. Disjoint(Hand(r) \ Hand(kpc[t]), InHand)
  BY <1>5 DEF Disjoint
<1>8. /\ kpc' \in [KThreads -> Progress] /\ ThreadsRight' /\ HandsRight'
      /\ InHand' = (InHand \ Hand(kpc[t])) \union Hand(r)
  BY <1>2, <1>3, <1>4, <1>5, <1>6, <1>7, ThreadStep
<1>9. CMInv' /\ BootRight' /\ Starts' = Starts
  BY CoremapStays DEF HeapInv
<1> QED
  BY <1>2, <1>5, <1>8, <1>9

\* The last block of a page comes back: the page leaves the lists and nothing
\* points into it.
LEMMA FullPageStep ==
  ASSUME HeapInv, cmunchanged, NEW t \in KThreads, kpc[t].at = "idle",
         NEW ptr \in pointers, pointers' = pointers \ {ptr},
         NEW p \in Listed, NEW new \in Pageref, pagerefs[p].page = ptr[1],
         BlocksUsed(pointers, ptr[1]) = {ptr[2]},
         new.page = ptr[1], new.blktype = pagerefs[p].blktype,
         pagerefs' = [pagerefs EXCEPT ![p] = new],
         remove_lists(p, new.blktype), freepageref(p),
         kpc' = [kpc EXCEPT ![t].at = "freepage", ![t].page = ptr[1]]
  PROVE  HeapInv'
<1> DEFINE f == ptr[1]
           b == new.blktype
<1>1. /\ HeapTypes /\ ListsRight /\ BlocksRight /\ ThreadsRight /\ HandsRight
      /\ OnePage /\ OneRoot
      /\ Accounted(Starts, HeapFrames, RootFrames, BigFrames, InHand)
  BY DEF HeapInv, UsesRight
<1>2. Listed = Elems(allbase) /\ Listed \subseteq PageRefs /\ Listed' = Elems(allbase')
  BY <1>1, ListedIs, SeqFacts DEF HeapTypes
<1>3. p \in PageRefs /\ f \in Frames /\ f \in HeapFrames /\ b \in BlockTypes
  BY <1>1, <1>2 DEF HeapTypes, HeapFrames, Pageref
<1>4. /\ pagerefs' \in [PageRefs -> Pageref]
      /\ \A q \in PageRefs \ {p} : pagerefs'[q] = pagerefs[q]
  BY <1>1 DEF HeapTypes
<1>5. /\ sizebases' = [sizebases EXCEPT ![b] = Without(sizebases[b], p)]
      /\ allbase' = Without(allbase, p)
  BY DEF remove_lists
<1>6. BlocksUsed(pointers', f) = {}
  <2>1. BlocksUsed(pointers', f) = BlocksUsed(pointers, f) \ {ptr[2]}
    BY <1>1, UsedDel
  <2> QED
    BY <2>1
<1>7. /\ kheaproots' \in [Roots -> Root]
      /\ \A q \in PageRefs \ {p} : InUse(kheaproots, q) => InUse(kheaproots', q)
      /\ \A q \in PageRefs : RootThere(kheaproots', q) <=> RootThere(kheaproots, q)
      /\ RootFrames' = RootFrames /\ OneRoot'
  BY <1>1, <1>3, MarkFree
<1> HIDE DEF b
<1>8. allbase' \in Seq(PageRefs) /\ Inj(allbase') /\ Listed' = Listed \ {p}
  BY <1>1, <1>2, <1>5, WithoutList DEF HeapTypes, ListsRight
<1>9. /\ sizebases' \in [BlockTypes -> Seq(PageRefs)]
      /\ \A c \in BlockTypes :
           /\ Inj(sizebases'[c])
           /\ Elems(sizebases'[c]) = {q \in Listed' : pagerefs'[q].blktype = c}
  <2>1. /\ sizebases[b] \in Seq(PageRefs) /\ Inj(sizebases[b])
        /\ Elems(sizebases[b]) = {q \in Listed : pagerefs[q].blktype = b}
        /\ p \in Elems(sizebases[b])
    BY <1>1, <1>3 DEF HeapTypes, ListsRight, b
  <2>2. /\ Without(sizebases[b], p) \in Seq(PageRefs) /\ Inj(Without(sizebases[b], p))
        /\ Elems(Without(sizebases[b], p)) = Elems(sizebases[b]) \ {p}
    BY <2>1, WithoutList
  <2>3. /\ sizebases' \in [BlockTypes -> Seq(PageRefs)]
        /\ sizebases'[b] = Without(sizebases[b], p)
        /\ \A c \in BlockTypes \ {b} : sizebases'[c] = sizebases[c]
    BY <1>1, <1>3, <1>5, <2>2 DEF HeapTypes
  <2>4. {q \in Listed' : pagerefs'[q].blktype = b}
          = {q \in Listed : pagerefs[q].blktype = b} \ {p}
    BY <1>2, <1>4, <1>8
  <2>5. ASSUME NEW c \in BlockTypes
        PROVE  /\ Inj(sizebases'[c])
               /\ Elems(sizebases'[c]) = {q \in Listed' : pagerefs'[q].blktype = c}
    <3>1. CASE c = b
      BY <2>1, <2>2, <2>3, <2>4, <3>1
    <3>2. CASE c # b
      <4>1. /\ Inj(sizebases[c])
            /\ Elems(sizebases[c]) = {q \in Listed : pagerefs[q].blktype = c}
        BY <1>1 DEF ListsRight
      <4>2. {q \in Listed' : pagerefs'[q].blktype = c}
              = {q \in Listed : pagerefs[q].blktype = c}
        BY <1>2, <1>4, <1>8, <3>2 DEF b
      <4> QED
        BY <2>3, <3>2, <4>1, <4>2
    <3> QED
      BY <3>1, <3>2
  <2> QED
    BY <2>3, <2>5
<1>10. ListsRight'
  <2>1. \A q \in Listed : /\ InUse(kheaproots, q) /\ RootThere(kheaproots, q)
                          /\ pagerefs[q].page # NULL
    BY <1>1 DEF ListsRight
  <2>2. \A q \in Listed' : /\ InUse(kheaproots', q) /\ RootThere(kheaproots', q)
                           /\ pagerefs'[q].page # NULL
    BY <1>2, <1>4, <1>7, <1>8, <2>1
  <2> QED
    BY <1>8, <1>9, <2>2 DEF ListsRight
<1>11. \A q \in Listed' : pagerefs'[q] = pagerefs[q] /\ pagerefs[q].page # f
  BY <1>1, <1>2, <1>4, <1>8 DEF OnePage
<1>12. HeapFrames' = HeapFrames \ {f}
  <2>1. HeapFrames' = {pagerefs[q].page : q \in Listed'}
    BY <1>11 DEF HeapFrames
  <2>2. \A q \in Listed : q \in Listed' \/ pagerefs[q].page = f
    BY <1>8
  <2> QED
    BY <1>8, <1>11, <2>1, <2>2 DEF HeapFrames
<1>13. \A q \in pointers' : q[1] # f
  BY <1>6 DEF BlocksUsed
<1>14. BigFrames' = BigFrames
  <2>1. \A q \in pointers : q[1] # f => q \in pointers'
    OBVIOUS
  <2> QED
    BY <1>3, <1>12, <1>13, <2>1 DEF BigFrames
<1>15. OnePage'
  BY <1>1, <1>8, <1>11 DEF OnePage
<1>16. BlocksRight'
  <2>1. ASSUME NEW q \in Listed'
        PROVE  /\ PageRight(pagerefs'[q], BlocksUsed(pointers', pagerefs'[q].page))
               /\ BlocksUsed(pointers', pagerefs'[q].page) # {}
    <3>1. BlocksUsed(pointers', pagerefs[q].page) = BlocksUsed(pointers, pagerefs[q].page)
      <4>1. pagerefs[q].page # f
        BY <1>11
      <4> QED
        BY <1>1, <4>1, UsedDel
    <3> QED
      BY <1>1, <1>8, <1>11, <3>1 DEF BlocksRight
  <2>2. \A q \in pointers' : q[1] \notin HeapFrames' => q[2] = 0
    BY <1>1, <1>12, <1>13 DEF BlocksRight
  <2> QED
    BY <2>1, <2>2 DEF BlocksRight
<1>17. f \notin InHand
  BY <1>1, <1>3 DEF Accounted, Disjoint
<1>18. ASSUME NEW u \in KThreads, kpc[u].at \in HasRef
       PROVE  InUse(kheaproots', kpc[u].ref)
  BY <1>7, <1>18, RefStepFacts
<1>19. /\ kpc' \in [KThreads -> Progress] /\ ThreadsRight' /\ HandsRight'
       /\ InHand' = InHand \union {f}
       /\ CMInv' /\ BootRight' /\ Starts' = Starts
  BY <1>3, <1>7, <1>8, <1>17, <1>18, FreePageStep
<1>20. Accounted(Starts, HeapFrames, RootFrames, BigFrames, InHand)'
  BY <1>1, <1>3, <1>7, <1>12, <1>14, <1>19 DEF Accounted, Disjoint
<1>21. HeapTypes'
  BY <1>1, <1>4, <1>7, <1>8, <1>9, <1>19 DEF HeapTypes
<1> QED
  BY <1>7, <1>10, <1>15, <1>16, <1>19, <1>20, <1>21 DEF HeapInv, UsesRight

\* kfree: a block of a page that is listed, or a whole-page allocation.
LEMMA kfree_Inv ==
  ASSUME HeapInv, NEW t \in KThreads, kfree(t)
  PROVE  HeapInv'
<1>1. /\ HeapTypes /\ ListsRight /\ BlocksRight /\ OnePage /\ OneRoot
      /\ Accounted(Starts, HeapFrames, RootFrames, BigFrames, InHand)
  BY DEF HeapInv, UsesRight
<1>2. PICK ptr \in pointers :
        /\ pointers' = pointers \ {ptr}
        /\ \/ subpage_kfree(t, ptr)
           \/ /\ \A k \in DOMAIN allbase : ~ InPage(allbase[k], ptr)
              /\ kpc' = [kpc EXCEPT ![t].at = "freepage", ![t].page = ptr[1]]
              /\ listsunchanged
  BY DEF kfree
<1>3. cmunchanged /\ kpc[t].at = "idle"
  BY DEF kfree, At
<1>4. /\ ptr[1] \in Frames /\ ptr[2] \in BlocksUsed(pointers, ptr[1])
      /\ BlocksUsed(pointers', ptr[1]) = BlocksUsed(pointers, ptr[1]) \ {ptr[2]}
      /\ pointers' \subseteq Frames \X (0 .. PAGE_SIZE - 1)
  BY <1>1, <1>2, UsedDel DEF HeapTypes
<1>5. ASSUME subpage_kfree(t, ptr)
      PROVE  HeapInv'
  <2>1. PICK p \in PageRefs :
          /\ \E k \in DOMAIN allbase : allbase[k] = p
          /\ InPage(p, ptr)
          /\ pagerefs' = [pagerefs EXCEPT ![p] = PutBlock(pagerefs[p], ptr[2])]
          /\ IF PutBlock(pagerefs[p], ptr[2]).nfree
                  = NumBlocks(PutBlock(pagerefs[p], ptr[2]).blktype)
               THEN /\ remove_lists(p, PutBlock(pagerefs[p], ptr[2]).blktype)
                    /\ freepageref(p)
                    /\ kpc' = [kpc EXCEPT ![t].at = "freepage", ![t].page = ptr[1]]
               ELSE UNCHANGED <<kheaproots, sizebases, allbase, kpc>>
    BY <1>5 DEF subpage_kfree
  <2> DEFINE used == BlocksUsed(pointers, ptr[1])
             new == PutBlock(pagerefs[p], ptr[2])
  <2>2. p \in Listed /\ pagerefs[p].page = ptr[1] /\ pagerefs[p] \in Pageref
    BY <1>1, <2>1 DEF Listed, InPage, HeapTypes
  <2>3. PageRight(pagerefs[p], used)
    BY <1>1, <2>2 DEF BlocksRight
  <2>4. /\ new \in Pageref /\ new.page = ptr[1] /\ new.blktype = pagerefs[p].blktype
        /\ PageRight(new, used \ {ptr[2]})
        /\ new.nfree = NumBlocks(new.blktype) <=> used = {ptr[2]}
    BY <1>4, <2>2, <2>3, PutRight
  <2>5. pagerefs' = [pagerefs EXCEPT ![p] = new]
    BY <2>1
  <2>6. CASE new.nfree = NumBlocks(new.blktype)
    <3>1. /\ remove_lists(p, new.blktype) /\ freepageref(p)
          /\ kpc' = [kpc EXCEPT ![t].at = "freepage", ![t].page = ptr[1]]
      BY <2>1, <2>6
    <3>2. used = {ptr[2]}
      BY <2>4, <2>6
    <3> HIDE DEF new
    <3> QED
      BY <1>2, <1>3, <2>2, <2>4, <2>5, <3>1, <3>2, FullPageStep
  <2>7. CASE new.nfree # NumBlocks(new.blktype)
    <3>1. UNCHANGED <<kheaproots, sizebases, allbase, kpc>>
      BY <2>1, <2>7
    <3>2. used # {ptr[2]}
      BY <2>4, <2>7
    <3> HIDE DEF new
    <3>3. /\ BlocksUsed(pointers', new.page) = used \ {ptr[2]}
          /\ BlocksUsed(pointers, new.page) = used
          /\ used # {} /\ used \ {ptr[2]} # {}
      BY <1>4, <2>4, <3>2
    <3>4. \A q \in pointers \union pointers' :
            q[1] # new.page => (q \in pointers' <=> q \in pointers)
      BY <1>2, <2>4
    <3> QED
      BY <1>3, <1>4, <2>2, <2>4, <2>5, <3>1, <3>3, <3>4, PagerefStep
  <2> QED
    BY <2>6, <2>7
<1>6. ASSUME \A k \in DOMAIN allbase : ~ InPage(allbase[k], ptr),
             kpc' = [kpc EXCEPT ![t].at = "freepage", ![t].page = ptr[1]],
             listsunchanged
      PROVE  HeapInv'
  <2>1. /\ kheaproots' = kheaproots /\ pagerefs' = pagerefs
        /\ sizebases' = sizebases /\ allbase' = allbase
    BY <1>6 DEF listsunchanged
  <2>2. ptr[1] \notin HeapFrames
    BY <1>6 DEF HeapFrames, Listed, InPage
  <2>3. ptr[1] \in BigFrames
    BY <2>2 DEF BigFrames
  <2>4. ptr[1] \notin InHand
    BY <1>1, <2>3 DEF Accounted, Disjoint
  <2>5. Listed' = Listed
    BY <2>1, ListedIs
  <2>6. HeapFrames' = HeapFrames /\ RootFrames' = RootFrames
    BY <2>1, <2>5 DEF HeapFrames, RootFrames
  <2>7. \A q \in pointers : q[1] = ptr[1] => q = ptr
    BY <1>1, <2>2 DEF BlocksRight, HeapTypes
  <2>8. BigFrames' = BigFrames \ {ptr[1]}
    BY <1>2, <2>6, <2>7 DEF BigFrames
  <2>9. \A u \in KThreads : kpc[u].at \in HasRef => InUse(kheaproots', kpc[u].ref)
    BY <2>1, RefStepFacts
  <2>10. /\ kpc' \in [KThreads -> Progress] /\ ThreadsRight' /\ HandsRight'
         /\ InHand' = InHand \union {ptr[1]}
         /\ CMInv' /\ BootRight' /\ Starts' = Starts
    BY <1>3, <1>4, <1>6, <2>1, <2>4, <2>5, <2>9, FreePageStep
  <2>11. Accounted(Starts, HeapFrames, RootFrames, BigFrames, InHand)'
    BY <1>1, <2>3, <2>6, <2>8, <2>10 DEF Accounted, Disjoint
  <2>12. BlocksRight'
    <3>1. ASSUME NEW p \in Listed
          PROVE  BlocksUsed(pointers', pagerefs[p].page) = BlocksUsed(pointers, pagerefs[p].page)
      <4>1. pagerefs[p].page # ptr[1]
        BY <2>2 DEF HeapFrames
      <4> QED
        BY <1>1, <1>2, <4>1, UsedDel
    <3> QED
      BY <1>1, <1>2, <2>1, <2>5, <2>6, <3>1 DEF BlocksRight
  <2>13. ListsRight' /\ OnePage' /\ OneRoot'
    BY <1>1, <2>1, <2>5 DEF ListsRight, OnePage, OneRoot
  <2>14. HeapTypes'
    BY <1>1, <1>4, <2>1, <2>10 DEF HeapTypes
  <2> QED
    BY <2>10, <2>11, <2>12, <2>13, <2>14 DEF HeapInv, UsesRight
<1> QED
  BY <1>2, <1>5, <1>6

-----------------------------------------------------------------------------
(***************************************************************************)
(* The invariant is inductive.                                             *)
(***************************************************************************)

\* At boot the heap is empty and the coremap has its own frames only.
LEMMA HeapInvInit ==
  ASSUME LargeCoremap, HeapInit
  PROVE  HeapInv
<1>1. CMInit /\ kpc = [t \in KThreads |-> Idle]
  BY DEF HeapInit, FifoInit
<1>2. /\ kheaproots = [r \in Roots |-> [page |-> NULL, inuse |-> {}]]
      /\ pagerefs = [p \in PageRefs |-> NoPageRef]
      /\ sizebases = [b \in BlockTypes |-> <<>>]
      /\ allbase = <<>> /\ pointers = {}
  BY DEF HeapInit, BootHeap, LargeCoremap
<1>3. CMInv
  BY <1>1, CMInvInit
<1>4. \A i \in Frames :
        /\ coremap[i].npages = 0 /\ coremap[i].as = NULL
        /\ i < BootFrames => coremap[i].state = FIXED
  BY <1>1, HeapAssumption DEF CMInit, vm_bootstrap, cm_bootstrap, Blank
<1>5. BootRight
  <2>1. \A i \in 0 .. BootFrames - 1 : i \in Frames /\ i < BootFrames
    BY <1>3, EntryFacts, CoremapAssumption
  <2> QED
    BY <1>4, <2>1 DEF BootRight
<1>6. Starts = {}
  BY <1>4 DEF Starts
<1>7. Listed = {}
  BY <1>2, ListedIs, EmptyList
<1>8. HeapFrames = {} /\ RootFrames = {} /\ BigFrames = {}
  BY <1>2, <1>7 DEF HeapFrames, RootFrames, BigFrames
<1>9. InHand = {} /\ \A t \in KThreads : Hand(kpc[t]) = {}
  BY <1>1, IdleFacts, InHandIs
<1>10. HeapTypes
  <2>1. 1 \in BlockTypes
    BY HeapAssumption, SeqFacts DEF BlockTypes, NSIZES
  <2>2. NoPageRef \in Pageref
    BY <2>1 DEF NoPageRef, Pageref
  <2>3. [page |-> NULL, inuse |-> {}] \in Root
    BY DEF Root
  <2> QED
    BY <1>1, <1>2, <2>2, <2>3, IdleFacts DEF HeapTypes
<1>11. ListsRight
  <2>1. \A b \in BlockTypes : sizebases[b] = <<>>
    BY <1>2
  <2> QED
    BY <1>2, <1>7, <2>1, EmptyList DEF ListsRight
<1>12. BlocksRight
  BY <1>2, <1>7 DEF BlocksRight
<1>13. ThreadsRight /\ HandsRight
  BY <1>1, <1>9, IdleFacts DEF ThreadsRight, HandsRight, Disjoint, HasRef
<1>14. UsesRight
  <2>1. OnePage /\ OneRoot
    BY <1>2, <1>7 DEF OnePage, OneRoot
  <2> QED
    BY <1>6, <1>8, <1>9, <2>1 DEF UsesRight, Accounted, Disjoint
<1> QED
  BY <1>3, <1>5, <1>10, <1>11, <1>12, <1>13, <1>14 DEF HeapInv

\* Steps that leave the heap alone and the kernel's frames in the coremap.
LEMMA HeapStays ==
  ASSUME HeapInv, UNCHANGED heapvars, CMInv', BootRight', Starts' = Starts
  PROVE  HeapInv'
<1>1. /\ listsunchanged /\ kheaproots' = kheaproots /\ pointers' = pointers
      /\ sizebases' = sizebases /\ allbase' = allbase /\ pagerefs' = pagerefs
      /\ kpc' = kpc
  BY DEF heapvars, listsunchanged
<1>2. /\ ListsRight' /\ BlocksRight' /\ OnePage' /\ OneRoot'
      /\ Listed' = Listed /\ HeapFrames' = HeapFrames
      /\ RootFrames' = RootFrames /\ BigFrames' = BigFrames
  BY <1>1, ListsStay
<1>3. InHand' = InHand
  BY <1>1 DEF InHand
<1>4. ThreadsRight' /\ HandsRight' /\ HeapTypes'
  BY <1>1, <1>2 DEF HeapInv, ThreadsRight, HandsRight, HeapTypes
<1>5. UsesRight'
  BY <1>2, <1>3 DEF HeapInv, UsesRight
<1> QED
  BY <1>2, <1>4, <1>5 DEF HeapInv

\* Every step keeps the invariant.
LEMMA HeapInvNext == HeapInv /\ [HeapNext]_<<fifovars, heapvars>> => HeapInv'
<1> SUFFICES ASSUME HeapInv, [HeapNext]_<<fifovars, heapvars>> PROVE HeapInv'
  OBVIOUS
<1>1. ASSUME NEW t \in KThreads, HeapStep(t)
      PROVE  HeapInv'
  <2>1. CASE kmalloc_pages(t)     BY <2>1, kmalloc_pages_Inv
  <2>2. CASE subpage_kmalloc(t)   BY <2>2, subpage_kmalloc_Inv
  <2>3. CASE alloc_heap_page(t)   BY <2>3, alloc_heap_page_Inv
  <2>4. CASE allocpageref(t)      BY <2>4, allocpageref_Inv
  <2>5. CASE alloc_root_page(t)   BY <2>5, alloc_root_page_Inv
  <2>6. CASE allocpagerefpage(t)  BY <2>6, allocpagerefpage_Inv
  <2>7. CASE free_duplicate(t)    BY <2>7, free_duplicate_Inv
  <2>8. CASE use_page(t)          BY <2>8, use_page_Inv
  <2>9. CASE giveup(t) \/ free_kpages(t)
    BY <2>9, free_page_Inv
  <2>10. CASE kfree(t)            BY <2>10, kfree_Inv
  <2> QED
    BY <1>1, <2>1, <2>2, <2>3, <2>4, <2>5, <2>6, <2>7, <2>8, <2>9, <2>10 DEF HeapStep
<1>2. CASE UserFifoNext /\ UNCHANGED heapvars
  <2>1. CMInv' /\ Starts' = Starts /\ BootRight'
    BY <1>2, UserKeepsStarts DEF HeapInv
  <2> QED
    BY <1>2, <2>1, HeapStays
<1>3. CASE UNCHANGED <<fifovars, heapvars>>
  <2>1. cmunchanged /\ UNCHANGED heapvars
    BY <1>3 DEF fifovars, cmunchanged
  <2>2. CMInv' /\ BootRight' /\ Starts' = Starts
    BY <2>1, CoremapStays DEF HeapInv
  <2> QED
    BY <2>1, <2>2, HeapStays
<1> QED
  BY <1>1, <1>2, <1>3 DEF HeapNext

-----------------------------------------------------------------------------
(***************************************************************************)
(* What the invariant means.                                               *)
(***************************************************************************)

\* The type invariant.
LEMMA HeapInvTypes == HeapInv => HeapTypeOK
<1> SUFFICES ASSUME HeapInv PROVE HeapTypeOK
  OBVIOUS
<1>1. CMTypeOK /\ HeapTypes
  BY DEF HeapInv, CMInv
<1>2. \A p \in PageRefs : pagerefs[p] \in Pageref
  BY <1>1 DEF HeapTypes
<1>3. \A k \in DOMAIN allbase : allbase[k] \in PageRefs
  BY <1>1, SeqFacts DEF HeapTypes
<1>4. \A t \in KThreads : kpc[t] \in Progress
  BY <1>1 DEF HeapTypes
<1>5. \A ptr \in pointers : ptr[1] \in Frames /\ ptr[2] \in 0 .. PAGE_SIZE - 1
  BY <1>1 DEF HeapTypes
<1>6. kheaproots \in [Roots -> Root]
  BY <1>1 DEF HeapTypes
<1> QED
  BY <1>1, <1>2, <1>3, <1>4, <1>5, <1>6
  DEF HeapTypeOK, Pageref, Progress, Root, RefNumbers

\* The two checks of kmalloc.c.
LEMMA HeapInvConsistent == HeapInv => HeapConsistent
<1> SUFFICES ASSUME HeapInv PROVE HeapConsistent
  OBVIOUS
<1>1. HeapTypes /\ ListsRight /\ BlocksRight
  BY DEF HeapInv
<1>2. Listed = Elems(allbase) /\ Listed \subseteq PageRefs
  BY <1>1, ListedIs, SeqFacts DEF HeapTypes
<1>3. Len(allbase) = Cardinality(Listed)
  BY <1>1, <1>2, LenIsCardinality DEF HeapTypes, ListsRight
<1>4. ASSUME NEW b \in BlockTypes
      PROVE  /\ {sizebases[b][k] : k \in DOMAIN sizebases[b]}
                  = {p \in Listed : pagerefs[p].blktype = b}
             /\ Len(sizebases[b]) = Cardinality({p \in Listed : pagerefs[p].blktype = b})
  <2>1. /\ sizebases[b] \in Seq(PageRefs) /\ Inj(sizebases[b])
        /\ Elems(sizebases[b]) = {p \in Listed : pagerefs[p].blktype = b}
    BY <1>1 DEF HeapTypes, ListsRight
  <2>2. Cardinality(Elems(sizebases[b])) = Len(sizebases[b])
    BY <2>1, LenIsCardinality
  <2> QED
    BY <2>1, <2>2 DEF Elems
<1>5. \A p \in Listed : p[2] \in kheaproots[p[1]].inuse /\ kheaproots[p[1]].page # NULL
  BY <1>1 DEF ListsRight, InUse, RootThere
<1>6. HeapListsAgree
  BY <1>3, <1>4, <1>5 DEF HeapListsAgree
<1>7. ASSUME NEW p \in Listed
      PROVE  LET pr   == pagerefs[p]
                 free == {pr.freelist[k] : k \in DOMAIN pr.freelist}
                 used == {ptr[2] : ptr \in {q \in pointers : q[1] = pr.page}} IN
             /\ Len(pr.freelist) = pr.nfree /\ Cardinality(free) = pr.nfree
             /\ free \intersect used = {}
             /\ free \union used = {i * sizes[pr.blktype] : i \in 0 .. NumBlocks(pr.blktype) - 1}
             /\ used # {}
  <2> DEFINE pr == pagerefs[p]
  <2>1. /\ pr.freelist \in Seq(Nat) /\ PageRight(pr, BlocksUsed(pointers, pr.page))
        /\ BlocksUsed(pointers, pr.page) # {}
    BY <1>1, <1>2 DEF HeapTypes, BlocksRight, Pageref
  <2>2. Cardinality(Elems(pr.freelist)) = Len(pr.freelist)
    BY <2>1, LenIsCardinality DEF PageRight
  <2> QED
    BY <2>1, <2>2 DEF PageRight, BlocksUsed, Elems, Blocks
<1>8. BlocksPartition
  BY <1>7 DEF BlocksPartition
<1> QED
  BY <1>6, <1>8 DEF HeapConsistent

\* The uses of the kernel's frames.
LEMMA HeapInvAccounted ==
  ASSUME LargeCoremap, HeapInv
  PROVE  KernelFramesAccounted
<1>1. BootFramesKept
  BY StolenFrames DEF HeapInv, BootRight, BootFramesKept
<1> QED
  BY <1>1 DEF HeapInv, UsesRight, Accounted, OnePage, KernelFramesAccounted

\* A step of the heap is a step of the coremap, or none.
LEMMA HeapStepIsFifoStep ==
  ASSUME HeapInv, [HeapNext]_<<fifovars, heapvars>>
  PROVE  [FifoNext]_fifovars
<1>1. CMInv
  BY DEF HeapInv
<1>2. ASSUME NEW t \in KThreads, HeapStep(t), UNCHANGED before
      PROVE  [FifoNext]_fifovars
  <2>1. ASSUME NEW f \in Frames, NEW n \in Nat \ {0}, frame_kalloc(n, f)
        PROVE  FifoNext
    <3>1. n \in 1 .. ram_frames
      BY <1>1, <2>1, AllocStarts
    <3> QED
      BY <1>1, <1>2, <2>1, <3>1, HeapFifoStep
  <2>2. ASSUME NEW f \in Hand(kpc[t]), frame_kfree(f)
        PROVE  FifoNext
    <3>1. f \in Starts /\ f \in Frames
      BY HandFacts
    <3> QED
      BY <1>1, <1>2, <2>2, <3>1, HeapFifoStep
  <2>3. cmunchanged => UNCHANGED fifovars
    BY <1>2 DEF cmunchanged, fifovars
  <2>4. ThreadRight(kpc[t], kheaproots, Listed)
    BY AtFacts
  <2>5. CASE kmalloc_pages(t)
    <3>1. 1 .. MaxPages \subseteq Nat \ {0}
      BY HeapAssumption
    <3> QED
      BY <2>1, <2>5, <3>1 DEF kmalloc_pages
  <2>6. CASE alloc_heap_page(t) \/ alloc_root_page(t)
    BY <2>1, <2>3, <2>6 DEF alloc_heap_page, alloc_root_page
  <2>7. CASE giveup(t) \/ free_kpages(t)
    <3>1. kpc[t].page \in Hand(kpc[t])
      BY <2>4, <2>7 DEF giveup, free_kpages, At, ThreadRight, HasPage, Hand
    <3> QED
      BY <2>2, <2>7, <3>1 DEF giveup, free_kpages
  <2>8. CASE free_duplicate(t)
    <3>1. kpc[t].va \in Hand(kpc[t])
      BY <2>4, <2>8 DEF free_duplicate, At, ThreadRight, Hand
    <3> QED
      BY <2>2, <2>8, <3>1 DEF free_duplicate
  <2>9. CASE \/ subpage_kmalloc(t) \/ allocpageref(t) \/ allocpagerefpage(t)
             \/ use_page(t) \/ kfree(t)
    BY <2>3, <2>9 DEF subpage_kmalloc, allocpageref, allocpagerefpage, use_page, kfree
  <2> QED
    BY <1>2, <2>5, <2>6, <2>7, <2>8, <2>9 DEF HeapStep
<1>3. CASE UserFifoNext
  BY <1>3 DEF FifoNext
<1>4. CASE UNCHANGED <<fifovars, heapvars>>
  BY <1>4
<1> QED
  BY <1>2, <1>3, <1>4 DEF HeapNext

-----------------------------------------------------------------------------
(***************************************************************************)
(* The theorems.                                                           *)
(***************************************************************************)

\* The lists, the pagerefs and the pointers of the heap have their types, also
\* between the steps in which kmalloc and kfree have released the spinlock.
THEOREM HeapTypesKept ==
  ASSUME LargeCoremap
  PROVE  HeapSpec => []HeapTypeOK
<1>1. HeapInit => HeapInv
  BY HeapInvInit
<1> QED
  BY <1>1, HeapInvNext, HeapInvTypes, PTL DEF HeapSpec

\* What checksubpages() and checksubpage() of kmalloc.c would find is always
\* right: the two kinds of list agree, every block of a heap page is free or
\* given out and never both, nfree counts the free ones, and a page whose last
\* block kfree has got back is in no list any more.
THEOREM HeapStaysConsistent ==
  ASSUME LargeCoremap
  PROVE  HeapSpec => []HeapConsistent
<1>1. HeapInit => HeapInv
  BY HeapInvInit
<1> QED
  BY <1>1, HeapInvNext, HeapInvConsistent, PTL DEF HeapSpec

\* Every frame that alloc_kpages gave and free_kpages has not got back has one
\* use in kmalloc, whatever other threads do while the spinlock is released:
\* none is lost, none serves two purposes, and the frames that ram_stealmem
\* handed out at boot stay with the coremap.
THEOREM NoKernelFrameLost ==
  ASSUME LargeCoremap
  PROVE  HeapSpec => []KernelFramesAccounted
<1>1. HeapInit => HeapInv
  BY HeapInvInit
<1>2. HeapInv => KernelFramesAccounted
  BY HeapInvAccounted
<1> QED
  BY <1>1, <1>2, HeapInvNext, PTL DEF HeapSpec

\* kmalloc and kfree use the coremap as its specification says: what they hand
\* to free_kpages is the first frame of an allocation that is not freed yet.
THEOREM HeapImplementsFifo ==
  ASSUME LargeCoremap
  PROVE  HeapSpec => FifoSpec
<1>1. HeapInit => HeapInv /\ FifoInit
  BY HeapInvInit DEF HeapInit
<1>2. HeapInv /\ [HeapNext]_<<fifovars, heapvars>> => [FifoNext]_fifovars
  BY HeapStepIsFifoStep
<1> QED
  BY <1>1, <1>2, HeapInvNext, PTL DEF HeapSpec, FifoSpec

\* So the entries of the coremap stay well formed while the heap and the
\* address spaces share it.
THEOREM HeapKeepsFrames ==
  ASSUME LargeCoremap
  PROVE  HeapSpec => []FramesWellFormed
<1>1. HeapInit => HeapInv
  BY HeapInvInit
<1>2. HeapInv => FramesWellFormed
  BY DEF HeapInv, CMInv, FramesWellFormed
<1> QED
  BY <1>1, <1>2, HeapInvNext, PTL DEF HeapSpec

\* ... and until the clock wraps cm_evict finds a victim and takes the oldest,
\* however the kernel's own allocations advance the clock between its steps.
THEOREM HeapKeepsReplacement ==
  ASSUME LargeCoremap, NoWrap
  PROVE  HeapSpec => []EvictFindsVictim /\ EvictsOldestFirst
<1>1. /\ FifoInit => FifoInv
      /\ FifoInv /\ [FifoNext]_fifovars => FifoInv'
  BY FifoInvInductive
<1>2. FifoInv => EvictFindsVictim
  BY CleanIsCandidate DEF FifoInv
<1>3. FifoSpec => []EvictFindsVictim
  BY <1>1, <1>2, PTL DEF FifoSpec
<1> QED
  BY <1>3, HeapImplementsFifo, ReplacementIsFifo, PTL
=============================================================================
