------------------------------- MODULE MCHeap -------------------------------
(***************************************************************************)
(* Small instances of the kernel heap over the coremap.                    *)
(***************************************************************************)
EXTENDS Heap, TLC

\* One block size, two blocks to a page; or two sizes.
OneSize == <<2>>
TwoSizes == <<1, 2>>
EightOf16 == <<8>>

Sym == Permutations(KThreads) \union Permutations(VAddrs) \union Permutations(AddrSpaces)
=============================================================================
