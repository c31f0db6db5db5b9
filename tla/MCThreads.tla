----------------------------- MODULE MCThreads -----------------------------
(***************************************************************************)
(* Small instances of the thread system.                                   *)
(***************************************************************************)
EXTENDS Threads

Sym == Permutations(Threads)
=============================================================================
