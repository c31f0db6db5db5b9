------------------------------ MODULE MCPaging ------------------------------
(***************************************************************************)
(* Small instances of demand paging with its statistics.                   *)
(***************************************************************************)
EXTENDS VMStats, TLC

Sym == Permutations(AddrSpaces)
=============================================================================
