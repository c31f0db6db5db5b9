----------------------------- MODULE MCConsole -----------------------------
(***************************************************************************)
(* A small instance of the console.                                        *)
(***************************************************************************)
EXTENDS Console

CONSTANTS b, r

\* Boot prints before and after config_con, the others print later.
Prints == [a \in Actors |-> IF a = b THEN 2 ELSE 1]
=============================================================================
