------------------------------- MODULE MCVfs -------------------------------
(* Two mountable disks and emu0, the menu and one program: enough for one  *)
(* thread to overtake another everywhere, with files of both kinds, and    *)
(* for loops over the table that one file system in it can stop. The two   *)
(* handles are interchangeable.                                            *)
EXTENDS Vfs, TLC

CONSTANTS lhd0, lhd1, h1, h2

TwoDisks == <<lhd0, lhd1>>

SameHandles == Permutations({h1, h2})
=============================================================================
