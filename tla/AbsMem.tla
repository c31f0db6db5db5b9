------------------------------- MODULE AbsMem -------------------------------
(***************************************************************************)
(* What the virtual memory system promises to user programs: every         *)
(* process has a memory of its own.  It starts as the executable and a     *)
(* stack of zeros, changes only when the process stores to it, and a load  *)
(* returns what it holds.  There are no frames, no swap file, no TLB and   *)
(* no other process in this picture.                                       *)
(***************************************************************************)
CONSTANTS
  Procs,
  Pages,
  Contents,       \* what a page can hold
  Image(_, _),    \* what page q of process p holds at first
  NoAccess

VARIABLES
  alive,          \* the processes that run
  content,        \* content[p][q]
  last            \* the last access of each process: the page and its content

absvars == <<alive, content, last>>

Nothing == [p \in Procs |-> [q \in Pages |-> Image(p, q)]]

AbsInit ==
  /\ alive = {}
  /\ content = Nothing
  /\ last = [p \in Procs |-> NoAccess]

Begin(p) ==
  /\ p \notin alive
  /\ alive' = alive \union {p}
  /\ UNCHANGED <<content, last>>

Store(p, q, v) ==
  /\ p \in alive
  /\ content' = [content EXCEPT ![p][q] = v]
  /\ last' = [last EXCEPT ![p] = <<q, v>>]
  /\ UNCHANGED alive

Load(p, q) ==
  /\ p \in alive
  /\ last' = [last EXCEPT ![p] = <<q, content[p][q]>>]
  /\ UNCHANGED <<alive, content>>

End(p) ==
  /\ p \in alive
  /\ alive' = alive \ {p}
  /\ content' = [content EXCEPT ![p] = Nothing[p]]
  /\ last' = [last EXCEPT ![p] = NoAccess]

AbsNext ==
  \E p \in Procs :
    \/ Begin(p) \/ End(p)
    \/ \E q \in Pages : Load(p, q) \/ \E v \in Contents : Store(p, q, v)

AbsSpec == AbsInit /\ [][AbsNext]_absvars
=============================================================================
