------------------------------ MODULE Threads ------------------------------
(***************************************************************************)
(* Threads, run queues and wait channels (kern/thread/thread.c), with one  *)
(* counting semaphore (kern/thread/synch.c) and the timer (clock.c), on    *)
(* several processors.                                                     *)
(*                                                                         *)
(* A spinlock is held by a processor, with interrupts off.  A critical     *)
(* section that takes no second spinlock is one step; where a spinlock is  *)
(* held over several steps its holder is recorded.  Waiting for a spinlock *)
(* changes nothing, so it is a step that is not enabled yet.               *)
(*                                                                         *)
(* What a processor does in an interrupt handler or in V, with interrupts  *)
(* off, is kept in irq[c] apart from the place pc[t] where its thread      *)
(* stands.                                                                 *)
(***************************************************************************)
EXTENDS Naturals, Sequences, SequencesExt

CONSTANTS
  NCPU,
  Threads,        \* struct thread pointers; those of dead threads are reused
  NULL,
  Migration,      \* whether the timer ever runs thread_consider_migration
  MaxCount        \* bound of the model: no V once sem_count is here

ASSUME ThreadsAssumption ==
  /\ NCPU \in Nat \ {0}
  /\ IsFiniteSet(Threads) /\ Cardinality(Threads) >= NCPU
  /\ NULL \notin Threads \union (0 .. NCPU - 1)
  /\ Migration \in BOOLEAN
  /\ MaxCount \in Nat

CPUs == 0 .. NCPU - 1

VARIABLES
  c_curthread, c_isidle, c_runqueue, c_zombies, c_ipi_pending,
  runqueue_lock,  \* runqueue_lock[c], the holder of c's c_runqueue_lock
  t_state, t_cpu, pc,
  ret,            \* ret[t]: where t goes on after thread_switch
  child,          \* child[t]: the thread that t is creating
  sem_count, sem_wchan, sem_lock,
  irq

cpuvars == <<c_curthread, c_isidle, c_runqueue, c_zombies, c_ipi_pending,
             runqueue_lock>>
thrvars == <<t_state, t_cpu, pc, ret, child>>
semvars == <<sem_count, sem_wchan, sem_lock>>
vars    == <<cpuvars, thrvars, semvars, irq>>

States == {"NONE", "READY", "RUN", "SLEEP", "ZOMBIE"}   \* NONE: no such thread
PCs == {"run", "P", "fork", "yield", "sleep", "pick", "idle", "unidle",
        "back"}

\* What processor c does besides its thread, with the variables it needs.
NoIrq == [at |-> "none", target |-> NULL, i |-> 0, my_count |-> 0,
          total_count |-> 0, one_share |-> 0, to_send |-> 0, victims |-> <<>>]

IrqSteps == {"none", "wake", "count", "take", "give", "giving", "rest"}

TypeOK ==
  /\ c_curthread \in [CPUs -> Threads]
  /\ c_isidle \in [CPUs -> BOOLEAN]
  /\ \A c \in CPUs : {c_runqueue[c], c_zombies[c]} \subseteq Seq(Threads)
  /\ c_ipi_pending \in [CPUs -> BOOLEAN]
  /\ runqueue_lock \in [CPUs -> CPUs \union {NULL}]
  /\ t_state \in [Threads -> States]
  /\ t_cpu \in [Threads -> CPUs]
  /\ pc \in [Threads -> PCs]
  /\ ret \in [Threads -> PCs]
  /\ child \in [Threads -> Threads \union {NULL}]
  /\ sem_count \in 0 .. MaxCount
  /\ sem_wchan \in Seq(Threads)
  /\ sem_lock \in CPUs \union {NULL}
  /\ \A c \in CPUs :
       /\ irq[c].at \in IrqSteps
       /\ irq[c].target \in Threads \union {NULL}
       /\ irq[c].i \in 0 .. NCPU
       /\ irq[c].to_send \in 0 .. Cardinality(Threads)
       /\ irq[c].victims \in Seq(Threads)

-----------------------------------------------------------------------------
\* Processor c executes its thread t, which is at l.
At(c, t, l) == irq[c].at = "none" /\ c_curthread[c] = t /\ pc[t] = l

Goto(t, l) == pc' = [pc EXCEPT ![t] = l]

\* Interrupts are on: outside of P, V and thread_switch, on the way into P,
\* and in cpu_idle.
Interruptible(c) ==
  irq[c].at = "none" /\ pc[c_curthread[c]] \in {"run", "P", "fork", "idle"}

\* The handler h is entered on the stack of the current thread; cpu_idle
\* returns when it is done.
Interrupt(c, h) ==
  /\ irq' = [irq EXCEPT ![c] = h]
  /\ LET t == c_curthread[c]
     IN  pc' = IF pc[t] = "idle" THEN [pc EXCEPT ![t] = "unidle"] ELSE pc

\* Mutant: it is the caller's processor that is asked whether it is idle.
ipi_unidle_Own(c, d) ==
  c_ipi_pending' = IF c_isidle[c] /\ d # c
                     THEN [c_ipi_pending EXCEPT ![d] = TRUE] ELSE c_ipi_pending

\* ipi_send(d, IPI_UNIDLE), under the run queue lock of d
ipi_unidle(c, d) ==
  c_ipi_pending' = IF c_isidle[d] /\ d # c
                     THEN [c_ipi_pending EXCEPT ![d] = TRUE] ELSE c_ipi_pending

\* Mutant: the processor of the caller is used, not that of the thread.
thread_make_runnable_Here(c, t) ==
  /\ runqueue_lock[c] = NULL
  /\ t_state' = [t_state EXCEPT ![t] = "READY"]
  /\ c_runqueue' = [c_runqueue EXCEPT ![c] = Append(@, t)]
  /\ UNCHANGED c_ipi_pending

\* thread_make_runnable(t, false), by processor c
thread_make_runnable(c, t) ==
  LET d == t_cpu[t]
  IN  /\ runqueue_lock[d] = NULL
      /\ t_state' = [t_state EXCEPT ![t] = "READY"]
      /\ c_runqueue' = [c_runqueue EXCEPT ![d] = Append(@, t)]
      /\ ipi_unidle(c, d)

-----------------------------------------------------------------------------
(***************************************************************************)
(* Threads: thread_fork and P.                                             *)
(***************************************************************************)

\* thread_create, and t_cpu from the creator.
thread_fork(c, t, u) ==
  /\ At(c, t, "run")
  /\ t_state[u] = "NONE"
  /\ t_state' = [t_state EXCEPT ![u] = "READY"]
  /\ t_cpu' = [t_cpu EXCEPT ![u] = t_cpu[t]]
  /\ child' = [child EXCEPT ![t] = u]
  /\ pc' = [pc EXCEPT ![t] = "fork", ![u] = "back"]
  /\ UNCHANGED <<cpuvars, ret, semvars, irq>>

ForkMakeRunnable(c, t) ==
  /\ At(c, t, "fork")
  /\ thread_make_runnable(c, child[t])
  /\ child' = [child EXCEPT ![t] = NULL]
  /\ Goto(t, "run")
  /\ UNCHANGED <<c_curthread, c_isidle, c_zombies, runqueue_lock, t_cpu, ret,
                 semvars, irq>>

\* Mutant: the spinlock is not held on the way into wchan_sleep.
P_Unlocked(c, t) ==
  /\ At(c, t, "run") \/ At(c, t, "P")
  /\ sem_lock = NULL
  /\ \/ sem_count > 0 /\ sem_count' = sem_count - 1 /\ Goto(t, "run")
     \/ sem_count = 0 /\ Goto(t, "sleep") /\ UNCHANGED sem_count
  /\ UNCHANGED <<cpuvars, t_state, t_cpu, ret, child, sem_wchan, sem_lock, irq>>

\* The loop of P: take the count, or call wchan_sleep with sem_lock held.
P(c, t) ==
  /\ At(c, t, "run") \/ At(c, t, "P")
  /\ sem_lock = NULL
  /\ \/ sem_count > 0 /\ sem_count' = sem_count - 1 /\ Goto(t, "run")
        /\ UNCHANGED sem_lock
     \/ sem_count = 0 /\ sem_lock' = c /\ Goto(t, "sleep")
        /\ UNCHANGED sem_count
  /\ UNCHANGED <<cpuvars, t_state, t_cpu, ret, child, sem_wchan, irq>>

-----------------------------------------------------------------------------
(***************************************************************************)
(* thread_switch, with interrupts off.                                     *)
(***************************************************************************)

\* The thread is put in its place, under the run queue lock, which is then
\* held until the next thread releases it.
LeaveProcessor(c, t) ==
  /\ runqueue_lock[c] = NULL
  /\ runqueue_lock' = [runqueue_lock EXCEPT ![c] = c]
  /\ c_isidle' = [c_isidle EXCEPT ![c] = TRUE]
  /\ Goto(t, "pick")
  /\ UNCHANGED <<c_curthread, c_ipi_pending, t_cpu, child, sem_count, irq>>

\* Mutant: the thread goes to the head of the run queue.
SwitchReady_Front(c, t) ==
  /\ At(c, t, "yield")
  /\ c_runqueue[c] # <<>>
  /\ LeaveProcessor(c, t)
  /\ t_state' = [t_state EXCEPT ![t] = "READY"]
  /\ c_runqueue' = [c_runqueue EXCEPT ![c] = <<t>> \o @]
  /\ UNCHANGED <<c_zombies, ret, sem_wchan, sem_lock>>

SwitchReady(c, t) ==
  /\ At(c, t, "yield")
  /\ c_runqueue[c] # <<>>
  /\ LeaveProcessor(c, t)
  /\ t_state' = [t_state EXCEPT ![t] = "READY"]
  /\ c_runqueue' = [c_runqueue EXCEPT ![c] = Append(@, t)]
  /\ UNCHANGED <<c_zombies, ret, sem_wchan, sem_lock>>

\* "Micro-optimization: if nothing to do, just return"
SwitchNothing(c, t) ==
  /\ At(c, t, "yield")
  /\ runqueue_lock[c] = NULL
  /\ c_runqueue[c] = <<>>
  /\ Goto(t, ret[t])
  /\ ret' = [ret EXCEPT ![t] = "run"]
  /\ UNCHANGED <<cpuvars, t_state, t_cpu, child, semvars, irq>>

SwitchSleep(c, t) ==
  /\ At(c, t, "sleep")
  /\ LeaveProcessor(c, t)
  /\ t_state' = [t_state EXCEPT ![t] = "SLEEP"]
  /\ sem_wchan' = Append(sem_wchan, t)
  /\ sem_lock' = NULL
  /\ ret' = [ret EXCEPT ![t] = "P"]
  /\ UNCHANGED <<c_runqueue, c_zombies>>

thread_exit(c, t) ==
  /\ At(c, t, "run")
  /\ LeaveProcessor(c, t)
  /\ t_state' = [t_state EXCEPT ![t] = "ZOMBIE"]
  /\ c_zombies' = [c_zombies EXCEPT ![c] = Append(@, t)]
  /\ UNCHANGED <<c_runqueue, ret, sem_wchan, sem_lock>>

\* Nobody to run: the lock is released and cpu_idle waits, on the stack of
\* the thread that left.
Idle(c, t) ==
  /\ At(c, t, "pick")
  /\ c_runqueue[c] = <<>>
  /\ runqueue_lock' = [runqueue_lock EXCEPT ![c] = NULL]
  /\ Goto(t, "idle")
  /\ UNCHANGED <<c_curthread, c_isidle, c_runqueue, c_zombies, c_ipi_pending,
                 t_state, t_cpu, ret, child, semvars, irq>>

Unidle(c, t) ==
  /\ At(c, t, "unidle")
  /\ runqueue_lock[c] = NULL
  /\ runqueue_lock' = [runqueue_lock EXCEPT ![c] = c]
  /\ Goto(t, "pick")
  /\ UNCHANGED <<c_curthread, c_isidle, c_runqueue, c_zombies, c_ipi_pending,
                 t_state, t_cpu, ret, child, semvars, irq>>

\* switchframe_switch: t goes on at "back" when it is next again.
Switch(c, t) ==
  /\ At(c, t, "pick")
  /\ c_runqueue[c] # <<>>
  /\ c_curthread' = [c_curthread EXCEPT ![c] = Head(c_runqueue[c])]
  /\ c_runqueue' = [c_runqueue EXCEPT ![c] = Tail(@)]
  /\ c_isidle' = [c_isidle EXCEPT ![c] = FALSE]
  /\ Goto(t, "back")
  /\ UNCHANGED <<c_zombies, c_ipi_pending, runqueue_lock, t_state, t_cpu, ret,
                 child, semvars, irq>>

\* The end of thread_switch, and thread_startup: the run queue lock is
\* released and exorcise destroys the zombies of this processor.
Back(c, t) ==
  LET dead == ToSet(c_zombies[c])
  IN  /\ At(c, t, "back")
      /\ runqueue_lock' = [runqueue_lock EXCEPT ![c] = NULL]
      /\ t_state' = [u \in Threads |-> IF u = t THEN "RUN"
                                       ELSE IF u \in dead THEN "NONE" ELSE t_state[u]]
      /\ t_cpu' = [u \in Threads |-> IF u \in dead THEN 0 ELSE t_cpu[u]]
      /\ pc' = [u \in Threads |-> IF u = t THEN ret[t]
                                  ELSE IF u \in dead THEN "run" ELSE pc[u]]
      /\ ret' = [ret EXCEPT ![t] = "run"]
      /\ c_zombies' = [c_zombies EXCEPT ![c] = <<>>]
      /\ UNCHANGED <<c_curthread, c_isidle, c_runqueue, c_ipi_pending, child,
                     semvars, irq>>

-----------------------------------------------------------------------------
(***************************************************************************)
(* V, called by a thread or by a device's interrupt handler.               *)
(***************************************************************************)

\* The count, and the thread that wchan_wakeone takes from the channel.
V(c) ==
  /\ Interruptible(c)
  /\ sem_lock = NULL
  /\ sem_count < MaxCount
  /\ sem_count' = sem_count + 1
  /\ IF sem_wchan = <<>>
       THEN Interrupt(c, NoIrq) /\ UNCHANGED <<sem_wchan, sem_lock>>
       ELSE /\ Interrupt(c, [NoIrq EXCEPT !.at = "wake", !.target = Head(sem_wchan)])
            /\ sem_wchan' = Tail(sem_wchan)
            /\ sem_lock' = c
  /\ UNCHANGED <<cpuvars, t_state, t_cpu, ret, child>>

Wakeup(c) ==
  /\ irq[c].at = "wake"
  /\ thread_make_runnable(c, irq[c].target)
  /\ sem_lock' = NULL
  /\ irq' = [irq EXCEPT ![c] = NoIrq]
  /\ UNCHANGED <<c_curthread, c_isidle, c_zombies, runqueue_lock, t_cpu, pc,
                 ret, child, sem_count, sem_wchan>>

-----------------------------------------------------------------------------
(***************************************************************************)
(* Interrupts.                                                             *)
(***************************************************************************)

\* interprocessor_interrupt with IPI_UNIDLE
interprocessor_interrupt(c) ==
  /\ c_ipi_pending[c]
  /\ Interruptible(c)
  /\ c_ipi_pending' = [c_ipi_pending EXCEPT ![c] = FALSE]
  /\ Interrupt(c, NoIrq)
  /\ UNCHANGED <<c_curthread, c_isidle, c_runqueue, c_zombies, runqueue_lock,
                 t_state, t_cpu, ret, child, semvars>>

\* hardclock: now and then thread_consider_migration, then thread_yield,
\* which returns at once when the processor is idle.
hardclock(c) ==
  LET t == c_curthread[c]
  IN  /\ Interruptible(c)
      /\ \E at \in {"none"} \union (IF Migration THEN {"count"} ELSE {}) :
           irq' = [irq EXCEPT ![c] = [NoIrq EXCEPT !.at = at]]
      /\ Goto(t, IF pc[t] = "idle" THEN "unidle" ELSE "yield")
      /\ ret' = IF pc[t] = "idle" THEN ret ELSE [ret EXCEPT ![t] = pc[t]]
      /\ UNCHANGED <<cpuvars, t_state, t_cpu, child, semvars>>

-----------------------------------------------------------------------------
(***************************************************************************)
(* thread_consider_migration.                                              *)
(***************************************************************************)

Count(c) ==
  LET h == irq[c]
      n == Len(c_runqueue[h.i])
  IN  /\ h.at = "count"
      /\ h.i < NCPU
      /\ runqueue_lock[h.i] = NULL
      /\ irq' = [irq EXCEPT ![c].total_count = @ + n,
                            ![c].my_count = IF h.i = c THEN n ELSE @,
                            ![c].i = @ + 1]
      /\ UNCHANGED <<cpuvars, thrvars, semvars>>

\* Mutant: no early return.
Share_NoReturn(c) ==
  LET h == irq[c]
      share == (h.total_count + NCPU - 1) \div NCPU
  IN  /\ h.at = "count"
      /\ h.i = NCPU
      /\ irq' = [irq EXCEPT ![c] = [NoIrq EXCEPT !.at = "take", !.one_share = share,
                                              !.to_send = h.my_count - share]]
      /\ UNCHANGED <<cpuvars, thrvars, semvars>>

\* DIVROUNDUP(total_count, numcpus), and the early return.
Share(c) ==
  LET h == irq[c]
      share == (h.total_count + NCPU - 1) \div NCPU
  IN  /\ h.at = "count"
      /\ h.i = NCPU
      /\ irq' = [irq EXCEPT ![c] =
                   IF h.my_count < share THEN NoIrq
                     ELSE [NoIrq EXCEPT !.at = "take", !.one_share = share,
                                        !.to_send = h.my_count - share]]
      /\ UNCHANGED <<cpuvars, thrvars, semvars>>

\* The last to_send threads leave the run queue.
Take(c) ==
  LET n == Len(c_runqueue[c]) - irq[c].to_send
  IN  /\ irq[c].at = "take"
      /\ runqueue_lock[c] = NULL
      /\ irq' = [irq EXCEPT ![c].at = "give",
                   ![c].victims = SubSeq(c_runqueue[c], n + 1, Len(c_runqueue[c]))]
      /\ c_runqueue' = [c_runqueue EXCEPT ![c] = SubSeq(@, 1, n)]
      /\ UNCHANGED <<c_curthread, c_isidle, c_zombies, c_ipi_pending,
                     runqueue_lock, thrvars, semvars>>

\* The next processor is locked, or the loop ends.
Give(c) ==
  LET h == irq[c]
  IN  /\ h.at = "give"
      /\ \/ /\ h.i = NCPU \/ h.to_send = 0
            /\ irq' = [irq EXCEPT ![c].at = "rest"]
            /\ UNCHANGED runqueue_lock
         \/ /\ h.i = c /\ h.to_send > 0
            /\ irq' = [irq EXCEPT ![c].i = @ + 1]
            /\ UNCHANGED runqueue_lock
         \/ /\ h.i \in CPUs \ {c} /\ h.to_send > 0
            /\ runqueue_lock[h.i] = NULL
            /\ runqueue_lock' = [runqueue_lock EXCEPT ![h.i] = c]
            /\ irq' = [irq EXCEPT ![c].at = "giving"]
      /\ UNCHANGED <<c_curthread, c_isidle, c_runqueue, c_zombies,
                     c_ipi_pending, thrvars, semvars>>

Room(c) == Len(c_runqueue[irq[c].i]) < irq[c].one_share /\ irq[c].to_send > 0

\* Mutant: the current thread is sent like any other.
Keeps_None(c) == FALSE

\* The thread that the processor is idle on is not sent.
Keeps(c) == Head(irq[c].victims) = c_curthread[c]

Skip(c) ==
  /\ irq[c].at = "giving" /\ Room(c)
  /\ Keeps(c)
  /\ irq' = [irq EXCEPT ![c].victims = Append(Tail(@), Head(@)),
                        ![c].to_send = @ - 1]
  /\ UNCHANGED <<cpuvars, thrvars, semvars>>

Send(c) ==
  LET t == Head(irq[c].victims)
      d == irq[c].i
  IN  /\ irq[c].at = "giving" /\ Room(c)
      /\ ~ Keeps(c)
      /\ t_cpu' = [t_cpu EXCEPT ![t] = d]
      /\ c_runqueue' = [c_runqueue EXCEPT ![d] = Append(@, t)]
      /\ irq' = [irq EXCEPT ![c].victims = Tail(@), ![c].to_send = @ - 1]
      /\ ipi_unidle(c, d)
      /\ UNCHANGED <<c_curthread, c_isidle, c_zombies, runqueue_lock, t_state,
                     pc, ret, child, semvars>>

NextProcessor(c) ==
  /\ irq[c].at = "giving" /\ ~ Room(c)
  /\ runqueue_lock' = [runqueue_lock EXCEPT ![irq[c].i] = NULL]
  /\ irq' = [irq EXCEPT ![c].at = "give", ![c].i = @ + 1]
  /\ UNCHANGED <<c_curthread, c_isidle, c_runqueue, c_zombies, c_ipi_pending,
                 thrvars, semvars>>

\* Threads that nobody had room for go back to the run queue.
Rest(c) ==
  /\ irq[c].at = "rest"
  /\ irq[c].victims # <<>> => runqueue_lock[c] = NULL
  /\ c_runqueue' = [c_runqueue EXCEPT ![c] = @ \o irq[c].victims]
  /\ irq' = [irq EXCEPT ![c] = NoIrq]
  /\ UNCHANGED <<c_curthread, c_isidle, c_zombies, c_ipi_pending,
                 runqueue_lock, thrvars, semvars>>

-----------------------------------------------------------------------------
\* Every processor runs its boot thread, created by cpu_create.  Its t_state
\* says RUN only after it has been switched to.
Init ==
  /\ c_curthread \in {f \in [CPUs -> Threads] :
                        \A c, d \in CPUs : f[c] = f[d] => c = d}
  /\ c_isidle = [c \in CPUs |-> FALSE]
  /\ c_runqueue = [c \in CPUs |-> <<>>]
  /\ c_zombies = [c \in CPUs |-> <<>>]
  /\ c_ipi_pending = [c \in CPUs |-> FALSE]
  /\ runqueue_lock = [c \in CPUs |-> NULL]
  /\ LET Boot(t) == \E c \in CPUs : c_curthread[c] = t
     IN  /\ t_state = [t \in Threads |-> IF Boot(t) THEN "READY" ELSE "NONE"]
         /\ t_cpu = [t \in Threads |->
                       IF Boot(t) THEN CHOOSE c \in CPUs : c_curthread[c] = t ELSE 0]
  /\ pc = [t \in Threads |-> "run"]
  /\ ret = [t \in Threads |-> "run"]
  /\ child = [t \in Threads |-> NULL]
  /\ sem_count = 0
  /\ sem_wchan = <<>>
  /\ sem_lock = NULL
  /\ irq = [c \in CPUs |-> NoIrq]

\* Steps that a processor takes on its own account once it is on its way.
Switching(c, t) ==
  \/ SwitchReady(c, t) \/ SwitchNothing(c, t) \/ SwitchSleep(c, t)
  \/ Idle(c, t) \/ Unidle(c, t) \/ Switch(c, t) \/ Back(c, t)

Handling(c) ==
  \/ Wakeup(c) \/ Count(c) \/ Share(c) \/ Take(c) \/ Give(c) \/ Skip(c)
  \/ Send(c) \/ NextProcessor(c) \/ Rest(c)

Next ==
  \E c \in CPUs :
    \/ V(c) \/ interprocessor_interrupt(c) \/ hardclock(c) \/ Handling(c)
    \/ \E t \in Threads :
         \/ ForkMakeRunnable(c, t) \/ P(c, t) \/ thread_exit(c, t)
         \/ Switching(c, t)
         \/ \E u \in Threads : thread_fork(c, t, u)

Spec == Init /\ [][Next]_vars

(***************************************************************************)
(* Fairness.  A processor goes on with what it has begun, and spinlocks    *)
(* are held for so short a time that it gets the ones it waits for; its    *)
(* timer ticks.  Threads need do nothing.                                  *)
(***************************************************************************)

Fairness ==
  \A c \in CPUs :
    /\ SF_vars(\E t \in Threads : Switching(c, t))
    /\ SF_vars(Handling(c))
    /\ SF_vars(hardclock(c))

FairSpec == Spec /\ Fairness

-----------------------------------------------------------------------------
(***************************************************************************)
(* Properties.                                                             *)
(***************************************************************************)

\* No thread runs on two processors, which would share its stack: a thread
\* is not switched to before the processor that it left has saved its
\* context, whoever wakes it or moves it meanwhile.  The current thread
\* belongs to its processor (DEBUGASSERT(curthread->t_cpu == curcpu->c_self)
\* in thread_switch).  A thread that was destroyed is on nobody's stack:
\* exorcise runs only after the switch away from it (its KASSERT(z !=
\* curthread) sees only its own processor).
OneProcessorPerThread ==
  \A c \in CPUs :
    LET t == c_curthread[c]
    IN  /\ \A d \in CPUs : c_curthread[d] = t => d = c
        /\ t_cpu[t] = c
        /\ t_state[t] # "NONE"

\* The lists that threads wait on.
Queues ==
  {<<"run", c>> : c \in CPUs} \union {<<"moving", c>> : c \in CPUs}
    \union {<<"zombie", c>> : c \in CPUs} \union {<<"wchan", 0>>}

Queue(q) ==
  CASE q[1] = "run"    -> c_runqueue[q[2]]
    [] q[1] = "moving" -> irq[q[2]].victims
    [] q[1] = "zombie" -> c_zombies[q[2]]
    [] q[1] = "wchan"  -> sem_wchan

\* A thread is in one list at most (it has one list node), in one that fits
\* its state, and a thread that is ready to run is in one, unless it is being
\* created or has just got the processor: it is neither forgotten nor run
\* twice.  A thread in a run queue belongs to that processor.
ThreadsInOneList ==
  /\ \A q, r \in Queues :
       \A i \in DOMAIN Queue(q), j \in DOMAIN Queue(r) :
         Queue(q)[i] = Queue(r)[j] => q = r /\ i = j
  /\ \A q \in Queues : \A t \in ToSet(Queue(q)) :
       /\ t_state[t] = CASE q[1] = "wchan" -> "SLEEP" [] q[1] = "zombie" -> "ZOMBIE"
                         [] OTHER -> "READY"
       /\ q[1] # "wchan" => t_cpu[t] = q[2]
  /\ \A t \in Threads : t_state[t] = "READY" =>
       \/ \E q \in Queues : t \in ToSet(Queue(q))
       \/ \E s \in Threads : child[s] = t
       \/ \E c \in CPUs : c_curthread[c] = t /\ pc[t] \notin {"pick", "idle", "unidle"}

\* Threads that wchan_wakeone has taken off the channel and that have not
\* looked at the count again.
Woken ==
  {t \in Threads :
     \/ \E c \in CPUs : irq[c].target = t
     \/ /\ t_state[t] \in {"READY", "RUN"}
        /\ pc[t] = "P" \/ (ret[t] = "P" /\ pc[t] \notin {"run", "fork"})}

\* No wake-up is lost: while threads sleep on the semaphore, every count
\* that V has left is matched by a thread on its way to take it.
NoLostWakeup ==
  sem_wchan # <<>> => sem_count <= Cardinality(Woken)

\* A processor does not sleep in cpu_idle while its run queue has threads,
\* unless an interrupt that ends that is on its way.
IdleIsToldOfWork ==
  \A c \in CPUs :
    pc[c_curthread[c]] = "idle" /\ c_runqueue[c] # <<>> => c_ipi_pending[c]

\* A thread in a run queue runs in the end ("threads will run in round-robin
\* fashion", schedule in thread.c).
ReadyThreadsRun ==
  \A t \in Threads :
    (\E c \in CPUs : t \in ToSet(c_runqueue[c])) ~> t_state[t] = "RUN"
=============================================================================
