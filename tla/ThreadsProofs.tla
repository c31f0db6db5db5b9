---------------------------- MODULE ThreadsProofs ----------------------------
(***************************************************************************)
(* Proofs about threads, run queues and the semaphore, for any number of   *)
(* processors and threads.                                                 *)
(***************************************************************************)
EXTENDS Threads, FiniteSetTheorems, SequenceTheorems, TLAPS

-----------------------------------------------------------------------------
(***************************************************************************)
(* The invariant.                                                          *)
(***************************************************************************)

\* A thread stands in a list.
Ready(c, t)  == Contains(c_runqueue[c], t)
Moving(c, t) == Contains(irq[c].victims, t)
Dead(c, t)   == Contains(c_zombies[c], t)
Asleep(t)    == Contains(sem_wchan, t)

Current(t) == \E c \in CPUs : c_curthread[c] = t

\* A thread with this pc has left its processor, which idles on its stack.
Left == {"pick", "idle", "unidle"}

CpuTypes ==
  /\ c_curthread \in [CPUs -> Threads]
  /\ c_isidle \in [CPUs -> BOOLEAN]
  /\ c_ipi_pending \in [CPUs -> BOOLEAN]
  /\ runqueue_lock \in [CPUs -> CPUs \union {NULL}]

ThreadTypes ==
  /\ t_state \in [Threads -> States]
  /\ t_cpu \in [Threads -> CPUs]
  /\ pc \in [Threads -> PCs]
  /\ ret \in [Threads -> {"run", "P", "fork"}]
  /\ child \in [Threads -> Threads \union {NULL}]

ListTypes ==
  /\ c_runqueue \in [CPUs -> Seq(Threads)]
  /\ c_zombies \in [CPUs -> Seq(Threads)]
  /\ sem_wchan \in Seq(Threads)

SemTypes ==
  /\ sem_count \in 0 .. MaxCount
  /\ sem_lock \in CPUs \union {NULL}

Handlers ==
  [at : IrqSteps, target : Threads \union {NULL}, i : 0 .. NCPU, my_count : Nat,
   total_count : Nat, one_share : Nat, to_send : Nat, victims : Seq(Threads)]

IrqTypes == irq \in [CPUs -> Handlers]

\* What a handler knows of the semaphore and of the run queues.
HandlerRight(c) ==
  /\ irq[c].at = "wake" <=> irq[c].target # NULL
  /\ irq[c].at = "wake" => sem_lock = c
  /\ irq[c].at \notin {"give", "giving", "rest"} => irq[c].victims = <<>>
  /\ irq[c].at \in {"none", "wake", "count"} => irq[c].to_send = 0
  /\ irq[c].at = "count" => irq[c].my_count <= Len(c_runqueue[c])
  /\ irq[c].at = "take" => irq[c].to_send <= Len(c_runqueue[c])
  /\ irq[c].at \in {"give", "giving", "rest"}
       => irq[c].to_send <= Len(irq[c].victims)
  /\ irq[c].at = "giving" => irq[c].i \in CPUs \ {c}

IrqRight == \A c \in CPUs : HandlerRight(c)

\* No list has a thread twice.
ListsDistinct ==
  /\ \A c \in CPUs : /\ IsInjective(c_runqueue[c])
                     /\ IsInjective(irq[c].victims)
                     /\ IsInjective(c_zombies[c])
  /\ IsInjective(sem_wchan)

\* A list holds threads of its processor, in the state that fits it.
ListsRight ==
  /\ \A c \in CPUs, t \in Threads :
       /\ Ready(c, t) => t_state[t] = "READY" /\ t_cpu[t] = c /\ ~ Moving(c, t)
       /\ Moving(c, t) => t_state[t] = "READY" /\ t_cpu[t] = c
       /\ Dead(c, t) => t_state[t] = "ZOMBIE" /\ t_cpu[t] = c
       /\ irq[c].target = t => t_state[t] = "SLEEP" /\ ~ Asleep(t)
  /\ \A t \in Threads : Asleep(t) => t_state[t] = "SLEEP"

\* The current thread of a processor belongs to it, and stands in a list only
\* if the processor idles on its stack.
CurrentRight ==
  \A c \in CPUs : \A t \in Threads :
    c_curthread[c] = t =>
      /\ \A d \in CPUs : c_curthread[d] = t => d = c
      /\ t_cpu[t] = c
      /\ t_state[t] # "NONE"
      /\ pc[t] \notin Left => /\ t_state[t] \in {"READY", "RUN"}
                              /\ ~ Ready(c, t) /\ ~ Moving(c, t)
      /\ pc[t] \in Left => c_isidle[c] /\ t_state[t] # "RUN"
      /\ irq[c].at # "none" => pc[t] \in {"run", "P", "fork", "yield", "unidle"}
      /\ pc[t] = "sleep" => sem_lock = c /\ sem_count = 0
      /\ pc[t] = "idle" /\ c_runqueue[c] # <<>> => c_ipi_pending[c]

\* A thread that is nobody's current thread waits to be switched to.
WaitingRight ==
  \A t \in Threads :
    /\ ~ Current(t) => /\ t_state[t] # "RUN"
                       /\ t_state[t] # "NONE" => pc[t] = "back"
    /\ pc[t] \in {"run", "P", "fork", "sleep"} => ret[t] = "run"
    /\ t_state[t] = "SLEEP" => ret[t] = "P"
    /\ t_state[t] \in {"NONE", "ZOMBIE"} => ret[t] = "run"
    /\ t_state[t] = "READY" =>
         \/ Ready(t_cpu[t], t) \/ Moving(t_cpu[t], t)
         \/ \E s \in Threads : child[s] = t
         \/ Current(t) /\ pc[t] \notin Left

\* A thread that is being created is in no list yet.
ChildRight ==
  \A s \in Threads :
    /\ child[s] # NULL <=> pc[s] = "fork" \/ ret[s] = "fork"
    /\ \A u \in Threads : child[s] = u =>
         /\ t_state[u] = "READY" /\ pc[u] = "back" /\ ~ Current(u)
         /\ \A c \in CPUs : ~ Ready(c, u) /\ ~ Moving(c, u)
         /\ \A r \in Threads : child[r] = u => r = s

AllTypes == CpuTypes /\ ThreadTypes /\ ListTypes /\ SemTypes /\ IrqTypes

ThreadsInv ==
  AllTypes /\ IrqRight /\ ListsDistinct /\ ListsRight /\ CurrentRight
    /\ WaitingRight /\ ChildRight /\ NoLostWakeup

-----------------------------------------------------------------------------
(***************************************************************************)
(* Lemmas about lists of threads.                                          *)
(***************************************************************************)

\* threadlist_addtail
LEMMA AddTail ==
  ASSUME NEW s \in Seq(Threads), NEW t \in Threads
  PROVE  /\ Append(s, t) \in Seq(Threads)
         /\ Len(Append(s, t)) = Len(s) + 1
         /\ Append(s, t) # <<>>
         /\ \A u : Contains(Append(s, t), u) <=> Contains(s, u) \/ u = t
         /\ IsInjective(s) /\ ~ Contains(s, t) => IsInjective(Append(s, t))
<1>1. /\ Len(s) \in Nat /\ DOMAIN s = 1 .. Len(s)
      /\ Append(s, t) \in Seq(Threads)
      /\ Len(Append(s, t)) = Len(s) + 1
      /\ DOMAIN Append(s, t) = 1 .. Len(s) + 1
      /\ \A i \in 1 .. Len(s) : Append(s, t)[i] = s[i]
      /\ Append(s, t)[Len(s) + 1] = t
  OBVIOUS
<1>2. \A i \in 1 .. Len(s) + 1 : i \in 1 .. Len(s) \/ i = Len(s) + 1
  BY <1>1
<1>3. \A u : Contains(Append(s, t), u) <=> Contains(s, u) \/ u = t
  BY <1>1, <1>2 DEF Contains
<1>4. ASSUME IsInjective(s), ~ Contains(s, t)
      PROVE  IsInjective(Append(s, t))
  <2> SUFFICES ASSUME NEW i \in 1 .. Len(s) + 1, NEW j \in 1 .. Len(s) + 1,
                      Append(s, t)[i] = Append(s, t)[j]
               PROVE  i = j
    BY <1>1 DEF IsInjective
  <2> QED
    BY <1>1, <1>2, <1>4 DEF IsInjective, Contains
<1>5. Append(s, t) # <<>>
  BY <1>1
<1> QED
  BY <1>1, <1>3, <1>4, <1>5

\* threadlist_remhead
LEMMA RemoveHead ==
  ASSUME NEW s \in Seq(Threads), s # <<>>, IsInjective(s)
  PROVE  /\ Head(s) \in Threads /\ Contains(s, Head(s))
         /\ Tail(s) \in Seq(Threads)
         /\ Len(Tail(s)) = Len(s) - 1
         /\ \A u : Contains(Tail(s), u) <=> Contains(s, u) /\ u # Head(s)
         /\ IsInjective(Tail(s))
<1>1. /\ Len(s) \in Nat \ {0} /\ DOMAIN s = 1 .. Len(s)
      /\ Head(s) \in Threads /\ Head(s) = s[1]
      /\ Tail(s) \in Seq(Threads)
      /\ Len(Tail(s)) = Len(s) - 1
      /\ DOMAIN Tail(s) = 1 .. Len(s) - 1
      /\ \A i \in 1 .. Len(s) - 1 : Tail(s)[i] = s[i + 1]
  BY HeadTailProperties, EmptySeq, LenProperties
<1>2. \A i \in 1 .. Len(s) : i = 1 \/ (i - 1 \in 1 .. Len(s) - 1 /\ (i - 1) + 1 = i)
  BY <1>1
<1>3. \A i \in 1 .. Len(s) - 1 : i + 1 \in 1 .. Len(s) /\ i + 1 # 1
  BY <1>1
<1>4. \A i, j \in 1 .. Len(s) : s[i] = s[j] => i = j
  BY <1>1 DEF IsInjective
<1>5. ASSUME NEW u
      PROVE  Contains(Tail(s), u) <=> Contains(s, u) /\ u # Head(s)
  <2>1. ASSUME Contains(Tail(s), u) PROVE Contains(s, u) /\ u # Head(s)
    BY <1>1, <1>3, <1>4, <2>1 DEF Contains
  <2>2. ASSUME Contains(s, u), u # Head(s) PROVE Contains(Tail(s), u)
    BY <1>1, <1>2, <2>2 DEF Contains
  <2> QED
    BY <2>1, <2>2
<1>6. IsInjective(Tail(s))
  <2> SUFFICES ASSUME NEW i \in 1 .. Len(s) - 1, NEW j \in 1 .. Len(s) - 1,
                      Tail(s)[i] = Tail(s)[j]
               PROVE  i = j
    BY <1>1 DEF IsInjective
  <2>1. s[i + 1] = s[j + 1] /\ i + 1 \in 1 .. Len(s) /\ j + 1 \in 1 .. Len(s)
    BY <1>1, <1>3
  <2> QED
    BY <1>4, <2>1
<1>7. Contains(s, Head(s))
  BY <1>1 DEF Contains
<1> QED
  BY <1>1, <1>5, <1>6, <1>7

\* thread_consider_migration takes the last threads of its run queue.
LEMMA CutTail ==
  ASSUME NEW s \in Seq(Threads), NEW n \in 0 .. Len(s), IsInjective(s)
  PROVE  LET f == SubSeq(s, 1, n)
             g == SubSeq(s, n + 1, Len(s))
         IN  /\ f \in Seq(Threads) /\ g \in Seq(Threads)
             /\ Len(g) = Len(s) - n
             /\ IsInjective(f) /\ IsInjective(g)
             /\ \A u : /\ Contains(s, u) <=> Contains(f, u) \/ Contains(g, u)
                       /\ ~ (Contains(f, u) /\ Contains(g, u))
<1> DEFINE f == SubSeq(s, 1, n)
           g == SubSeq(s, n + 1, Len(s))
<1>1. /\ Len(s) \in Nat /\ DOMAIN s = 1 .. Len(s) /\ n \in Nat /\ n <= Len(s)
      /\ \A i \in 1 .. Len(s) : s[i] \in Threads
  BY LenProperties, ElementOfSeq
<1>2. /\ f \in Seq(Threads) /\ Len(f) = n
      /\ \A i \in 1 .. n : f[i] = s[i]
  <2>1. \A i \in 1 .. n : s[i] \in Threads
    BY <1>1
  <2>2. /\ SubSeq(s, 1, n) \in Seq(Threads)
        /\ Len(SubSeq(s, 1, n)) = IF 1 <= n THEN n - 1 + 1 ELSE 0
        /\ \A i \in 1 .. n - 1 + 1 : SubSeq(s, 1, n)[i] = s[1 + i - 1]
    BY <1>1, <2>1, SubSeqProperties
  <2>3. \A i \in 1 .. n : i \in 1 .. n - 1 + 1 /\ 1 + i - 1 = i
    BY <1>1
  <2> QED
    BY <1>1, <2>2, <2>3
<1>3. /\ g \in Seq(Threads) /\ Len(g) = Len(s) - n
      /\ \A i \in 1 .. Len(s) - n : g[i] = s[n + i]
  <2>1. \A i \in n + 1 .. Len(s) : s[i] \in Threads
    BY <1>1
  <2>2. /\ SubSeq(s, n + 1, Len(s)) \in Seq(Threads)
        /\ Len(SubSeq(s, n + 1, Len(s)))
             = IF n + 1 <= Len(s) THEN Len(s) - (n + 1) + 1 ELSE 0
        /\ \A i \in 1 .. Len(s) - (n + 1) + 1 :
             SubSeq(s, n + 1, Len(s))[i] = s[(n + 1) + i - 1]
    <3>1. n + 1 \in Int /\ Len(s) \in Int
      BY <1>1
    <3> QED
      BY <2>1, <3>1, SubSeqProperties
  <2>3. \A i \in 1 .. Len(s) - n :
          i \in 1 .. Len(s) - (n + 1) + 1 /\ (n + 1) + i - 1 = n + i
    BY <1>1
  <2>4. \A i \in 1 .. Len(s) - n : g[i] = s[n + i]
    BY <2>2, <2>3
  <2>5. Len(g) = Len(s) - n
    <3>1. \A k, i \in Nat :
            i <= k => (IF i + 1 <= k THEN k - (i + 1) + 1 ELSE 0) = k - i
      OBVIOUS
    <3>2. (IF n + 1 <= Len(s) THEN Len(s) - (n + 1) + 1 ELSE 0) = Len(s) - n
      BY <1>1, <3>1
    <3> QED
      BY <2>2, <3>2
  <2> QED
    BY <2>2, <2>4, <2>5
<1> HIDE DEF f, g
<1> DEFINE m == Len(s) - n
<1>4. m \in Nat /\ Len(g) = m /\ Len(f) = n
  BY <1>1, <1>2, <1>3
<1>5. /\ \A i \in 1 .. n : i \in 1 .. Len(s) /\ f[i] = s[i]
      /\ \A i \in 1 .. m : n + i \in 1 .. Len(s) /\ g[i] = s[n + i]
      /\ \A i \in 1 .. Len(s) : i \in 1 .. n \/ (i - n \in 1 .. m /\ n + (i - n) = i)
  <2>1. \A i \in 1 .. m : n + i \in 1 .. Len(s)
    BY <1>1
  <2>2. \A i \in 1 .. Len(s) : i \in 1 .. n \/ (i - n \in 1 .. m /\ n + (i - n) = i)
    BY <1>1
  <2>3. \A i \in 1 .. n : i \in 1 .. Len(s)
    BY <1>1
  <2> QED
    BY <1>2, <1>3, <2>1, <2>2, <2>3
<1>6. DOMAIN f = 1 .. n /\ DOMAIN g = 1 .. m
  BY <1>2, <1>3, <1>4, LenProperties
<1>7. \A i, j \in 1 .. Len(s) : s[i] = s[j] => i = j
  BY <1>1 DEF IsInjective
<1>8. IsInjective(f) /\ IsInjective(g)
  <2>1. IsInjective(f)
    BY <1>5, <1>6, <1>7 DEF IsInjective
  <2>2. ASSUME NEW i \in 1 .. m, NEW j \in 1 .. m, g[i] = g[j] PROVE i = j
    <3>1. n + i = n + j
      BY <1>5, <1>7, <2>2
    <3> QED
      BY <1>1, <3>1
  <2> QED
    BY <1>6, <2>1, <2>2 DEF IsInjective
<1>9. ASSUME NEW u
      PROVE  /\ Contains(s, u) <=> Contains(f, u) \/ Contains(g, u)
             /\ ~ (Contains(f, u) /\ Contains(g, u))
  <2> HIDE DEF m
  <2>1. Contains(f, u) \/ Contains(g, u) => Contains(s, u)
    BY <1>4, <1>5 DEF Contains
  <2>2. ASSUME NEW i \in 1 .. Len(s), s[i] = u
        PROVE  Contains(f, u) \/ Contains(g, u)
    <3>1. CASE i \in 1 .. n
      BY <1>4, <1>5, <2>2, <3>1 DEF Contains
    <3>2. CASE i - n \in 1 .. m /\ n + (i - n) = i
      <4>1. g[i - n] = s[n + (i - n)]
        BY <1>5, <3>2
      <4> QED
        BY <1>4, <2>2, <3>2, <4>1 DEF Contains
    <3> QED
      BY <1>5, <3>1, <3>2
  <2>3. ASSUME NEW i \in 1 .. n, NEW j \in 1 .. m, f[i] = g[j] PROVE FALSE
    <3>1. i = n + j
      BY <1>5, <1>7, <2>3
    <3> QED
      BY <1>1, <1>4, <3>1
  <2>4. ~ (Contains(f, u) /\ Contains(g, u))
    BY <1>4, <2>3 DEF Contains
  <2>5. Contains(s, u) => Contains(f, u) \/ Contains(g, u)
    BY <2>2 DEF Contains
  <2> QED
    BY <2>1, <2>4, <2>5
<1> QED
  BY <1>2, <1>3, <1>8, <1>9 DEF f, g

\* The threads that found no room are added to the run queue again.
LEMMA PutBack ==
  ASSUME NEW s \in Seq(Threads), NEW v \in Seq(Threads),
         IsInjective(s), IsInjective(v),
         \A u : ~ (Contains(s, u) /\ Contains(v, u))
  PROVE  /\ s \o v \in Seq(Threads)
         /\ Len(s \o v) = Len(s) + Len(v)
         /\ IsInjective(s \o v)
         /\ \A u : Contains(s \o v, u) <=> Contains(s, u) \/ Contains(v, u)
<1> DEFINE w == s \o v
           k == Len(s)
           m == Len(v)
<1>1. /\ k \in Nat /\ m \in Nat
      /\ DOMAIN s = 1 .. k /\ DOMAIN v = 1 .. m
      /\ w \in Seq(Threads) /\ Len(w) = k + m /\ DOMAIN w = 1 .. k + m
      /\ \A i \in 1 .. k + m : w[i] = IF i <= k THEN s[i] ELSE v[i - k]
  <2>1. /\ w \in Seq(Threads) /\ Len(w) = k + m
        /\ \A i \in 1 .. k + m : w[i] = IF i <= k THEN s[i] ELSE v[i - k]
    BY ConcatProperties
  <2> QED
    BY <2>1, LenProperties
<1> HIDE DEF w, k, m
<1>2. /\ \A i \in 1 .. k : i \in 1 .. k + m /\ w[i] = s[i]
      /\ \A i \in 1 .. m : k + i \in 1 .. k + m /\ w[k + i] = v[i]
  <2>1. \A i \in 1 .. k : i \in 1 .. k + m /\ i <= k
    BY <1>1
  <2>2. \A i \in 1 .. m : k + i \in 1 .. k + m /\ ~ (k + i <= k) /\ (k + i) - k = i
    BY <1>1
  <2> QED
    BY <1>1, <2>1, <2>2
<1>3. \A i \in 1 .. k + m :
        \/ i \in 1 .. k /\ w[i] = s[i]
        \/ i - k \in 1 .. m /\ w[i] = v[i - k]
  <2>1. \A i \in 1 .. k + m : \/ i \in 1 .. k /\ i <= k
                              \/ i - k \in 1 .. m /\ ~ (i <= k)
    BY <1>1
  <2> QED
    BY <1>1, <2>1
<1>4. Len(s) = k /\ Len(v) = m /\ s \o v = w
  BY DEF k, m, w
<1>5. ASSUME NEW u
      PROVE  Contains(w, u) <=> Contains(s, u) \/ Contains(v, u)
  <2>1. Contains(w, u) => Contains(s, u) \/ Contains(v, u)
    <3> SUFFICES ASSUME NEW i \in 1 .. k + m, w[i] = u
                 PROVE  Contains(s, u) \/ Contains(v, u)
      BY <1>1 DEF Contains
    <3> QED
      BY <1>3, <1>4 DEF Contains
  <2>2. Contains(s, u) \/ Contains(v, u) => Contains(w, u)
    BY <1>1, <1>2, <1>4 DEF Contains
  <2> QED
    BY <2>1, <2>2
<1>6. ASSUME NEW i \in 1 .. k + m, NEW j \in 1 .. k + m, w[i] = w[j]
      PROVE  i = j
  <2>1. CASE i \in 1 .. k /\ w[i] = s[i] /\ j \in 1 .. k /\ w[j] = s[j]
    BY <1>1, <1>6, <2>1 DEF IsInjective
  <2>2. CASE i \in 1 .. k /\ w[i] = s[i] /\ j - k \in 1 .. m /\ w[j] = v[j - k]
    <3>1. Contains(s, w[i]) /\ Contains(v, w[i])
      BY <1>4, <1>6, <2>2 DEF Contains
    <3> QED
      BY <3>1
  <2>3. CASE i - k \in 1 .. m /\ w[i] = v[i - k] /\ j \in 1 .. k /\ w[j] = s[j]
    <3>1. Contains(s, w[i]) /\ Contains(v, w[i])
      BY <1>4, <1>6, <2>3 DEF Contains
    <3> QED
      BY <3>1
  <2>4. CASE /\ i - k \in 1 .. m /\ w[i] = v[i - k]
             /\ j - k \in 1 .. m /\ w[j] = v[j - k]
    <3>1. i - k = j - k
      BY <1>1, <1>6, <2>4 DEF IsInjective
    <3> QED
      BY <1>1, <3>1
  <2> QED
    BY <1>3, <2>1, <2>2, <2>3, <2>4
<1>7. IsInjective(w)
  BY <1>1, <1>6 DEF IsInjective
<1> QED
  BY <1>1, <1>4, <1>5, <1>7

\* A list that has no thread twice is not longer than there are threads.
LEMMA ListLength ==
  ASSUME NEW s \in Seq(Threads), IsInjective(s)
  PROVE  Len(s) <= Cardinality(Threads)
<1>1. Len(s) \in Nat /\ s \in [1 .. Len(s) -> Threads] /\ IsFiniteSet(Threads)
  BY LenProperties, ThreadsAssumption
<1>2. s \in Injection(1 .. Len(s), Threads)
  BY <1>1 DEF Injection
<1>3. Cardinality(1 .. Len(s)) <= Cardinality(Threads)
  BY <1>1, <1>2, FS_Injection
<1>4. Cardinality(1 .. Len(s)) = IF 1 > Len(s) THEN 0 ELSE Len(s) - 1 + 1
  BY <1>1, FS_Interval
<1> QED
  BY <1>1, <1>3, <1>4

\* An empty list has no thread.
LEMMA EmptyList ==
  /\ <<>> \in Seq(Threads) /\ Len(<<>>) = 0 /\ IsInjective(<<>>)
  /\ \A u : ~ Contains(<<>>, u)
<1>1. <<>> \in Seq(Threads) /\ Len(<<>>) = 0 /\ DOMAIN <<>> = 1 .. 0
  OBVIOUS
<1>2. 1 .. 0 = {}
  OBVIOUS
<1> QED
  BY <1>1, <1>2 DEF IsInjective, Contains

\* A list with a thread is not empty.
LEMMA NotEmpty ==
  ASSUME NEW s, NEW t, Contains(s, t)
  PROVE  s # <<>>
BY EmptyList

-----------------------------------------------------------------------------
(***************************************************************************)
(* Lemmas about the parts of the invariant.                                *)
(***************************************************************************)

\* The threads that the semaphore has woken are finitely many.
LEMMA WokenFinite ==
  /\ IsFiniteSet(Woken) /\ Cardinality(Woken) \in Nat
  /\ IsFiniteSet(Woken') /\ Cardinality(Woken') \in Nat
<1>1. Woken \in SUBSET Threads /\ Woken' \in SUBSET Threads
  BY DEF Woken
<1> QED
  BY <1>1, ThreadsAssumption, FS_Subset, FS_CardinalityType

\* A step that wakes nobody less loses no wake-up.
LEMMA NobodyForgotten ==
  ASSUME AllTypes, AllTypes', NoLostWakeup, sem_count' <= sem_count,
         sem_wchan' # <<>> => sem_wchan # <<>> \/ sem_count = 0,
         \A t \in Threads : t \in Woken => t \in Woken'
  PROVE  NoLostWakeup'
<1>1. Woken \in SUBSET Woken'
  BY DEF Woken
<1>2. Cardinality(Woken) <= Cardinality(Woken')
  BY <1>1, WokenFinite, FS_Subset
<1>3. sem_count \in Nat /\ sem_count' \in Nat
  BY ThreadsAssumption DEF AllTypes, SemTypes
<1> QED
  BY <1>2, <1>3, WokenFinite DEF NoLostWakeup

\* What a handler knows stays right when run queues grow.
LEMMA HandlerStays ==
  ASSUME ListTypes, ListTypes', IrqTypes, NEW c \in CPUs, HandlerRight(c), irq'[c] = irq[c],
         irq[c].at = "wake" => sem_lock' = sem_lock,
         irq[c].at \in {"count", "take"}
           => Len(c_runqueue[c]) <= Len(c_runqueue'[c])
  PROVE  HandlerRight(c)'
<1>1. /\ c_runqueue[c] \in Seq(Threads) /\ c_runqueue'[c] \in Seq(Threads)
      /\ Len(c_runqueue[c]) \in Nat /\ Len(c_runqueue'[c]) \in Nat
      /\ irq[c].my_count \in Nat /\ irq[c].to_send \in Nat
  BY LenProperties DEF ListTypes, IrqTypes, Handlers
<1> QED
  BY <1>1 DEF HandlerRight

(***************************************************************************)
(* A handler that counts, takes threads or offers them to another          *)
(* processor: nobody else's list changes, and every thread in the run      *)
(* queue or in its hands stays in one of them.                             *)
(***************************************************************************)
LEMMA HandlerKeeps ==
  ASSUME ThreadsInv, NEW c \in CPUs, AllTypes',
         irq[c].at \notin {"none", "wake"}, irq'[c].target = NULL,
         irq'[c].at \in IrqSteps, HandlerRight(c)',
         UNCHANGED <<c_curthread, c_isidle, c_zombies, c_ipi_pending, thrvars, semvars>>,
         \A d \in CPUs \ {c} : irq'[d] = irq[d] /\ c_runqueue'[d] = c_runqueue[d],
         \A u \in Threads : /\ Ready(c, u)' \/ Moving(c, u)' <=> Ready(c, u) \/ Moving(c, u)
                            /\ ~ (Ready(c, u)' /\ Moving(c, u)'),
         IsInjective(c_runqueue'[c]), IsInjective(irq'[c].victims)
  PROVE  ThreadsInv'
<1> USE DEF thrvars, semvars
<1>0. irq[c].target = NULL
  BY DEF ThreadsInv, IrqRight, HandlerRight
<1>1. \A d \in CPUs \ {c}, u \in Threads :
        (Ready(d, u)' <=> Ready(d, u)) /\ (Moving(d, u)' <=> Moving(d, u))
  BY DEF Ready, Moving
<1>2. \A d \in CPUs, u \in Threads : (Dead(d, u)' <=> Dead(d, u)) /\ (Asleep(u)' <=> Asleep(u))
  BY DEF Dead, Asleep
<1>3. \A u : Current(u)' <=> Current(u)
  BY DEF Current
<1>4. \A d \in CPUs : irq'[d].target = irq[d].target
  BY <1>0
<1>5. IrqRight'
  <2> SUFFICES ASSUME NEW d \in CPUs PROVE HandlerRight(d)'
    BY DEF IrqRight
  <2>1. CASE d # c
    <3>1. Len(c_runqueue[d]) <= Len(c_runqueue'[d])
      <4>1. c_runqueue[d] \in Seq(Threads)
        BY DEF ThreadsInv, AllTypes, ListTypes
      <4> QED
        BY <2>1, <4>1, LenProperties
    <3> QED
      BY <2>1, <3>1, HandlerStays DEF ThreadsInv, AllTypes, IrqRight
  <2> QED
    BY <2>1
<1>6. ListsDistinct'
  BY DEF ThreadsInv, ListsDistinct
<1>7. ListsRight'
  BY <1>1, <1>2, <1>4 DEF ThreadsInv, ListsRight
<1>8. CurrentRight'
  BY <1>1 DEF ThreadsInv, CurrentRight
<1>9. WaitingRight'
  <2>1. \A u \in Threads : Ready(t_cpu[u], u)' \/ Moving(t_cpu[u], u)'
                             <=> Ready(t_cpu[u], u) \/ Moving(t_cpu[u], u)
    BY <1>1 DEF ThreadsInv, AllTypes, ThreadTypes
  <2> QED
    BY <1>3, <2>1 DEF ThreadsInv, WaitingRight
<1>10. ChildRight'
  BY <1>1, <1>3 DEF ThreadsInv, ChildRight
<1>11. NoLostWakeup'
  <2>1. \A u \in Threads : u \in Woken => u \in Woken'
    BY <1>4 DEF Woken
  <2>2. sem_count' <= sem_count
    BY ThreadsAssumption DEF ThreadsInv, AllTypes, SemTypes
  <2> QED
    BY <2>1, <2>2, NobodyForgotten DEF ThreadsInv
<1> QED
  BY <1>5, <1>6, <1>7, <1>8, <1>9, <1>10, <1>11 DEF ThreadsInv

-----------------------------------------------------------------------------
(***************************************************************************)
(* Migration.                                                              *)
(***************************************************************************)

\* Rounding up a share of a number.
LEMMA ShareIsNat ==
  ASSUME NEW a \in Nat, NEW b \in Nat \ {0}
  PROVE  (a + b - 1) \div b \in Nat
<1>1. a + b - 1 \in Nat
  OBVIOUS
<1> QED
  BY <1>1

LEMMA SetHandler ==
  ASSUME IrqTypes, NEW c \in CPUs, NEW g \in Handlers, irq' = [irq EXCEPT ![c] = g]
  PROVE  /\ irq' \in [CPUs -> Handlers] /\ irq'[c] = g
         /\ \A d \in CPUs \ {c} : irq'[d] = irq[d]
BY DEF IrqTypes

LEMMA NoIrqIsHandler ==
  /\ NoIrq \in Handlers /\ NoIrq.at = "none" /\ NoIrq.target = NULL
  /\ NoIrq.to_send = 0 /\ NoIrq.victims = <<>>
<1>1. 0 \in 0 .. NCPU /\ <<>> \in Seq(Threads)
  BY ThreadsAssumption
<1> QED
  BY <1>1 DEF NoIrq, Handlers, IrqSteps

\* Only what the handler knows changes.
LEMMA OnlyHandler ==
  ASSUME ThreadsInv, NEW c \in CPUs, NEW g \in Handlers, irq' = [irq EXCEPT ![c] = g],
         UNCHANGED <<c_curthread, c_isidle, c_runqueue, c_zombies, c_ipi_pending,
                     thrvars, semvars>>,
         runqueue_lock' \in [CPUs -> CPUs \union {NULL}],
         irq[c].at \notin {"none", "wake"}, g.at # "wake", g.target = NULL,
         \A u : Contains(g.victims, u) <=> Contains(irq[c].victims, u),
         IsInjective(g.victims),
         g.at \notin {"give", "giving", "rest"} => g.victims = <<>>,
         g.at \in {"none", "wake", "count"} => g.to_send = 0,
         g.at = "count" => g.my_count <= Len(c_runqueue[c]),
         g.at = "take" => g.to_send <= Len(c_runqueue[c]),
         g.at \in {"give", "giving", "rest"} => g.to_send <= Len(g.victims),
         g.at = "giving" => g.i \in CPUs \ {c}
  PROVE  ThreadsInv'
<1>1. /\ irq' \in [CPUs -> Handlers] /\ irq'[c] = g
      /\ \A d \in CPUs \ {c} : irq'[d] = irq[d]
  BY SetHandler DEF ThreadsInv, AllTypes
<1>2. AllTypes'
  BY <1>1 DEF ThreadsInv, AllTypes, ThreadTypes, CpuTypes, ListTypes, SemTypes, IrqTypes,
              thrvars, semvars
<1>3. HandlerRight(c)'
  BY <1>1 DEF HandlerRight
<1>4. /\ \A u : (Ready(c, u)' <=> Ready(c, u)) /\ (Moving(c, u)' <=> Moving(c, u))
      /\ IsInjective(c_runqueue'[c]) /\ IsInjective(irq'[c].victims)
  BY <1>1 DEF ThreadsInv, ListsDistinct, Ready, Moving
<1>5. \A u \in Threads : ~ (Ready(c, u) /\ Moving(c, u))
  BY DEF ThreadsInv, ListsRight
<1>6. irq'[c].target = NULL /\ irq'[c].at \in IrqSteps
  BY <1>1 DEF Handlers
<1> QED
  BY <1>1, <1>2, <1>3, <1>4, <1>5, <1>6, HandlerKeeps

LEMMA CountKeeps ==
  ASSUME ThreadsInv, NEW c \in CPUs, Count(c)
  PROVE  ThreadsInv'
<1> DEFINE h == irq[c]
           n == Len(c_runqueue[h.i])
<1>1. /\ h \in Handlers /\ h.at = "count" /\ h.i < NCPU
      /\ irq' = [irq EXCEPT ![c].total_count = @ + n,
                            ![c].my_count = IF h.i = c THEN n ELSE @,
                            ![c].i = @ + 1]
      /\ UNCHANGED <<cpuvars, thrvars, semvars>>
  BY DEF Count, ThreadsInv, AllTypes, IrqTypes
<1>2. h.i \in CPUs /\ n \in Nat /\ NCPU \in Nat
  <2>1. h.i \in 0 .. NCPU /\ NCPU \in Nat
    BY <1>1, ThreadsAssumption DEF Handlers
  <2>2. h.i \in CPUs
    BY <1>1, <2>1 DEF CPUs
  <2> QED
    BY <2>1, <2>2, LenProperties DEF ThreadsInv, AllTypes, ListTypes
<1> DEFINE g1 == [h EXCEPT !.total_count = @ + n]
           g2 == [g1 EXCEPT !.my_count = IF h.i = c THEN n ELSE @]
           g3 == [g2 EXCEPT !.i = @ + 1]
<1>3. irq' = [irq EXCEPT ![c] = g3]
  BY <1>1 DEF ThreadsInv, AllTypes, IrqTypes, Handlers
<1>4. h.target = NULL /\ h.victims = <<>> /\ h.to_send = 0 /\ h.my_count <= Len(c_runqueue[c])
  BY <1>1 DEF ThreadsInv, IrqRight, HandlerRight
<1>5. \A u : Contains(h.victims, u) <=> Contains(irq[c].victims, u)
  OBVIOUS
<1>6. IsInjective(h.victims)
  BY DEF ThreadsInv, ListsDistinct
<1>7. Len(c_runqueue[c]) \in Nat
  BY LenProperties DEF ThreadsInv, AllTypes, ListTypes
<1>8. UNCHANGED <<c_curthread, c_isidle, c_runqueue, c_zombies, c_ipi_pending, thrvars, semvars>>
      /\ runqueue_lock' \in [CPUs -> CPUs \union {NULL}]
  BY <1>1 DEF cpuvars, ThreadsInv, AllTypes, CpuTypes
<1>a. n = IF h.i = c THEN Len(c_runqueue[c]) ELSE n
  OBVIOUS
<1>b. irq[c].at = "count" /\ irq[c].victims = h.victims
  BY <1>1
<1> HIDE DEF h, n
<1>9. /\ g1 \in Handlers /\ g1.at = h.at /\ g1.target = h.target /\ g1.i = h.i
      /\ g1.victims = h.victims /\ g1.to_send = h.to_send /\ g1.my_count = h.my_count
  <2>1. h.total_count + n \in Nat
    BY <1>1, <1>2 DEF Handlers
  <2>2. g1 = [h EXCEPT !.total_count = h.total_count + n]
    BY <1>1 DEF Handlers
  <2> QED
    BY <1>1, <2>1, <2>2 DEF Handlers
<1> HIDE DEF g1
<1>10. /\ g2 \in Handlers /\ g2.at = h.at /\ g2.target = h.target /\ g2.i = h.i
       /\ g2.victims = h.victims /\ g2.to_send = h.to_send
       /\ g2.my_count = IF h.i = c THEN n ELSE h.my_count
  BY <1>1, <1>2, <1>9 DEF Handlers
<1> HIDE DEF g2
<1>11. /\ g3 \in Handlers /\ g3.at = h.at /\ g3.target = h.target
       /\ g3.victims = h.victims /\ g3.to_send = h.to_send /\ g3.my_count = g2.my_count
  <2>1. g2.i + 1 \in 0 .. NCPU
    BY <1>1, <1>2, <1>10 DEF Handlers
  <2> QED
    BY <1>10, <2>1 DEF Handlers
<1>12. g3.my_count <= Len(c_runqueue[c])
  BY <1>4, <1>7, <1>10, <1>11, <1>a
<1> HIDE DEF g3
<1> QED
  BY <1>1, <1>3, <1>4, <1>6, <1>8, <1>11, <1>12, <1>b, OnlyHandler

LEMMA ShareKeeps ==
  ASSUME ThreadsInv, NEW c \in CPUs, Share(c)
  PROVE  ThreadsInv'
<1> DEFINE h == irq[c]
           share == (h.total_count + NCPU - 1) \div NCPU
           go == [NoIrq EXCEPT !.at = "take", !.one_share = share,
                               !.to_send = h.my_count - share]
           g == IF h.my_count < share THEN NoIrq ELSE go
<1>1. /\ h \in Handlers /\ h.at = "count"
      /\ irq' = [irq EXCEPT ![c] = g]
      /\ UNCHANGED <<cpuvars, thrvars, semvars>>
  BY DEF Share, ThreadsInv, AllTypes, IrqTypes
<1>2. share \in Nat /\ h.my_count \in Nat
  BY <1>1, ThreadsAssumption, ShareIsNat DEF Handlers
<1>3. /\ h.my_count <= Len(c_runqueue[c]) /\ Len(c_runqueue[c]) \in Nat
      /\ h.victims = <<>>
  BY <1>1, LenProperties DEF ThreadsInv, IrqRight, HandlerRight, AllTypes, ListTypes
<1>4. UNCHANGED <<c_curthread, c_isidle, c_runqueue, c_zombies, c_ipi_pending, thrvars, semvars>>
      /\ runqueue_lock' \in [CPUs -> CPUs \union {NULL}]
  BY <1>1 DEF cpuvars, ThreadsInv, AllTypes, CpuTypes
<1>5. irq[c].at = "count" /\ irq[c].victims = <<>>
  BY <1>1, <1>3
<1> HIDE DEF h, share
<1>6. ASSUME ~ (h.my_count < share)
      PROVE  /\ go \in Handlers /\ go.at = "take" /\ go.target = NULL
             /\ go.victims = <<>> /\ go.to_send = h.my_count - share
  <2> DEFINE g1 == [NoIrq EXCEPT !.at = "take", !.one_share = share]
  <2>1. go = [g1 EXCEPT !.to_send = h.my_count - share]
    BY NoIrqIsHandler DEF Handlers
  <2>2. /\ g1 \in Handlers /\ g1.at = "take" /\ g1.target = NULL /\ g1.victims = <<>>
    BY <1>2, NoIrqIsHandler DEF Handlers, IrqSteps
  <2>3. h.my_count - share \in Nat
    BY <1>2, <1>6
  <2> HIDE DEF g1
  <2> QED
    BY <2>1, <2>2, <2>3 DEF Handlers
<1>7. /\ g \in Handlers /\ g.at \in {"none", "take"} /\ g.target = NULL /\ g.victims = <<>>
      /\ g.at = "none" => g.to_send = 0
      /\ g.at = "take" => g.to_send <= Len(c_runqueue[c])
  <2>1. CASE h.my_count < share
    <3>1. g = NoIrq
      BY <2>1
    <3> HIDE DEF g
    <3> QED
      BY <3>1, NoIrqIsHandler
  <2>2. CASE ~ (h.my_count < share)
    <3>1. g = go
      BY <2>2
    <3>2. h.my_count - share <= Len(c_runqueue[c])
      BY <1>2, <1>3
    <3> HIDE DEF g, go
    <3> QED
      BY <1>6, <2>2, <3>1, <3>2
  <2> QED
    BY <2>1, <2>2
<1> HIDE DEF g
<1> QED
  BY <1>1, <1>4, <1>5, <1>7, EmptyList, OnlyHandler

LEMMA GiveKeeps ==
  ASSUME ThreadsInv, NEW c \in CPUs, Give(c)
  PROVE  ThreadsInv'
<1> DEFINE h == irq[c]
<1>1. /\ h \in Handlers /\ h.at = "give"
      /\ UNCHANGED <<c_curthread, c_isidle, c_runqueue, c_zombies, c_ipi_pending,
                     thrvars, semvars>>
  BY DEF Give, ThreadsInv, AllTypes, IrqTypes
<1>2. h.target = NULL /\ h.to_send <= Len(h.victims)
  BY <1>1 DEF ThreadsInv, IrqRight, HandlerRight
<1>3. IsInjective(h.victims)
  BY DEF ThreadsInv, ListsDistinct
<1>4. irq \in [CPUs -> Handlers] /\ runqueue_lock \in [CPUs -> CPUs \union {NULL}]
  BY DEF ThreadsInv, AllTypes, IrqTypes, CpuTypes
<1>5. irq[c].at = "give" /\ irq[c].victims = h.victims
  BY <1>1
<1>6. CASE irq' = [irq EXCEPT ![c].at = "rest"] /\ UNCHANGED runqueue_lock
  <2> DEFINE g == [h EXCEPT !.at = "rest"]
  <2>1. irq' = [irq EXCEPT ![c] = g]
    BY <1>4, <1>6
  <2> HIDE DEF h
  <2>2. /\ g \in Handlers /\ g.at = "rest" /\ g.target = h.target
        /\ g.victims = h.victims /\ g.to_send = h.to_send
    BY <1>1 DEF Handlers, IrqSteps
  <2> HIDE DEF g
  <2>9. /\ g.target = NULL /\ IsInjective(g.victims) /\ g.to_send <= Len(g.victims)
        /\ \A u : Contains(g.victims, u) <=> Contains(irq[c].victims, u)
    BY <1>2, <1>3, <1>5, <2>2
  <2> QED
    BY <1>1, <1>2, <1>3, <1>4, <1>5, <1>6, <2>1, <2>2, <2>9, OnlyHandler
<1>7. CASE irq' = [irq EXCEPT ![c].i = @ + 1] /\ h.i = c /\ UNCHANGED runqueue_lock
  <2> DEFINE g == [h EXCEPT !.i = h.i + 1]
  <2>1. irq' = [irq EXCEPT ![c] = g]
    BY <1>4, <1>7
  <2>2. h.i + 1 \in 0 .. NCPU
    BY <1>7, ThreadsAssumption DEF CPUs
  <2> HIDE DEF h
  <2>3. /\ g \in Handlers /\ g.at = "give" /\ g.target = h.target
        /\ g.victims = h.victims /\ g.to_send = h.to_send
    BY <1>1, <2>2 DEF Handlers
  <2> HIDE DEF g
  <2>9. /\ g.target = NULL /\ IsInjective(g.victims) /\ g.to_send <= Len(g.victims)
        /\ \A u : Contains(g.victims, u) <=> Contains(irq[c].victims, u)
    BY <1>2, <1>3, <1>5, <2>3
  <2> QED
    BY <1>1, <1>2, <1>3, <1>4, <1>5, <1>7, <2>1, <2>3, <2>9, OnlyHandler
<1>8. CASE /\ h.i \in CPUs \ {c} /\ irq' = [irq EXCEPT ![c].at = "giving"]
           /\ runqueue_lock' = [runqueue_lock EXCEPT ![h.i] = c]
  <2> DEFINE g == [h EXCEPT !.at = "giving"]
  <2>1. irq' = [irq EXCEPT ![c] = g]
    BY <1>4, <1>8
  <2>2. runqueue_lock' \in [CPUs -> CPUs \union {NULL}]
    BY <1>4, <1>8
  <2> HIDE DEF h
  <2>3. /\ g \in Handlers /\ g.at = "giving" /\ g.target = h.target /\ g.i = h.i
        /\ g.victims = h.victims /\ g.to_send = h.to_send
    BY <1>1 DEF Handlers, IrqSteps
  <2> HIDE DEF g
  <2>9. /\ g.target = NULL /\ IsInjective(g.victims) /\ g.to_send <= Len(g.victims)
        /\ \A u : Contains(g.victims, u) <=> Contains(irq[c].victims, u)
    BY <1>2, <1>3, <1>5, <2>3
  <2> QED
    BY <1>1, <1>2, <1>3, <1>5, <1>8, <2>1, <2>2, <2>3, <2>9, OnlyHandler
<1> QED
  BY <1>6, <1>7, <1>8 DEF Give

LEMMA NextProcessorKeeps ==
  ASSUME ThreadsInv, NEW c \in CPUs, NextProcessor(c)
  PROVE  ThreadsInv'
<1> DEFINE h == irq[c]
           g1 == [h EXCEPT !.at = "give"]
           g == [g1 EXCEPT !.i = g1.i + 1]
<1>1. irq \in [CPUs -> Handlers] /\ runqueue_lock \in [CPUs -> CPUs \union {NULL}]
  BY DEF ThreadsInv, AllTypes, IrqTypes, CpuTypes
<1>2. /\ h \in Handlers /\ h.at = "giving"
      /\ irq' = [irq EXCEPT ![c].at = "give", ![c].i = @ + 1]
      /\ runqueue_lock' = [runqueue_lock EXCEPT ![h.i] = NULL]
      /\ UNCHANGED <<c_curthread, c_isidle, c_runqueue, c_zombies, c_ipi_pending,
                     thrvars, semvars>>
  BY <1>1 DEF NextProcessor
<1>3. h.target = NULL /\ h.to_send <= Len(h.victims) /\ h.i \in CPUs
  BY <1>2 DEF ThreadsInv, IrqRight, HandlerRight
<1>4. IsInjective(h.victims)
  BY DEF ThreadsInv, ListsDistinct
<1>5. irq[c].at = "giving" /\ irq[c].victims = h.victims
  BY <1>2
<1>6. irq' = [irq EXCEPT ![c] = g]
  BY <1>1, <1>2 DEF Handlers
<1>7. runqueue_lock' \in [CPUs -> CPUs \union {NULL}]
  BY <1>1, <1>2
<1>8. h.i + 1 \in 0 .. NCPU
  BY <1>3, ThreadsAssumption DEF CPUs
<1> HIDE DEF h
<1>9. /\ g1 \in Handlers /\ g1.at = "give" /\ g1.target = h.target
      /\ g1.victims = h.victims /\ g1.to_send = h.to_send /\ g1.i = h.i
  BY <1>2 DEF Handlers, IrqSteps
<1> HIDE DEF g1
<1>10. /\ g \in Handlers /\ g.at = "give" /\ g.target = h.target
       /\ g.victims = h.victims /\ g.to_send = h.to_send
  BY <1>8, <1>9 DEF Handlers
<1> HIDE DEF g
<1>11. /\ g.target = NULL /\ IsInjective(g.victims) /\ g.to_send <= Len(g.victims)
       /\ \A u : Contains(g.victims, u) <=> Contains(irq[c].victims, u)
  BY <1>3, <1>4, <1>5, <1>10
<1> QED
  BY <1>2, <1>5, <1>6, <1>7, <1>10, <1>11, OnlyHandler

\* The first victim is put behind the others.
LEMMA SkipKeeps ==
  ASSUME ThreadsInv, NEW c \in CPUs, Skip(c)
  PROVE  ThreadsInv'
<1> DEFINE h == irq[c]
           v == h.victims
           w == Append(Tail(v), Head(v))
           g1 == [h EXCEPT !.victims = w]
           g == [g1 EXCEPT !.to_send = g1.to_send - 1]
<1>1. irq \in [CPUs -> Handlers] /\ runqueue_lock \in [CPUs -> CPUs \union {NULL}]
  BY DEF ThreadsInv, AllTypes, IrqTypes, CpuTypes
<1>2. /\ h \in Handlers /\ h.at = "giving" /\ h.to_send > 0
      /\ irq' = [irq EXCEPT ![c].victims = Append(Tail(@), Head(@)), ![c].to_send = @ - 1]
      /\ UNCHANGED <<runqueue_lock, c_curthread, c_isidle, c_runqueue, c_zombies,
                     c_ipi_pending, thrvars, semvars>>
  BY <1>1 DEF Skip, Room, cpuvars
<1>3. h.target = NULL /\ h.to_send <= Len(v) /\ h.i \in CPUs \ {c}
  BY <1>2 DEF ThreadsInv, IrqRight, HandlerRight
<1>4. v \in Seq(Threads) /\ h.to_send \in Nat /\ IsInjective(v) /\ v # <<>>
  <2>1. v \in Seq(Threads) /\ h.to_send \in Nat
    BY <1>2 DEF Handlers
  <2>2. v # <<>>
    BY <1>2, <1>3, <2>1, EmptyList
  <2> QED
    BY <2>1, <2>2 DEF ThreadsInv, ListsDistinct
<1>5. irq[c].at = "giving" /\ irq[c].victims = v
  BY <1>2
<1>6. irq' = [irq EXCEPT ![c] = g]
  BY <1>1, <1>2 DEF Handlers
<1>7. runqueue_lock' \in [CPUs -> CPUs \union {NULL}]
  BY <1>1, <1>2
<1>8. /\ w \in Seq(Threads) /\ Len(w) = Len(v) /\ IsInjective(w)
      /\ \A u : Contains(w, u) <=> Contains(v, u)
  <2> HIDE DEF v, h
  <2>1. /\ Head(v) \in Threads /\ Contains(v, Head(v)) /\ Tail(v) \in Seq(Threads)
        /\ Len(Tail(v)) = Len(v) - 1 /\ IsInjective(Tail(v))
        /\ \A u : Contains(Tail(v), u) <=> Contains(v, u) /\ u # Head(v)
    BY <1>4, RemoveHead
  <2>2. ~ Contains(Tail(v), Head(v))
    BY <2>1
  <2>3. /\ w \in Seq(Threads) /\ Len(w) = Len(Tail(v)) + 1 /\ IsInjective(w)
        /\ \A u : Contains(w, u) <=> Contains(Tail(v), u) \/ u = Head(v)
    BY <2>1, <2>2, AddTail
  <2>4. Len(v) \in Nat
    BY <1>4, LenProperties
  <2> QED
    BY <2>1, <2>3, <2>4
<1>9. h.to_send - 1 \in Nat /\ h.to_send - 1 <= Len(w)
  <2>1. Len(v) \in Nat
    BY <1>4, LenProperties
  <2> QED
    BY <1>2, <1>3, <1>4, <1>8, <2>1
<1> HIDE DEF h, v, w
<1>10. /\ g1 \in Handlers /\ g1.at = "giving" /\ g1.target = h.target
       /\ g1.victims = w /\ g1.to_send = h.to_send /\ g1.i = h.i
  BY <1>2, <1>8 DEF Handlers
<1> HIDE DEF g1
<1>11. /\ g \in Handlers /\ g.at = "giving" /\ g.target = h.target
       /\ g.victims = w /\ g.to_send = h.to_send - 1 /\ g.i = h.i
  BY <1>9, <1>10 DEF Handlers
<1> HIDE DEF g
<1>12. /\ g.target = NULL /\ IsInjective(g.victims) /\ g.to_send <= Len(g.victims)
       /\ \A u : Contains(g.victims, u) <=> Contains(irq[c].victims, u)
       /\ g.i \in CPUs \ {c}
  BY <1>3, <1>5, <1>8, <1>9, <1>11
<1> QED
  BY <1>2, <1>5, <1>6, <1>7, <1>11, <1>12, OnlyHandler

\* Threads go from the run queue into the hands of the handler, or back.
LEMMA HandlerAndQueue ==
  ASSUME ThreadsInv, NEW c \in CPUs, NEW g \in Handlers, irq' = [irq EXCEPT ![c] = g],
         NEW q \in Seq(Threads), c_runqueue' = [c_runqueue EXCEPT ![c] = q],
         UNCHANGED <<c_curthread, c_isidle, c_zombies, c_ipi_pending, runqueue_lock,
                     thrvars, semvars>>,
         irq[c].at \notin {"none", "wake"}, g.at \in {"none", "give"}, g.target = NULL,
         \A u \in Threads :
           /\ Contains(q, u) \/ Contains(g.victims, u)
                <=> Contains(c_runqueue[c], u) \/ Contains(irq[c].victims, u)
           /\ ~ (Contains(q, u) /\ Contains(g.victims, u)),
         IsInjective(q), IsInjective(g.victims),
         g.at = "none" => g.victims = <<>> /\ g.to_send = 0,
         g.at = "give" => g.to_send <= Len(g.victims)
  PROVE  ThreadsInv'
<1>1. /\ irq' \in [CPUs -> Handlers] /\ irq'[c] = g
      /\ \A d \in CPUs \ {c} : irq'[d] = irq[d]
  BY SetHandler DEF ThreadsInv, AllTypes
<1>2. /\ c_runqueue' \in [CPUs -> Seq(Threads)] /\ c_runqueue'[c] = q
      /\ \A d \in CPUs \ {c} : c_runqueue'[d] = c_runqueue[d]
  BY DEF ThreadsInv, AllTypes, ListTypes
<1>3. AllTypes'
  BY <1>1, <1>2 DEF ThreadsInv, AllTypes, ThreadTypes, CpuTypes, ListTypes, SemTypes, IrqTypes,
                    thrvars, semvars
<1>4. HandlerRight(c)'
  BY <1>1 DEF HandlerRight
<1>5. /\ \A u \in Threads : /\ Ready(c, u)' \/ Moving(c, u)' <=> Ready(c, u) \/ Moving(c, u)
                            /\ ~ (Ready(c, u)' /\ Moving(c, u)')
      /\ IsInjective(c_runqueue'[c]) /\ IsInjective(irq'[c].victims)
  BY <1>1, <1>2 DEF Ready, Moving
<1>6. irq'[c].target = NULL /\ irq'[c].at \in IrqSteps
  BY <1>1 DEF Handlers
<1> QED
  BY <1>1, <1>2, <1>3, <1>4, <1>5, <1>6, HandlerKeeps

LEMMA TakeKeeps ==
  ASSUME ThreadsInv, NEW c \in CPUs, Take(c)
  PROVE  ThreadsInv'
<1> DEFINE h == irq[c]
           s == c_runqueue[c]
           n == Len(s) - h.to_send
           f == SubSeq(s, 1, n)
           v == SubSeq(s, n + 1, Len(s))
           g1 == [h EXCEPT !.at = "give"]
           g == [g1 EXCEPT !.victims = v]
<1>1. /\ irq \in [CPUs -> Handlers] /\ c_runqueue \in [CPUs -> Seq(Threads)]
  BY DEF ThreadsInv, AllTypes, IrqTypes, ListTypes
<1>2. /\ h \in Handlers /\ h.at = "take"
      /\ irq' = [irq EXCEPT ![c].at = "give", ![c].victims = v]
      /\ c_runqueue' = [c_runqueue EXCEPT ![c] = SubSeq(@, 1, n)]
      /\ UNCHANGED <<c_curthread, c_isidle, c_zombies, c_ipi_pending, runqueue_lock,
                     thrvars, semvars>>
  BY <1>1 DEF Take
<1>3. h.target = NULL /\ h.to_send <= Len(s) /\ h.victims = <<>>
  BY <1>2 DEF ThreadsInv, IrqRight, HandlerRight
<1>4. s \in Seq(Threads) /\ Len(s) \in Nat /\ IsInjective(s) /\ h.to_send \in Nat
  BY <1>1, <1>2, LenProperties DEF ThreadsInv, ListsDistinct, Handlers
<1>5. n \in 0 .. Len(s) /\ Len(s) - n = h.to_send
  BY <1>3, <1>4
<1>6. irq' = [irq EXCEPT ![c] = g]
  BY <1>1, <1>2 DEF Handlers
<1>7. c_runqueue' = [c_runqueue EXCEPT ![c] = f]
  BY <1>1, <1>2
<1>8. irq[c].at = "take" /\ irq[c].victims = <<>> /\ c_runqueue[c] = s
  BY <1>2, <1>3
<1>9. /\ f \in Seq(Threads) /\ v \in Seq(Threads) /\ Len(v) = h.to_send
      /\ IsInjective(f) /\ IsInjective(v)
      /\ \A u : /\ Contains(s, u) <=> Contains(f, u) \/ Contains(v, u)
                /\ ~ (Contains(f, u) /\ Contains(v, u))
  <2> HIDE DEF s, n
  <2> QED
    BY <1>4, <1>5, CutTail
<1> HIDE DEF h, s, n, f, v
<1>10. /\ g1 \in Handlers /\ g1.at = "give" /\ g1.target = h.target /\ g1.to_send = h.to_send
  BY <1>2 DEF Handlers, IrqSteps
<1> HIDE DEF g1
<1>11. /\ g \in Handlers /\ g.at = "give" /\ g.target = h.target
       /\ g.victims = v /\ g.to_send = h.to_send
  BY <1>9, <1>10 DEF Handlers
<1> HIDE DEF g
<1>12. /\ g.target = NULL /\ IsInjective(g.victims) /\ g.to_send <= Len(g.victims)
       /\ \A u : /\ Contains(f, u) \/ Contains(g.victims, u)
                     <=> Contains(c_runqueue[c], u) \/ Contains(irq[c].victims, u)
                 /\ ~ (Contains(f, u) /\ Contains(g.victims, u))
  BY <1>3, <1>4, <1>8, <1>9, <1>11, EmptyList
<1> QED
  BY <1>2, <1>6, <1>7, <1>8, <1>9, <1>11, <1>12, HandlerAndQueue

LEMMA RestKeeps ==
  ASSUME ThreadsInv, NEW c \in CPUs, Rest(c)
  PROVE  ThreadsInv'
<1> DEFINE s == c_runqueue[c]
           v == irq[c].victims
           w == s \o v
<1>1. /\ irq \in [CPUs -> Handlers] /\ c_runqueue \in [CPUs -> Seq(Threads)]
  BY DEF ThreadsInv, AllTypes, IrqTypes, ListTypes
<1>2. /\ irq[c].at = "rest"
      /\ irq' = [irq EXCEPT ![c] = NoIrq]
      /\ c_runqueue' = [c_runqueue EXCEPT ![c] = w]
      /\ UNCHANGED <<c_curthread, c_isidle, c_zombies, c_ipi_pending, runqueue_lock,
                     thrvars, semvars>>
  BY <1>1 DEF Rest
<1>3. s \in Seq(Threads) /\ v \in Seq(Threads) /\ IsInjective(s) /\ IsInjective(v)
  BY <1>1 DEF ThreadsInv, ListsDistinct, Handlers
<1>4. \A u : ~ (Contains(s, u) /\ Contains(v, u))
  <2> SUFFICES ASSUME NEW u, Contains(s, u), Contains(v, u) PROVE FALSE
    OBVIOUS
  <2>1. u \in Threads
    BY <1>3, ElementOfSeq DEF Contains
  <2>2. Ready(c, u) /\ Moving(c, u)
    BY DEF Ready, Moving
  <2> QED
    BY <2>1, <2>2 DEF ThreadsInv, ListsRight
<1>5. /\ w \in Seq(Threads) /\ IsInjective(w)
      /\ \A u : Contains(w, u) <=> Contains(s, u) \/ Contains(v, u)
  BY <1>3, <1>4, PutBack
<1>6. \A u : /\ Contains(w, u) \/ Contains(NoIrq.victims, u)
                  <=> Contains(c_runqueue[c], u) \/ Contains(irq[c].victims, u)
             /\ ~ (Contains(w, u) /\ Contains(NoIrq.victims, u))
  BY <1>5, NoIrqIsHandler, EmptyList
<1>7. IsInjective(NoIrq.victims)
  BY NoIrqIsHandler, EmptyList
<1> HIDE DEF w
<1> QED
  BY <1>2, <1>5, <1>6, <1>7, NoIrqIsHandler, HandlerAndQueue

-----------------------------------------------------------------------------
(***************************************************************************)
(* Steps of the current thread that put no thread into another list.       *)
(***************************************************************************)

\* The current thread goes on, from its own code to its own code or from the
\* end of thread_switch to the end of thread_switch.
LEMMA ThreadMoves ==
  ASSUME ThreadsInv, NEW c \in CPUs, NEW t \in Threads, c_curthread[c] = t,
         AllTypes',
         UNCHANGED <<c_curthread, c_isidle, c_runqueue, t_state, t_cpu, child>>,
         \A u \in Threads \ {t} : pc'[u] = pc[u] /\ ret'[u] = ret[u],
         pc'[t] \in Left <=> pc[t] \in Left,
         pc'[t] = "fork" \/ ret'[t] = "fork" <=> pc[t] = "fork" \/ ret[t] = "fork",
         pc'[t] \in {"run", "P", "fork", "sleep"} => ret'[t] = "run",
         pc[t] \in Left => ret'[t] = ret[t],
         irq'[c].at # "none" => pc'[t] \in {"run", "P", "fork", "yield", "unidle"},
         pc'[t] = "sleep" => sem_lock' = c /\ sem_count' = 0,
         pc'[t] = "idle" /\ c_runqueue[c] # <<>> => c_ipi_pending'[c],
         \A d \in CPUs \ {c} : irq'[d] = irq[d] /\ c_ipi_pending'[d] = c_ipi_pending[d],
         sem_lock' # sem_lock \/ sem_count' # sem_count => sem_lock = NULL,
         \A d \in CPUs, u \in Threads : Moving(d, u)' <=> Moving(d, u)
  PROVE  CurrentRight' /\ WaitingRight' /\ ChildRight'
<1>1. \A d \in CPUs, u \in Threads : Ready(d, u)' <=> Ready(d, u)
  BY DEF Ready
<1>2. \A u : Current(u)' <=> Current(u)
  BY DEF Current
<1>3. Current(t)
  BY DEF Current
<1>4. \A d \in CPUs : c_curthread[d] = t => d = c
  BY DEF ThreadsInv, CurrentRight
<1>5. pc[t] \notin Left => t_state[t] \in {"READY", "RUN"}
  BY DEF ThreadsInv, CurrentRight
<1>6. \A d \in CPUs : sem_lock = d => sem_lock' = sem_lock /\ sem_count' = sem_count
  BY ThreadsAssumption DEF CPUs
<1>7. CurrentRight'
  <2> SUFFICES ASSUME NEW d \in CPUs, NEW u \in Threads, c_curthread'[d] = u
               PROVE  /\ \A e \in CPUs : c_curthread'[e] = u => e = d
                      /\ t_cpu'[u] = d
                      /\ t_state'[u] # "NONE"
                      /\ pc'[u] \notin Left => /\ t_state'[u] \in {"READY", "RUN"}
                                               /\ ~ Ready(d, u)' /\ ~ Moving(d, u)'
                      /\ pc'[u] \in Left => c_isidle'[d] /\ t_state'[u] # "RUN"
                      /\ irq'[d].at # "none"
                           => pc'[u] \in {"run", "P", "fork", "yield", "unidle"}
                      /\ pc'[u] = "sleep" => sem_lock' = d /\ sem_count' = 0
                      /\ pc'[u] = "idle" /\ c_runqueue'[d] # <<>> => c_ipi_pending'[d]
    BY DEF CurrentRight
  <2>1. CASE u = t
    <3>1. d = c
      BY <1>4, <2>1
    <3> QED
      BY <1>1, <2>1, <3>1 DEF ThreadsInv, CurrentRight
  <2>2. CASE u # t
    <3>1. d # c
      BY <2>2
    <3> QED
      BY <1>1, <1>6, <2>2, <3>1 DEF ThreadsInv, CurrentRight
  <2> QED
    BY <2>1, <2>2
<1>8. WaitingRight'
  <2> SUFFICES ASSUME NEW u \in Threads
               PROVE  /\ ~ Current(u)' => /\ t_state'[u] # "RUN"
                                          /\ t_state'[u] # "NONE" => pc'[u] = "back"
                      /\ pc'[u] \in {"run", "P", "fork", "sleep"} => ret'[u] = "run"
                      /\ t_state'[u] = "SLEEP" => ret'[u] = "P"
                      /\ t_state'[u] \in {"NONE", "ZOMBIE"} => ret'[u] = "run"
                      /\ t_state'[u] = "READY" =>
                           \/ Ready(t_cpu[u], u)' \/ Moving(t_cpu[u], u)'
                           \/ \E s \in Threads : child'[s] = u
                           \/ Current(u)' /\ pc'[u] \notin Left
    BY DEF WaitingRight
  <2>1. t_cpu[u] \in CPUs
    BY DEF ThreadsInv, AllTypes, ThreadTypes
  <2>2. /\ Ready(t_cpu[u], u)' <=> Ready(t_cpu[u], u)
        /\ Moving(t_cpu[u], u)' <=> Moving(t_cpu[u], u)
    BY <1>1, <2>1
  <2> QED
    BY <1>2, <1>3, <1>5, <2>2 DEF ThreadsInv, WaitingRight
<1>9. ChildRight'
  BY <1>1, <1>2, <1>3 DEF ThreadsInv, ChildRight
<1> QED
  BY <1>7, <1>8, <1>9

\* The same, with no list and no handler of a semaphore involved.
LEMMA QuietMove ==
  ASSUME ThreadsInv, NEW c \in CPUs, NEW t \in Threads, c_curthread[c] = t,
         AllTypes', NoLostWakeup',
         UNCHANGED <<c_curthread, c_isidle, c_runqueue, c_zombies, t_state, t_cpu, child,
                     sem_wchan>>,
         \A u \in Threads \ {t} : pc'[u] = pc[u] /\ ret'[u] = ret[u],
         pc'[t] \in Left <=> pc[t] \in Left,
         pc'[t] = "fork" \/ ret'[t] = "fork" <=> pc[t] = "fork" \/ ret[t] = "fork",
         pc'[t] \in {"run", "P", "fork", "sleep"} => ret'[t] = "run",
         pc[t] \in Left => ret'[t] = ret[t],
         irq'[c].at # "none" => pc'[t] \in {"run", "P", "fork", "yield", "unidle"},
         pc'[t] = "sleep" => sem_lock' = c /\ sem_count' = 0,
         pc'[t] = "idle" /\ c_runqueue[c] # <<>> => c_ipi_pending'[c],
         \A d \in CPUs \ {c} : irq'[d] = irq[d] /\ c_ipi_pending'[d] = c_ipi_pending[d],
         sem_lock' # sem_lock \/ sem_count' # sem_count => sem_lock = NULL,
         irq[c].at = "none", irq'[c].at \in {"none", "count"}, irq'[c].target = NULL,
         irq'[c].victims = <<>>, irq'[c].to_send = 0,
         irq'[c].at = "count" => irq'[c].my_count = 0
  PROVE  ThreadsInv'
<1>1. irq[c].target = NULL /\ irq[c].victims = <<>>
  BY DEF ThreadsInv, IrqRight, HandlerRight
<1>2. \A d \in CPUs : irq'[d].target = irq[d].target /\ irq'[d].victims = irq[d].victims
  BY <1>1
<1>3. \A d \in CPUs, u \in Threads : Moving(d, u)' <=> Moving(d, u)
  BY <1>2 DEF Moving
<1>4. \A d \in CPUs, u \in Threads :
        (Ready(d, u)' <=> Ready(d, u)) /\ (Dead(d, u)' <=> Dead(d, u)) /\ (Asleep(u)' <=> Asleep(u))
  BY DEF Ready, Dead, Asleep
<1>5. ListsRight'
  BY <1>2, <1>3, <1>4 DEF ThreadsInv, ListsRight
<1>6. ListsDistinct'
  BY <1>2 DEF ThreadsInv, ListsDistinct
<1>7. IrqRight'
  <2> SUFFICES ASSUME NEW d \in CPUs PROVE HandlerRight(d)'
    BY DEF IrqRight
  <2>0. Len(c_runqueue[d]) \in Nat
    BY LenProperties DEF ThreadsInv, AllTypes, ListTypes
  <2>1. CASE d = c
    BY <2>0, <2>1 DEF HandlerRight
  <2>2. CASE d # c
    <3>1. HandlerRight(d) /\ irq'[d] = irq[d]
      BY <2>2 DEF ThreadsInv, IrqRight
    <3>2. irq[d].at = "wake" => sem_lock' = sem_lock
      BY <3>1, ThreadsAssumption DEF HandlerRight, CPUs
    <3> QED
      BY <2>0, <3>1, <3>2 DEF HandlerRight
  <2> QED
    BY <2>1, <2>2
<1>8. CurrentRight' /\ WaitingRight' /\ ChildRight'
  BY <1>3, ThreadMoves
<1> QED
  BY <1>5, <1>6, <1>7, <1>8 DEF ThreadsInv

\* Who was on the way to the count still is.
LEMMA StillWoken ==
  ASSUME ThreadsInv, AllTypes', NEW t \in Threads,
         UNCHANGED <<t_state, sem_count, sem_wchan>>,
         \A d \in CPUs : irq'[d].target = irq[d].target,
         \A u \in Threads \ {t} : pc'[u] = pc[u] /\ ret'[u] = ret[u],
         pc[t] = "P" \/ (ret[t] = "P" /\ pc[t] \notin {"run", "fork"})
           => pc'[t] = "P" \/ (ret'[t] = "P" /\ pc'[t] \notin {"run", "fork"})
  PROVE  NoLostWakeup'
<1>1. \A u \in Threads : u \in Woken => u \in Woken'
  <2> SUFFICES ASSUME NEW u \in Threads, u \in Woken PROVE u \in Woken'
    OBVIOUS
  <2>1. CASE u = t
    BY <2>1 DEF Woken
  <2>2. CASE u # t
    BY <2>2 DEF Woken
  <2> QED
    BY <2>1, <2>2
<1>2. sem_count' <= sem_count
  BY ThreadsAssumption DEF ThreadsInv, AllTypes, SemTypes
<1> QED
  BY <1>1, <1>2, NobodyForgotten DEF ThreadsInv

LEMMA SwitchNothingKeeps ==
  ASSUME ThreadsInv, NEW c \in CPUs, NEW t \in Threads, SwitchNothing(c, t)
  PROVE  ThreadsInv'
<1>1. /\ irq[c].at = "none" /\ c_curthread[c] = t /\ pc[t] = "yield"
      /\ pc' = [pc EXCEPT ![t] = ret[t]] /\ ret' = [ret EXCEPT ![t] = "run"]
      /\ UNCHANGED <<cpuvars, t_state, t_cpu, child, semvars, irq>>
  BY DEF SwitchNothing, At, Goto
<1>2. ret[t] \in {"run", "P", "fork"} /\ ThreadTypes
  BY DEF ThreadsInv, AllTypes, ThreadTypes
<1>3. AllTypes'
  BY <1>1, <1>2 DEF ThreadsInv, AllTypes, ThreadTypes, CpuTypes, ListTypes, SemTypes, IrqTypes,
                    cpuvars, semvars, PCs
<1>4. /\ pc'[t] = ret[t] /\ ret'[t] = "run"
      /\ \A u \in Threads \ {t} : pc'[u] = pc[u] /\ ret'[u] = ret[u]
  BY <1>1, <1>2 DEF ThreadTypes
<1>5. NoLostWakeup'
  BY <1>1, <1>2, <1>3, <1>4, StillWoken DEF semvars
<1>6. /\ irq[c].target = NULL /\ irq[c].victims = <<>> /\ irq[c].to_send = 0
  BY <1>1 DEF ThreadsInv, IrqRight, HandlerRight
<1> QED
  BY <1>1, <1>2, <1>3, <1>4, <1>5, <1>6, QuietMove DEF cpuvars, semvars, Left

LEMMA IdleKeeps ==
  ASSUME ThreadsInv, NEW c \in CPUs, NEW t \in Threads, Idle(c, t)
  PROVE  ThreadsInv'
<1>1. /\ irq[c].at = "none" /\ c_curthread[c] = t /\ pc[t] = "pick" /\ c_runqueue[c] = <<>>
      /\ pc' = [pc EXCEPT ![t] = "idle"]
      /\ runqueue_lock' = [runqueue_lock EXCEPT ![c] = NULL]
      /\ UNCHANGED <<c_curthread, c_isidle, c_runqueue, c_zombies, c_ipi_pending,
                     t_state, t_cpu, ret, child, semvars, irq>>
  BY DEF Idle, At, Goto
<1>2. ThreadTypes
  BY DEF ThreadsInv, AllTypes
<1>3. AllTypes'
  BY <1>1 DEF ThreadsInv, AllTypes, ThreadTypes, CpuTypes, ListTypes, SemTypes, IrqTypes,
              semvars, PCs
<1>4. /\ pc'[t] = "idle" /\ ret'[t] = ret[t]
      /\ \A u \in Threads \ {t} : pc'[u] = pc[u] /\ ret'[u] = ret[u]
  BY <1>1, <1>2 DEF ThreadTypes
<1>5. NoLostWakeup'
  BY <1>1, <1>3, <1>4, StillWoken DEF semvars
<1>6. /\ irq[c].target = NULL /\ irq[c].victims = <<>> /\ irq[c].to_send = 0
  BY <1>1 DEF ThreadsInv, IrqRight, HandlerRight
<1> QED
  BY <1>1, <1>3, <1>4, <1>5, <1>6, QuietMove DEF semvars, Left

LEMMA UnidleKeeps ==
  ASSUME ThreadsInv, NEW c \in CPUs, NEW t \in Threads, Unidle(c, t)
  PROVE  ThreadsInv'
<1>1. /\ irq[c].at = "none" /\ c_curthread[c] = t /\ pc[t] = "unidle"
      /\ pc' = [pc EXCEPT ![t] = "pick"]
      /\ runqueue_lock' = [runqueue_lock EXCEPT ![c] = c]
      /\ UNCHANGED <<c_curthread, c_isidle, c_runqueue, c_zombies, c_ipi_pending,
                     t_state, t_cpu, ret, child, semvars, irq>>
  BY DEF Unidle, At, Goto
<1>2. ThreadTypes
  BY DEF ThreadsInv, AllTypes
<1>3. AllTypes'
  BY <1>1 DEF ThreadsInv, AllTypes, ThreadTypes, CpuTypes, ListTypes, SemTypes, IrqTypes,
              semvars, PCs
<1>4. /\ pc'[t] = "pick" /\ ret'[t] = ret[t]
      /\ \A u \in Threads \ {t} : pc'[u] = pc[u] /\ ret'[u] = ret[u]
  BY <1>1, <1>2 DEF ThreadTypes
<1>5. NoLostWakeup'
  BY <1>1, <1>3, <1>4, StillWoken DEF semvars
<1>6. /\ irq[c].target = NULL /\ irq[c].victims = <<>> /\ irq[c].to_send = 0
  BY <1>1 DEF ThreadsInv, IrqRight, HandlerRight
<1> QED
  BY <1>1, <1>3, <1>4, <1>5, <1>6, QuietMove DEF semvars, Left

LEMMA IpiKeeps ==
  ASSUME ThreadsInv, NEW c \in CPUs, interprocessor_interrupt(c)
  PROVE  ThreadsInv'
<1> DEFINE t == c_curthread[c]
<1>1. /\ irq[c].at = "none" /\ pc[t] \in {"run", "P", "fork", "idle"}
      /\ c_ipi_pending' = [c_ipi_pending EXCEPT ![c] = FALSE]
      /\ irq' = [irq EXCEPT ![c] = NoIrq]
      /\ pc' = IF pc[t] = "idle" THEN [pc EXCEPT ![t] = "unidle"] ELSE pc
      /\ UNCHANGED <<c_curthread, c_isidle, c_runqueue, c_zombies, runqueue_lock,
                     t_state, t_cpu, ret, child, semvars>>
  BY DEF interprocessor_interrupt, Interruptible, Interrupt
<1>2. CpuTypes /\ ThreadTypes /\ t \in Threads /\ c_curthread[c] = t
  BY DEF ThreadsInv, AllTypes, CpuTypes
<1> HIDE DEF t
<1>3. /\ irq' \in [CPUs -> Handlers] /\ irq'[c] = NoIrq
      /\ \A d \in CPUs \ {c} : irq'[d] = irq[d]
  BY <1>1, SetHandler, NoIrqIsHandler DEF ThreadsInv, AllTypes
<1>4. /\ c_ipi_pending' \in [CPUs -> BOOLEAN]
      /\ \A d \in CPUs \ {c} : c_ipi_pending'[d] = c_ipi_pending[d]
  BY <1>1, <1>2 DEF CpuTypes
<1>5. /\ pc' \in [Threads -> PCs]
      /\ pc'[t] = IF pc[t] = "idle" THEN "unidle" ELSE pc[t]
      /\ \A u \in Threads \ {t} : pc'[u] = pc[u] /\ ret'[u] = ret[u]
      /\ ret'[t] = ret[t]
  BY <1>1, <1>2 DEF ThreadTypes, PCs
<1>6. AllTypes'
  BY <1>1, <1>3, <1>4, <1>5 DEF ThreadsInv, AllTypes, ThreadTypes, CpuTypes, ListTypes, SemTypes,
                                IrqTypes, semvars
<1>7. irq[c].target = NULL
  BY <1>1 DEF ThreadsInv, IrqRight, HandlerRight
<1>8. NoLostWakeup'
  <2>1. \A d \in CPUs : irq'[d].target = irq[d].target
    BY <1>3, <1>7, NoIrqIsHandler
  <2> QED
    BY <1>1, <1>2, <1>5, <1>6, <2>1, StillWoken DEF semvars
<1>9. pc[t] \in {"run", "P", "fork", "sleep"} => ret[t] = "run"
  BY <1>2 DEF ThreadsInv, WaitingRight
<1> QED
  BY <1>1, <1>2, <1>3, <1>4, <1>5, <1>6, <1>8, <1>9, NoIrqIsHandler, QuietMove
  DEF semvars, Left

LEMMA hardclockKeeps ==
  ASSUME ThreadsInv, NEW c \in CPUs, hardclock(c)
  PROVE  ThreadsInv'
<1> DEFINE t == c_curthread[c]
<1>1. PICK at \in {"none", "count"} : irq' = [irq EXCEPT ![c] = [NoIrq EXCEPT !.at = at]]
  BY DEF hardclock
<1> DEFINE g == [NoIrq EXCEPT !.at = at]
<1>2. /\ irq[c].at = "none" /\ pc[t] \in {"run", "P", "fork", "idle"}
      /\ pc' = [pc EXCEPT ![t] = IF pc[t] = "idle" THEN "unidle" ELSE "yield"]
      /\ ret' = IF pc[t] = "idle" THEN ret ELSE [ret EXCEPT ![t] = pc[t]]
      /\ UNCHANGED <<cpuvars, t_state, t_cpu, child, semvars>>
  BY DEF hardclock, Interruptible, Goto
<1>3. CpuTypes /\ ThreadTypes /\ t \in Threads /\ c_curthread[c] = t
  BY DEF ThreadsInv, AllTypes, CpuTypes
<1> HIDE DEF t
<1>4. /\ g \in Handlers /\ g.at = at /\ g.target = NULL /\ g.victims = <<>>
      /\ g.to_send = 0 /\ g.my_count = 0
  <2>1. 0 \in 0 .. NCPU /\ <<>> \in Seq(Threads)
    BY ThreadsAssumption
  <2> QED
    BY <2>1 DEF NoIrq, Handlers, IrqSteps
<1> HIDE DEF g
<1>5. /\ irq' \in [CPUs -> Handlers] /\ irq'[c] = g
      /\ \A d \in CPUs \ {c} : irq'[d] = irq[d]
  <2>1. irq' = [irq EXCEPT ![c] = g]
    BY <1>1 DEF g
  <2> QED
    BY <1>4, <2>1, SetHandler DEF ThreadsInv, AllTypes
<1>6. /\ pc' \in [Threads -> PCs] /\ ret' \in [Threads -> {"run", "P", "fork"}]
      /\ pc'[t] = IF pc[t] = "idle" THEN "unidle" ELSE "yield"
      /\ ret'[t] = IF pc[t] = "idle" THEN ret[t] ELSE pc[t]
      /\ \A u \in Threads \ {t} : pc'[u] = pc[u] /\ ret'[u] = ret[u]
  BY <1>2, <1>3 DEF ThreadTypes, PCs
<1>7. AllTypes'
  BY <1>2, <1>5, <1>6 DEF ThreadsInv, AllTypes, ThreadTypes, CpuTypes, ListTypes, SemTypes,
                          IrqTypes, semvars, cpuvars
<1>8. irq[c].target = NULL
  BY <1>2 DEF ThreadsInv, IrqRight, HandlerRight
<1>9. pc[t] \in {"run", "P", "fork", "sleep"} => ret[t] = "run"
  BY <1>3 DEF ThreadsInv, WaitingRight
<1>10. NoLostWakeup'
  <2>1. \A d \in CPUs : irq'[d].target = irq[d].target
    BY <1>4, <1>5, <1>8
  <2>2. pc[t] = "P" \/ (ret[t] = "P" /\ pc[t] \notin {"run", "fork"})
           => pc'[t] = "P" \/ (ret'[t] = "P" /\ pc'[t] \notin {"run", "fork"})
    BY <1>2, <1>6, <1>9
  <2> QED
    BY <1>2, <1>3, <1>6, <1>7, <2>1, <2>2, StillWoken DEF semvars
<1>11. /\ pc'[t] \in Left <=> pc[t] \in Left
       /\ pc'[t] = "fork" \/ ret'[t] = "fork" <=> pc[t] = "fork" \/ ret[t] = "fork"
       /\ pc'[t] \notin {"run", "P", "fork", "sleep", "idle"}
       /\ pc[t] \in Left => ret'[t] = ret[t]
       /\ irq'[c].at # "none" => pc'[t] \in {"run", "P", "fork", "yield", "unidle"}
  BY <1>2, <1>6, <1>9 DEF Left
<1>12. UNCHANGED <<c_curthread, c_isidle, c_runqueue, c_zombies, c_ipi_pending, t_state, t_cpu,
                   child, sem_wchan, sem_lock, sem_count>>
  BY <1>2 DEF cpuvars, semvars
<1> QED
  BY <1>2, <1>3, <1>4, <1>5, <1>6, <1>7, <1>10, <1>11, <1>12, QuietMove

LEMMA PKeeps ==
  ASSUME ThreadsInv, NEW c \in CPUs, NEW t \in Threads, P(c, t)
  PROVE  ThreadsInv'
<1>1. /\ irq[c].at = "none" /\ c_curthread[c] = t /\ pc[t] \in {"run", "P"}
      /\ sem_lock = NULL
      /\ UNCHANGED <<cpuvars, t_state, t_cpu, ret, child, sem_wchan, irq>>
  BY DEF P, At
<1>2. ThreadTypes /\ SemTypes /\ sem_count \in Nat
  BY ThreadsAssumption DEF ThreadsInv, AllTypes, SemTypes
<1>3. ret[t] = "run" /\ t_state[t] \in {"READY", "RUN"}
  BY <1>1 DEF ThreadsInv, WaitingRight, CurrentRight, Left
<1>4. /\ irq[c].target = NULL /\ irq[c].victims = <<>> /\ irq[c].to_send = 0
  BY <1>1 DEF ThreadsInv, IrqRight, HandlerRight
<1>5. CASE /\ sem_count > 0 /\ sem_count' = sem_count - 1 /\ Goto(t, "run")
           /\ UNCHANGED sem_lock
  <2>1. /\ pc' \in [Threads -> PCs] /\ pc'[t] = "run"
        /\ \A u \in Threads \ {t} : pc'[u] = pc[u] /\ ret'[u] = ret[u]
    BY <1>1, <1>2, <1>5 DEF ThreadTypes, PCs, Goto
  <2>2. sem_count' \in 0 .. MaxCount
    BY <1>2, <1>5, ThreadsAssumption DEF SemTypes
  <2>3. AllTypes'
    BY <1>1, <1>5, <2>1, <2>2 DEF ThreadsInv, AllTypes, ThreadTypes, CpuTypes, ListTypes, SemTypes,
                          IrqTypes, cpuvars
  <2>4. NoLostWakeup'
    <3> SUFFICES ASSUME sem_wchan # <<>>
                 PROVE  sem_count - 1 <= Cardinality(Woken')
      BY <1>1, <1>5 DEF NoLostWakeup
    <3>1. sem_count <= Cardinality(Woken)
      BY DEF ThreadsInv, NoLostWakeup
    <3>2. Woken \ {t} \in SUBSET Woken'
      BY <1>1, <2>1 DEF Woken
    <3>3. Cardinality(Woken \ {t}) <= Cardinality(Woken')
      BY <3>2, WokenFinite, FS_Subset
    <3>4. /\ Cardinality(Woken \ {t})
               = IF t \in Woken THEN Cardinality(Woken) - 1 ELSE Cardinality(Woken)
          /\ IsFiniteSet(Woken \ {t})
      BY WokenFinite, FS_RemoveElement
    <3>5. Cardinality(Woken \ {t}) \in Nat
      BY <3>4, FS_CardinalityType
    <3> QED
      BY <1>2, <3>1, <3>3, <3>4, <3>5, WokenFinite
  <2>5. /\ pc'[t] \notin Left /\ pc[t] \notin Left
        /\ ~ (pc'[t] = "fork" \/ ret'[t] = "fork") /\ ~ (pc[t] = "fork" \/ ret[t] = "fork")
        /\ ret'[t] = "run"
    BY <1>1, <1>3, <2>1 DEF Left
  <2> QED
    BY <1>1, <1>4, <1>5, <2>1, <2>3, <2>4, <2>5, QuietMove DEF cpuvars
<1>6. CASE /\ sem_count = 0 /\ sem_lock' = c /\ Goto(t, "sleep")
           /\ UNCHANGED sem_count
  <2>1. /\ pc' \in [Threads -> PCs] /\ pc'[t] = "sleep"
        /\ \A u \in Threads \ {t} : pc'[u] = pc[u] /\ ret'[u] = ret[u]
    BY <1>1, <1>2, <1>6 DEF ThreadTypes, PCs, Goto
  <2>2. AllTypes'
    BY <1>1, <1>6, <2>1 DEF ThreadsInv, AllTypes, ThreadTypes, CpuTypes, ListTypes, SemTypes,
                          IrqTypes, cpuvars
  <2>3. NoLostWakeup'
    BY <1>6, WokenFinite DEF NoLostWakeup
  <2>4. /\ pc'[t] \notin Left /\ pc[t] \notin Left
        /\ ~ (pc'[t] = "fork" \/ ret'[t] = "fork") /\ ~ (pc[t] = "fork" \/ ret[t] = "fork")
        /\ ret'[t] = "run"
    BY <1>1, <1>3, <2>1 DEF Left
  <2> QED
    BY <1>1, <1>4, <1>6, <2>1, <2>2, <2>3, <2>4, QuietMove DEF cpuvars
<1> QED
  BY <1>5, <1>6 DEF P

\* V counts, and wchan_wakeone takes a thread off the channel.
LEMMA VKeeps ==
  ASSUME ThreadsInv, NEW c \in CPUs, V(c)
  PROVE  ThreadsInv'
<1> DEFINE t == c_curthread[c]
           h == Head(sem_wchan)
           g == [NoIrq EXCEPT !.at = "wake", !.target = h]
<1>1. /\ irq[c].at = "none" /\ pc[t] \in {"run", "P", "fork", "idle"}
      /\ sem_lock = NULL /\ sem_count < MaxCount /\ sem_count' = sem_count + 1
      /\ pc' = IF pc[t] = "idle" THEN [pc EXCEPT ![t] = "unidle"] ELSE pc
      /\ UNCHANGED <<cpuvars, t_state, t_cpu, ret, child>>
  BY DEF V, Interruptible, Interrupt
<1>2. /\ CpuTypes /\ ThreadTypes /\ ListTypes /\ SemTypes /\ t \in Threads /\ c_curthread[c] = t
      /\ sem_count \in Nat
  BY ThreadsAssumption DEF ThreadsInv, AllTypes, CpuTypes, SemTypes
<1>3. \/ sem_wchan = <<>> /\ irq' = [irq EXCEPT ![c] = NoIrq] /\ UNCHANGED <<sem_wchan, sem_lock>>
      \/ sem_wchan # <<>> /\ irq' = [irq EXCEPT ![c] = g] /\ sem_wchan' = Tail(sem_wchan)
         /\ sem_lock' = c
  BY DEF V, Interrupt
<1> HIDE DEF t
<1>4. /\ pc' \in [Threads -> PCs]
      /\ pc'[t] = IF pc[t] = "idle" THEN "unidle" ELSE pc[t]
      /\ \A u \in Threads \ {t} : pc'[u] = pc[u] /\ ret'[u] = ret[u]
      /\ ret'[t] = ret[t]
  BY <1>1, <1>2 DEF ThreadTypes, PCs
<1>5. sem_count' \in 0 .. MaxCount
  BY <1>1, <1>2, ThreadsAssumption DEF SemTypes
<1>6. irq[c].target = NULL /\ irq[c].victims = <<>>
  BY <1>1 DEF ThreadsInv, IrqRight, HandlerRight
<1>7. pc[t] \in {"run", "P", "fork", "sleep"} => ret[t] = "run"
  BY <1>2 DEF ThreadsInv, WaitingRight
<1>8. /\ pc'[t] \in Left <=> pc[t] \in Left
      /\ pc'[t] = "fork" \/ ret'[t] = "fork" <=> pc[t] = "fork" \/ ret[t] = "fork"
      /\ pc'[t] \in {"run", "P", "fork", "sleep"} => ret'[t] = "run"
      /\ pc'[t] \in {"run", "P", "fork", "unidle"}
  BY <1>1, <1>4, <1>7 DEF Left
<1>9. UNCHANGED <<c_curthread, c_isidle, c_runqueue, c_zombies, c_ipi_pending, t_state, t_cpu,
                  child>>
  BY <1>1 DEF cpuvars
<1>10. CASE sem_wchan = <<>> /\ irq' = [irq EXCEPT ![c] = NoIrq] /\ UNCHANGED <<sem_wchan, sem_lock>>
  <2>1. /\ irq' \in [CPUs -> Handlers] /\ irq'[c] = NoIrq
        /\ \A d \in CPUs \ {c} : irq'[d] = irq[d]
    BY <1>10, SetHandler, NoIrqIsHandler DEF ThreadsInv, AllTypes
  <2>2. AllTypes'
    BY <1>1, <1>2, <1>4, <1>5, <1>10, <2>1 DEF AllTypes, ThreadTypes, CpuTypes, ListTypes,
                          SemTypes, IrqTypes, cpuvars
  <2>3. NoLostWakeup'
    BY <1>10 DEF NoLostWakeup
  <2> QED
    BY <1>1, <1>2, <1>4, <1>8, <1>9, <1>10, <2>1, <2>2, <2>3, NoIrqIsHandler, QuietMove
<1>11. CASE /\ sem_wchan # <<>> /\ irq' = [irq EXCEPT ![c] = g] /\ sem_wchan' = Tail(sem_wchan)
            /\ sem_lock' = c
  <2>1. IsInjective(sem_wchan) /\ sem_wchan \in Seq(Threads)
    BY <1>2 DEF ThreadsInv, ListsDistinct, ListTypes
  <2>2. /\ h \in Threads /\ Contains(sem_wchan, h)
        /\ Tail(sem_wchan) \in Seq(Threads) /\ IsInjective(Tail(sem_wchan))
        /\ \A u : Contains(Tail(sem_wchan), u) <=> Contains(sem_wchan, u) /\ u # h
    BY <1>11, <2>1, RemoveHead
  <2>3. Asleep(h) /\ \A u : Asleep(u)' <=> Asleep(u) /\ u # h
    BY <1>11, <2>2 DEF Asleep
  <2> HIDE DEF h
  <2>4. /\ g \in Handlers /\ g.at = "wake" /\ g.target = h /\ g.victims = <<>>
        /\ g.to_send = 0
    BY <2>2, NoIrqIsHandler DEF Handlers, IrqSteps
  <2> HIDE DEF g
  <2>5. /\ irq' \in [CPUs -> Handlers] /\ irq'[c] = g
        /\ \A d \in CPUs \ {c} : irq'[d] = irq[d]
    BY <1>11, <2>4, SetHandler DEF ThreadsInv, AllTypes
  <2>6. AllTypes'
    BY <1>1, <1>2, <1>4, <1>5, <1>11, <2>2, <2>5 DEF AllTypes, ThreadTypes, CpuTypes, ListTypes,
                          SemTypes, IrqTypes, cpuvars
  <2>7. \A d \in CPUs, u \in Threads : Moving(d, u)' <=> Moving(d, u)
    BY <1>6, <2>4, <2>5 DEF Moving
  <2>8. CurrentRight' /\ WaitingRight' /\ ChildRight'
    BY <1>1, <1>2, <1>4, <1>8, <1>9, <1>11, <2>5, <2>6, <2>7, ThreadMoves
  <2>9. IrqRight'
    <3> SUFFICES ASSUME NEW d \in CPUs PROVE HandlerRight(d)'
      BY DEF IrqRight
    <3>1. CASE d = c
      <4>1. h # NULL
        BY <2>2, ThreadsAssumption
      <4> QED
        BY <1>11, <2>4, <2>5, <3>1, <4>1 DEF HandlerRight
    <3>2. CASE d # c
      <4>1. HandlerRight(d) /\ irq'[d] = irq[d]
        BY <2>5, <3>2 DEF ThreadsInv, IrqRight
      <4>2. irq[d].at # "wake"
        BY <1>1, <4>1, ThreadsAssumption DEF HandlerRight, CPUs
      <4> QED
        BY <1>9, <4>1, <4>2 DEF HandlerRight
    <3> QED
      BY <3>1, <3>2
  <2>10. ListsDistinct'
    <3>1. irq'[c].victims = irq[c].victims
      BY <1>6, <2>4, <2>5
    <3> QED
      BY <1>9, <1>11, <2>2, <2>5, <3>1 DEF ThreadsInv, ListsDistinct
  <2>11. ListsRight'
    <3>1. \A d \in CPUs, u \in Threads : (Ready(d, u)' <=> Ready(d, u)) /\ (Dead(d, u)' <=> Dead(d, u))
      BY <1>9 DEF Ready, Dead
    <3>2. t_state[h] = "SLEEP"
      BY <2>2, <2>3 DEF ThreadsInv, ListsRight
    <3>3. \A d \in CPUs : irq'[d].target = IF d = c THEN h ELSE irq[d].target
      BY <2>4, <2>5
    <3> QED
      BY <1>9, <2>2, <2>3, <2>7, <3>1, <3>2, <3>3 DEF ThreadsInv, ListsRight
  <2>12. NoLostWakeup'
    <3>1. sem_count <= Cardinality(Woken)
      BY <1>11 DEF ThreadsInv, NoLostWakeup
    <3>2. h \notin Woken
      BY <2>2, <2>3 DEF ThreadsInv, ListsRight, Woken
    <3>3. h \in Woken'
      BY <2>2, <2>4, <2>5 DEF Woken
    <3>4. \A u \in Threads : u \in Woken => u \in Woken'
      <4> SUFFICES ASSUME NEW u \in Threads, u \in Woken PROVE u \in Woken'
        OBVIOUS
      <4>0. \A d \in CPUs : irq[d].target = u => irq'[d].target = u
        BY <1>6, <2>5, ThreadsAssumption
      <4>1. CASE \E d \in CPUs : irq[d].target = u
        BY <4>0, <4>1 DEF Woken
      <4>2. CASE /\ t_state[u] \in {"READY", "RUN"}
                 /\ pc[u] = "P" \/ (ret[u] = "P" /\ pc[u] \notin {"run", "fork"})
        <5>1. /\ t_state'[u] \in {"READY", "RUN"}
              /\ pc'[u] = "P" \/ (ret'[u] = "P" /\ pc'[u] \notin {"run", "fork"})
          BY <1>4, <1>9, <4>2
        <5> QED
          BY <5>1 DEF Woken
      <4> QED
        BY <4>1, <4>2 DEF Woken
    <3>5. Woken \union {h} \in SUBSET Woken'
      BY <3>3, <3>4 DEF Woken
    <3>6. /\ Cardinality(Woken \union {h}) = Cardinality(Woken) + 1
          /\ Cardinality(Woken \union {h}) <= Cardinality(Woken')
      BY <3>2, <3>5, WokenFinite, FS_AddElement, FS_Subset
    <3> QED
      BY <1>1, <1>2, <3>1, <3>6, WokenFinite DEF NoLostWakeup
  <2> QED
    BY <2>6, <2>8, <2>9, <2>10, <2>11, <2>12 DEF ThreadsInv
<1> QED
  BY <1>3, <1>10, <1>11

-----------------------------------------------------------------------------
(***************************************************************************)
(* Leaving the processor.                                                  *)
(***************************************************************************)

\* A thread is added to the run queue of processor d.
LEMMA QueueAdd ==
  ASSUME ListTypes, ListsDistinct, NEW d \in CPUs, NEW t \in Threads, ~ Ready(d, t),
         c_runqueue' = [c_runqueue EXCEPT ![d] = Append(@, t)]
  PROVE  /\ c_runqueue' \in [CPUs -> Seq(Threads)]
         /\ \A e \in CPUs, u \in Threads : Ready(e, u)' <=> Ready(e, u) \/ (e = d /\ u = t)
         /\ \A e \in CPUs : /\ IsInjective(c_runqueue'[e])
                            /\ Len(c_runqueue[e]) <= Len(c_runqueue'[e])
         /\ \A e \in CPUs \ {d} : c_runqueue'[e] = c_runqueue[e]
<1> DEFINE s == c_runqueue[d]
           q == Append(s, t)
<1>1. s \in Seq(Threads) /\ IsInjective(s) /\ ~ Contains(s, t)
  BY DEF ListTypes, ListsDistinct, Ready
<1>2. c_runqueue' = [c_runqueue EXCEPT ![d] = q]
  BY DEF ListTypes
<1>3. /\ q \in Seq(Threads) /\ Len(q) = Len(s) + 1 /\ IsInjective(q)
      /\ \A u : Contains(q, u) <=> Contains(s, u) \/ u = t
  <2> HIDE DEF s
  <2> QED
    BY <1>1, AddTail
<1>4. \A e \in CPUs : Len(c_runqueue[e]) \in Nat
  BY LenProperties DEF ListTypes
<1> HIDE DEF q
<1>5. c_runqueue'[d] = q /\ \A e \in CPUs \ {d} : c_runqueue'[e] = c_runqueue[e]
  BY <1>2 DEF ListTypes
<1>6. c_runqueue' \in [CPUs -> Seq(Threads)]
  BY <1>2, <1>3 DEF ListTypes
<1>7. \A e \in CPUs, u \in Threads : Ready(e, u)' <=> Ready(e, u) \/ (e = d /\ u = t)
  BY <1>3, <1>5 DEF Ready
<1>8. \A e \in CPUs : IsInjective(c_runqueue'[e])
  BY <1>3, <1>5 DEF ListsDistinct
<1>9. \A e \in CPUs : Len(c_runqueue[e]) <= Len(c_runqueue'[e])
  <2> SUFFICES ASSUME NEW e \in CPUs PROVE Len(c_runqueue[e]) <= Len(c_runqueue'[e])
    OBVIOUS
  <2>1. CASE e = d
    BY <1>3, <1>4, <1>5, <2>1
  <2>2. CASE e # d
    BY <1>4, <1>5, <2>2
  <2> QED
    BY <2>1, <2>2
<1> QED
  BY <1>5, <1>6, <1>7, <1>8, <1>9

\* What handlers know stays right when run queues grow and nobody else holds
\* the semaphore's spinlock.
LEMMA HandlersStay ==
  ASSUME ThreadsInv, ListTypes', UNCHANGED irq,
         \A d \in CPUs : irq[d].at = "wake" => sem_lock' = sem_lock,
         \A d \in CPUs : Len(c_runqueue[d]) <= Len(c_runqueue'[d])
  PROVE  IrqRight'
<1> SUFFICES ASSUME NEW d \in CPUs PROVE HandlerRight(d)'
  BY DEF IrqRight
<1> QED
  BY HandlerStays DEF ThreadsInv, IrqRight, AllTypes

(***************************************************************************)
(* The current thread of c leaves it, in state st: for the run queue, the  *)
(* wait channel or the zombies.                                            *)
(***************************************************************************)
LEMMA LeaveKeeps ==
  ASSUME ThreadsInv, NEW c \in CPUs, NEW t \in Threads, c_curthread[c] = t,
         irq[c].at = "none", pc[t] \in {"yield", "sleep", "run"},
         NEW st \in {"READY", "SLEEP", "ZOMBIE"},
         AllTypes', ListsDistinct', NoLostWakeup', IrqRight',
         UNCHANGED <<c_curthread, c_ipi_pending, t_cpu, child, sem_count, irq>>,
         c_isidle'[c], \A d \in CPUs \ {c} : c_isidle'[d] = c_isidle[d],
         \A d \in CPUs \ {c} : c_runqueue'[d] = c_runqueue[d],
         pc'[t] = "pick", t_state'[t] = st,
         \A u \in Threads \ {t} : pc'[u] = pc[u] /\ ret'[u] = ret[u] /\ t_state'[u] = t_state[u],
         ret'[t] = "fork" <=> ret[t] = "fork",
         st = "SLEEP" => ret'[t] = "P", st = "ZOMBIE" => ret'[t] = "run",
         sem_lock' # sem_lock => sem_lock = c,
         \A d \in CPUs, u \in Threads :
           /\ Ready(d, u)' <=> Ready(d, u) \/ (st = "READY" /\ d = c /\ u = t)
           /\ Dead(d, u)' <=> Dead(d, u) \/ (st = "ZOMBIE" /\ d = c /\ u = t),
         \A u \in Threads : Asleep(u)' <=> Asleep(u) \/ (st = "SLEEP" /\ u = t)
  PROVE  ThreadsInv'
<1>1. \A d \in CPUs, u \in Threads : Moving(d, u)' <=> Moving(d, u)
  BY DEF Moving
<1>2. \A u : Current(u)' <=> Current(u)
  BY DEF Current
<1>3. Current(t)
  BY DEF Current
<1>4. /\ \A d \in CPUs : c_curthread[d] = t => d = c
      /\ t_cpu[t] = c /\ t_state[t] \in {"READY", "RUN"} /\ ~ Ready(c, t) /\ ~ Moving(c, t)
  BY DEF ThreadsInv, CurrentRight, Left
<1>5. /\ \A d \in CPUs : ~ Ready(d, t) /\ ~ Moving(d, t) /\ ~ Dead(d, t) /\ irq[d].target # t
      /\ ~ Asleep(t) /\ \A s \in Threads : child[s] # t
  BY <1>3, <1>4 DEF ThreadsInv, ListsRight, ChildRight
<1>6. ListsRight'
  BY <1>1, <1>4, <1>5 DEF ThreadsInv, ListsRight
<1>7. CurrentRight'
  <2> SUFFICES ASSUME NEW d \in CPUs, NEW u \in Threads, c_curthread'[d] = u
               PROVE  /\ \A e \in CPUs : c_curthread'[e] = u => e = d
                      /\ t_cpu'[u] = d
                      /\ t_state'[u] # "NONE"
                      /\ pc'[u] \notin Left => /\ t_state'[u] \in {"READY", "RUN"}
                                               /\ ~ Ready(d, u)' /\ ~ Moving(d, u)'
                      /\ pc'[u] \in Left => c_isidle'[d] /\ t_state'[u] # "RUN"
                      /\ irq'[d].at # "none"
                           => pc'[u] \in {"run", "P", "fork", "yield", "unidle"}
                      /\ pc'[u] = "sleep" => sem_lock' = d /\ sem_count' = 0
                      /\ pc'[u] = "idle" /\ c_runqueue'[d] # <<>> => c_ipi_pending'[d]
    BY DEF CurrentRight
  <2>1. CASE u = t
    <3>1. d = c
      BY <1>4, <2>1
    <3> QED
      BY <1>1, <1>4, <2>1, <3>1 DEF Left
  <2>2. CASE u # t
    <3>1. d # c
      BY <2>2
    <3> QED
      BY <1>1, <2>2, <3>1 DEF ThreadsInv, CurrentRight
  <2> QED
    BY <2>1, <2>2
<1>8. WaitingRight'
  <2> SUFFICES ASSUME NEW u \in Threads
               PROVE  /\ ~ Current(u)' => /\ t_state'[u] # "RUN"
                                          /\ t_state'[u] # "NONE" => pc'[u] = "back"
                      /\ pc'[u] \in {"run", "P", "fork", "sleep"} => ret'[u] = "run"
                      /\ t_state'[u] = "SLEEP" => ret'[u] = "P"
                      /\ t_state'[u] \in {"NONE", "ZOMBIE"} => ret'[u] = "run"
                      /\ t_state'[u] = "READY" =>
                           \/ Ready(t_cpu[u], u)' \/ Moving(t_cpu[u], u)'
                           \/ \E s \in Threads : child'[s] = u
                           \/ Current(u)' /\ pc'[u] \notin Left
    BY DEF WaitingRight
  <2>1. t_cpu[u] \in CPUs
    BY DEF ThreadsInv, AllTypes, ThreadTypes
  <2>2. /\ Ready(t_cpu[u], u)' <=> Ready(t_cpu[u], u) \/ (st = "READY" /\ t_cpu[u] = c /\ u = t)
        /\ Moving(t_cpu[u], u)' <=> Moving(t_cpu[u], u)
    BY <1>1, <2>1
  <2>3. CASE u = t
    BY <1>2, <1>3, <1>4, <2>2, <2>3
  <2>4. CASE u # t
    BY <1>2, <2>2, <2>4 DEF ThreadsInv, WaitingRight
  <2> QED
    BY <2>3, <2>4
<1>9. ChildRight'
  <2>1. \A s \in Threads : pc'[s] = "fork" \/ ret'[s] = "fork" <=> pc[s] = "fork" \/ ret[s] = "fork"
    OBVIOUS
  <2> QED
    BY <1>1, <1>2, <1>5, <2>1 DEF ThreadsInv, ChildRight
<1> QED
  BY <1>6, <1>7, <1>8, <1>9 DEF ThreadsInv

\* One thread changes its state; if it was on the way to the count it still
\* is.
LEMMA WokenBut ==
  ASSUME ThreadsInv, AllTypes', NEW t \in Threads,
         UNCHANGED <<sem_count, sem_wchan>>,
         \A d \in CPUs : irq'[d].target = irq[d].target,
         \A u \in Threads \ {t} : pc'[u] = pc[u] /\ ret'[u] = ret[u] /\ t_state'[u] = t_state[u],
         (/\ t_state[t] \in {"READY", "RUN"}
          /\ pc[t] = "P" \/ (ret[t] = "P" /\ pc[t] \notin {"run", "fork"}))
           => /\ t_state'[t] \in {"READY", "RUN"}
              /\ pc'[t] = "P" \/ (ret'[t] = "P" /\ pc'[t] \notin {"run", "fork"})
  PROVE  NoLostWakeup'
<1>1. \A u \in Threads : u \in Woken => u \in Woken'
  <2> SUFFICES ASSUME NEW u \in Threads, u \in Woken PROVE u \in Woken'
    OBVIOUS
  <2>1. CASE u = t
    BY <2>1 DEF Woken
  <2>2. CASE u # t
    BY <2>2 DEF Woken
  <2> QED
    BY <2>1, <2>2
<1>2. sem_count' <= sem_count
  BY ThreadsAssumption DEF ThreadsInv, AllTypes, SemTypes
<1> QED
  BY <1>1, <1>2, NobodyForgotten DEF ThreadsInv

\* What LeaveProcessor does.
LEMMA Leaving ==
  ASSUME ThreadsInv, NEW c \in CPUs, NEW t \in Threads, LeaveProcessor(c, t)
  PROVE  /\ CpuTypes'
         /\ UNCHANGED <<c_curthread, c_ipi_pending, t_cpu, child, sem_count, irq>>
         /\ c_isidle'[c] /\ \A d \in CPUs \ {c} : c_isidle'[d] = c_isidle[d]
         /\ pc' \in [Threads -> PCs] /\ pc'[t] = "pick"
         /\ \A u \in Threads \ {t} : pc'[u] = pc[u]
BY DEF LeaveProcessor, Goto, ThreadsInv, AllTypes, CpuTypes, ThreadTypes, PCs

LEMMA SwitchReadyKeeps ==
  ASSUME ThreadsInv, NEW c \in CPUs, NEW t \in Threads, SwitchReady(c, t)
  PROVE  ThreadsInv'
<1>1. /\ irq[c].at = "none" /\ c_curthread[c] = t /\ pc[t] = "yield"
      /\ t_state' = [t_state EXCEPT ![t] = "READY"]
      /\ c_runqueue' = [c_runqueue EXCEPT ![c] = Append(@, t)]
      /\ UNCHANGED <<c_zombies, ret, sem_wchan, sem_lock>>
  BY DEF SwitchReady, At
<1>2. /\ CpuTypes'
      /\ UNCHANGED <<c_curthread, c_ipi_pending, t_cpu, child, sem_count, irq>>
      /\ c_isidle'[c] /\ \A d \in CPUs \ {c} : c_isidle'[d] = c_isidle[d]
      /\ pc' \in [Threads -> PCs] /\ pc'[t] = "pick"
      /\ \A u \in Threads \ {t} : pc'[u] = pc[u]
  BY Leaving DEF SwitchReady
<1>3. ThreadTypes /\ ListTypes /\ ListsDistinct
  BY DEF ThreadsInv, AllTypes
<1>4. ~ Ready(c, t) /\ t_state[t] \in {"READY", "RUN"}
  BY <1>1 DEF ThreadsInv, CurrentRight, Left
<1>5. /\ c_runqueue' \in [CPUs -> Seq(Threads)]
      /\ \A e \in CPUs, u \in Threads : Ready(e, u)' <=> Ready(e, u) \/ (e = c /\ u = t)
      /\ \A e \in CPUs : /\ IsInjective(c_runqueue'[e])
                         /\ Len(c_runqueue[e]) <= Len(c_runqueue'[e])
      /\ \A e \in CPUs \ {c} : c_runqueue'[e] = c_runqueue[e]
  BY <1>1, <1>3, <1>4, QueueAdd
<1>6. /\ t_state' \in [Threads -> States] /\ t_state'[t] = "READY"
      /\ \A u \in Threads \ {t} : t_state'[u] = t_state[u]
  BY <1>1, <1>3 DEF ThreadTypes, States
<1>7. AllTypes'
  BY <1>1, <1>2, <1>5, <1>6 DEF ThreadsInv, AllTypes, ThreadTypes, ListTypes, SemTypes, IrqTypes
<1>8. ListsDistinct'
  BY <1>1, <1>2, <1>5 DEF ThreadsInv, ListsDistinct
<1>9. IrqRight'
  BY <1>1, <1>2, <1>5, <1>7, HandlersStay DEF AllTypes
<1>10. NoLostWakeup'
  <2>1. /\ \A u \in Threads \ {t} :
             pc'[u] = pc[u] /\ ret'[u] = ret[u] /\ t_state'[u] = t_state[u]
        /\ \A d \in CPUs : irq'[d].target = irq[d].target
        /\ ret'[t] = ret[t]
    BY <1>1, <1>2, <1>6
  <2>2. UNCHANGED <<sem_count, sem_wchan>>
    BY <1>1, <1>2
  <2>3. /\ t_state'[t] = "READY" /\ pc'[t] \notin {"run", "fork"} /\ pc[t] # "P"
    BY <1>1, <1>2, <1>6
  <2> QED
    BY <1>7, <2>1, <2>2, <2>3, WokenBut
<1>11. /\ \A d \in CPUs, u \in Threads : Dead(d, u)' <=> Dead(d, u)
       /\ \A u \in Threads : Asleep(u)' <=> Asleep(u)
  BY <1>1 DEF Dead, Asleep
<1> QED
  BY <1>1, <1>2, <1>5, <1>6, <1>7, <1>8, <1>9, <1>10, <1>11, LeaveKeeps

LEMMA SwitchSleepKeeps ==
  ASSUME ThreadsInv, NEW c \in CPUs, NEW t \in Threads, SwitchSleep(c, t)
  PROVE  ThreadsInv'
<1>1. /\ irq[c].at = "none" /\ c_curthread[c] = t /\ pc[t] = "sleep"
      /\ t_state' = [t_state EXCEPT ![t] = "SLEEP"]
      /\ sem_wchan' = Append(sem_wchan, t) /\ sem_lock' = NULL
      /\ ret' = [ret EXCEPT ![t] = "P"]
      /\ UNCHANGED <<c_runqueue, c_zombies>>
  BY DEF SwitchSleep, At
<1>2. /\ CpuTypes'
      /\ UNCHANGED <<c_curthread, c_ipi_pending, t_cpu, child, sem_count, irq>>
      /\ c_isidle'[c] /\ \A d \in CPUs \ {c} : c_isidle'[d] = c_isidle[d]
      /\ pc' \in [Threads -> PCs] /\ pc'[t] = "pick"
      /\ \A u \in Threads \ {t} : pc'[u] = pc[u]
  BY Leaving DEF SwitchSleep
<1>3. ThreadTypes /\ ListTypes /\ ListsDistinct
  BY DEF ThreadsInv, AllTypes
<1>4. /\ t_state[t] \in {"READY", "RUN"} /\ sem_lock = c /\ sem_count = 0
      /\ ret[t] = "run"
  BY <1>1 DEF ThreadsInv, CurrentRight, WaitingRight, Left
<1>5. ~ Asleep(t)
  BY <1>4 DEF ThreadsInv, ListsRight
<1>6. /\ sem_wchan' \in Seq(Threads) /\ IsInjective(sem_wchan')
      /\ \A u \in Threads : Asleep(u)' <=> Asleep(u) \/ u = t
  BY <1>1, <1>3, <1>5, AddTail DEF Asleep, ListTypes, ListsDistinct
<1>7. /\ t_state' \in [Threads -> States] /\ t_state'[t] = "SLEEP"
      /\ ret' \in [Threads -> {"run", "P", "fork"}] /\ ret'[t] = "P"
      /\ \A u \in Threads \ {t} : t_state'[u] = t_state[u] /\ ret'[u] = ret[u]
  BY <1>1, <1>3 DEF ThreadTypes, States
<1>8. AllTypes'
  BY <1>1, <1>2, <1>6, <1>7 DEF ThreadsInv, AllTypes, ThreadTypes, ListTypes, SemTypes, IrqTypes
<1>9. ListsDistinct'
  BY <1>1, <1>2, <1>6 DEF ThreadsInv, ListsDistinct
<1>10. IrqRight'
  <2>1. \A d \in CPUs : irq[d].at # "wake"
    BY <1>1, <1>4 DEF ThreadsInv, IrqRight, HandlerRight
  <2>2. \A d \in CPUs : Len(c_runqueue[d]) <= Len(c_runqueue'[d])
    <3>1. \A d \in CPUs : Len(c_runqueue[d]) \in Nat
      BY <1>3, LenProperties DEF ListTypes
    <3> QED
      BY <1>1, <3>1
  <2> QED
    BY <1>2, <1>8, <2>1, <2>2, HandlersStay DEF AllTypes
<1>11. NoLostWakeup'
  BY <1>2, <1>4, WokenFinite DEF NoLostWakeup
<1>12. \A d \in CPUs, u \in Threads : (Dead(d, u)' <=> Dead(d, u)) /\ (Ready(d, u)' <=> Ready(d, u))
  BY <1>1 DEF Dead, Ready
<1> QED
  BY <1>1, <1>2, <1>4, <1>6, <1>7, <1>8, <1>9, <1>10, <1>11, <1>12, LeaveKeeps

LEMMA ThreadExitKeeps ==
  ASSUME ThreadsInv, NEW c \in CPUs, NEW t \in Threads, thread_exit(c, t)
  PROVE  ThreadsInv'
<1>1. /\ irq[c].at = "none" /\ c_curthread[c] = t /\ pc[t] = "run"
      /\ t_state' = [t_state EXCEPT ![t] = "ZOMBIE"]
      /\ c_zombies' = [c_zombies EXCEPT ![c] = Append(@, t)]
      /\ UNCHANGED <<c_runqueue, ret, sem_wchan, sem_lock>>
  BY DEF thread_exit, At
<1>2. /\ CpuTypes'
      /\ UNCHANGED <<c_curthread, c_ipi_pending, t_cpu, child, sem_count, irq>>
      /\ c_isidle'[c] /\ \A d \in CPUs \ {c} : c_isidle'[d] = c_isidle[d]
      /\ pc' \in [Threads -> PCs] /\ pc'[t] = "pick"
      /\ \A u \in Threads \ {t} : pc'[u] = pc[u]
  BY Leaving DEF thread_exit
<1>3. ThreadTypes /\ ListTypes /\ ListsDistinct
  BY DEF ThreadsInv, AllTypes
<1>4. t_state[t] \in {"READY", "RUN"} /\ ret[t] = "run"
  BY <1>1 DEF ThreadsInv, CurrentRight, WaitingRight, Left
<1>5. ~ Dead(c, t)
  BY <1>4 DEF ThreadsInv, ListsRight
<1>6. /\ c_zombies' \in [CPUs -> Seq(Threads)]
      /\ \A d \in CPUs : IsInjective(c_zombies'[d])
      /\ \A d \in CPUs, u \in Threads : Dead(d, u)' <=> Dead(d, u) \/ (d = c /\ u = t)
  <2> DEFINE s == c_zombies[c]
             q == Append(s, t)
  <2>1. s \in Seq(Threads) /\ IsInjective(s) /\ ~ Contains(s, t)
    BY <1>3, <1>5 DEF ListTypes, ListsDistinct, Dead
  <2>2. c_zombies' = [c_zombies EXCEPT ![c] = q]
    BY <1>1, <1>3 DEF ListTypes
  <2>3. /\ q \in Seq(Threads) /\ IsInjective(q)
        /\ \A u : Contains(q, u) <=> Contains(s, u) \/ u = t
    <3> HIDE DEF s
    <3> QED
      BY <2>1, AddTail
  <2> HIDE DEF q
  <2>4. c_zombies'[c] = q /\ \A e \in CPUs \ {c} : c_zombies'[e] = c_zombies[e]
    BY <1>3, <2>2 DEF ListTypes
  <2>5. c_zombies' \in [CPUs -> Seq(Threads)]
    BY <1>3, <2>2, <2>3 DEF ListTypes
  <2>6. \A d \in CPUs, u \in Threads : Dead(d, u)' <=> Dead(d, u) \/ (d = c /\ u = t)
    BY <2>3, <2>4 DEF Dead
  <2>7. \A d \in CPUs : IsInjective(c_zombies'[d])
    BY <1>3, <2>3, <2>4 DEF ListsDistinct
  <2> QED
    BY <2>5, <2>6, <2>7
<1>7. /\ t_state' \in [Threads -> States] /\ t_state'[t] = "ZOMBIE"
      /\ \A u \in Threads \ {t} : t_state'[u] = t_state[u] /\ ret'[u] = ret[u]
  BY <1>1, <1>3 DEF ThreadTypes, States
<1>8. AllTypes'
  BY <1>1, <1>2, <1>6, <1>7 DEF ThreadsInv, AllTypes, ThreadTypes, ListTypes, SemTypes, IrqTypes
<1>9. ListsDistinct'
  BY <1>1, <1>2, <1>6 DEF ThreadsInv, ListsDistinct
<1>10. IrqRight'
  <2>1. \A d \in CPUs : Len(c_runqueue[d]) <= Len(c_runqueue'[d])
    <3>1. \A d \in CPUs : Len(c_runqueue[d]) \in Nat
      BY <1>3, LenProperties DEF ListTypes
    <3> QED
      BY <1>1, <3>1
  <2> QED
    BY <1>1, <1>2, <1>8, <2>1, HandlersStay DEF AllTypes
<1>11. NoLostWakeup'
  BY <1>1, <1>2, <1>4, <1>7, <1>8, WokenBut
<1>12. /\ \A d \in CPUs, u \in Threads : Ready(d, u)' <=> Ready(d, u)
       /\ \A u \in Threads : Asleep(u)' <=> Asleep(u)
  BY <1>1 DEF Asleep, Ready
<1> QED
  BY <1>1, <1>2, <1>4, <1>6, <1>7, <1>8, <1>9, <1>10, <1>11, <1>12, LeaveKeeps

-----------------------------------------------------------------------------
(***************************************************************************)
(* Threads that others put into a run queue.                               *)
(***************************************************************************)

\* A processor other than c that idles is told.
LEMMA IdleIsTold ==
  ASSUME ThreadsInv, NEW c \in CPUs, NEW d \in CPUs, ipi_unidle(c, d),
         pc[c_curthread[c]] # "idle",
         \A e \in CPUs \ {d} : c_runqueue'[e] = c_runqueue[e]
  PROVE  /\ c_ipi_pending' \in [CPUs -> BOOLEAN]
         /\ \A e \in CPUs : pc[c_curthread[e]] = "idle" /\ c_runqueue'[e] # <<>> => c_ipi_pending'[e]
<1>1. /\ c_ipi_pending' \in [CPUs -> BOOLEAN]
      /\ \A e \in CPUs : c_ipi_pending[e] => c_ipi_pending'[e]
      /\ c_isidle[d] /\ d # c => c_ipi_pending'[d]
  BY DEF ipi_unidle, ThreadsInv, AllTypes, CpuTypes
<1>2. \A e \in CPUs : c_curthread[e] \in Threads
  BY DEF ThreadsInv, AllTypes, CpuTypes
<1> SUFFICES ASSUME NEW e \in CPUs, pc[c_curthread[e]] = "idle", c_runqueue'[e] # <<>>
             PROVE  c_ipi_pending'[e]
  BY <1>1
<1>3. CASE e = d
  <2>1. c_isidle[d]
    BY <1>2, <1>3 DEF ThreadsInv, CurrentRight, Left
  <2> QED
    BY <1>1, <1>3, <2>1
<1>4. CASE e # d
  BY <1>1, <1>2, <1>4 DEF ThreadsInv, CurrentRight
<1> QED
  BY <1>3, <1>4

LEMMA WakeupKeeps ==
  ASSUME ThreadsInv, NEW c \in CPUs, Wakeup(c)
  PROVE  ThreadsInv'
<1> DEFINE t == irq[c].target
           d == t_cpu[t]
<1>1. /\ irq[c].at = "wake"
      /\ t_state' = [t_state EXCEPT ![t] = "READY"]
      /\ c_runqueue' = [c_runqueue EXCEPT ![d] = Append(@, t)]
      /\ ipi_unidle(c, d)
      /\ sem_lock' = NULL /\ irq' = [irq EXCEPT ![c] = NoIrq]
      /\ UNCHANGED <<c_curthread, c_isidle, c_zombies, runqueue_lock, t_cpu, pc,
                     ret, child, sem_count, sem_wchan>>
  BY DEF Wakeup, thread_make_runnable
<1>2. CpuTypes /\ ThreadTypes /\ ListTypes /\ ListsDistinct /\ irq[c] \in Handlers
  BY DEF ThreadsInv, AllTypes, IrqTypes
<1>3. t \in Threads /\ sem_lock = c /\ d \in CPUs /\ irq[c].target = t /\ t_cpu[t] = d
  <2>1. t # NULL /\ sem_lock = c
    BY <1>1 DEF ThreadsInv, IrqRight, HandlerRight
  <2>2. t \in Threads
    BY <1>2, <2>1 DEF Handlers
  <2> QED
    BY <1>2, <2>1, <2>2 DEF ThreadTypes
<1> HIDE DEF t, d
<1>4. /\ t_state[t] = "SLEEP" /\ ~ Asleep(t) /\ ret[t] = "P"
      /\ \A e \in CPUs : ~ Ready(e, t) /\ ~ Moving(e, t) /\ ~ Dead(e, t)
      /\ \A s \in Threads : child[s] # t
  BY <1>3 DEF ThreadsInv, ListsRight, WaitingRight, ChildRight
<1>5. \A e \in CPUs : c_curthread[e] = t => pc[t] \in Left /\ e = d
  BY <1>3, <1>4 DEF ThreadsInv, CurrentRight
<1>6. \A e \in CPUs, u \in Threads : c_curthread[e] = u => pc[u] # "sleep"
  BY <1>1, <1>3 DEF ThreadsInv, CurrentRight
<1>7. /\ c_runqueue' \in [CPUs -> Seq(Threads)]
      /\ \A e \in CPUs, u \in Threads : Ready(e, u)' <=> Ready(e, u) \/ (e = d /\ u = t)
      /\ \A e \in CPUs : /\ IsInjective(c_runqueue'[e])
                         /\ Len(c_runqueue[e]) <= Len(c_runqueue'[e])
      /\ \A e \in CPUs \ {d} : c_runqueue'[e] = c_runqueue[e]
  BY <1>1, <1>2, <1>3, <1>4, QueueAdd
<1>8. pc[c_curthread[c]] # "idle"
  BY <1>1, <1>2 DEF ThreadsInv, CurrentRight, CpuTypes
<1>9. /\ c_ipi_pending' \in [CPUs -> BOOLEAN]
      /\ \A e \in CPUs : pc[c_curthread[e]] = "idle" /\ c_runqueue'[e] # <<>> => c_ipi_pending'[e]
  BY <1>1, <1>3, <1>7, <1>8, IdleIsTold
<1>10. /\ irq' \in [CPUs -> Handlers] /\ irq'[c] = NoIrq
       /\ \A e \in CPUs \ {c} : irq'[e] = irq[e]
  BY <1>1, SetHandler, NoIrqIsHandler DEF ThreadsInv, AllTypes
<1>11. /\ t_state' \in [Threads -> States] /\ t_state'[t] = "READY"
       /\ \A u \in Threads \ {t} : t_state'[u] = t_state[u]
  BY <1>1, <1>2, <1>3 DEF ThreadTypes, States
<1>12. UNCHANGED <<c_curthread, c_isidle, c_zombies, runqueue_lock, t_cpu, pc, ret, child,
                   sem_count, sem_wchan>> /\ sem_lock' = NULL
  BY <1>1
<1>13. AllTypes'
  BY <1>7, <1>9, <1>10, <1>11, <1>12
  DEF ThreadsInv, AllTypes, ThreadTypes, CpuTypes, ListTypes, SemTypes, IrqTypes
<1>14. irq[c].victims = <<>>
  BY <1>1 DEF ThreadsInv, IrqRight, HandlerRight
<1>15. /\ \A e \in CPUs : irq'[e].victims = irq[e].victims
       /\ \A e \in CPUs : irq'[e].target = IF e = c THEN NULL ELSE irq[e].target
  BY <1>10, <1>14, NoIrqIsHandler
<1>16. /\ \A e \in CPUs, u \in Threads : Moving(e, u)' <=> Moving(e, u)
       /\ \A e \in CPUs, u \in Threads : Dead(e, u)' <=> Dead(e, u)
       /\ \A u \in Threads : Asleep(u)' <=> Asleep(u)
       /\ \A u : Current(u)' <=> Current(u)
  BY <1>12, <1>15 DEF Moving, Dead, Asleep, Current
<1>17. \A e \in CPUs \ {c} : irq[e].at # "wake" /\ irq[e].target = NULL
  BY <1>3 DEF ThreadsInv, IrqRight, HandlerRight
<1>18. IrqRight'
  <2> SUFFICES ASSUME NEW e \in CPUs PROVE HandlerRight(e)'
    BY DEF IrqRight
  <2>1. CASE e = c
    BY <1>10, <2>1, NoIrqIsHandler DEF HandlerRight, NoIrq
  <2>2. CASE e # c
    <3>1. HandlerRight(e) /\ irq'[e] = irq[e] /\ irq[e].at # "wake" /\ IrqTypes
      BY <1>10, <1>17, <2>2 DEF ThreadsInv, IrqRight, AllTypes
    <3> QED
      BY <1>2, <1>7, <1>13, <3>1, HandlerStays DEF AllTypes
  <2> QED
    BY <2>1, <2>2
<1>19. ListsDistinct'
  BY <1>7, <1>12, <1>15 DEF ThreadsInv, ListsDistinct
<1>20. ListsRight'
  <2>1. \A e \in CPUs, u \in Threads : irq'[e].target # u
    BY <1>15, <1>17, ThreadsAssumption
  <2>2. \A u \in Threads : Asleep(u) => u # t /\ t_state[u] = "SLEEP"
    BY <1>4 DEF ThreadsInv, ListsRight
  <2>3. ASSUME NEW e \in CPUs, NEW u \in Threads
        PROVE  /\ Ready(e, u)' => t_state'[u] = "READY" /\ t_cpu'[u] = e /\ ~ Moving(e, u)'
               /\ Moving(e, u)' => t_state'[u] = "READY" /\ t_cpu'[u] = e
               /\ Dead(e, u)' => t_state'[u] = "ZOMBIE" /\ t_cpu'[u] = e
    <3>1. CASE u = t
      BY <1>3, <1>4, <1>7, <1>11, <1>12, <1>16, <3>1
    <3>2. CASE u # t
      BY <1>7, <1>11, <1>12, <1>16, <3>2 DEF ThreadsInv, ListsRight
    <3> QED
      BY <3>1, <3>2
  <2> QED
    BY <1>11, <1>16, <2>1, <2>2, <2>3 DEF ListsRight
<1>21. CurrentRight'
  BY <1>3, <1>5, <1>6, <1>7, <1>9, <1>10, <1>11, <1>12, <1>16, NoIrqIsHandler
  DEF ThreadsInv, CurrentRight
<1>22. WaitingRight'
  <2>1. \A u \in Threads : t_cpu[u] \in CPUs
    BY <1>2 DEF ThreadTypes
  <2>2. \A u \in Threads :
          /\ Ready(t_cpu[u], u)' <=> Ready(t_cpu[u], u) \/ (t_cpu[u] = d /\ u = t)
          /\ Moving(t_cpu[u], u)' <=> Moving(t_cpu[u], u)
    BY <1>7, <1>12, <1>16, <2>1
  <2> QED
    BY <1>3, <1>4, <1>11, <1>12, <1>16, <2>2 DEF ThreadsInv, WaitingRight
<1>23. ChildRight'
  BY <1>4, <1>7, <1>11, <1>12, <1>16 DEF ThreadsInv, ChildRight
<1>24. NoLostWakeup'
  <2>1. t \in Woken'
    <3>1. pc[t] \in Left \union {"back"}
      BY <1>3, <1>4, <1>5 DEF ThreadsInv, WaitingRight, Current
    <3> QED
      BY <1>3, <1>4, <1>11, <1>12, <3>1 DEF Woken, Left
  <2>2. \A u \in Threads : u \in Woken => u \in Woken'
    <3> SUFFICES ASSUME NEW u \in Threads, u \in Woken, u # t PROVE u \in Woken'
      BY <2>1
    <3>1. \A e \in CPUs : irq[e].target # u
      BY <1>3, <1>17, ThreadsAssumption
    <3> QED
      BY <1>11, <1>12, <3>1 DEF Woken
  <2>3. sem_count' <= sem_count
    BY <1>12, ThreadsAssumption DEF ThreadsInv, AllTypes, SemTypes
  <2> QED
    BY <1>12, <1>13, <2>2, <2>3, NobodyForgotten DEF ThreadsInv
<1> QED
  BY <1>13, <1>18, <1>19, <1>20, <1>21, <1>22, <1>23, <1>24 DEF ThreadsInv

LEMMA ForkMakeRunnableKeeps ==
  ASSUME ThreadsInv, NEW c \in CPUs, NEW s \in Threads, ForkMakeRunnable(c, s)
  PROVE  ThreadsInv'
<1> DEFINE t == child[s]
           d == t_cpu[t]
<1>1. /\ irq[c].at = "none" /\ c_curthread[c] = s /\ pc[s] = "fork"
      /\ t_state' = [t_state EXCEPT ![t] = "READY"]
      /\ c_runqueue' = [c_runqueue EXCEPT ![d] = Append(@, t)]
      /\ ipi_unidle(c, d)
      /\ child' = [child EXCEPT ![s] = NULL]
      /\ pc' = [pc EXCEPT ![s] = "run"]
      /\ UNCHANGED <<c_curthread, c_isidle, c_zombies, runqueue_lock, t_cpu, ret,
                     semvars, irq>>
  BY DEF ForkMakeRunnable, thread_make_runnable, At, Goto
<1>2. CpuTypes /\ ThreadTypes /\ ListTypes /\ ListsDistinct
  BY DEF ThreadsInv, AllTypes
<1>3. t \in Threads /\ d \in CPUs /\ child[s] = t /\ t_cpu[t] = d
  <2>1. child[s] # NULL
    BY <1>1 DEF ThreadsInv, ChildRight
  <2> QED
    BY <1>2, <2>1 DEF ThreadTypes
<1> HIDE DEF t, d
<1>4. /\ t_state[t] = "READY" /\ pc[t] = "back" /\ ~ Current(t)
      /\ \A e \in CPUs : ~ Ready(e, t) /\ ~ Moving(e, t)
      /\ \A r \in Threads : child[r] = t => r = s
  BY <1>3 DEF ThreadsInv, ChildRight
<1>5. Current(s) /\ s # t /\ ret[s] = "run" /\ \A e \in CPUs : c_curthread[e] = s => e = c
  BY <1>1, <1>4 DEF ThreadsInv, Current, WaitingRight, CurrentRight
<1>6. t_state[s] \in {"READY", "RUN"} /\ ~ Ready(c, s) /\ ~ Moving(c, s) /\ t_cpu[s] = c
  BY <1>1 DEF ThreadsInv, CurrentRight, Left
<1>7. /\ c_runqueue' \in [CPUs -> Seq(Threads)]
      /\ \A e \in CPUs, u \in Threads : Ready(e, u)' <=> Ready(e, u) \/ (e = d /\ u = t)
      /\ \A e \in CPUs : /\ IsInjective(c_runqueue'[e])
                         /\ Len(c_runqueue[e]) <= Len(c_runqueue'[e])
      /\ \A e \in CPUs \ {d} : c_runqueue'[e] = c_runqueue[e]
  BY <1>1, <1>2, <1>3, <1>4, QueueAdd
<1>8. /\ c_ipi_pending' \in [CPUs -> BOOLEAN]
      /\ \A e \in CPUs : pc[c_curthread[e]] = "idle" /\ c_runqueue'[e] # <<>> => c_ipi_pending'[e]
  BY <1>1, <1>3, <1>7, IdleIsTold
<1>9. /\ t_state' = t_state
      /\ pc' \in [Threads -> PCs] /\ pc'[s] = "run"
      /\ child' \in [Threads -> Threads \union {NULL}] /\ child'[s] = NULL
      /\ \A u \in Threads \ {s} : pc'[u] = pc[u] /\ child'[u] = child[u]
  BY <1>1, <1>2, <1>3, <1>4 DEF ThreadTypes, PCs
<1>10. UNCHANGED <<c_curthread, c_isidle, c_zombies, runqueue_lock, t_state, t_cpu, ret,
                   sem_count, sem_wchan, sem_lock, irq>>
  BY <1>1, <1>9 DEF semvars
<1>11. AllTypes'
  BY <1>7, <1>8, <1>9, <1>10
  DEF ThreadsInv, AllTypes, ThreadTypes, CpuTypes, ListTypes, SemTypes, IrqTypes
<1>12. /\ \A e \in CPUs, u \in Threads : Moving(e, u)' <=> Moving(e, u)
       /\ \A e \in CPUs, u \in Threads : Dead(e, u)' <=> Dead(e, u)
       /\ \A u \in Threads : Asleep(u)' <=> Asleep(u)
       /\ \A u : Current(u)' <=> Current(u)
  BY <1>10 DEF Moving, Dead, Asleep, Current
<1>13. IrqRight'
  BY <1>7, <1>10, <1>11, HandlersStay DEF AllTypes
<1>14. ListsDistinct'
  BY <1>7, <1>10 DEF ThreadsInv, ListsDistinct
<1>15. ListsRight'
  BY <1>3, <1>4, <1>7, <1>10, <1>12 DEF ThreadsInv, ListsRight
<1>16. CurrentRight'
  <2> SUFFICES ASSUME NEW e \in CPUs, NEW u \in Threads, c_curthread'[e] = u
               PROVE  /\ \A f \in CPUs : c_curthread'[f] = u => f = e
                      /\ t_cpu'[u] = e
                      /\ t_state'[u] # "NONE"
                      /\ pc'[u] \notin Left => /\ t_state'[u] \in {"READY", "RUN"}
                                               /\ ~ Ready(e, u)' /\ ~ Moving(e, u)'
                      /\ pc'[u] \in Left => c_isidle'[e] /\ t_state'[u] # "RUN"
                      /\ irq'[e].at # "none"
                           => pc'[u] \in {"run", "P", "fork", "yield", "unidle"}
                      /\ pc'[u] = "sleep" => sem_lock' = e /\ sem_count' = 0
                      /\ pc'[u] = "idle" /\ c_runqueue'[e] # <<>> => c_ipi_pending'[e]
    BY DEF CurrentRight
  <2>1. CASE u = s
    <3>1. e = c
      BY <1>5, <1>10, <2>1
    <3> QED
      BY <1>5, <1>6, <1>7, <1>9, <1>10, <1>12, <2>1, <3>1 DEF Left
  <2>2. CASE u # s
    <3>1. u # t
      BY <1>4, <1>10 DEF Current
    <3> QED
      BY <1>7, <1>8, <1>9, <1>10, <1>12, <2>2, <3>1 DEF ThreadsInv, CurrentRight
  <2> QED
    BY <2>1, <2>2
<1>17. WaitingRight'
  <2>1. \A u \in Threads : t_cpu[u] \in CPUs
    BY <1>2 DEF ThreadTypes
  <2>2. \A u \in Threads :
          /\ Ready(t_cpu[u], u)' <=> Ready(t_cpu[u], u) \/ (t_cpu[u] = d /\ u = t)
          /\ Moving(t_cpu[u], u)' <=> Moving(t_cpu[u], u)
    BY <1>7, <1>10, <1>12, <2>1
  <2>3. \A u \in Threads \ {t} :
          (\E r \in Threads : child[r] = u) => \E r \in Threads : child'[r] = u
    BY <1>3, <1>9
  <2> SUFFICES ASSUME NEW u \in Threads
               PROVE  /\ ~ Current(u)' => /\ t_state'[u] # "RUN"
                                          /\ t_state'[u] # "NONE" => pc'[u] = "back"
                      /\ pc'[u] \in {"run", "P", "fork", "sleep"} => ret'[u] = "run"
                      /\ t_state'[u] = "SLEEP" => ret'[u] = "P"
                      /\ t_state'[u] \in {"NONE", "ZOMBIE"} => ret'[u] = "run"
                      /\ t_state'[u] = "READY" =>
                           \/ Ready(t_cpu[u], u)' \/ Moving(t_cpu[u], u)'
                           \/ \E r \in Threads : child'[r] = u
                           \/ Current(u)' /\ pc'[u] \notin Left
    BY DEF WaitingRight
  <2>4. CASE u = t
    BY <1>3, <1>4, <1>5, <1>9, <1>10, <1>12, <2>2, <2>4
  <2>5. CASE u = s
    BY <1>5, <1>6, <1>9, <1>10, <1>12, <2>5 DEF Left
  <2>6. CASE u # t /\ u # s
    BY <1>9, <1>10, <1>12, <2>2, <2>3, <2>6 DEF ThreadsInv, WaitingRight
  <2> QED
    BY <2>4, <2>5, <2>6
<1>18. ChildRight'
  <2> SUFFICES ASSUME NEW r \in Threads
               PROVE  /\ child'[r] # NULL <=> pc'[r] = "fork" \/ ret'[r] = "fork"
                      /\ \A u \in Threads : child'[r] = u =>
                           /\ t_state'[u] = "READY" /\ pc'[u] = "back" /\ ~ Current(u)'
                           /\ \A e \in CPUs : ~ Ready(e, u)' /\ ~ Moving(e, u)'
                           /\ \A q \in Threads : child'[q] = u => q = r
    BY DEF ChildRight
  <2>1. CASE r = s
    BY <1>5, <1>9, <1>10, <2>1, ThreadsAssumption
  <2>2. CASE r # s
    <3>1. child'[r] # NULL <=> pc'[r] = "fork" \/ ret'[r] = "fork"
      BY <1>9, <1>10, <2>2 DEF ThreadsInv, ChildRight
    <3>2. ASSUME NEW u \in Threads, child'[r] = u
          PROVE  /\ t_state'[u] = "READY" /\ pc'[u] = "back" /\ ~ Current(u)'
                 /\ \A e \in CPUs : ~ Ready(e, u)' /\ ~ Moving(e, u)'
                 /\ \A q \in Threads : child'[q] = u => q = r
      <4>1. child[r] = u /\ u # t
        BY <1>4, <1>9, <2>2, <3>2
      <4>2. u # s
        BY <1>5, <4>1 DEF ThreadsInv, ChildRight
      <4>3. \A q \in Threads : child'[q] = u => child[q] = u
        BY <1>9, ThreadsAssumption
      <4> QED
        BY <1>7, <1>9, <1>10, <1>12, <4>1, <4>2, <4>3 DEF ThreadsInv, ChildRight
    <3> QED
      BY <3>1, <3>2
  <2> QED
    BY <2>1, <2>2
<1>19. NoLostWakeup'
  <2>1. \A u \in Threads \ {s} :
             pc'[u] = pc[u] /\ ret'[u] = ret[u] /\ t_state'[u] = t_state[u]
    BY <1>9, <1>10
  <2>2. pc[s] # "P" /\ ret[s] # "P"
    BY <1>1, <1>5
  <2> QED
    BY <1>10, <1>11, <2>1, <2>2, WokenBut
<1> QED
  BY <1>11, <1>13, <1>14, <1>15, <1>16, <1>17, <1>18, <1>19 DEF ThreadsInv

LEMMA SendKeeps ==
  ASSUME ThreadsInv, NEW c \in CPUs, Send(c)
  PROVE  ThreadsInv'
<1> DEFINE h == irq[c]
           v == h.victims
           t == Head(v)
           d == h.i
           g1 == [h EXCEPT !.victims = Tail(v)]
           g == [g1 EXCEPT !.to_send = g1.to_send - 1]
<1>1. CpuTypes /\ ThreadTypes /\ ListTypes /\ ListsDistinct /\ irq \in [CPUs -> Handlers]
  BY DEF ThreadsInv, AllTypes, IrqTypes
<1>2. /\ h \in Handlers /\ h.at = "giving" /\ h.to_send > 0 /\ t # c_curthread[c]
      /\ t_cpu' = [t_cpu EXCEPT ![t] = d]
      /\ c_runqueue' = [c_runqueue EXCEPT ![d] = Append(@, t)]
      /\ irq' = [irq EXCEPT ![c].victims = Tail(@), ![c].to_send = @ - 1]
      /\ ipi_unidle(c, d)
      /\ UNCHANGED <<c_curthread, c_isidle, c_zombies, runqueue_lock, t_state,
                     pc, ret, child, semvars>>
  BY <1>1 DEF Send, Room, Keeps
<1>3. h.target = NULL /\ h.to_send <= Len(v) /\ d \in CPUs \ {c}
  BY <1>2 DEF ThreadsInv, IrqRight, HandlerRight
<1>4. v \in Seq(Threads) /\ h.to_send \in Nat /\ IsInjective(v) /\ v # <<>>
  <2>1. v \in Seq(Threads) /\ h.to_send \in Nat
    BY <1>2 DEF Handlers
  <2>2. v # <<>>
    BY <1>2, <1>3, <2>1, EmptyList
  <2> QED
    BY <1>1, <2>1, <2>2 DEF ListsDistinct
<1>5. irq[c].at = "giving" /\ irq[c].victims = v /\ irq[c].target = NULL
  BY <1>2, <1>3
<1>6. irq' = [irq EXCEPT ![c] = g]
  BY <1>1, <1>2 DEF Handlers
<1>7. /\ t \in Threads /\ Contains(v, t)
      /\ Tail(v) \in Seq(Threads) /\ Len(Tail(v)) = Len(v) - 1
      /\ \A u : Contains(Tail(v), u) <=> Contains(v, u) /\ u # t
      /\ IsInjective(Tail(v))
  <2> HIDE DEF v
  <2> QED
    BY <1>4, RemoveHead
<1>8. h.to_send - 1 \in Nat /\ h.to_send - 1 <= Len(Tail(v))
  <2>1. Len(v) \in Nat
    BY <1>4, LenProperties
  <2> QED
    BY <1>2, <1>3, <1>4, <1>7, <2>1
<1> HIDE DEF h, v, t, d
<1>9. /\ g1 \in Handlers /\ g1.at = "giving" /\ g1.target = h.target
      /\ g1.victims = Tail(v) /\ g1.to_send = h.to_send /\ g1.i = d
  BY <1>2, <1>7 DEF Handlers, d
<1> HIDE DEF g1
<1>10. /\ g \in Handlers /\ g.at = "giving" /\ g.target = h.target
       /\ g.victims = Tail(v) /\ g.to_send = h.to_send - 1 /\ g.i = d
  BY <1>8, <1>9 DEF Handlers
<1> HIDE DEF g
<1>11. /\ irq' \in [CPUs -> Handlers] /\ irq'[c] = g
       /\ \A e \in CPUs \ {c} : irq'[e] = irq[e]
  BY <1>6, <1>10, SetHandler DEF ThreadsInv, AllTypes
<1>12. Moving(c, t) /\ t_state[t] = "READY" /\ t_cpu[t] = c
  <2>1. Moving(c, t)
    BY <1>5, <1>7 DEF Moving
  <2> QED
    BY <1>7, <2>1 DEF ThreadsInv, ListsRight
<1>13. /\ ~ Current(t) /\ \A r \in Threads : child[r] # t
       /\ \A e \in CPUs : ~ Ready(e, t) /\ ~ Dead(e, t) /\ (Moving(e, t) => e = c)
  BY <1>2, <1>7, <1>12 DEF ThreadsInv, ListsRight, CurrentRight, ChildRight, Current
<1>14. /\ c_runqueue' \in [CPUs -> Seq(Threads)]
       /\ \A e \in CPUs, u \in Threads : Ready(e, u)' <=> Ready(e, u) \/ (e = d /\ u = t)
       /\ \A e \in CPUs : /\ IsInjective(c_runqueue'[e])
                          /\ Len(c_runqueue[e]) <= Len(c_runqueue'[e])
       /\ \A e \in CPUs \ {d} : c_runqueue'[e] = c_runqueue[e]
  BY <1>1, <1>2, <1>3, <1>7, <1>13, QueueAdd
<1>15. pc[c_curthread[c]] # "idle"
  BY <1>1, <1>5 DEF ThreadsInv, CurrentRight, CpuTypes
<1>16. /\ c_ipi_pending' \in [CPUs -> BOOLEAN]
       /\ \A e \in CPUs : pc[c_curthread[e]] = "idle" /\ c_runqueue'[e] # <<>> => c_ipi_pending'[e]
  BY <1>2, <1>3, <1>14, <1>15, IdleIsTold
<1>17. /\ t_cpu' \in [Threads -> CPUs] /\ t_cpu'[t] = d
       /\ \A u \in Threads \ {t} : t_cpu'[u] = t_cpu[u]
  BY <1>1, <1>2, <1>3, <1>7 DEF ThreadTypes
<1>18. UNCHANGED <<c_curthread, c_isidle, c_zombies, runqueue_lock, t_state, pc, ret, child,
                   sem_count, sem_wchan, sem_lock>>
  BY <1>2 DEF semvars
<1>19. AllTypes'
  BY <1>11, <1>14, <1>16, <1>17, <1>18
  DEF ThreadsInv, AllTypes, ThreadTypes, CpuTypes, ListTypes, SemTypes, IrqTypes
<1>20. \A e \in CPUs : irq'[e].target = irq[e].target
  BY <1>3, <1>5, <1>10, <1>11
<1>21. /\ \A e \in CPUs, u \in Threads : Moving(e, u)' <=> Moving(e, u) /\ ~ (e = c /\ u = t)
       /\ \A e \in CPUs, u \in Threads : Dead(e, u)' <=> Dead(e, u)
       /\ \A u \in Threads : Asleep(u)' <=> Asleep(u)
       /\ \A u : Current(u)' <=> Current(u)
  BY <1>5, <1>7, <1>10, <1>11, <1>18 DEF Moving, Dead, Asleep, Current
<1>22. IrqRight'
  <2> SUFFICES ASSUME NEW e \in CPUs PROVE HandlerRight(e)'
    BY DEF IrqRight
  <2>1. CASE e = c
    <3>1. g.to_send <= Len(g.victims)
      BY <1>8, <1>10
    <3>2. g.target = NULL /\ g.i \in CPUs \ {c} /\ g.at = "giving"
      BY <1>3, <1>10
    <3> QED
      BY <1>11, <2>1, <3>1, <3>2 DEF HandlerRight
  <2>2. CASE e # c
    <3>1. HandlerRight(e) /\ irq'[e] = irq[e] /\ IrqTypes
      BY <1>11, <2>2 DEF ThreadsInv, IrqRight, AllTypes
    <3> QED
      BY <1>1, <1>14, <1>18, <1>19, <3>1, HandlerStays DEF AllTypes
  <2> QED
    BY <2>1, <2>2
<1>23. ListsDistinct'
  <2>1. \A e \in CPUs : IsInjective(irq'[e].victims)
    BY <1>1, <1>7, <1>10, <1>11 DEF ListsDistinct
  <2> QED
    BY <1>1, <1>14, <1>18, <2>1 DEF ListsDistinct
<1>24. ListsRight'
  <2>1. ASSUME NEW e \in CPUs, NEW u \in Threads
        PROVE  /\ Ready(e, u)' => t_state'[u] = "READY" /\ t_cpu'[u] = e /\ ~ Moving(e, u)'
               /\ Moving(e, u)' => t_state'[u] = "READY" /\ t_cpu'[u] = e
               /\ Dead(e, u)' => t_state'[u] = "ZOMBIE" /\ t_cpu'[u] = e
               /\ irq'[e].target = u => t_state'[u] = "SLEEP" /\ ~ Asleep(u)'
    <3>1. CASE u = t
      <4>1. irq'[e].target # u
        BY <1>7, <1>12, <1>20, <3>1 DEF ThreadsInv, ListsRight
      <4>2. /\ ~ Moving(e, u)' /\ ~ Dead(e, u)' /\ (Ready(e, u)' => e = d)
        BY <1>13, <1>14, <1>21, <3>1
      <4>3. t_state'[u] = "READY" /\ t_cpu'[u] = d
        BY <1>12, <1>17, <1>18, <3>1
      <4> QED
        BY <4>1, <4>2, <4>3
    <3>2. CASE u # t
      <4>1. /\ Ready(e, u)' <=> Ready(e, u)
            /\ Moving(e, u)' <=> Moving(e, u)
            /\ Dead(e, u)' <=> Dead(e, u)
            /\ Asleep(u)' <=> Asleep(u)
        BY <1>14, <1>21, <3>2
      <4>2. t_state'[u] = t_state[u] /\ t_cpu'[u] = t_cpu[u] /\ irq'[e].target = irq[e].target
        BY <1>17, <1>18, <1>20, <3>2
      <4> QED
        BY <4>1, <4>2 DEF ThreadsInv, ListsRight
    <3> QED
      BY <3>1, <3>2
  <2> QED
    BY <1>18, <1>21, <2>1 DEF ThreadsInv, ListsRight
<1>25. CurrentRight'
  <2> SUFFICES ASSUME NEW e \in CPUs, NEW u \in Threads, c_curthread'[e] = u
               PROVE  /\ \A f \in CPUs : c_curthread'[f] = u => f = e
                      /\ t_cpu'[u] = e
                      /\ t_state'[u] # "NONE"
                      /\ pc'[u] \notin Left => /\ t_state'[u] \in {"READY", "RUN"}
                                               /\ ~ Ready(e, u)' /\ ~ Moving(e, u)'
                      /\ pc'[u] \in Left => c_isidle'[e] /\ t_state'[u] # "RUN"
                      /\ irq'[e].at # "none"
                           => pc'[u] \in {"run", "P", "fork", "yield", "unidle"}
                      /\ pc'[u] = "sleep" => sem_lock' = e /\ sem_count' = 0
                      /\ pc'[u] = "idle" /\ c_runqueue'[e] # <<>> => c_ipi_pending'[e]
    BY DEF CurrentRight
  <2>1. u # t
    BY <1>13, <1>18 DEF Current
  <2>2. irq'[e].at # "none" => irq[e].at # "none"
    BY <1>5, <1>11
  <2>3. /\ Ready(e, u)' <=> Ready(e, u)
        /\ Moving(e, u)' <=> Moving(e, u)
        /\ t_cpu'[u] = t_cpu[u]
    BY <1>14, <1>17, <1>21, <2>1
  <2>4. pc'[u] = "idle" /\ c_runqueue'[e] # <<>> => c_ipi_pending'[e]
    BY <1>16, <1>18
  <2> QED
    BY <1>18, <2>2, <2>3, <2>4 DEF ThreadsInv, CurrentRight
<1>26. WaitingRight'
  <2> SUFFICES ASSUME NEW u \in Threads
               PROVE  /\ ~ Current(u)' => /\ t_state'[u] # "RUN"
                                          /\ t_state'[u] # "NONE" => pc'[u] = "back"
                      /\ pc'[u] \in {"run", "P", "fork", "sleep"} => ret'[u] = "run"
                      /\ t_state'[u] = "SLEEP" => ret'[u] = "P"
                      /\ t_state'[u] \in {"NONE", "ZOMBIE"} => ret'[u] = "run"
                      /\ t_state'[u] = "READY" =>
                           \/ Ready(t_cpu[u], u)' \/ Moving(t_cpu[u], u)'
                           \/ \E r \in Threads : child'[r] = u
                           \/ Current(u)' /\ pc'[u] \notin Left
    BY DEF WaitingRight
  <2>1. CASE u = t
    <3>1. Ready(t_cpu[u], u)'
      BY <1>3, <1>7, <1>14, <1>17, <2>1
    <3> QED
      BY <1>13, <1>18, <1>21, <2>1, <3>1 DEF ThreadsInv, WaitingRight
  <2>2. CASE u # t
    <3>1. t_cpu[u] \in CPUs /\ t_cpu'[u] = t_cpu[u]
      BY <1>1, <1>17, <2>2 DEF ThreadTypes
    <3>2. /\ Ready(t_cpu[u], u)' <=> Ready(t_cpu[u], u)
          /\ Moving(t_cpu[u], u)' <=> Moving(t_cpu[u], u)
      BY <1>14, <1>21, <2>2, <3>1
    <3> QED
      BY <1>18, <1>21, <3>2 DEF ThreadsInv, WaitingRight
  <2> QED
    BY <2>1, <2>2
<1>27. ChildRight'
  BY <1>13, <1>14, <1>18, <1>21 DEF ThreadsInv, ChildRight
<1>28. NoLostWakeup'
  BY <1>7, <1>18, <1>19, <1>20, WokenBut
<1> QED
  BY <1>19, <1>22, <1>23, <1>24, <1>25, <1>26, <1>27, <1>28 DEF ThreadsInv

-----------------------------------------------------------------------------
\* Switch: the head of the run queue becomes the current thread.
LEMMA SwitchKeeps ==
  ASSUME ThreadsInv, NEW c \in CPUs, NEW t \in Threads, Switch(c, t)
  PROVE  ThreadsInv'
<1> DEFINE q == c_runqueue[c]
           n == Head(q)
<1>1. /\ irq[c].at = "none" /\ c_curthread[c] = t /\ pc[t] = "pick" /\ q # <<>>
      /\ c_curthread' = [c_curthread EXCEPT ![c] = n]
      /\ c_runqueue' = [c_runqueue EXCEPT ![c] = Tail(q)]
      /\ c_isidle' = [c_isidle EXCEPT ![c] = FALSE]
      /\ pc' = [pc EXCEPT ![t] = "back"]
      /\ UNCHANGED <<c_zombies, c_ipi_pending, runqueue_lock, t_state, t_cpu, ret,
                     child, sem_count, sem_wchan, sem_lock, irq>>
  BY DEF Switch, At, Goto, semvars
<1>2. CpuTypes /\ ThreadTypes /\ ListTypes /\ ListsDistinct
  BY DEF ThreadsInv, AllTypes
<1>3. q \in Seq(Threads) /\ IsInjective(q) /\ c_runqueue[c] = q
  BY <1>2 DEF ListTypes, ListsDistinct
<1>4. /\ n \in Threads /\ Contains(q, n)
      /\ Tail(q) \in Seq(Threads)
      /\ \A u : Contains(Tail(q), u) <=> Contains(q, u) /\ u # n
      /\ IsInjective(Tail(q))
  <2> HIDE DEF q
  <2> QED
    BY <1>1, <1>3, RemoveHead
<1> HIDE DEF q, n
<1>5. Ready(c, n) /\ t_state[n] = "READY" /\ t_cpu[n] = c /\ ~ Moving(c, n)
  <2>1. Ready(c, n)
    BY <1>3, <1>4 DEF Ready
  <2> QED
    BY <1>4, <2>1 DEF ThreadsInv, ListsRight
<1>6. /\ t_cpu[t] = c /\ t_state[t] # "RUN" /\ Current(t)
      /\ \A e \in CPUs : c_curthread[e] = t => e = c
  BY <1>1 DEF ThreadsInv, CurrentRight, Current, Left
<1>7. /\ \A e \in CPUs : c_curthread[e] = n => e = c
      /\ n # t => ~ Current(n) /\ pc[n] = "back"
  <2>1. \A e \in CPUs : c_curthread[e] = n => e = c
    BY <1>4, <1>5 DEF ThreadsInv, CurrentRight
  <2>2. n # t => ~ Current(n)
    BY <1>1, <2>1 DEF Current
  <2>3. n # t => pc[n] = "back"
    BY <1>4, <1>5, <2>2 DEF ThreadsInv, WaitingRight
  <2> QED
    BY <2>1, <2>2, <2>3
<1>8. /\ c_curthread' \in [CPUs -> Threads] /\ c_curthread'[c] = n
      /\ \A e \in CPUs \ {c} : c_curthread'[e] = c_curthread[e]
      /\ c_isidle' \in [CPUs -> BOOLEAN]
      /\ \A e \in CPUs \ {c} : c_isidle'[e] = c_isidle[e]
  BY <1>1, <1>2, <1>4 DEF CpuTypes
<1>9. /\ c_runqueue' \in [CPUs -> Seq(Threads)] /\ c_runqueue'[c] = Tail(q)
      /\ \A e \in CPUs \ {c} : c_runqueue'[e] = c_runqueue[e]
  BY <1>1, <1>2, <1>4 DEF ListTypes
<1>10. /\ pc' \in [Threads -> PCs] /\ pc'[t] = "back" /\ pc'[n] = "back"
       /\ \A u \in Threads \ {t} : pc'[u] = pc[u]
  BY <1>1, <1>2, <1>4, <1>7 DEF ThreadTypes, PCs
<1>11. UNCHANGED <<c_zombies, c_ipi_pending, runqueue_lock, t_state, t_cpu, ret,
                   child, sem_count, sem_wchan, sem_lock, irq>>
  BY <1>1
<1>12. AllTypes'
  BY <1>8, <1>9, <1>10, <1>11
  DEF ThreadsInv, AllTypes, ThreadTypes, CpuTypes, ListTypes, SemTypes, IrqTypes
<1>13. \A e \in CPUs, u \in Threads : Ready(e, u)' <=> Ready(e, u) /\ ~ (e = c /\ u = n)
  BY <1>3, <1>4, <1>9 DEF Ready
<1>14. /\ \A e \in CPUs, u \in Threads : Moving(e, u)' <=> Moving(e, u)
       /\ \A e \in CPUs, u \in Threads : Dead(e, u)' <=> Dead(e, u)
       /\ \A u \in Threads : Asleep(u)' <=> Asleep(u)
  BY <1>11 DEF Moving, Dead, Asleep
<1>15. \A u \in Threads : Current(u)' <=> u = n \/ (Current(u) /\ u # t)
  <2> SUFFICES ASSUME NEW u \in Threads
               PROVE  Current(u)' <=> u = n \/ (Current(u) /\ u # t)
    OBVIOUS
  <2>1. ASSUME NEW e \in CPUs, c_curthread'[e] = u PROVE u = n \/ (Current(u) /\ u # t)
    BY <1>6, <1>8, <2>1 DEF Current
  <2>2. ASSUME Current(u), u # t PROVE \E e \in CPUs : c_curthread'[e] = u
    BY <1>1, <1>8, <2>2 DEF Current
  <2>3. \E e \in CPUs : c_curthread'[e] = n
    BY <1>8
  <2>4. Current(u)' <=> \E e \in CPUs : c_curthread'[e] = u
    BY DEF Current
  <2> QED
    BY <2>1, <2>2, <2>3, <2>4
<1>16. IrqRight'
  <2> SUFFICES ASSUME NEW e \in CPUs PROVE HandlerRight(e)'
    BY DEF IrqRight
  <2>1. HandlerRight(e) /\ IrqTypes /\ irq'[e] = irq[e] /\ sem_lock' = sem_lock
    BY <1>11 DEF ThreadsInv, IrqRight, AllTypes
  <2>2. irq[e].at \in {"count", "take"} => Len(c_runqueue[e]) <= Len(c_runqueue'[e])
    <3>1. CASE e = c
      BY <1>1, <3>1
    <3>2. CASE e # c
      <4>1. c_runqueue'[e] = c_runqueue[e] /\ c_runqueue[e] \in Seq(Threads)
        BY <1>2, <1>9, <3>2 DEF ListTypes
      <4>2. Len(c_runqueue[e]) \in Nat
        BY <4>1, LenProperties
      <4> QED
        BY <4>1, <4>2
    <3> QED
      BY <3>1, <3>2
  <2> QED
    BY <1>2, <1>12, <2>1, <2>2, HandlerStays DEF AllTypes
<1>17. ListsDistinct'
  <2>1. \A e \in CPUs : IsInjective(c_runqueue'[e])
    BY <1>2, <1>4, <1>9 DEF ListsDistinct
  <2> QED
    BY <1>2, <1>11, <2>1 DEF ListsDistinct
<1>18. ListsRight'
  BY <1>11, <1>13, <1>14 DEF ThreadsInv, ListsRight
<1>19. CurrentRight'
  <2> SUFFICES ASSUME NEW e \in CPUs, NEW u \in Threads, c_curthread'[e] = u
               PROVE  /\ \A f \in CPUs : c_curthread'[f] = u => f = e
                      /\ t_cpu'[u] = e
                      /\ t_state'[u] # "NONE"
                      /\ pc'[u] \notin Left => /\ t_state'[u] \in {"READY", "RUN"}
                                               /\ ~ Ready(e, u)' /\ ~ Moving(e, u)'
                      /\ pc'[u] \in Left => c_isidle'[e] /\ t_state'[u] # "RUN"
                      /\ irq'[e].at # "none"
                           => pc'[u] \in {"run", "P", "fork", "yield", "unidle"}
                      /\ pc'[u] = "sleep" => sem_lock' = e /\ sem_count' = 0
                      /\ pc'[u] = "idle" /\ c_runqueue'[e] # <<>> => c_ipi_pending'[e]
    BY DEF CurrentRight
  <2>1. CASE e = c
    <3>1. u = n
      BY <1>8, <2>1
    <3>2. \A f \in CPUs : c_curthread'[f] = u => f = e
      BY <1>7, <1>8, <2>1, <3>1
    <3>3. ~ Ready(e, u)' /\ ~ Moving(e, u)'
      BY <1>5, <1>13, <1>14, <2>1, <3>1
    <3> QED
      BY <1>1, <1>5, <1>10, <1>11, <2>1, <3>1, <3>2, <3>3 DEF Left
  <2>2. CASE e # c
    <3>1. c_curthread[e] = u /\ c_isidle'[e] = c_isidle[e] /\ c_runqueue'[e] = c_runqueue[e]
      BY <1>8, <1>9, <2>2
    <3>2. u # t /\ u # n
      BY <1>6, <1>7, <2>2, <3>1
    <3>3. \A f \in CPUs : c_curthread'[f] = u => f = e
      <4>1. \A f \in CPUs : c_curthread[f] = u => f = e
        BY <3>1 DEF ThreadsInv, CurrentRight
      <4> QED
        BY <1>8, <3>2, <4>1
    <3>4. /\ Ready(e, u)' <=> Ready(e, u)
          /\ Moving(e, u)' <=> Moving(e, u)
          /\ pc'[u] = pc[u]
      BY <1>10, <1>13, <1>14, <2>2, <3>2
    <3> QED
      BY <1>11, <3>1, <3>3, <3>4 DEF ThreadsInv, CurrentRight
  <2> QED
    BY <2>1, <2>2
<1>20. WaitingRight'
  <2>1. \A u \in Threads : t_cpu[u] \in CPUs
    BY <1>2 DEF ThreadTypes
  <2>2. \A u \in Threads : u # n =>
          /\ Ready(t_cpu[u], u)' <=> Ready(t_cpu[u], u)
          /\ Moving(t_cpu[u], u)' <=> Moving(t_cpu[u], u)
    BY <1>11, <1>13, <1>14, <2>1
  <2> SUFFICES ASSUME NEW u \in Threads
               PROVE  /\ ~ Current(u)' => /\ t_state'[u] # "RUN"
                                          /\ t_state'[u] # "NONE" => pc'[u] = "back"
                      /\ pc'[u] \in {"run", "P", "fork", "sleep"} => ret'[u] = "run"
                      /\ t_state'[u] = "SLEEP" => ret'[u] = "P"
                      /\ t_state'[u] \in {"NONE", "ZOMBIE"} => ret'[u] = "run"
                      /\ t_state'[u] = "READY" =>
                           \/ Ready(t_cpu[u], u)' \/ Moving(t_cpu[u], u)'
                           \/ \E r \in Threads : child'[r] = u
                           \/ Current(u)' /\ pc'[u] \notin Left
    BY DEF WaitingRight
  <2>3. CASE u = n
    BY <1>5, <1>10, <1>11, <1>15, <2>3 DEF Left
  <2>4. CASE u # n /\ u = t
    <3>1. t_state[u] = "READY" =>
            Ready(t_cpu[u], u) \/ Moving(t_cpu[u], u) \/ \E r \in Threads : child[r] = u
      BY <1>1, <2>4 DEF ThreadsInv, WaitingRight, Left
    <3>2. /\ t_state[u] = "SLEEP" => ret[u] = "P"
          /\ t_state[u] \in {"NONE", "ZOMBIE"} => ret[u] = "run"
      BY DEF ThreadsInv, WaitingRight
    <3> QED
      BY <1>6, <1>10, <1>11, <2>2, <2>4, <3>1, <3>2
  <2>5. CASE u # n /\ u # t
    BY <1>10, <1>11, <1>15, <2>2, <2>5 DEF ThreadsInv, WaitingRight
  <2> QED
    BY <2>3, <2>4, <2>5
<1>21. ChildRight'
  <2> SUFFICES ASSUME NEW r \in Threads
               PROVE  /\ child'[r] # NULL <=> pc'[r] = "fork" \/ ret'[r] = "fork"
                      /\ \A u \in Threads : child'[r] = u =>
                           /\ t_state'[u] = "READY" /\ pc'[u] = "back" /\ ~ Current(u)'
                           /\ \A e \in CPUs : ~ Ready(e, u)' /\ ~ Moving(e, u)'
                           /\ \A s \in Threads : child'[s] = u => s = r
    BY DEF ChildRight
  <2>1. pc'[r] = "fork" <=> pc[r] = "fork"
    BY <1>1, <1>10
  <2>2. ASSUME NEW u \in Threads, child[r] = u
        PROVE  u # n /\ u # t
    BY <1>5, <1>6, <2>2 DEF ThreadsInv, ChildRight
  <2> QED
    BY <1>10, <1>11, <1>13, <1>14, <1>15, <2>1, <2>2 DEF ThreadsInv, ChildRight
<1>22. NoLostWakeup'
  BY <1>1, <1>10, <1>11, <1>12, WokenBut
<1> QED
  BY <1>12, <1>16, <1>17, <1>18, <1>19, <1>20, <1>21, <1>22 DEF ThreadsInv

-----------------------------------------------------------------------------
\* The end of thread_switch: exorcise destroys the dead threads of this
\* processor, which are nobody's current thread.
LEMMA BackKeeps ==
  ASSUME ThreadsInv, NEW c \in CPUs, NEW t \in Threads, Back(c, t)
  PROVE  ThreadsInv'
<1> DEFINE dead == ToSet(c_zombies[c])
<1>1. /\ irq[c].at = "none" /\ c_curthread[c] = t /\ pc[t] = "back"
      /\ runqueue_lock' = [runqueue_lock EXCEPT ![c] = NULL]
      /\ t_state' = [u \in Threads |-> IF u = t THEN "RUN"
                                       ELSE IF u \in dead THEN "NONE" ELSE t_state[u]]
      /\ t_cpu' = [u \in Threads |-> IF u \in dead THEN 0 ELSE t_cpu[u]]
      /\ pc' = [u \in Threads |-> IF u = t THEN ret[t]
                                  ELSE IF u \in dead THEN "run" ELSE pc[u]]
      /\ ret' = [ret EXCEPT ![t] = "run"]
      /\ c_zombies' = [c_zombies EXCEPT ![c] = <<>>]
      /\ UNCHANGED <<c_curthread, c_isidle, c_runqueue, c_ipi_pending, child,
                     sem_count, sem_wchan, sem_lock, irq>>
  BY DEF Back, At, semvars
<1>2. CpuTypes /\ ThreadTypes /\ ListTypes /\ ListsDistinct /\ 0 \in CPUs
  BY ThreadsAssumption DEF ThreadsInv, AllTypes, CPUs
<1>3. \A u \in Threads : u \in dead <=> Dead(c, u)
  <2>1. c_zombies[c] \in Seq(Threads)
    BY <1>2 DEF ListTypes
  <2>2. DOMAIN c_zombies[c] = 1 .. Len(c_zombies[c])
    BY <2>1, LenProperties
  <2> QED
    BY <2>2 DEF ToSet, Dead, Contains
<1> HIDE DEF dead
<1>4. /\ t_cpu[t] = c /\ t_state[t] \in {"READY", "RUN"} /\ Current(t)
      /\ ~ Ready(c, t) /\ ~ Moving(c, t)
      /\ \A e \in CPUs : c_curthread[e] = t => e = c
  BY <1>1 DEF ThreadsInv, CurrentRight, Current, Left
<1>5. /\ \A e \in CPUs : ~ Ready(e, t) /\ ~ Moving(e, t) /\ ~ Dead(e, t) /\ irq[e].target # t
      /\ ~ Asleep(t)
      /\ \A r \in Threads : child[r] # t
  BY <1>4 DEF ThreadsInv, ListsRight, ChildRight
<1>6. ASSUME NEW z \in Threads, z \in dead
      PROVE  /\ t_state[z] = "ZOMBIE" /\ t_cpu[z] = c /\ z # t
             /\ \A e \in CPUs : ~ Ready(e, z) /\ ~ Moving(e, z) /\ irq[e].target # z
             /\ ~ Asleep(z)
             /\ \A r \in Threads : child[r] # z
  BY <1>3, <1>5, <1>6 DEF ThreadsInv, ListsRight, ChildRight
<1>7. ASSUME NEW z \in Threads, z \in dead
      PROVE  ~ Current(z) /\ ret[z] = "run" /\ pc[z] = "back" /\ child[z] = NULL
  <2>1. t_state[z] = "ZOMBIE" /\ t_cpu[z] = c /\ z # t
    BY <1>6, <1>7
  <2>2. ~ Current(z)
    BY <1>1, <2>1 DEF ThreadsInv, CurrentRight, Current
  <2>3. ret[z] = "run" /\ pc[z] = "back"
    BY <2>1, <2>2 DEF ThreadsInv, WaitingRight
  <2> QED
    BY <2>2, <2>3 DEF ThreadsInv, ChildRight
<1>8. /\ t_state'[t] = "RUN" /\ t_cpu'[t] = c /\ pc'[t] = ret[t] /\ ret'[t] = "run"
      /\ \A z \in Threads : z \in dead =>
           t_state'[z] = "NONE" /\ pc'[z] = "run" /\ ret'[z] = "run"
      /\ \A u \in Threads : u # t /\ u \notin dead =>
           t_state'[u] = t_state[u] /\ t_cpu'[u] = t_cpu[u] /\ pc'[u] = pc[u] /\ ret'[u] = ret[u]
      /\ \A u \in Threads : u \notin dead => t_cpu'[u] = t_cpu[u]
  <2>1. t \notin dead
    BY <1>6
  <2>2. \A u \in Threads : ret'[u] = IF u = t THEN "run" ELSE ret[u]
    BY <1>1, <1>2 DEF ThreadTypes
  <2> QED
    BY <1>1, <1>4, <1>6, <1>7, <2>1, <2>2
<1>9. UNCHANGED <<c_curthread, c_isidle, c_runqueue, c_ipi_pending, child,
                  sem_count, sem_wchan, sem_lock, irq>>
  BY <1>1
<1>10. /\ c_zombies' \in [CPUs -> Seq(Threads)] /\ c_zombies'[c] = <<>>
       /\ \A e \in CPUs \ {c} : c_zombies'[e] = c_zombies[e]
  BY <1>1, <1>2, EmptyList DEF ListTypes
<1>11. ThreadTypes'
  <2>1. t_state' \in [Threads -> States]
    BY <1>1, <1>2 DEF ThreadTypes, States
  <2>2. t_cpu' \in [Threads -> CPUs]
    BY <1>1, <1>2 DEF ThreadTypes
  <2>3. pc' \in [Threads -> PCs]
    BY <1>1, <1>2 DEF ThreadTypes, PCs
  <2>4. ret' \in [Threads -> {"run", "P", "fork"}]
    BY <1>1, <1>2 DEF ThreadTypes
  <2> QED
    BY <1>2, <1>9, <2>1, <2>2, <2>3, <2>4 DEF ThreadTypes
<1>12. AllTypes'
  BY <1>1, <1>2, <1>9, <1>10, <1>11
  DEF ThreadsInv, AllTypes, CpuTypes, ListTypes, SemTypes, IrqTypes
<1>13. /\ \A e \in CPUs, u \in Threads : Ready(e, u)' <=> Ready(e, u)
       /\ \A e \in CPUs, u \in Threads : Moving(e, u)' <=> Moving(e, u)
       /\ \A u \in Threads : Asleep(u)' <=> Asleep(u)
       /\ \A u : Current(u)' <=> Current(u)
  BY <1>9 DEF Ready, Moving, Asleep, Current
<1>14. \A e \in CPUs, u \in Threads : Dead(e, u)' <=> Dead(e, u) /\ e # c
  BY <1>10, EmptyList DEF Dead
<1>15. IrqRight'
  <2>1. \A d \in CPUs : Len(c_runqueue[d]) <= Len(c_runqueue'[d])
    <3>1. \A d \in CPUs : Len(c_runqueue[d]) \in Nat
      BY <1>2, LenProperties DEF ListTypes
    <3> QED
      BY <1>9, <3>1
  <2> QED
    BY <1>9, <1>12, <2>1, HandlersStay DEF AllTypes
<1>16. ListsDistinct'
  <2>1. \A e \in CPUs : IsInjective(c_zombies'[e])
    BY <1>2, <1>10, EmptyList DEF ListsDistinct
  <2> QED
    BY <1>2, <1>9, <2>1 DEF ListsDistinct
<1>17. ListsRight'
  <2> SUFFICES ASSUME NEW e \in CPUs, NEW u \in Threads
               PROVE  /\ Ready(e, u)' => t_state'[u] = "READY" /\ t_cpu'[u] = e /\ ~ Moving(e, u)'
                      /\ Moving(e, u)' => t_state'[u] = "READY" /\ t_cpu'[u] = e
                      /\ Dead(e, u)' => t_state'[u] = "ZOMBIE" /\ t_cpu'[u] = e
                      /\ irq'[e].target = u => t_state'[u] = "SLEEP" /\ ~ Asleep(u)'
                      /\ Asleep(u)' => t_state'[u] = "SLEEP"
    BY <1>2 DEF ListsRight
  <2>1. CASE u = t
    BY <1>5, <1>9, <1>13, <1>14, <2>1
  <2>2. CASE u \in dead
    <3>1. ~ Dead(e, u)'
      BY <1>3, <1>14, <2>2 DEF ThreadsInv, ListsRight
    <3> QED
      BY <1>6, <1>9, <1>13, <2>2, <3>1
  <2>3. CASE u # t /\ u \notin dead
    BY <1>8, <1>9, <1>13, <1>14, <2>3 DEF ThreadsInv, ListsRight
  <2> QED
    BY <2>1, <2>2, <2>3
<1>18. CurrentRight'
  <2> SUFFICES ASSUME NEW e \in CPUs, NEW u \in Threads, c_curthread'[e] = u
               PROVE  /\ \A f \in CPUs : c_curthread'[f] = u => f = e
                      /\ t_cpu'[u] = e
                      /\ t_state'[u] # "NONE"
                      /\ pc'[u] \notin Left => /\ t_state'[u] \in {"READY", "RUN"}
                                               /\ ~ Ready(e, u)' /\ ~ Moving(e, u)'
                      /\ pc'[u] \in Left => c_isidle'[e] /\ t_state'[u] # "RUN"
                      /\ irq'[e].at # "none"
                           => pc'[u] \in {"run", "P", "fork", "yield", "unidle"}
                      /\ pc'[u] = "sleep" => sem_lock' = e /\ sem_count' = 0
                      /\ pc'[u] = "idle" /\ c_runqueue'[e] # <<>> => c_ipi_pending'[e]
    BY DEF CurrentRight
  <2>1. CASE u = t
    <3>1. e = c
      BY <1>4, <1>9, <2>1
    <3>2. pc'[t] \in {"run", "P", "fork"}
      BY <1>2, <1>8 DEF ThreadTypes
    <3>3. pc'[t] \notin Left /\ pc'[t] # "sleep" /\ pc'[t] # "idle"
      BY <3>2 DEF Left
    <3> QED
      BY <1>1, <1>4, <1>8, <1>9, <1>13, <2>1, <3>1, <3>3
  <2>2. CASE u # t
    <3>1. u \notin dead
      BY <1>7, <1>9 DEF Current
    <3> QED
      BY <1>8, <1>9, <1>13, <2>2, <3>1 DEF ThreadsInv, CurrentRight
  <2> QED
    BY <2>1, <2>2
<1>19. WaitingRight'
  <2> SUFFICES ASSUME NEW u \in Threads
               PROVE  /\ ~ Current(u)' => /\ t_state'[u] # "RUN"
                                          /\ t_state'[u] # "NONE" => pc'[u] = "back"
                      /\ pc'[u] \in {"run", "P", "fork", "sleep"} => ret'[u] = "run"
                      /\ t_state'[u] = "SLEEP" => ret'[u] = "P"
                      /\ t_state'[u] \in {"NONE", "ZOMBIE"} => ret'[u] = "run"
                      /\ t_state'[u] = "READY" =>
                           \/ Ready(t_cpu[u], u)' \/ Moving(t_cpu[u], u)'
                           \/ \E r \in Threads : child'[r] = u
                           \/ Current(u)' /\ pc'[u] \notin Left
    BY DEF WaitingRight
  <2>1. CASE u = t
    BY <1>4, <1>8, <1>13, <2>1
  <2>2. CASE u \in dead
    BY <1>8, <2>2
  <2>3. CASE u # t /\ u \notin dead
    <3>1. t_cpu'[u] = t_cpu[u] /\ t_cpu[u] \in CPUs
      BY <1>2, <1>8, <2>3 DEF ThreadTypes
    <3>2. /\ Ready(t_cpu[u], u)' <=> Ready(t_cpu[u], u)
          /\ Moving(t_cpu[u], u)' <=> Moving(t_cpu[u], u)
      BY <1>13, <3>1
    <3> QED
      BY <1>8, <1>9, <1>13, <2>3, <3>2 DEF ThreadsInv, WaitingRight
  <2> QED
    BY <2>1, <2>2, <2>3
<1>20. ChildRight'
  <2> SUFFICES ASSUME NEW r \in Threads
               PROVE  /\ child'[r] # NULL <=> pc'[r] = "fork" \/ ret'[r] = "fork"
                      /\ \A u \in Threads : child'[r] = u =>
                           /\ t_state'[u] = "READY" /\ pc'[u] = "back" /\ ~ Current(u)'
                           /\ \A e \in CPUs : ~ Ready(e, u)' /\ ~ Moving(e, u)'
                           /\ \A s \in Threads : child'[s] = u => s = r
    BY DEF ChildRight
  <2>1. child'[r] # NULL <=> pc'[r] = "fork" \/ ret'[r] = "fork"
    <3>1. child[r] # NULL <=> pc[r] = "fork" \/ ret[r] = "fork"
      BY DEF ThreadsInv, ChildRight
    <3>2. CASE r = t
      BY <1>1, <1>8, <1>9, <3>1, <3>2
    <3>3. CASE r \in dead
      BY <1>7, <1>8, <1>9, <3>3
    <3>4. CASE r # t /\ r \notin dead
      BY <1>8, <1>9, <3>1, <3>4
    <3> QED
      BY <3>2, <3>3, <3>4
  <2>2. ASSUME NEW u \in Threads, child[r] = u
        PROVE  u # t /\ u \notin dead
    BY <1>5, <1>6, <2>2
  <2> QED
    BY <1>8, <1>9, <1>13, <2>1, <2>2 DEF ThreadsInv, ChildRight
<1>21. NoLostWakeup'
  <2>1. \A u \in Threads : u \in Woken => u \in Woken'
    <3> SUFFICES ASSUME NEW u \in Threads, u \in Woken PROVE u \in Woken'
      OBVIOUS
    <3>1. CASE u = t
      BY <1>1, <1>5, <1>8, <3>1 DEF Woken
    <3>2. CASE u \in dead
      BY <1>6, <3>2 DEF Woken
    <3>3. CASE u # t /\ u \notin dead
      BY <1>8, <1>9, <3>3 DEF Woken
    <3> QED
      BY <3>1, <3>2, <3>3
  <2>2. sem_count' <= sem_count
    BY <1>9, ThreadsAssumption DEF ThreadsInv, AllTypes, SemTypes
  <2> QED
    BY <1>9, <1>12, <2>1, <2>2, NobodyForgotten DEF ThreadsInv
<1> QED
  BY <1>12, <1>15, <1>16, <1>17, <1>18, <1>19, <1>20, <1>21 DEF ThreadsInv

-----------------------------------------------------------------------------
\* A thread that does not exist has no place in the code yet.
GoneRight == \A t \in Threads : t_state[t] = "NONE" => pc[t] = "run"

LEMMA thread_forkKeeps ==
  ASSUME ThreadsInv, GoneRight, NEW c \in CPUs, NEW t \in Threads, NEW n \in Threads,
         thread_fork(c, t, n)
  PROVE  ThreadsInv'
<1>1. /\ irq[c].at = "none" /\ c_curthread[c] = t /\ pc[t] = "run" /\ t_state[n] = "NONE"
      /\ t_state' = [t_state EXCEPT ![n] = "READY"]
      /\ t_cpu' = [t_cpu EXCEPT ![n] = t_cpu[t]]
      /\ child' = [child EXCEPT ![t] = n]
      /\ pc' = [pc EXCEPT ![t] = "fork", ![n] = "back"]
      /\ UNCHANGED <<c_curthread, c_isidle, c_runqueue, c_zombies, c_ipi_pending,
                     runqueue_lock, ret, sem_count, sem_wchan, sem_lock, irq>>
  BY DEF thread_fork, At, cpuvars, semvars
<1>2. CpuTypes /\ ThreadTypes /\ ListTypes
  BY DEF ThreadsInv, AllTypes
<1>3. /\ t_cpu[t] = c /\ t_state[t] \in {"READY", "RUN"} /\ Current(t)
      /\ ~ Ready(c, t) /\ ~ Moving(c, t)
      /\ \A e \in CPUs : c_curthread[e] = t => e = c
  BY <1>1 DEF ThreadsInv, CurrentRight, Current, Left
<1>4. t # n /\ ret[t] = "run" /\ child[t] = NULL
  BY <1>1, <1>3 DEF ThreadsInv, WaitingRight, ChildRight
<1>5. ~ Current(n)
  BY <1>1 DEF ThreadsInv, CurrentRight, Current
<1>6. /\ \A e \in CPUs : ~ Ready(e, n) /\ ~ Moving(e, n) /\ ~ Dead(e, n) /\ irq[e].target # n
      /\ ~ Asleep(n)
      /\ \A r \in Threads : child[r] # n
  BY <1>1 DEF ThreadsInv, ListsRight, ChildRight
<1>7. pc[n] = "run" /\ ret[n] = "run" /\ child[n] = NULL
  BY <1>1 DEF ThreadsInv, GoneRight, WaitingRight, ChildRight
<1>8. /\ t_state'[n] = "READY" /\ t_cpu'[n] = c /\ pc'[n] = "back" /\ child'[n] = NULL
      /\ t_state'[t] = t_state[t] /\ t_cpu'[t] = c /\ pc'[t] = "fork" /\ child'[t] = n
      /\ \A u \in Threads \ {t, n} : /\ t_state'[u] = t_state[u] /\ t_cpu'[u] = t_cpu[u]
                                     /\ pc'[u] = pc[u] /\ child'[u] = child[u]
  BY <1>1, <1>2, <1>3, <1>4, <1>7 DEF ThreadTypes
<1>9. UNCHANGED <<c_curthread, c_isidle, c_runqueue, c_zombies, c_ipi_pending,
                  runqueue_lock, ret, sem_count, sem_wchan, sem_lock, irq>>
  BY <1>1
<1>10. ThreadTypes'
  BY <1>1, <1>2, <1>3 DEF ThreadTypes, States, PCs
<1>11. AllTypes'
  BY <1>9, <1>10 DEF ThreadsInv, AllTypes, CpuTypes, ListTypes, SemTypes, IrqTypes
<1>12. /\ \A e \in CPUs, u \in Threads : Ready(e, u)' <=> Ready(e, u)
       /\ \A e \in CPUs, u \in Threads : Moving(e, u)' <=> Moving(e, u)
       /\ \A e \in CPUs, u \in Threads : Dead(e, u)' <=> Dead(e, u)
       /\ \A u \in Threads : Asleep(u)' <=> Asleep(u)
       /\ \A u : Current(u)' <=> Current(u)
  BY <1>9 DEF Ready, Moving, Dead, Asleep, Current
<1>13. IrqRight'
  <2>1. \A d \in CPUs : Len(c_runqueue[d]) <= Len(c_runqueue'[d])
    <3>1. \A d \in CPUs : Len(c_runqueue[d]) \in Nat
      BY <1>2, LenProperties DEF ListTypes
    <3> QED
      BY <1>9, <3>1
  <2> QED
    BY <1>9, <1>11, <2>1, HandlersStay DEF AllTypes
<1>14. ListsDistinct'
  BY <1>9 DEF ThreadsInv, ListsDistinct
<1>15. ListsRight'
  <2> SUFFICES ASSUME NEW e \in CPUs, NEW u \in Threads
               PROVE  /\ Ready(e, u)' => t_state'[u] = "READY" /\ t_cpu'[u] = e /\ ~ Moving(e, u)'
                      /\ Moving(e, u)' => t_state'[u] = "READY" /\ t_cpu'[u] = e
                      /\ Dead(e, u)' => t_state'[u] = "ZOMBIE" /\ t_cpu'[u] = e
                      /\ irq'[e].target = u => t_state'[u] = "SLEEP" /\ ~ Asleep(u)'
                      /\ Asleep(u)' => t_state'[u] = "SLEEP"
    BY ThreadsAssumption DEF ListsRight, CPUs
  <2>1. CASE u = n
    BY <1>6, <1>9, <1>12, <2>1
  <2>2. CASE u # n
    <3>1. t_state'[u] = t_state[u] /\ t_cpu'[u] = t_cpu[u]
      BY <1>3, <1>8, <2>2
    <3> QED
      BY <1>9, <1>12, <3>1 DEF ThreadsInv, ListsRight
  <2> QED
    BY <2>1, <2>2
<1>16. CurrentRight'
  <2> SUFFICES ASSUME NEW e \in CPUs, NEW u \in Threads, c_curthread'[e] = u
               PROVE  /\ \A f \in CPUs : c_curthread'[f] = u => f = e
                      /\ t_cpu'[u] = e
                      /\ t_state'[u] # "NONE"
                      /\ pc'[u] \notin Left => /\ t_state'[u] \in {"READY", "RUN"}
                                               /\ ~ Ready(e, u)' /\ ~ Moving(e, u)'
                      /\ pc'[u] \in Left => c_isidle'[e] /\ t_state'[u] # "RUN"
                      /\ irq'[e].at # "none"
                           => pc'[u] \in {"run", "P", "fork", "yield", "unidle"}
                      /\ pc'[u] = "sleep" => sem_lock' = e /\ sem_count' = 0
                      /\ pc'[u] = "idle" /\ c_runqueue'[e] # <<>> => c_ipi_pending'[e]
    BY DEF CurrentRight
  <2>1. CASE u = t
    <3>1. e = c
      BY <1>3, <1>9, <2>1
    <3> QED
      BY <1>1, <1>3, <1>8, <1>9, <1>12, <2>1, <3>1 DEF Left
  <2>2. CASE u # t
    <3>1. u # n
      BY <1>5, <1>9 DEF Current
    <3> QED
      BY <1>8, <1>9, <1>12, <2>2, <3>1 DEF ThreadsInv, CurrentRight
  <2> QED
    BY <2>1, <2>2
<1>17. WaitingRight'
  <2> SUFFICES ASSUME NEW u \in Threads
               PROVE  /\ ~ Current(u)' => /\ t_state'[u] # "RUN"
                                          /\ t_state'[u] # "NONE" => pc'[u] = "back"
                      /\ pc'[u] \in {"run", "P", "fork", "sleep"} => ret'[u] = "run"
                      /\ t_state'[u] = "SLEEP" => ret'[u] = "P"
                      /\ t_state'[u] \in {"NONE", "ZOMBIE"} => ret'[u] = "run"
                      /\ t_state'[u] = "READY" =>
                           \/ Ready(t_cpu[u], u)' \/ Moving(t_cpu[u], u)'
                           \/ \E r \in Threads : child'[r] = u
                           \/ Current(u)' /\ pc'[u] \notin Left
    BY DEF WaitingRight
  <2>1. CASE u = n
    BY <1>8, <2>1
  <2>2. CASE u = t
    BY <1>3, <1>4, <1>8, <1>9, <1>12, <2>2 DEF Left
  <2>3. CASE u # n /\ u # t
    <3>1. t_cpu'[u] = t_cpu[u] /\ t_cpu[u] \in CPUs
      BY <1>2, <1>8, <2>3 DEF ThreadTypes
    <3>2. /\ Ready(t_cpu[u], u)' <=> Ready(t_cpu[u], u)
          /\ Moving(t_cpu[u], u)' <=> Moving(t_cpu[u], u)
      BY <1>12, <3>1
    <3>3. (\E r \in Threads : child[r] = u) => \E r \in Threads : child'[r] = u
      <4>1. \A r \in Threads : child[r] = u => r # t /\ r # n
        BY <1>4, <1>7, ThreadsAssumption
      <4> QED
        BY <1>8, <4>1
    <3> QED
      BY <1>8, <1>9, <1>12, <2>3, <3>2, <3>3 DEF ThreadsInv, WaitingRight
  <2> QED
    BY <2>1, <2>2, <2>3
<1>18. ChildRight'
  <2> SUFFICES ASSUME NEW r \in Threads
               PROVE  /\ child'[r] # NULL <=> pc'[r] = "fork" \/ ret'[r] = "fork"
                      /\ \A u \in Threads : child'[r] = u =>
                           /\ t_state'[u] = "READY" /\ pc'[u] = "back" /\ ~ Current(u)'
                           /\ \A e \in CPUs : ~ Ready(e, u)' /\ ~ Moving(e, u)'
                           /\ \A s \in Threads : child'[s] = u => s = r
    BY DEF ChildRight
  <2>1. \A s \in Threads : child'[s] = n => s = t
    BY <1>6, <1>8, ThreadsAssumption
  <2>2. CASE r = t
    BY <1>5, <1>6, <1>8, <1>9, <1>12, <2>1, <2>2, ThreadsAssumption
  <2>3. CASE r = n
    BY <1>7, <1>8, <1>9, <2>3, ThreadsAssumption
  <2>4. CASE r # t /\ r # n
    <3>1. child'[r] = child[r] /\ pc'[r] = pc[r] /\ ret'[r] = ret[r]
      BY <1>8, <1>9, <2>4
    <3>2. ASSUME NEW u \in Threads, child[r] = u
          PROVE  /\ u # t /\ u # n
                 /\ \A s \in Threads : child'[s] = u => child[s] = u
      <4>1. u # t /\ u # n
        BY <1>3, <1>6, <3>2 DEF ThreadsInv, ChildRight
      <4> QED
        BY <1>8, <4>1, ThreadsAssumption
    <3> QED
      BY <1>8, <1>12, <3>1, <3>2 DEF ThreadsInv, ChildRight
  <2> QED
    BY <2>2, <2>3, <2>4
<1>19. NoLostWakeup'
  <2>1. \A u \in Threads : u \in Woken => u \in Woken'
    <3> SUFFICES ASSUME NEW u \in Threads, u \in Woken PROVE u \in Woken'
      OBVIOUS
    <3>1. CASE u = t \/ u = n
      BY <1>1, <1>4, <1>6, <1>9, <3>1 DEF Woken
    <3>2. CASE u # t /\ u # n
      BY <1>8, <1>9, <3>2 DEF Woken
    <3> QED
      BY <3>1, <3>2
  <2>2. sem_count' <= sem_count
    BY <1>9, ThreadsAssumption DEF ThreadsInv, AllTypes, SemTypes
  <2> QED
    BY <1>9, <1>11, <2>1, <2>2, NobodyForgotten DEF ThreadsInv
<1> QED
  BY <1>11, <1>13, <1>14, <1>15, <1>16, <1>17, <1>18, <1>19 DEF ThreadsInv

\* Only threads that exist go from one place to another.
LEMMA GoneStays ==
  ASSUME ThreadsInv, GoneRight, [Next]_vars
  PROVE  GoneRight'
<1>1. ThreadTypes /\ CpuTypes /\ IrqTypes
  BY DEF ThreadsInv, AllTypes
<1>2. \A c \in CPUs : c_curthread[c] \in Threads /\ t_state[c_curthread[c]] # "NONE"
  BY <1>1 DEF ThreadsInv, CurrentRight, CpuTypes
<1>3. CASE UNCHANGED vars
  BY <1>3 DEF GoneRight, vars, thrvars
<1>4. ASSUME NEW c \in CPUs,
             V(c) \/ interprocessor_interrupt(c) \/ hardclock(c) \/ Handling(c)
      PROVE  GoneRight'
  <2>1. CASE V(c)
    BY <1>1, <1>2, <2>1 DEF V, Interrupt, GoneRight, ThreadTypes
  <2>2. CASE interprocessor_interrupt(c)
    BY <1>1, <1>2, <2>2 DEF interprocessor_interrupt, Interrupt, GoneRight, ThreadTypes
  <2>3. CASE hardclock(c)
    BY <1>1, <1>2, <2>3 DEF hardclock, Goto, GoneRight, ThreadTypes
  <2>4. CASE Wakeup(c)
    BY <1>1, <2>4 DEF Wakeup, thread_make_runnable, GoneRight, ThreadTypes
  <2>5. CASE Count(c) \/ Share(c) \/ Take(c) \/ Give(c) \/ Skip(c) \/ NextProcessor(c) \/ Rest(c)
    BY <2>5 DEF Count, Share, Take, Give, Skip, NextProcessor, Rest, GoneRight, thrvars
  <2>6. CASE Send(c)
    BY <2>6 DEF Send, GoneRight
  <2> QED
    BY <1>4, <2>1, <2>2, <2>3, <2>4, <2>5, <2>6 DEF Handling
<1>5. ASSUME NEW c \in CPUs, NEW t \in Threads,
             ForkMakeRunnable(c, t) \/ P(c, t) \/ thread_exit(c, t) \/ Switching(c, t)
      PROVE  GoneRight'
  <2>1. c_curthread[c] = t
    BY <1>5 DEF ForkMakeRunnable, P, thread_exit, Switching, SwitchReady, SwitchNothing,
                SwitchSleep, Idle, Unidle, Switch, Back, At
  <2>2. t_state[t] # "NONE"
    BY <1>2, <2>1
  <2>3. CASE ForkMakeRunnable(c, t)
    BY <1>1, <2>2, <2>3 DEF ForkMakeRunnable, thread_make_runnable, Goto, GoneRight, ThreadTypes
  <2>4. CASE P(c, t)
    BY <1>1, <2>2, <2>4 DEF P, Goto, GoneRight, ThreadTypes
  <2>5. CASE thread_exit(c, t) \/ SwitchReady(c, t) \/ SwitchSleep(c, t)
    BY <1>1, <2>2, <2>5
    DEF thread_exit, SwitchReady, SwitchSleep, LeaveProcessor, Goto, GoneRight, ThreadTypes
  <2>6. CASE SwitchNothing(c, t) \/ Idle(c, t) \/ Unidle(c, t) \/ Switch(c, t)
    BY <1>1, <2>2, <2>6 DEF SwitchNothing, Idle, Unidle, Switch, Goto, GoneRight, ThreadTypes
  <2>7. CASE Back(c, t)
    BY <2>7 DEF Back, GoneRight
  <2> QED
    BY <1>5, <2>3, <2>4, <2>5, <2>6, <2>7 DEF Switching
<1>6. ASSUME NEW c \in CPUs, NEW t \in Threads, NEW n \in Threads, thread_fork(c, t, n)
      PROVE  GoneRight'
  <2>1. t_state[t] # "NONE"
    BY <1>2, <1>6 DEF thread_fork, At
  <2> QED
    BY <1>1, <1>6, <2>1 DEF thread_fork, GoneRight, ThreadTypes
<1> QED
  BY <1>3, <1>4, <1>5, <1>6 DEF Next

-----------------------------------------------------------------------------
(***************************************************************************)
(* The invariant holds at first and in every step.                         *)
(***************************************************************************)

\* The boot threads run, one on each processor.
LEMMA InitRight == Init => ThreadsInv /\ GoneRight
<1> SUFFICES ASSUME Init PROVE ThreadsInv /\ GoneRight
  OBVIOUS
<1> USE ThreadsAssumption
<1>1. /\ c_curthread \in [CPUs -> Threads]
      /\ \A c, d \in CPUs : c_curthread[c] = c_curthread[d] => c = d
      /\ \A c \in CPUs : /\ c_isidle[c] = FALSE /\ c_runqueue[c] = <<>>
                         /\ c_zombies[c] = <<>> /\ irq[c] = NoIrq
      /\ \A t \in Threads : pc[t] = "run" /\ ret[t] = "run" /\ child[t] = NULL
      /\ sem_count = 0 /\ sem_wchan = <<>> /\ sem_lock = NULL
  BY DEF Init
<1>2. \A t \in Threads : t_state[t] = IF Current(t) THEN "READY" ELSE "NONE"
  BY DEF Init, Current
<1>3. \A t \in Threads :
        t_cpu[t] = IF Current(t) THEN CHOOSE c \in CPUs : c_curthread[c] = t ELSE 0
  BY DEF Init, Current
<1>4. \A c \in CPUs : t_cpu[c_curthread[c]] = c
  <2> SUFFICES ASSUME NEW c \in CPUs PROVE t_cpu[c_curthread[c]] = c
    OBVIOUS
  <2> DEFINE t == c_curthread[c]
  <2>1. t \in Threads /\ Current(t)
    BY <1>1 DEF Current
  <2>2. \E e \in CPUs : c_curthread[e] = t
    OBVIOUS
  <2>3. t_cpu[t] \in CPUs /\ c_curthread[t_cpu[t]] = t
    BY <1>3, <2>1, <2>2
  <2> QED
    BY <1>1, <2>3
<1>5. 0 \in CPUs
  BY DEF CPUs
<1>6. AllTypes
  <2>1. ThreadTypes
    <3>1. \A t \in Threads : t_cpu[t] \in CPUs
      BY <1>3, <1>4, <1>5 DEF Current
    <3>2. /\ t_state = [t \in Threads |-> t_state[t]]
          /\ t_cpu = [t \in Threads |-> t_cpu[t]]
      BY DEF Init
    <3>3. t_state \in [Threads -> States]
      BY <1>2, <3>2 DEF States
    <3>4. t_cpu \in [Threads -> CPUs]
      BY <3>1, <3>2
    <3> QED
      BY <3>3, <3>4 DEF Init, ThreadTypes, PCs
  <2>2. CpuTypes
    BY <1>1 DEF Init, CpuTypes
  <2>3. ListTypes
    BY EmptyList DEF Init, ListTypes
  <2>4. SemTypes /\ IrqTypes
    BY NoIrqIsHandler DEF Init, SemTypes, IrqTypes
  <2> QED
    BY <2>1, <2>2, <2>3, <2>4 DEF AllTypes
<1>7. /\ \A c \in CPUs, t \in Threads : ~ Ready(c, t) /\ ~ Moving(c, t) /\ ~ Dead(c, t)
      /\ \A t \in Threads : ~ Asleep(t)
  BY <1>1, EmptyList, NoIrqIsHandler DEF Ready, Moving, Dead, Asleep
<1>8. IrqRight
  BY <1>1, NoIrqIsHandler DEF IrqRight, HandlerRight
<1>9. ListsDistinct
  BY <1>1, EmptyList, NoIrqIsHandler DEF ListsDistinct
<1>10. ListsRight
  BY <1>1, <1>7, NoIrqIsHandler DEF ListsRight
<1>11. CurrentRight
  BY <1>1, <1>2, <1>4, <1>7, NoIrqIsHandler DEF CurrentRight, Left, Current
<1>12. WaitingRight
  BY <1>1, <1>2 DEF WaitingRight, Left
<1>13. ChildRight
  BY <1>1 DEF ChildRight
<1>14. NoLostWakeup
  BY <1>1 DEF NoLostWakeup
<1>15. GoneRight
  BY <1>1 DEF GoneRight
<1> QED
  BY <1>6, <1>8, <1>9, <1>10, <1>11, <1>12, <1>13, <1>14, <1>15 DEF ThreadsInv

\* A step that changes nothing.
LEMMA StutterKeeps ==
  ASSUME ThreadsInv, UNCHANGED vars
  PROVE  ThreadsInv'
<1> USE DEF vars, cpuvars, thrvars, semvars
<1>1. AllTypes'
  BY DEF ThreadsInv, AllTypes, CpuTypes, ThreadTypes, ListTypes, SemTypes, IrqTypes
<1>2. /\ \A c \in CPUs, t \in Threads : /\ Ready(c, t)' <=> Ready(c, t)
                                        /\ Moving(c, t)' <=> Moving(c, t)
                                        /\ Dead(c, t)' <=> Dead(c, t)
      /\ \A t \in Threads : Asleep(t)' <=> Asleep(t)
      /\ \A t : Current(t)' <=> Current(t)
  BY DEF Ready, Moving, Dead, Asleep, Current
<1>3. IrqRight' /\ ListsDistinct'
  BY DEF ThreadsInv, IrqRight, HandlerRight, ListsDistinct
<1>4. ListsRight'
  BY <1>2 DEF ThreadsInv, ListsRight
<1>5. CurrentRight'
  BY <1>2 DEF ThreadsInv, CurrentRight
<1>6. ChildRight'
  BY <1>2 DEF ThreadsInv, ChildRight
<1>7. WaitingRight'
  <2>1. \A t \in Threads : t_cpu[t] \in CPUs
    BY DEF ThreadsInv, AllTypes, ThreadTypes
  <2>2. \A t \in Threads : /\ Ready(t_cpu[t], t)' <=> Ready(t_cpu[t], t)
                           /\ Moving(t_cpu[t], t)' <=> Moving(t_cpu[t], t)
    BY <1>2, <2>1
  <2> QED
    BY <1>2, <2>2 DEF ThreadsInv, WaitingRight
<1>8. NoLostWakeup'
  BY DEF ThreadsInv, NoLostWakeup, Woken
<1> QED
  BY <1>1, <1>3, <1>4, <1>5, <1>6, <1>7, <1>8 DEF ThreadsInv

LEMMA NextKeeps ==
  ASSUME ThreadsInv, GoneRight, [Next]_vars
  PROVE  ThreadsInv' /\ GoneRight'
<1>1. ASSUME NEW c \in CPUs,
             V(c) \/ interprocessor_interrupt(c) \/ hardclock(c) \/ Handling(c)
      PROVE  ThreadsInv'
  BY <1>1, VKeeps, IpiKeeps, hardclockKeeps, WakeupKeeps, CountKeeps, ShareKeeps, TakeKeeps,
     GiveKeeps, SkipKeeps, SendKeeps, NextProcessorKeeps, RestKeeps
  DEF Handling
<1>2. ASSUME NEW c \in CPUs, NEW t \in Threads, Switching(c, t)
      PROVE  ThreadsInv'
  BY <1>2, SwitchReadyKeeps, SwitchNothingKeeps, SwitchSleepKeeps, IdleKeeps, UnidleKeeps,
     SwitchKeeps, BackKeeps
  DEF Switching
<1>3. ASSUME NEW c \in CPUs, NEW t \in Threads,
             ForkMakeRunnable(c, t) \/ P(c, t) \/ thread_exit(c, t)
      PROVE  ThreadsInv'
  BY <1>3, ForkMakeRunnableKeeps, PKeeps, ThreadExitKeeps
<1>4. ASSUME NEW c \in CPUs, NEW t \in Threads, NEW n \in Threads, thread_fork(c, t, n)
      PROVE  ThreadsInv'
  BY <1>4, thread_forkKeeps
<1>5. ASSUME UNCHANGED vars PROVE ThreadsInv'
  BY <1>5, StutterKeeps
<1>6. ThreadsInv'
  BY <1>1, <1>2, <1>3, <1>4, <1>5 DEF Next
<1> QED
  BY <1>6, GoneStays

LEMMA ThreadsAlwaysRight == Spec => [](ThreadsInv /\ GoneRight)
<1>1. Init => ThreadsInv /\ GoneRight
  BY InitRight
<1>2. (ThreadsInv /\ GoneRight) /\ [Next]_vars => (ThreadsInv /\ GoneRight)'
  BY NextKeeps
<1> QED
  BY <1>1, <1>2, PTL DEF Spec

-----------------------------------------------------------------------------
(***************************************************************************)
(* The properties.                                                         *)
(***************************************************************************)

\* The list that a thread can be in.
Place(t) ==
  CASE t_state[t] = "READY" -> IF Moving(t_cpu[t], t) THEN <<"moving", t_cpu[t]>>
                                                      ELSE <<"run", t_cpu[t]>>
    [] t_state[t] = "ZOMBIE" -> <<"zombie", t_cpu[t]>>
    [] OTHER -> <<"wchan", 0>>

LEMMA QueueKinds ==
  ASSUME ThreadsInv, NEW q \in Queues
  PROVE  /\ Queue(q) \in Seq(Threads) /\ IsInjective(Queue(q))
         /\ \/ \E c \in CPUs : q = <<"run", c>> /\ Queue(q) = c_runqueue[c]
            \/ \E c \in CPUs : q = <<"moving", c>> /\ Queue(q) = irq[c].victims
            \/ \E c \in CPUs : q = <<"zombie", c>> /\ Queue(q) = c_zombies[c]
            \/ q = <<"wchan", 0>> /\ Queue(q) = sem_wchan
<1>1. /\ \A c \in CPUs : /\ c_runqueue[c] \in Seq(Threads) /\ IsInjective(c_runqueue[c])
                         /\ irq[c].victims \in Seq(Threads) /\ IsInjective(irq[c].victims)
                         /\ c_zombies[c] \in Seq(Threads) /\ IsInjective(c_zombies[c])
      /\ sem_wchan \in Seq(Threads) /\ IsInjective(sem_wchan)
  BY DEF ThreadsInv, AllTypes, ListTypes, IrqTypes, Handlers, ListsDistinct
<1>2. CASE \E c \in CPUs : q = <<"run", c>>
  BY <1>1, <1>2 DEF Queue
<1>3. CASE \E c \in CPUs : q = <<"moving", c>>
  BY <1>1, <1>3 DEF Queue
<1>4. CASE \E c \in CPUs : q = <<"zombie", c>>
  BY <1>1, <1>4 DEF Queue
<1>5. CASE q = <<"wchan", 0>>
  BY <1>1, <1>5 DEF Queue
<1> QED
  BY <1>2, <1>3, <1>4, <1>5 DEF Queues

LEMMA OnlyPlace ==
  ASSUME ThreadsInv, NEW q \in Queues, NEW t \in Threads, Contains(Queue(q), t)
  PROVE  /\ q = Place(t)
         /\ t_state[t] = CASE q[1] = "wchan" -> "SLEEP" [] q[1] = "zombie" -> "ZOMBIE"
                           [] OTHER -> "READY"
         /\ q[1] # "wchan" => t_cpu[t] = q[2]
<1>1. CASE \E c \in CPUs : q = <<"run", c>> /\ Queue(q) = c_runqueue[c]
  <2> PICK c \in CPUs : q = <<"run", c>> /\ Queue(q) = c_runqueue[c]
    BY <1>1
  <2>1. t_state[t] = "READY" /\ t_cpu[t] = c /\ ~ Moving(c, t)
    BY DEF ThreadsInv, ListsRight, Ready
  <2> QED
    BY <2>1 DEF Place
<1>2. CASE \E c \in CPUs : q = <<"moving", c>> /\ Queue(q) = irq[c].victims
  <2> PICK c \in CPUs : q = <<"moving", c>> /\ Queue(q) = irq[c].victims
    BY <1>2
  <2>1. Moving(c, t)
    BY DEF Moving
  <2>2. t_state[t] = "READY" /\ t_cpu[t] = c
    BY <2>1 DEF ThreadsInv, ListsRight
  <2> QED
    BY <2>1, <2>2 DEF Place
<1>3. CASE \E c \in CPUs : q = <<"zombie", c>> /\ Queue(q) = c_zombies[c]
  <2> PICK c \in CPUs : q = <<"zombie", c>> /\ Queue(q) = c_zombies[c]
    BY <1>3
  <2>1. t_state[t] = "ZOMBIE" /\ t_cpu[t] = c
    BY DEF ThreadsInv, ListsRight, Dead
  <2> QED
    BY <2>1 DEF Place
<1>4. CASE q = <<"wchan", 0>> /\ Queue(q) = sem_wchan
  <2>1. t_state[t] = "SLEEP"
    BY <1>4 DEF ThreadsInv, ListsRight, Asleep
  <2> QED
    BY <1>4, <2>1 DEF Place
<1> QED
  BY <1>1, <1>2, <1>3, <1>4, QueueKinds

\* Every pointer and counter of thread.c keeps its type; to_send, which
\* thread_consider_migration computes as an unsigned difference, never gets
\* below 0 and never exceeds the number of threads.
THEOREM ThreadsTypesKept == Spec => []TypeOK
<1>1. ThreadsInv => TypeOK
  <2> SUFFICES ASSUME ThreadsInv PROVE TypeOK
    OBVIOUS
  <2>1. CpuTypes /\ ThreadTypes /\ ListTypes /\ SemTypes /\ IrqTypes
    BY DEF ThreadsInv, AllTypes
  <2>2. ASSUME NEW c \in CPUs
        PROVE  irq[c].to_send \in 0 .. Cardinality(Threads)
    <3>1. irq[c].to_send \in Nat /\ irq[c].victims \in Seq(Threads) /\ irq[c].at \in IrqSteps
      BY <2>1 DEF IrqTypes, Handlers
    <3>2. Cardinality(Threads) \in Nat
      BY ThreadsAssumption, FS_CardinalityType
    <3>3. Len(irq[c].victims) <= Cardinality(Threads)
      BY <3>1, ListLength DEF ThreadsInv, ListsDistinct
    <3>4. Len(c_runqueue[c]) <= Cardinality(Threads)
      BY <2>1, ListLength DEF ThreadsInv, ListsDistinct, ListTypes
    <3>5. Len(irq[c].victims) \in Nat /\ Len(c_runqueue[c]) \in Nat
      BY <2>1, <3>1, LenProperties DEF ListTypes
    <3>6. \/ irq[c].to_send = 0 \/ irq[c].to_send <= Len(c_runqueue[c])
          \/ irq[c].to_send <= Len(irq[c].victims)
      BY <3>1 DEF ThreadsInv, IrqRight, HandlerRight, IrqSteps
    <3> QED
      BY <3>1, <3>2, <3>3, <3>4, <3>5, <3>6
  <2>3. \A c \in CPUs : {c_runqueue[c], c_zombies[c]} \subseteq Seq(Threads)
    BY <2>1 DEF ListTypes
  <2>4. ret \in [Threads -> PCs]
    BY <2>1 DEF ThreadTypes, PCs
  <2>5. \A c \in CPUs : /\ irq[c].at \in IrqSteps
                        /\ irq[c].target \in Threads \union {NULL}
                        /\ irq[c].i \in 0 .. NCPU
                        /\ irq[c].victims \in Seq(Threads)
    BY <2>1 DEF IrqTypes, Handlers
  <2> QED
    BY <2>1, <2>2, <2>3, <2>4, <2>5
    DEF TypeOK, CpuTypes, ThreadTypes, ListTypes, SemTypes
<1> QED
  BY <1>1, ThreadsAlwaysRight, PTL

\* However threads are woken, preempted and moved between processors while
\* thread_switch is on its way, no thread becomes the current thread of two
\* processors, and none that is current is destroyed by exorcise.
THEOREM OneProcessor == Spec => []OneProcessorPerThread
<1>1. ThreadsInv => OneProcessorPerThread
  BY DEF ThreadsInv, AllTypes, CpuTypes, CurrentRight, OneProcessorPerThread
<1> QED
  BY <1>1, ThreadsAlwaysRight, PTL

\* No thread is put in two lists or twice in one by thread_make_runnable,
\* wchan_sleep, thread_exit and thread_consider_migration, and none that is
\* ready to run is forgotten.
THEOREM OneList == Spec => []ThreadsInOneList
<1>1. ASSUME ThreadsInv PROVE ThreadsInOneList
  <2>1. ASSUME NEW q \in Queues
        PROVE  /\ DOMAIN Queue(q) = 1 .. Len(Queue(q))
               /\ \A i \in DOMAIN Queue(q) : /\ Queue(q)[i] \in Threads
                                             /\ Contains(Queue(q), Queue(q)[i])
               /\ \A t : t \in ToSet(Queue(q)) <=> Contains(Queue(q), t)
    <3>1. Queue(q) \in Seq(Threads)
      BY <1>1, QueueKinds
    <3>2. DOMAIN Queue(q) = 1 .. Len(Queue(q))
      BY <3>1, LenProperties
    <3>3. \A i \in DOMAIN Queue(q) : Queue(q)[i] \in Threads
      BY <3>1, <3>2, ElementOfSeq
    <3>4. \A i \in DOMAIN Queue(q) : Contains(Queue(q), Queue(q)[i])
      BY <3>2 DEF Contains
    <3>5. \A t : t \in ToSet(Queue(q)) <=> Contains(Queue(q), t)
      BY <3>2 DEF Contains, ToSet
    <3> QED
      BY <3>2, <3>3, <3>4, <3>5
  <2>2. ASSUME NEW q \in Queues, NEW r \in Queues,
               NEW i \in DOMAIN Queue(q), NEW j \in DOMAIN Queue(r), Queue(q)[i] = Queue(r)[j]
        PROVE  q = r /\ i = j
    <3> DEFINE t == Queue(q)[i]
    <3>1. t \in Threads /\ Contains(Queue(q), t) /\ Contains(Queue(r), t)
      BY <2>1, <2>2
    <3>2. q = Place(t) /\ r = Place(t)
      BY <1>1, <3>1, OnlyPlace
    <3>3. IsInjective(Queue(q))
      BY <1>1, QueueKinds
    <3> QED
      BY <2>2, <3>2, <3>3 DEF IsInjective
  <2>3. ASSUME NEW q \in Queues, NEW t \in ToSet(Queue(q))
        PROVE  /\ t_state[t] = CASE q[1] = "wchan" -> "SLEEP" [] q[1] = "zombie" -> "ZOMBIE"
                                 [] OTHER -> "READY"
               /\ q[1] # "wchan" => t_cpu[t] = q[2]
    <3>1. Contains(Queue(q), t) /\ t \in Threads
      BY <2>1 DEF ToSet
    <3> QED
      BY <1>1, <3>1, OnlyPlace
  <2>4. ASSUME NEW t \in Threads, t_state[t] = "READY"
        PROVE  \/ \E q \in Queues : t \in ToSet(Queue(q))
               \/ \E s \in Threads : child[s] = t
               \/ \E c \in CPUs : c_curthread[c] = t /\ pc[t] \notin {"pick", "idle", "unidle"}
    <3>1. t_cpu[t] \in CPUs
      BY <1>1 DEF ThreadsInv, AllTypes, ThreadTypes
    <3> DEFINE c == t_cpu[t]
    <3>2. CASE Ready(c, t)
      <4>1. <<"run", c>> \in Queues /\ Queue(<<"run", c>>) = c_runqueue[c]
        BY <3>1 DEF Queues, Queue
      <4> QED
        BY <2>1, <3>2, <4>1 DEF Ready
    <3>3. CASE Moving(c, t)
      <4>1. <<"moving", c>> \in Queues /\ Queue(<<"moving", c>>) = irq[c].victims
        BY <3>1 DEF Queues, Queue
      <4> QED
        BY <2>1, <3>3, <4>1 DEF Moving
    <3>4. \/ Ready(c, t) \/ Moving(c, t)
          \/ \E s \in Threads : child[s] = t
          \/ Current(t) /\ pc[t] \notin Left
      BY <1>1, <2>4 DEF ThreadsInv, WaitingRight
    <3> QED
      BY <3>2, <3>3, <3>4 DEF Current, Left
  <2> QED
    BY <2>2, <2>3, <2>4 DEF ThreadsInOneList
<1> QED
  BY <1>1, ThreadsAlwaysRight, PTL

\* wchan_sleep is called with the semaphore's spinlock held, so that V finds
\* every thread that has seen the count 0: while a thread sleeps, each count
\* has a woken thread on its way to take it.
THEOREM NoWakeupIsLost == Spec => []NoLostWakeup
<1>1. ThreadsInv => NoLostWakeup
  BY DEF ThreadsInv
<1> QED
  BY <1>1, ThreadsAlwaysRight, PTL

\* thread_make_runnable and thread_consider_migration send IPI_UNIDLE to the
\* processor they give a thread to, under its run queue lock, if it is idle:
\* cpu_idle never sleeps over a run queue with threads.
THEOREM IdleIsTheOneTold == Spec => []IdleIsToldOfWork
<1>1. ThreadsInv => IdleIsToldOfWork
  BY DEF ThreadsInv, AllTypes, CpuTypes, CurrentRight, IdleIsToldOfWork
<1> QED
  BY <1>1, ThreadsAlwaysRight, PTL

=============================================================================
