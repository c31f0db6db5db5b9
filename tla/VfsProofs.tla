----------------------------- MODULE VfsProofs -----------------------------
(***************************************************************************)
(* Proofs about names and references, for any number of disks and of       *)
(* programs.                                                               *)
(***************************************************************************)
EXTENDS Vfs, FiniteSetTheorems, SequenceTheorems, TLAPS

-----------------------------------------------------------------------------
(***************************************************************************)
(* The inductive invariant.                                                *)
(***************************************************************************)

\* Where a thread may own a reference, where its address space may have an
\* executable, and where shutdown has done with its current directory and,
\* in the menu, with the boot file system.
HandPCs    == {"increfed", "getroot", "lookup", "getfile", "closing", "closed",
               "opened", "fork"}
UnmountPCs == {"unmountall", "tell", "drop"}
ElfPCs     == {"user", "dead", "shutdown", "clearcwd"} \cup UnmountPCs
ClearedPCs == {"clearcwd"} \cup UnmountPCs

\* A vnode of a disk's file system has the file system mounted under it.
Fine(v) == v[1] \in Disks /\ v[2] # "raw" => kdfs[v[1]] = "mounted"

\* What thread t may be doing as m, with the current directory c and the
\* executable e.  The file system whose root it reads is that of the directory
\* it holds meanwhile, if it holds one.
Right(t, m, c, e) ==
    /\ m \in Thread
    /\ m.hand # NONE => m.pc \in HandPCs
    /\ m.fs \in Disks => kdfs[m.fs] = "mounted"
    /\ m.pc = "getroot" =>
          /\ m.fs \in Disks \cup {GONE}
          /\ m.hand # NONE => m.hand[2] = "root" /\ m.fs = m.hand[1]
    /\ m.pc \in {"lookup", "getfile"} => m.hand # NONE /\ m.hand[2] # "raw"
    /\ m.pc = "getfile" => m.hand[1] # Emu
    /\ m.pc \in {"increfed", "opened"} => m.hand # NONE
    /\ m.pc \in {"closing", "closed"} => m.hand # NONE /\ m.hand[1] = Emu
    /\ m.pc = "fork" => m.hand = NONE \/ m.hand[2] = "root"
    /\ m.pc \in {"mount", "unmount", "print", "tell", "drop"} => m.ix <= Len(DiskSeq)
    /\ m.pc \in {"sync", "unmountall"} /\ m.fs # NONE => m.ix <= Len(DiskSeq)
    /\ m.pc = "print" => t = Menu /\ kdfs[DiskSeq[m.ix]] = "freed"
    /\ m.pc = "unborn" \/ m.pc \in UnmountPCs => c = NONE
    /\ m.pc \notin ElfPCs => e = NONE
    /\ m.pc = "user" => e # NONE
    /\ m.op = "bootfs" => t = Menu

Powers == {"on", "off", "null", "volume name", "boot vnode", "other vnode",
           "file system", "two unmount", "sync", "reclaim"}

\* References are left behind on emu0 only.
UnclosedRight ==
    /\ unclosed \in [Vnodes -> Nat]
    /\ \A v \in Vnodes : unclosed[v] > 0 => v[1] = Emu

VfsTypes ==
    /\ kdfs \in [Disks -> {"none", "mounted", "freed"}]
    /\ refs \in [Vnodes -> Nat]
    /\ cwd \in [Threads -> Vnodes \cup {NONE}]
    /\ bootfs \in Vnodes \cup {NONE}
    /\ elf \in [Threads -> Vnodes \cup {NONE}]
    /\ th \in [Threads -> Thread]
    /\ power \in Powers
    /\ handles \in SUBSET Handles
    /\ UnclosedRight

\* Threads do what they may; the vnode that one has looked at and not counted
\* has not been freed, or the thread has been told; directories are current.
ThreadsRight ==
    \A t \in Threads :
       /\ Right(t, th[t], cwd[t], elf[t])
       /\ th[t].peek \in Vnodes => refs[th[t].peek] > 0
       /\ cwd[t] # NONE => cwd[t][2] = "root"

InMountedFs == \A v \in Vnodes : refs[v] > 0 => Fine(v)

BootRight == th[Menu].pc \in ClearedPCs => bootfs = NONE

VfsInv == VfsTypes /\ RefsHeld /\ ThreadsRight /\ InMountedFs /\ BootRight

\* A step that leaves no reference behind in the device of emu0.
EmuKept == handles' \in SUBSET Handles /\ unclosed' = unclosed

-----------------------------------------------------------------------------
(***************************************************************************)
(* Lemmas about the operators of the model.                                *)
(***************************************************************************)

\* What a vnode is: the raw ones are of the disks of knowndevs.
LEMMA VnodeFacts ==
  /\ \A v \in Vnodes : v[1] \in Devices /\ v[2] \in {"root", "prog", "raw"}
  /\ \A v \in Vnodes : v[2] = "raw" => v[1] \in Disks
  /\ EmuRoot \in Vnodes /\ EmuRoot[1] = Emu /\ EmuRoot[2] = "root"
  /\ \A d \in Disks : Raw(d) \in Vnodes /\ Raw(d)[1] = d /\ Raw(d)[2] = "raw"
  /\ \A d \in Disks, t \in Threads : <<d, "root", t>> \in Vnodes
  /\ \A d \in Disks, t \in Threads : <<d, "prog", t>> \in Vnodes
  /\ \A h \in Handles : <<Emu, "prog", h>> \in Vnodes
  /\ NONE \notin Vnodes /\ GONE \notin Vnodes
  /\ Menu \in Threads /\ Progs \subseteq Threads /\ Disks \subseteq Devices
<1>1. Menu \in Threads /\ Progs \subseteq Threads /\ Disks \subseteq Devices
        /\ Emu \in Devices
  BY DEF Threads, Devices
<1>2. \A v \in Vnodes : v[1] \in Devices /\ v[2] \in {"root", "prog", "raw"}
  BY <1>1 DEF Vnodes, EmuRoot, Raw
<1>3. \A v \in Vnodes : v[2] = "raw" => v[1] \in Disks
  BY DEF Vnodes, EmuRoot, Raw
<1>4. EmuRoot \in Vnodes /\ EmuRoot[1] = Emu /\ EmuRoot[2] = "root"
  BY DEF Vnodes, EmuRoot
<1>5. \A d \in Disks : Raw(d) \in Vnodes /\ Raw(d)[1] = d /\ Raw(d)[2] = "raw"
  BY DEF Vnodes, Raw
<1>6. \A d \in Disks, t \in Threads : <<d, "root", t>> \in Vnodes
  BY DEF Vnodes
<1>7. /\ \A d \in Disks, t \in Threads : <<d, "prog", t>> \in Vnodes
      /\ \A h \in Handles : <<Emu, "prog", h>> \in Vnodes
  BY DEF Vnodes
<1>8. NONE \notin Vnodes /\ GONE \notin Vnodes
  BY VfsAssumption
<1> QED
  BY <1>1, <1>2, <1>3, <1>4, <1>5, <1>6, <1>7, <1>8

\* The places in knowndevs.
LEMMA DiskFacts ==
  /\ Len(DiskSeq) \in Nat
  /\ \A i \in 1 .. Len(DiskSeq) : DiskSeq[i] \in Disks
  /\ NONE \notin Disks /\ GONE \notin Disks /\ NONE # GONE /\ Emu \notin Disks
  /\ NONE \notin Devices /\ GONE \notin Devices
  BY VfsAssumption, LenProperties DEF Disks, Devices

\* References: one for each who holds one.
Same(x, y) == IF x = y THEN 1 ELSE 0
Owns(f, v) == Cardinality({t \in Threads : f[t] = v})

LEMMA OwnsCounts ==
  \A f, v : /\ Owns(f, v) \in Nat
            /\ \A t \in Threads : f[t] = v => Owns(f, v) > 0
            /\ (\A t \in Threads : f[t] # v) => Owns(f, v) = 0
<1> SUFFICES ASSUME NEW f, NEW v
             PROVE  /\ Owns(f, v) \in Nat
                    /\ \A t \in Threads : f[t] = v => Owns(f, v) > 0
                    /\ (\A t \in Threads : f[t] # v) => Owns(f, v) = 0
  OBVIOUS
<1> DEFINE S == {t \in Threads : f[t] = v}
<1>1. IsFiniteSet(Threads)
  <2>1. IsFiniteSet(Progs \cup {Menu}) 
    BY VfsAssumption, FS_AddElement
  <2>2. Threads = Progs \cup {Menu}
    BY DEF Threads
  <2> QED
    BY <2>1, <2>2
<1>2. IsFiniteSet(S) /\ Cardinality(S) \in Nat
  BY <1>1, FS_Subset, FS_CardinalityType
<1>3. \A t \in Threads : f[t] = v => S # {}
  OBVIOUS
<1>4. S # {} => Cardinality(S) > 0
  BY <1>2, FS_EmptySet
<1>5. (\A t \in Threads : f[t] # v) => S = {}
  OBVIOUS
<1>6. S = {} => Cardinality(S) = 0
  BY FS_EmptySet
<1> QED
  BY <1>2, <1>3, <1>4, <1>5, <1>6 DEF Owns

\* One thread lets go of what it has and takes something else, or nothing.
LEMMA OwnsChange ==
  ASSUME NEW f, NEW g, NEW t \in Threads, NEW v,
         \A u \in Threads \ {t} : g[u] = f[u]
  PROVE  Owns(g, v) = Owns(f, v) + Same(g[t], v) - Same(f[t], v)
<1> DEFINE F == {u \in Threads : f[u] = v}
           G == {u \in Threads : g[u] = v}
<1>1. IsFiniteSet(Progs \cup {Menu}) /\ Threads = Progs \cup {Menu}
  BY VfsAssumption, FS_AddElement DEF Threads
<1>2. IsFiniteSet(F) /\ Cardinality(F) \in Nat
  BY <1>1, FS_Subset, FS_CardinalityType
<1>3. Owns(f, v) = Cardinality(F) /\ Owns(g, v) = Cardinality(G)
  BY DEF Owns
<1>4. ASSUME f[t] # v, g[t] = v PROVE Cardinality(G) = Cardinality(F) + 1
  <2>1. G = F \cup {t} /\ t \notin F
    BY <1>4
  <2> HIDE DEF F, G
  <2> QED
    BY <1>2, <2>1, FS_AddElement
<1>5. ASSUME f[t] = v, g[t] # v PROVE Cardinality(G) = Cardinality(F) - 1
  <2>1. G = F \ {t} /\ t \in F
    BY <1>5
  <2> HIDE DEF F, G
  <2> QED
    BY <1>2, <2>1, FS_RemoveElement
<1>6. ASSUME f[t] = v <=> g[t] = v PROVE G = F
  BY <1>6
<1> HIDE DEF F, G
<1>7. CASE f[t] = v
  <2>1. Same(f[t], v) = 1
    BY <1>7 DEF Same
  <2>2. CASE g[t] = v
    <3>1. Same(g[t], v) = 1 /\ Cardinality(G) = Cardinality(F)
      BY <1>6, <1>7, <2>2 DEF Same
    <3> QED
      BY <1>2, <1>3, <2>1, <3>1
  <2>3. CASE g[t] # v
    <3>1. Same(g[t], v) = 0 /\ Cardinality(G) = Cardinality(F) - 1
      BY <1>5, <1>7, <2>3 DEF Same
    <3> QED
      BY <1>2, <1>3, <2>1, <3>1
  <2> QED
    BY <2>2, <2>3
<1>8. CASE f[t] # v
  <2>1. Same(f[t], v) = 0
    BY <1>8 DEF Same
  <2>2. CASE g[t] = v
    <3>1. Same(g[t], v) = 1 /\ Cardinality(G) = Cardinality(F) + 1
      BY <1>4, <1>8, <2>2 DEF Same
    <3> QED
      BY <1>2, <1>3, <2>1, <3>1
  <2>3. CASE g[t] # v
    <3>1. Same(g[t], v) = 0 /\ Cardinality(G) = Cardinality(F)
      BY <1>6, <1>8, <2>3 DEF Same
    <3> QED
      BY <1>2, <1>3, <2>1, <3>1
  <2> QED
    BY <2>2, <2>3
<1> QED
  BY <1>7, <1>8

Hands(ths) == [t \in Threads |-> ths[t].hand]

LEMMA HandsChange ==
  ASSUME NEW a \in [Threads -> Thread], NEW b \in [Threads -> Thread],
         NEW t \in Threads, NEW v,
         \A u \in Threads \ {t} : b[u].hand = a[u].hand
  PROVE  Owns(Hands(b), v) = Owns(Hands(a), v) + Same(b[t].hand, v) - Same(a[t].hand, v)
<1> DEFINE V == Vnodes \cup {NONE}
<1>0. Hands(a) \in [Threads -> V] /\ Hands(b) \in [Threads -> V]
  BY DEF Hands, Thread
<1> SUFFICES ASSUME NEW f \in [Threads -> V], NEW g \in [Threads -> V],
                    f = Hands(a), g = Hands(b)
             PROVE  Owns(g, v) = Owns(f, v) + Same(b[t].hand, v) - Same(a[t].hand, v)
  BY <1>0
<1>1. \A u \in Threads : f[u] = a[u].hand /\ g[u] = b[u].hand
  BY DEF Hands
<1>2. \A u \in Threads \ {t} : g[u] = f[u]
  BY <1>1
<1>3. Owns(g, v) = Owns(f, v) + Same(g[t], v) - Same(f[t], v)
  BY <1>2, OwnsChange
<1> QED
  BY <1>1, <1>3

LEMMA HoldersAre ==
  ASSUME NEW v
  PROVE  /\ Holders(v) = Owns(cwd, v) + Owns(elf, v) + Owns(Hands(th), v)
                           + Same(bootfs, v) + Base(v)
         /\ Holders(v)' = Owns(cwd', v) + Owns(elf', v) + Owns(Hands(th'), v)
                           + Same(bootfs', v) + Base(v)
<1>1. /\ {t \in Threads : Hands(th)[t] = v} = {t \in Threads : th[t].hand = v}
      /\ {t \in Threads : Hands(th')[t] = v} = {t \in Threads : th'[t].hand = v}
  BY DEF Hands
<1> QED
  BY <1>1 DEF Holders, Owns, Same

\* VOP_INCREF and VOP_DECREF, vnode by vnode.
LEMMA CountFacts ==
  ASSUME NEW r \in [Vnodes -> Int], NEW v
  PROVE  /\ v \in Vnodes => Incref(r, v) \in [Vnodes -> Int]
         /\ v \in Vnodes =>
              \A x \in Vnodes : Incref(r, v)[x] = r[x] + Same(v, x)
         /\ v \in Vnodes \cup {NONE} => Decref(r, v) \in [Vnodes -> Int]
         /\ v \in Vnodes \cup {NONE} =>
              \A x \in Vnodes : Decref(r, v)[x] = r[x] - Same(v, x)
  BY VnodeFacts DEF Incref, Decref, Same

\* Pointers go stale, and nothing else of a thread changes.
LEMMA StaleFacts ==
  ASSUME NEW ths \in [Threads -> Thread], NEW r, NEW d
  PROVE  /\ Stale(ths, r, d) \in [Threads -> Thread]
         /\ \A u \in Threads :
               /\ Stale(ths, r, d)[u].pc = ths[u].pc
               /\ Stale(ths, r, d)[u].op = ths[u].op
               /\ Stale(ths, r, d)[u].hand = ths[u].hand
               /\ Stale(ths, r, d)[u].ix = ths[u].ix
               /\ Stale(ths, r, d)[u].peek \in Vnodes =>
                     /\ Stale(ths, r, d)[u].peek = ths[u].peek
                     /\ r[ths[u].peek] # 0
               /\ ths[u].fs = NONE \/ ths[u].fs # d => Stale(ths, r, d)[u].fs = ths[u].fs
               /\ ths[u].fs # NONE /\ ths[u].fs = d => Stale(ths, r, d)[u].fs = GONE
<1> SUFFICES ASSUME NEW u \in Threads
             PROVE  LET s == Stale(ths, r, d)[u]
                    IN /\ s \in Thread
                       /\ s.pc = ths[u].pc /\ s.op = ths[u].op
                       /\ s.hand = ths[u].hand /\ s.ix = ths[u].ix
                       /\ s.peek \in Vnodes => s.peek = ths[u].peek /\ r[ths[u].peek] # 0
                       /\ ths[u].fs = NONE \/ ths[u].fs # d => s.fs = ths[u].fs
                       /\ ths[u].fs # NONE /\ ths[u].fs = d => s.fs = GONE
  BY Zenon DEF Stale
<1> DEFINE p == IF ths[u].peek \in Vnodes /\ r[ths[u].peek] = 0 THEN GONE ELSE ths[u].peek
           f == IF ths[u].fs # NONE /\ ths[u].fs = d THEN GONE ELSE ths[u].fs
           s == Stale(ths, r, d)[u]
<1>1. ths[u] \in Thread
  OBVIOUS
<1>2. s = [ths[u] EXCEPT !.peek = p, !.fs = f]
  BY Zenon DEF Stale
<1>3. p \in Vnodes \cup {NONE, GONE} /\ f \in Devices \cup {NONE, GONE}
  BY <1>1 DEF Thread
<1>4. s = [pc |-> ths[u].pc, op |-> ths[u].op, file |-> ths[u].file, fs |-> f,
           peek |-> p, hand |-> ths[u].hand, ix |-> ths[u].ix]
  <2> HIDE DEF p, f, s
  <2> QED
    BY <1>1, <1>2 DEF Thread
<1>5. s \in Thread
  <2> HIDE DEF p, f, s
  <2> QED
    BY <1>1, <1>3, <1>4 DEF Thread
<1>6. s.peek = p /\ s.fs = f /\ s.pc = ths[u].pc /\ s.op = ths[u].op
        /\ s.hand = ths[u].hand /\ s.ix = ths[u].ix
  <2> HIDE DEF p, f, s
  <2> QED
    BY <1>4
<1> QED
  <2> HIDE DEF s
  <2>1. s.peek \in Vnodes => s.peek = ths[u].peek /\ r[ths[u].peek] # 0
    BY <1>6, DiskFacts, VnodeFacts
  <2>2. ths[u].fs = NONE \/ ths[u].fs # d => s.fs = ths[u].fs
    BY <1>6
  <2>3. ths[u].fs # NONE /\ ths[u].fs = d => s.fs = GONE
    BY <1>6
  <2> QED
    BY <1>5, <1>6, <2>1, <2>2, <2>3 DEF s

LEMMA CwdChange ==
  ASSUME NEW t \in Threads, \A u \in Threads \ {t} : cwd'[u] = cwd[u]
  PROVE  \A v : Owns(cwd', v) = Owns(cwd, v) + Same(cwd'[t], v) - Same(cwd[t], v)
<1> SUFFICES ASSUME NEW f, NEW g, f = cwd, g = cwd', NEW v
             PROVE  Owns(g, v) = Owns(f, v) + Same(g[t], v) - Same(f[t], v)
  OBVIOUS
<1> QED
  BY OwnsChange

\* The counts are those of the holders when the change to the counts is that
\* of what thread t holds and of the boot file system.
LEMMA RefsFollow ==
  ASSUME NEW t \in Threads, RefsHeld,
         cwd \in [Threads -> Vnodes \cup {NONE}], elf \in [Threads -> Vnodes \cup {NONE}],
         th \in [Threads -> Thread], th' \in [Threads -> Thread],
         \A u \in Threads \ {t} :
            cwd'[u] = cwd[u] /\ elf'[u] = elf[u] /\ th'[u].hand = th[u].hand,
         refs \in [Vnodes -> Int],
         \A x \in Vnodes :
            refs'[x] = refs[x] + Same(cwd'[t], x) - Same(cwd[t], x)
                        + Same(elf'[t], x) - Same(elf[t], x)
                        + Same(th'[t].hand, x) - Same(th[t].hand, x)
                        + Same(bootfs', x) - Same(bootfs, x)
                        + unclosed'[x] - unclosed[x],
         unclosed \in [Vnodes -> Nat], unclosed' \in [Vnodes -> Nat]
  PROVE  RefsHeld'
<1> SUFFICES ASSUME NEW x \in Vnodes PROVE refs'[x] = Holders(x)' + unclosed'[x]
  BY DEF RefsHeld
<1>0. \A u \in Threads \ {t} :
         /\ cwd'[u] = cwd[u]
         /\ elf'[u] = elf[u]
         /\ th'[u].hand = th[u].hand
  OBVIOUS
<1>1. Owns(cwd', x) = Owns(cwd, x) + Same(cwd'[t], x) - Same(cwd[t], x)
  <2>1. \A u \in Threads \ {t} : cwd'[u] = cwd[u]
    BY <1>0
  <2> QED
    BY <2>1, CwdChange
<1>2. Owns(elf', x) = Owns(elf, x) + Same(elf'[t], x) - Same(elf[t], x)
  <2>1. \A u \in Threads \ {t} : elf'[u] = elf[u]
    BY <1>0
  <2> QED
    BY <2>1, OwnsChange
<1>3. Owns(Hands(th'), x)
        = Owns(Hands(th), x) + Same(th'[t].hand, x) - Same(th[t].hand, x)
  BY <1>0, HandsChange
<1>4. Holders(x)' = Owns(cwd', x) + Owns(elf', x) + Owns(Hands(th'), x)
                        + Same(bootfs', x) + Base(x)
  BY HoldersAre
<1>5. refs[x] = Owns(cwd, x) + Owns(elf, x) + Owns(Hands(th), x)
                  + Same(bootfs, x) + Base(x) + unclosed[x]
  BY HoldersAre DEF RefsHeld
<1>6. Owns(cwd, x) \in Nat /\ Owns(elf, x) \in Nat /\ Owns(Hands(th), x) \in Nat
  BY OwnsCounts
<1>7. Base(x) \in Nat /\ \A y : Same(y, x) \in Nat
  BY DEF Base, Same
<1>8. refs'[x] = refs[x] + Same(cwd'[t], x) - Same(cwd[t], x)
                  + Same(elf'[t], x) - Same(elf[t], x)
                  + Same(th'[t].hand, x) - Same(th[t].hand, x)
                  + Same(bootfs', x) - Same(bootfs, x)
                  + unclosed'[x] - unclosed[x]
  OBVIOUS
<1>9. unclosed[x] \in Nat /\ unclosed'[x] \in Nat
  OBVIOUS
<1> DEFINE c == Owns(cwd, x)
           e == Owns(elf, x)
           h == Owns(Hands(th), x)
           c1 == Same(cwd[t], x)
           c2 == Same(cwd'[t], x)
           e1 == Same(elf[t], x)
           e2 == Same(elf'[t], x)
           h1 == Same(th[t].hand, x)
           h2 == Same(th'[t].hand, x)
           b1 == Same(bootfs, x)
           b2 == Same(bootfs', x)
           b == Base(x)
           u1 == unclosed[x]
           u2 == unclosed'[x]
<1>10. /\ c \in Nat /\ e \in Nat /\ h \in Nat /\ b \in Nat /\ u1 \in Nat /\ u2 \in Nat
       /\ c1 \in Nat /\ e1 \in Nat /\ h1 \in Nat /\ b1 \in Nat
       /\ c2 \in Nat /\ e2 \in Nat /\ h2 \in Nat /\ b2 \in Nat
  BY <1>6, <1>7, <1>9
<1>11. Holders(x)' = (c + c2 - c1) + (e + e2 - e1) + (h + h2 - h1) + b2 + b
  BY <1>1, <1>2, <1>3, <1>4
<1>12. refs'[x] = (c + e + h + b1 + b + u1) + c2 - c1 + e2 - e1 + h2 - h1 + b2 - b1 + u2 - u1
  BY <1>5, <1>8
<1> HIDE DEF c, e, h, b, c1, c2, e1, e2, h1, h2, b1, b2, u1, u2
<1>13. refs'[x] = (c + c2 - c1) + (e + e2 - e1) + (h + h2 - h1) + b2 + b + u2
  BY <1>10, <1>12
<1> QED
  BY <1>11, <1>13 DEF u2

\* A thread goes on: what it may be doing then, and what it holds, are what
\* there is to show; what it has not counted is taken care of by Goes.
LEMMA GoesOrLeaves ==
  ASSUME VfsInv, handles' \in SUBSET Handles, UnclosedRight', NEW t \in Threads,
         NEW m \in Thread, NEW r \in [Vnodes -> Int], Goes(t, m, r), kdfs' = kdfs,
         cwd' \in [Threads -> Vnodes \cup {NONE}], elf' \in [Threads -> Vnodes \cup {NONE}],
         bootfs' \in Vnodes \cup {NONE},
         \A u \in Threads \ {t} : cwd'[u] = cwd[u] /\ elf'[u] = elf[u],
         \A x \in Vnodes :
            r[x] = refs[x] + Same(cwd'[t], x) - Same(cwd[t], x)
                     + Same(elf'[t], x) - Same(elf[t], x)
                     + Same(m.hand, x) - Same(th[t].hand, x)
                     + Same(bootfs', x) - Same(bootfs, x)
                     + unclosed'[x] - unclosed[x],
         \A x \in Vnodes : r[x] > 0 => refs[x] > 0 \/ Fine(x),
         Right(t, m, cwd'[t], elf'[t]),
         cwd'[t] # NONE => cwd'[t][2] = "root",
         t = Menu => (m.pc \in ClearedPCs => bootfs' = NONE),
         t # Menu => bootfs' \in {NONE, bootfs}
  PROVE  VfsInv'
<1> DEFINE N == [th EXCEPT ![t] = m]
<1>0. VfsTypes /\ RefsHeld /\ ThreadsRight /\ InMountedFs /\ BootRight
  BY DEF VfsInv
<1>1. N \in [Threads -> Thread] /\ N[t] = m /\ \A u \in Threads \ {t} : N[u] = th[u]
  BY <1>0 DEF VfsTypes
<1>2. refs' = r /\ th' = Stale(N, r, NONE) /\ power' = power
  BY DEF Goes
<1> HIDE DEF N
<1>3. th' \in [Threads -> Thread]
  BY <1>1, <1>2, StaleFacts
<1>4. \A u \in Threads :
         /\ th'[u].pc = N[u].pc /\ th'[u].op = N[u].op /\ th'[u].fs = N[u].fs
         /\ th'[u].hand = N[u].hand /\ th'[u].ix = N[u].ix
         /\ th'[u].peek \in Vnodes => refs'[th'[u].peek] # 0
  BY <1>1, <1>2, StaleFacts
<1>5. RefsHeld'
  <2>1. refs \in [Vnodes -> Int]
    BY <1>0 DEF VfsTypes
  <2>2. \A u \in Threads \ {t} : th'[u].hand = th[u].hand
    BY <1>1, <1>4
  <2>3. th'[t].hand = m.hand
    BY <1>1, <1>4
  <2>4. unclosed \in [Vnodes -> Nat] /\ unclosed' \in [Vnodes -> Nat]
    BY <1>0 DEF VfsTypes, UnclosedRight
  <2> QED
    BY <1>0, <1>2, <1>3, <2>1, <2>2, <2>3, <2>4, RefsFollow DEF VfsTypes
<1>6. refs' \in [Vnodes -> Nat]
  <2> SUFFICES ASSUME NEW x \in Vnodes PROVE r[x] \in Nat
    BY <1>2
  <2>1. r[x] = Holders(x)' + unclosed'[x] /\ unclosed'[x] \in Nat
    BY <1>2, <1>5 DEF RefsHeld, UnclosedRight
  <2>2. Holders(x)' \in Nat
    <3>1. /\ Owns(cwd', x) \in Nat /\ Owns(elf', x) \in Nat /\ Owns(Hands(th'), x) \in Nat
          /\ Same(bootfs', x) \in Nat /\ Base(x) \in Nat
      BY OwnsCounts DEF Same, Base
    <3> QED
      BY <3>1, HoldersAre
  <2> QED
    BY <2>1, <2>2
<1>7. VfsTypes'
  BY <1>0, <1>2, <1>3, <1>6 DEF VfsTypes
<1>8. ASSUME NEW u \in Threads
      PROVE  /\ Right(u, th[u], cwd[u], elf[u])'
             /\ th'[u].peek \in Vnodes => refs'[th'[u].peek] > 0
             /\ cwd'[u] # NONE => cwd'[u][2] = "root"
  <2>1. Right(u, N[u], cwd'[u], elf'[u])
    BY <1>0, <1>1 DEF ThreadsRight
  <2>2. th'[u] \in Thread
    BY <1>3
  <2>3. Right(u, th[u], cwd[u], elf[u])'
    BY <1>4, <2>1, <2>2 DEF Right
  <2>4. th'[u].peek \in Vnodes => refs'[th'[u].peek] > 0
    BY <1>4, <1>6
  <2>5. cwd'[u] # NONE => cwd'[u][2] = "root"
    BY <1>0 DEF ThreadsRight
  <2> QED
    BY <2>3, <2>4, <2>5
<1>9. ThreadsRight'
  BY <1>8 DEF ThreadsRight
<1>10. InMountedFs'
  BY <1>0, <1>2 DEF InMountedFs, Fine
<1>11. BootRight'
  BY <1>0, <1>1, <1>4, VnodeFacts DEF BootRight
<1> QED
  BY <1>5, <1>7, <1>9, <1>10, <1>11 DEF VfsInv

\* The same when no reference is left behind.
LEMMA GoesKeeps ==
  ASSUME VfsInv, EmuKept, NEW t \in Threads, NEW m \in Thread,
         NEW r \in [Vnodes -> Int], Goes(t, m, r), kdfs' = kdfs,
         cwd' \in [Threads -> Vnodes \cup {NONE}], elf' \in [Threads -> Vnodes \cup {NONE}],
         bootfs' \in Vnodes \cup {NONE},
         \A u \in Threads \ {t} : cwd'[u] = cwd[u] /\ elf'[u] = elf[u],
         \A x \in Vnodes :
            r[x] = refs[x] + Same(cwd'[t], x) - Same(cwd[t], x)
                     + Same(elf'[t], x) - Same(elf[t], x)
                     + Same(m.hand, x) - Same(th[t].hand, x)
                     + Same(bootfs', x) - Same(bootfs, x),
         \A x \in Vnodes : r[x] > 0 => refs[x] > 0 \/ Fine(x),
         Right(t, m, cwd'[t], elf'[t]),
         cwd'[t] # NONE => cwd'[t][2] = "root",
         t = Menu => (m.pc \in ClearedPCs => bootfs' = NONE),
         t # Menu => bootfs' \in {NONE, bootfs}
  PROVE  VfsInv'
<1>1. handles' \in SUBSET Handles /\ unclosed' = unclosed /\ UnclosedRight
  BY DEF EmuKept, VfsInv, VfsTypes
<1>2. UnclosedRight'
  BY <1>1 DEF UnclosedRight
<1>3. ASSUME NEW x \in Vnodes
      PROVE  r[x] = refs[x] + Same(cwd'[t], x) - Same(cwd[t], x)
                     + Same(elf'[t], x) - Same(elf[t], x)
                     + Same(m.hand, x) - Same(th[t].hand, x)
                     + Same(bootfs', x) - Same(bootfs, x)
                     + unclosed'[x] - unclosed[x]
  <2>1. unclosed'[x] = unclosed[x] /\ unclosed[x] \in Nat /\ r[x] \in Int
    BY <1>1 DEF UnclosedRight
  <2>2. refs[x] \in Nat /\ \A y : Same(y, x) \in Nat
    BY DEF VfsInv, VfsTypes, Same
  <2> QED
    BY <2>1, <2>2
<1> QED
  BY <1>1, <1>2, <1>3, GoesOrLeaves

\* The same for a thread that keeps its directory and its executable.
LEMMA HandKeeps ==
  ASSUME VfsInv, EmuKept, NEW t \in Threads, NEW m \in Thread, NEW r \in [Vnodes -> Int],
         Goes(t, m, r), UNCHANGED <<kdfs, cwd, bootfs, elf>>,
         \A x \in Vnodes : r[x] = refs[x] + Same(m.hand, x) - Same(th[t].hand, x),
         m.hand \in Vnodes => Fine(m.hand),
         Right(t, m, cwd[t], elf[t]),
         t = Menu => (m.pc \in ClearedPCs => bootfs = NONE)
  PROVE  VfsInv'
<1>1. /\ cwd \in [Threads -> Vnodes \cup {NONE}] /\ elf \in [Threads -> Vnodes \cup {NONE}]
      /\ bootfs \in Vnodes \cup {NONE} /\ refs \in [Vnodes -> Nat]
      /\ cwd[t] # NONE => cwd[t][2] = "root"
  BY DEF VfsInv, VfsTypes, ThreadsRight
<1>2. cwd' = cwd /\ elf' = elf /\ bootfs' = bootfs /\ kdfs' = kdfs
  OBVIOUS
<1>3. ASSUME NEW x \in Vnodes, r[x] > 0 PROVE refs[x] > 0 \/ Fine(x)
  <2>1. CASE m.hand = x
    BY <2>1
  <2>2. CASE m.hand # x
    <3>1. r[x] = refs[x] - Same(th[t].hand, x) /\ refs[x] \in Nat
      BY <1>1, <2>2 DEF Same
    <3> QED
      BY <1>3, <3>1 DEF Same
  <2> QED
    BY <2>1, <2>2
<1>4. ASSUME NEW x \in Vnodes
      PROVE  r[x] = refs[x] + Same(cwd'[t], x) - Same(cwd[t], x)
                     + Same(elf'[t], x) - Same(elf[t], x)
                     + Same(m.hand, x) - Same(th[t].hand, x)
                     + Same(bootfs', x) - Same(bootfs, x)
  <2>1. /\ Same(cwd'[t], x) = Same(cwd[t], x) /\ Same(elf'[t], x) = Same(elf[t], x)
        /\ Same(bootfs', x) = Same(bootfs, x)
    BY <1>2
  <2>2. \A y : Same(y, x) \in Nat
    BY DEF Same
  <2>3. refs[x] \in Nat
    BY <1>1
  <2>4. r[x] = refs[x] + Same(m.hand, x) - Same(th[t].hand, x)
    OBVIOUS
  <2> QED
    BY <2>1, <2>2, <2>3, <2>4
<1>5. Right(t, m, cwd'[t], elf'[t])
  BY <1>2
<1> QED
  BY <1>1, <1>2, <1>3, <1>4, <1>5, GoesKeeps

\* What a thread does next, and what it takes along.
PCs == {"unborn", "born", "prompt", "slash", "increfed", "getroot", "lookup", "getfile",
        "closing", "closed", "opened", "user", "dead", "fork", "mount", "unmount",
        "print", "sync", "shutdown", "clearcwd", "unmountall", "tell", "drop"}
Ops == {"none", "chdir", "bootfs", "open", "sync", "quit"}

LEMMA AtFacts ==
  \A pc \in PCs : /\ At(pc) \in Thread /\ At(pc).pc = pc /\ At(pc).op = "none"
                  /\ At(pc).fs = NONE /\ At(pc).peek = NONE /\ At(pc).hand = NONE
                  /\ At(pc).ix = 1
  BY DiskFacts DEF At, Thread, PCs

LEMMA WithHand ==
  ASSUME NEW m \in Thread, NEW h \in Vnodes \cup {NONE}
  PROVE  LET n == [m EXCEPT !.hand = h]
         IN /\ n \in Thread /\ n.hand = h /\ n.pc = m.pc /\ n.op = m.op /\ n.fs = m.fs
            /\ n.peek = m.peek /\ n.ix = m.ix
  BY DEF Thread

\* What the menu or a program comes back as.
LEMMA BackFacts ==
  ASSUME VfsInv, NEW t \in Threads
  PROVE  /\ Back(t) \in Thread /\ Back(t).hand = NONE
         /\ Back(t).pc \in {"prompt", "dead"}
         /\ \A c : elf[t] = NONE => Right(t, Back(t), c, NONE)
<1>1. Back(t) \in Thread /\ Back(t).hand = NONE /\ Back(t).fs = NONE
        /\ Back(t).pc \in {"prompt", "dead"} /\ Back(t).op = "none"
  BY AtFacts DEF Back, PCs
<1>2. \A c : Right(t, Back(t), c, NONE)
  BY <1>1, DiskFacts DEF Right, UnmountPCs
<1> QED
  BY <1>1, <1>2

\* The end of a lookup.
LEMMA FromLookupKeeps ==
  ASSUME VfsInv, EmuKept, NEW t \in Threads, NEW op, NEW v \in Vnodes, NEW r \in [Vnodes -> Int],
         elf[t] = NONE, op = "bootfs" => t = Menu, Fine(v),
         \A x \in Vnodes : r[x] = refs[x] + Same(v, x) - Same(th[t].hand, x),
         FromLookup(t, op, v, r), UNCHANGED <<kdfs, elf>>
  PROVE  VfsInv'
<1>0. /\ cwd \in [Threads -> Vnodes \cup {NONE}] /\ elf \in [Threads -> Vnodes \cup {NONE}]
      /\ bootfs \in Vnodes \cup {NONE} /\ refs \in [Vnodes -> Nat]
  BY DEF VfsInv, VfsTypes
<1>b. /\ Back(t) \in Thread /\ Back(t).hand = NONE /\ Back(t).pc \in {"prompt", "dead"}
      /\ \A c : Right(t, Back(t), c, elf[t])
  BY BackFacts
<1>s. /\ \A x, y : Same(y, x) \in {0, 1} /\ (y = x => Same(y, x) = 1)
      /\ \A x \in Vnodes : Same(NONE, x) = 0
  BY VnodeFacts DEF Same
<1>1. CASE Opened(t, v, r)
  <2> DEFINE m == [At("opened") EXCEPT !.hand = v]
  <2>1. m \in Thread /\ m.hand = v /\ m.pc = "opened" /\ m.fs = NONE /\ m.op = "none"
    BY AtFacts, WithHand DEF PCs
  <2> HIDE DEF m
  <2>2. Right(t, m, cwd[t], elf[t])
    BY <2>1, DiskFacts, VnodeFacts DEF Right, HandPCs, UnmountPCs
  <2>3. Goes(t, m, r) /\ UNCHANGED <<kdfs, cwd, bootfs, elf>>
    BY <1>1 DEF Opened, m
  <2>4. m.pc \notin ClearedPCs
    BY <2>1 DEF ClearedPCs, UnmountPCs
  <2> QED
    BY <2>1, <2>2, <2>3, <2>4, HandKeeps
<1>2. CASE Goes(t, Back(t), Decref(r, v)) /\ UNCHANGED <<cwd, bootfs>>
  <2> DEFINE q == Decref(r, v)
  <2>1. q \in [Vnodes -> Int] /\ \A x \in Vnodes : q[x] = r[x] - Same(v, x)
    BY CountFacts
  <2> HIDE DEF q
  <2>2. \A x \in Vnodes : q[x] = refs[x] + Same(Back(t).hand, x) - Same(th[t].hand, x)
    BY <1>0, <1>b, <1>s, <2>1
  <2>3. Goes(t, Back(t), q)
    BY <1>2 DEF q
  <2>4. Back(t).pc \notin ClearedPCs /\ Back(t).hand \notin Vnodes
    BY <1>b, VnodeFacts DEF ClearedPCs, UnmountPCs
  <2> QED
    BY <1>2, <1>b, <2>1, <2>2, <2>3, <2>4, HandKeeps
<1>3. ASSUME IsDir(v), NEW q \in [Vnodes -> Int],
             cwd' = [cwd EXCEPT ![t] = v], Goes(t, Back(t), q),
             bootfs' \in Vnodes \cup {NONE}, t # Menu => bootfs' = bootfs,
             \A x \in Vnodes : q[x] = r[x] - Same(cwd[t], x)
                                  + Same(bootfs', x) - Same(bootfs, x),
             bootfs' \in {bootfs, v}
      PROVE  VfsInv'
  <2>1. cwd' \in [Threads -> Vnodes \cup {NONE}] /\ cwd'[t] = v
          /\ \A u \in Threads \ {t} : cwd'[u] = cwd[u]
    BY <1>0, <1>3
  <2>2. elf' = elf /\ kdfs' = kdfs /\ v[2] = "root"
    BY <1>3 DEF IsDir
  <2>3. ASSUME NEW x \in Vnodes
        PROVE q[x] = refs[x] + Same(cwd'[t], x) - Same(cwd[t], x)
                     + Same(elf'[t], x) - Same(elf[t], x)
                     + Same(Back(t).hand, x) - Same(th[t].hand, x)
                     + Same(bootfs', x) - Same(bootfs, x)
    <3>1. Same(cwd'[t], x) = Same(v, x) /\ Same(elf'[t], x) = Same(elf[t], x)
           /\ Same(Back(t).hand, x) = 0
      BY <1>b, <1>s, <2>1, <2>2
    <3>2. refs[x] \in Nat /\ r[x] = refs[x] + Same(v, x) - Same(th[t].hand, x)
      BY <1>0
    <3>3. q[x] = r[x] - Same(cwd[t], x) + Same(bootfs', x) - Same(bootfs, x)
      BY <1>3
    <3>4. \A y : Same(y, x) \in Nat
      BY <1>s
    <3> QED
      BY <3>1, <3>2, <3>3, <3>4
  <2>4. ASSUME NEW x \in Vnodes, q[x] > 0 PROVE refs[x] > 0 \/ Fine(x)
    <3>1. CASE x = v
      BY <3>1
    <3>2. CASE x # v
      <4>1. Same(v, x) = 0 /\ Same(bootfs', x) <= Same(bootfs, x)
        BY <1>3, <3>2, <1>s DEF Same
      <4>2. refs[x] \in Nat /\ r[x] = refs[x] + Same(v, x) - Same(th[t].hand, x)
        BY <1>0
      <4>3. q[x] = r[x] - Same(cwd[t], x) + Same(bootfs', x) - Same(bootfs, x)
        BY <1>3
      <4>4. \A y : Same(y, x) \in Nat
        BY <1>s
      <4> QED
        BY <2>4, <4>1, <4>2, <4>3, <4>4
    <3> QED
      BY <3>1, <3>2
  <2>5. Right(t, Back(t), cwd'[t], elf'[t])
    BY <1>b, <2>2
  <2>6. Back(t).pc \notin ClearedPCs
    BY <1>b DEF ClearedPCs, UnmountPCs
  <2>7. /\ elf' \in [Threads -> Vnodes \cup {NONE}]
        /\ \A u \in Threads \ {t} : cwd'[u] = cwd[u] /\ elf'[u] = elf[u]
        /\ cwd'[t] # NONE => cwd'[t][2] = "root"
        /\ t = Menu => (Back(t).pc \in ClearedPCs => bootfs' = NONE)
        /\ t # Menu => bootfs' \in {NONE, bootfs}
    BY <1>0, <1>3, <2>1, <2>2, <2>6
  <2> QED
    BY <1>3, <1>b, <2>1, <2>2, <2>3, <2>4, <2>5, <2>7, GoesKeeps
<1>4. CASE op = "chdir" /\ IsDir(v) /\ SetCurdir(t, v, r) /\ UNCHANGED bootfs
  <2> DEFINE q == Decref(r, cwd[t])
  <2>1. q \in [Vnodes -> Int] /\ \A x \in Vnodes : q[x] = r[x] - Same(cwd[t], x)
    BY <1>0, CountFacts
  <2>2. Goes(t, Back(t), q) /\ cwd' = [cwd EXCEPT ![t] = v] /\ bootfs' = bootfs
    BY <1>4 DEF SetCurdir
  <2> HIDE DEF q
  <2>3. \A x \in Vnodes : q[x] = r[x] - Same(cwd[t], x)
                                  + Same(bootfs', x) - Same(bootfs, x)
    BY <2>1, <2>2, <1>s
  <2> QED
    BY <1>0, <1>3, <1>4, <2>1, <2>2, <2>3
<1>5. CASE op = "bootfs" /\ IsDir(v) /\ bootfs' = v
             /\ SetCurdir(t, v, Decref(Incref(r, v), bootfs))
  <2> DEFINE q0 == Incref(r, v)
             q1 == Decref(q0, bootfs)
             q  == Decref(q1, cwd[t])
  <2>1. q0 \in [Vnodes -> Int] /\ \A x \in Vnodes : q0[x] = r[x] + Same(v, x)
    BY CountFacts
  <2>2. q1 \in [Vnodes -> Int] /\ \A x \in Vnodes : q1[x] = q0[x] - Same(bootfs, x)
    <3> HIDE DEF q0
    <3> QED
      BY <1>0, <2>1, CountFacts
  <2>3. q \in [Vnodes -> Int] /\ \A x \in Vnodes : q[x] = q1[x] - Same(cwd[t], x)
    <3> HIDE DEF q1
    <3> QED
      BY <1>0, <2>2, CountFacts
  <2>4. Goes(t, Back(t), q) /\ cwd' = [cwd EXCEPT ![t] = v] /\ bootfs' = v
    BY <1>5 DEF SetCurdir
  <2> HIDE DEF q0, q1, q
  <2>5. \A x \in Vnodes : q[x] = r[x] - Same(cwd[t], x)
                                  + Same(bootfs', x) - Same(bootfs, x)
    BY <2>1, <2>2, <2>3, <2>4, <1>s
  <2> QED
    BY <1>0, <1>3, <1>5, <2>3, <2>4, <2>5
<1>6. CASE /\ Goes(t, [At("closing") EXCEPT !.hand = v], r) /\ v[1] = Emu
           /\ UNCHANGED <<cwd, bootfs>>
  <2> DEFINE m == [At("closing") EXCEPT !.hand = v]
  <2>1. m \in Thread /\ m.hand = v /\ m.pc = "closing" /\ m.fs = NONE /\ m.op = "none"
    BY AtFacts, WithHand DEF PCs
  <2>2. Goes(t, m, r) /\ UNCHANGED <<kdfs, cwd, bootfs, elf>>
    BY <1>6
  <2> HIDE DEF m
  <2>3. Right(t, m, cwd[t], elf[t])
    BY <1>6, <2>1, DiskFacts, VnodeFacts DEF Right, HandPCs, UnmountPCs
  <2>4. m.pc \notin ClearedPCs
    BY <2>1 DEF ClearedPCs, UnmountPCs
  <2> QED
    BY <2>1, <2>2, <2>3, <2>4, HandKeeps
<1>7. Drop(t, v, r) => \/ Goes(t, [At("closing") EXCEPT !.hand = v], r) /\ v[1] = Emu
                       \/ Goes(t, Back(t), Decref(r, v))
  BY DEF Drop
<1> QED
  BY <1>1, <1>2, <1>4, <1>5, <1>6, <1>7 DEF FromLookup

\* A lookup that fails drops what is in hand.
LEMMA FailsKeeps ==
  ASSUME VfsInv, EmuKept, NEW t \in Threads, NEW v, v = th[t].hand, elf[t] = NONE,
         Fails(t, v), UNCHANGED <<kdfs, elf>>
  PROVE  VfsInv'
<1>1. v \in Vnodes \cup {NONE} /\ refs \in [Vnodes -> Int] /\ refs \in [Vnodes -> Nat]
  BY DEF VfsInv, VfsTypes, Thread
<1>2. /\ Back(t) \in Thread /\ Back(t).hand = NONE /\ Back(t).pc \in {"prompt", "dead"}
      /\ Right(t, Back(t), cwd[t], elf[t])
  BY BackFacts
<1> DEFINE q == Decref(refs, v)
<1>3. q \in [Vnodes -> Int] /\ \A x \in Vnodes : q[x] = refs[x] - Same(v, x)
  BY <1>1, CountFacts
<1>4. Goes(t, Back(t), q) /\ UNCHANGED <<kdfs, cwd, bootfs, elf>>
  BY DEF Fails
<1> HIDE DEF q
<1>5. \A x \in Vnodes : q[x] = refs[x] + Same(Back(t).hand, x) - Same(th[t].hand, x)
  BY <1>1, <1>2, <1>3, VnodeFacts DEF Same
<1>6. Back(t).pc \notin ClearedPCs /\ Back(t).hand \notin Vnodes
  BY <1>2, VnodeFacts DEF ClearedPCs, UnmountPCs
<1> QED
  BY <1>2, <1>3, <1>4, <1>5, <1>6, HandKeeps

\* The start of a path is known.
LEMMA FromStartKeeps ==
  ASSUME VfsInv, EmuKept, NEW t \in Threads, NEW op \in Ops, NEW file \in BOOLEAN,
         NEW v \in Vnodes, NEW r \in [Vnodes -> Int],
         elf[t] = NONE, op = "bootfs" => t = Menu, Fine(v),
         \A x \in Vnodes : r[x] = refs[x] + Same(v, x) - Same(th[t].hand, x),
         FromStart(t, op, file, v, r), UNCHANGED <<kdfs, elf>>
  PROVE  VfsInv'
<1>1. CASE FromLookup(t, op, v, r)
  BY <1>1, FromLookupKeeps
<1>2. CASE Goes(t, Back(t), Decref(r, v)) /\ v[2] = "raw" /\ UNCHANGED <<cwd, bootfs>>
  <2>1. CASE op = "open"
    <3>1. FromLookup(t, "none", v, r)
      BY <1>2 DEF FromLookup, IsDir, Drop
    <3> QED
      BY <3>1, FromLookupKeeps
  <2>2. CASE op # "open"
    <3>1. FromLookup(t, op, v, r)
      BY <1>2, <2>2 DEF FromLookup, IsDir, Drop
    <3> QED
      BY <3>1, FromLookupKeeps
  <2> QED
    BY <2>1, <2>2
<1>3. CASE /\ v[2] # "raw" /\ UNCHANGED <<cwd, bootfs>>
           /\ Goes(t, [At("lookup") EXCEPT !.op = op, !.file = TRUE, !.hand = v], r)
  <2> DEFINE m == [At("lookup") EXCEPT !.op = op, !.file = TRUE, !.hand = v]
  <2>1. At("lookup") \in Thread /\ At("lookup").pc = "lookup" /\ At("lookup").fs = NONE
    BY AtFacts DEF PCs
  <2>2. m \in Thread /\ m.hand = v /\ m.pc = "lookup" /\ m.fs = NONE /\ m.op = op
    <3> DEFINE a == At("lookup")
               b == [a EXCEPT !.op = op, !.file = TRUE]
               c == [b EXCEPT !.hand = v]
    <3>1. m = c
      OBVIOUS
    <3>2. a \in Thread /\ a.pc = "lookup" /\ a.fs = NONE
      BY <2>1
    <3> HIDE DEF a, m
    <3>3. b \in Thread /\ b.pc = "lookup" /\ b.fs = NONE /\ b.op = op
      BY <3>2 DEF Thread, Ops
    <3> HIDE DEF b
    <3>4. c \in Thread /\ c.pc = "lookup" /\ c.fs = NONE /\ c.op = op /\ c.hand = v
      BY <3>3 DEF Thread
    <3> QED
      BY <3>1, <3>4
  <2>3. Goes(t, m, r)
    BY <1>3
  <2> HIDE DEF m
  <2>4. Right(t, m, cwd[t], elf[t])
    BY <1>3, <2>2, DiskFacts, VnodeFacts DEF Right, HandPCs, UnmountPCs
  <2>5. m.pc \notin ClearedPCs
    BY <2>2 DEF ClearedPCs, UnmountPCs
  <2> QED
    BY <1>3, <2>2, <2>3, <2>4, <2>5, HandKeeps
<1> QED
  BY <1>1, <1>2, <1>3 DEF FromStart

\* The root of the file system on d is wanted.
LEMMA GetRootKeeps ==
  ASSUME VfsInv, EmuKept, NEW t \in Threads, NEW op \in Ops, NEW file \in BOOLEAN,
         NEW d \in Devices, NEW hand \in Vnodes \cup {NONE}, NEW r \in [Vnodes -> Int],
         elf[t] = NONE, op = "bootfs" => t = Menu,
         d \in Disks => kdfs[d] = "mounted",
         hand # NONE => hand[2] = "root" /\ d = hand[1],
         \A x \in Vnodes : r[x] = refs[x] + Same(hand, x) - Same(th[t].hand, x),
         GetRoot(t, op, file, d, hand, r), UNCHANGED <<kdfs, elf>>
  PROVE  VfsInv'
<1>1. ASSUME NEW v \in Vnodes, refs[v] > 0,
             FromStart(t, op, file, v, Decref(Incref(r, v), hand))
      PROVE  VfsInv'
  <2> DEFINE a == Incref(r, v)
             q == Decref(a, hand)
  <2>1. a \in [Vnodes -> Int] /\ \A x \in Vnodes : a[x] = r[x] + Same(v, x)
    BY CountFacts
  <2>2. q \in [Vnodes -> Int] /\ \A x \in Vnodes : q[x] = a[x] - Same(hand, x)
    <3> HIDE DEF a
    <3> QED
      BY <2>1, CountFacts
  <2>3. FromStart(t, op, file, v, q)
    BY <1>1
  <2> HIDE DEF a, q
  <2>4. ASSUME NEW x \in Vnodes PROVE q[x] = refs[x] + Same(v, x) - Same(th[t].hand, x)
    <3>1. refs[x] \in Nat
      BY DEF VfsInv, VfsTypes
    <3>2. \A y : Same(y, x) \in Nat
      BY DEF Same
    <3>3. q[x] = r[x] + Same(v, x) - Same(hand, x)
      BY <2>1, <2>2, <3>2
    <3>4. r[x] = refs[x] + Same(hand, x) - Same(th[t].hand, x)
      OBVIOUS
    <3> QED
      BY <3>1, <3>2, <3>3, <3>4
  <2>5. Fine(v)
    BY <1>1 DEF VfsInv, InMountedFs
  <2> QED
    BY <2>2, <2>3, <2>4, <2>5, FromStartKeeps
<1>2. CASE /\ Goes(t, [At("getroot") EXCEPT !.op = op, !.file = file, !.fs = d,
                                        !.hand = hand], r)
           /\ d # Emu /\ UNCHANGED <<cwd, bootfs>>
  <2> DEFINE m == [At("getroot") EXCEPT !.op = op, !.file = file, !.fs = d, !.hand = hand]
  <2>1. At("getroot") \in Thread /\ At("getroot").pc = "getroot"
    BY AtFacts DEF PCs
  <2>2. m \in Thread /\ m.hand = hand /\ m.pc = "getroot" /\ m.fs = d /\ m.op = op
    <3> DEFINE a == At("getroot")
               b == [a EXCEPT !.op = op, !.file = file]
               c == [b EXCEPT !.fs = d, !.hand = hand]
    <3>1. m = c
      OBVIOUS
    <3>2. a \in Thread /\ a.pc = "getroot"
      BY <2>1
    <3> HIDE DEF a, m
    <3>3. b \in Thread /\ b.pc = "getroot" /\ b.op = op
      BY <3>2 DEF Thread, Ops
    <3> HIDE DEF b
    <3>4. c \in Thread /\ c.pc = "getroot" /\ c.fs = d /\ c.op = op /\ c.hand = hand
      BY <3>3 DEF Thread
    <3> QED
      BY <3>1, <3>4
  <2>3. Goes(t, m, r)
    BY <1>2
  <2> HIDE DEF m
  <2>4. d \in Disks
    BY <1>2 DEF Devices
  <2>5. Right(t, m, cwd[t], elf[t])
    BY <2>2, <2>4, DiskFacts DEF Right, HandPCs, UnmountPCs
  <2>6. m.pc \notin ClearedPCs
    BY <2>2 DEF ClearedPCs, UnmountPCs
  <2>7. m.hand \in Vnodes => Fine(m.hand)
    BY <2>2, <2>4, VnodeFacts DEF Fine
  <2> QED
    BY <1>2, <2>2, <2>3, <2>5, <2>6, <2>7, HandKeeps
<1> QED
  BY <1>1, <1>2 DEF GetRoot

\* What somebody holds is in memory, and its file system is mounted.
LEMMA HeldCounted ==
  ASSUME VfsInv, NEW t \in Threads, NEW v \in Vnodes,
         cwd[t] = v \/ elf[t] = v \/ th[t].hand = v \/ bootfs = v \/ Base(v) > 0
  PROVE  refs[v] > 0 /\ Fine(v)
<1>1. refs[v] = Owns(cwd, v) + Owns(elf, v) + Owns(Hands(th), v) + Same(bootfs, v) + Base(v)
             + unclosed[v]
  BY HoldersAre DEF VfsInv, RefsHeld
<1>2. /\ Owns(cwd, v) \in Nat /\ Owns(elf, v) \in Nat /\ Owns(Hands(th), v) \in Nat
      /\ cwd[t] = v => Owns(cwd, v) > 0
      /\ elf[t] = v => Owns(elf, v) > 0
      /\ Hands(th)[t] = v => Owns(Hands(th), v) > 0
  BY OwnsCounts
<1>3. Hands(th)[t] = th[t].hand
  BY DEF Hands
<1>4. unclosed[v] \in Nat /\ Base(v) \in Nat /\ Same(bootfs, v) \in Nat /\ (bootfs = v => Same(bootfs, v) > 0)
  BY DEF Base, Same, VfsInv, VfsTypes, UnclosedRight
<1>5. refs[v] > 0
  BY <1>1, <1>2, <1>3, <1>4
<1> QED
  BY <1>5 DEF VfsInv, InMountedFs

\* A thread that breaks the kernel changes nothing any more.
LEMMA BreaksKeeps ==
  ASSUME VfsInv, EmuKept, NEW how \in Powers, Breaks(how)
  PROVE  VfsInv'
<1>1. UNCHANGED <<kdfs, refs, cwd, bootfs, elf, th>> /\ power' \in Powers
  BY DEF Breaks
<1>e. handles' \in SUBSET Handles /\ unclosed' = unclosed
  BY DEF EmuKept
<1>2. VfsTypes'
  BY <1>1, <1>e DEF VfsInv, VfsTypes, UnclosedRight
<1>3. RefsHeld'
  BY <1>1, <1>e DEF VfsInv, RefsHeld, Holders
<1>4. ThreadsRight'
  BY <1>1 DEF VfsInv, ThreadsRight, Right
<1>5. InMountedFs' /\ BootRight'
  BY <1>1 DEF VfsInv, InMountedFs, BootRight, Fine
<1> QED
  BY <1>2, <1>3, <1>4, <1>5 DEF VfsInv

\* A reference that is taken with nothing in hand, or in place of the one in
\* hand.
LEMMA TakeFacts ==
  ASSUME VfsInv, NEW t \in Threads, NEW v \in Vnodes
  PROVE  LET q == Decref(Incref(refs, v), th[t].hand)
         IN /\ q \in [Vnodes -> Int]
            /\ \A x \in Vnodes : q[x] = refs[x] + Same(v, x) - Same(th[t].hand, x)
<1>1. refs \in [Vnodes -> Int] /\ th[t].hand \in Vnodes \cup {NONE}
  BY DEF VfsInv, VfsTypes, Thread
<1> DEFINE a == Incref(refs, v)
           q == Decref(a, th[t].hand)
<1>2. a \in [Vnodes -> Int] /\ \A x \in Vnodes : a[x] = refs[x] + Same(v, x)
  BY <1>1, CountFacts
<1>3. q \in [Vnodes -> Int] /\ \A x \in Vnodes : q[x] = a[x] - Same(th[t].hand, x)
  <2> HIDE DEF a
  <2> QED
    BY <1>1, <1>2, CountFacts
<1>4. \A x \in Vnodes : q[x] = refs[x] + Same(v, x) - Same(th[t].hand, x)
  <2> HIDE DEF a, q
  <2>1. \A x, y : Same(y, x) \in Nat
    BY DEF Same
  <2> QED
    BY <1>1, <1>2, <1>3, <2>1
<1> QED
  BY <1>3, <1>4

LEMMA TakeFirst ==
  ASSUME VfsInv, NEW t \in Threads, NEW v \in Vnodes, th[t].hand = NONE
  PROVE  /\ Incref(refs, v) \in [Vnodes -> Int] /\ refs \in [Vnodes -> Int]
         /\ \A x \in Vnodes :
               /\ Incref(refs, v)[x] = refs[x] + Same(v, x) - Same(th[t].hand, x)
               /\ refs[x] = refs[x] + Same(NONE, x) - Same(th[t].hand, x)
<1>1. refs \in [Vnodes -> Int]
  BY DEF VfsInv, VfsTypes
<1>2. \A x \in Vnodes : Same(NONE, x) = 0 /\ Same(v, x) \in Nat
  BY VnodeFacts DEF Same
<1>3. Incref(refs, v) \in [Vnodes -> Int]
       /\ \A x \in Vnodes : Incref(refs, v)[x] = refs[x] + Same(v, x)
  BY <1>1, CountFacts
<1> HIDE DEF Incref
<1> QED
  BY <1>1, <1>2, <1>3

\* vfs_lookup, from the prompt or in cmd_progthread.
LEMMA LookupKeeps ==
  ASSUME VfsInv, EmuKept, NEW t \in Threads, NEW op \in Ops,
         elf[t] = NONE, th[t].hand = NONE, op = "bootfs" => t = Menu
  PROVE  /\ Lookup(t, op) => VfsInv'
         /\ ByName(t, op, FALSE) => VfsInv'
<1>0. /\ cwd[t] \in Vnodes \cup {NONE} /\ refs \in [Vnodes -> Int]
      /\ cwd[t] # NONE => cwd[t][2] = "root"
  BY DEF VfsInv, VfsTypes, ThreadsRight
<1>1. ASSUME NEW file \in BOOLEAN, Relative(t, op, file), UNCHANGED <<kdfs, elf>>
      PROVE  VfsInv'
  <2>1. CASE cwd[t] = NONE
    BY <1>1, <2>1, FailsKeeps DEF Relative
  <2>2. CASE cwd[t] # NONE
    <3>1. cwd[t] \in Vnodes /\ Fine(cwd[t])
      BY <1>0, <2>2, HeldCounted
    <3>2. FromStart(t, op, file, cwd[t], Incref(refs, cwd[t]))
      BY <1>1, <2>2 DEF Relative
    <3> QED
      BY <1>1, <3>1, <3>2, TakeFirst, FromStartKeeps
  <2> QED
    BY <2>1, <2>2
<1>2. ASSUME NEW file \in BOOLEAN, Slash(t, op, file), UNCHANGED <<kdfs, elf>>
      PROVE  VfsInv'
  <2>1. CASE bootfs = NONE
    BY <1>2, <2>1, FailsKeeps DEF Slash
  <2>2. CASE bootfs # NONE
    <3> DEFINE a == At("slash")
               m == [a EXCEPT !.op = op, !.file = file]
    <3>1. a \in Thread /\ a.pc = "slash" /\ a.hand = NONE /\ a.fs = NONE
      BY AtFacts DEF PCs
    <3>2. Goes(t, m, refs) /\ UNCHANGED <<kdfs, cwd, bootfs, elf>>
      BY <1>2, <2>2 DEF Slash
    <3> HIDE DEF a
    <3>3. m \in Thread /\ m.pc = "slash" /\ m.hand = NONE /\ m.fs = NONE /\ m.op = op
      BY <3>1 DEF Thread, Ops
    <3> HIDE DEF m
    <3>4. Right(t, m, cwd[t], elf[t])
      BY <3>3, DiskFacts DEF Right, HandPCs, UnmountPCs
    <3>5. m.pc \notin ClearedPCs /\ m.hand \notin Vnodes
      BY <3>3, VnodeFacts DEF ClearedPCs, UnmountPCs
    <3>6. \A x \in Vnodes : refs[x] = refs[x] + Same(m.hand, x) - Same(th[t].hand, x)
      BY <1>0, <3>3, VnodeFacts DEF Same
    <3> QED
      BY <1>0, <3>2, <3>3, <3>4, <3>5, <3>6, HandKeeps
  <2> QED
    BY <2>1, <2>2
<1>3. ASSUME NEW file \in BOOLEAN, Colon(t, op, file), UNCHANGED <<kdfs, elf>>
      PROVE  VfsInv'
  <2>1. CASE cwd[t] = NONE
    BY <1>3, <2>1, FailsKeeps DEF Colon
  <2>2. CASE cwd[t] # NONE
    <3>1. cwd[t] \in Vnodes /\ Fine(cwd[t]) /\ cwd[t][2] = "root"
      BY <1>0, <2>2, HeldCounted
    <3>2. GetRoot(t, op, file, cwd[t][1], cwd[t], Incref(refs, cwd[t]))
      BY <1>3, <2>2 DEF Colon
    <3>3. cwd[t][1] \in Devices /\ (cwd[t][1] \in Disks => kdfs[cwd[t][1]] = "mounted")
      BY <3>1, VnodeFacts DEF Fine
    <3> QED
      BY <1>3, <3>1, <3>2, <3>3, TakeFirst, GetRootKeeps
  <2> QED
    BY <2>1, <2>2
<1>4. ASSUME NEW file \in BOOLEAN, ByName(t, op, file)
      PROVE  VfsInv'
  <2>1. CASE GetRoot(t, op, file, Emu, NONE, refs) /\ UNCHANGED <<kdfs, elf>>
    <3>1. Emu \in Devices /\ Emu \notin Disks /\ EmuRoot \in Vnodes
      BY DiskFacts, VnodeFacts DEF Devices
    <3>2. /\ refs \in [Vnodes -> Int]
          /\ \A x \in Vnodes : refs[x] = refs[x] + Same(NONE, x) - Same(th[t].hand, x)
      BY <3>1, TakeFirst
    <3>3. ASSUME NEW d \in Devices, d \notin Disks, GetRoot(t, op, file, d, NONE, refs),
                 UNCHANGED <<kdfs, elf>>
          PROVE  VfsInv'
      <4>1. ASSUME NEW h \in Vnodes \cup {NONE}, h = NONE, NEW r \in [Vnodes -> Int],
                   \A x \in Vnodes : r[x] = refs[x] + Same(h, x) - Same(th[t].hand, x),
                   GetRoot(t, op, file, d, h, r)
            PROVE  VfsInv'
        <5>1. d \in Disks => kdfs[d] = "mounted"
          BY <3>3
        <5>2. h # NONE => h[2] = "root" /\ d = h[1]
          BY <4>1
        <5> QED
          BY <3>3, <4>1, <5>1, <5>2, GetRootKeeps
      <4> QED
        BY <3>2, <3>3, <4>1
    <3> QED
      BY <2>1, <3>1, <3>3
  <2>2. ASSUME NEW d \in Disks, Breaks("volume name") PROVE VfsInv'
    BY <2>2, BreaksKeeps DEF Powers
  <2>3. ASSUME NEW d \in Disks, kdfs[d] = "mounted", GetRoot(t, op, file, d, NONE, refs),
               UNCHANGED <<kdfs, elf>>
        PROVE  VfsInv'
    <3>1. d \in Devices /\ EmuRoot \in Vnodes
      BY VnodeFacts
    <3>2. /\ refs \in [Vnodes -> Int]
          /\ \A x \in Vnodes : refs[x] = refs[x] + Same(NONE, x) - Same(th[t].hand, x)
      BY <3>1, TakeFirst
    <3>3. ASSUME NEW h \in Vnodes \cup {NONE}, h = NONE, NEW r \in [Vnodes -> Int],
                 \A x \in Vnodes : r[x] = refs[x] + Same(h, x) - Same(th[t].hand, x),
                 GetRoot(t, op, file, d, h, r)
          PROVE  VfsInv'
      <4>1. h # NONE => h[2] = "root" /\ d = h[1]
        BY <3>3
      <4> QED
        BY <2>3, <3>1, <3>3, <4>1, GetRootKeeps
    <3> QED
      BY <2>3, <3>2, <3>3
  <2>4. ASSUME Fails(t, NONE), UNCHANGED <<kdfs, elf>> PROVE VfsInv'
    BY <2>4, FailsKeeps
  <2>5. ASSUME NEW d \in Disks, FromStart(t, op, file, Raw(d), Incref(refs, Raw(d))),
               UNCHANGED <<kdfs, elf>>
        PROVE  VfsInv'
    <3>1. Raw(d) \in Vnodes /\ Fine(Raw(d))
      BY VnodeFacts DEF Fine
    <3> QED
      BY <2>5, <3>1, TakeFirst, FromStartKeeps
  <2> QED
    BY <1>4, <2>1, <2>2, <2>3, <2>4, <2>5 DEF ByName
<1>5. Lookup(t, op) => VfsInv'
  BY <1>1, <1>2, <1>3, <1>4 DEF Lookup
<1>6. ByName(t, op, FALSE) => VfsInv'
  BY <1>4
<1> QED
  BY <1>5, <1>6

\* kd_fs of the disk d changes: something is mounted there, or what was there
\* had no vnodes and nobody may still have it in hand uncounted, unless told.
LEMMA KdfsKeeps ==
  ASSUME VfsInv, EmuKept, NEW t \in Threads, NEW m \in Thread, NEW d \in Disks,
         NEW left \in {"none", "mounted", "freed"}, NEW g \in {NONE, d},
         kdfs' = [kdfs EXCEPT ![d] = left],
         th' = Stale([th EXCEPT ![t] = m], refs, g),
         UNCHANGED <<refs, cwd, bootfs, elf, power>>,
         left = "mounted" \/ Loaded(d) = {},
         g = d => left # "mounted",
         left = "mounted" \/ g = d \/ \A u \in Threads : th[u].fs # d,
         t = Menu \/ kdfs[d] = "mounted",
         th[t].hand = NONE, m.hand = NONE, m.fs = NONE, m.op = "none",
         \/ m.pc = "prompt" /\ elf[t] = NONE
         \/ /\ m.pc = "print" /\ elf[t] = NONE /\ t = Menu /\ left = "freed"
            /\ m.ix <= Len(DiskSeq) /\ DiskSeq[m.ix] = d
         \/ m.pc = "unmountall" /\ cwd[t] = NONE /\ (t = Menu => bootfs = NONE)
  PROVE  VfsInv'
<1> DEFINE N == [th EXCEPT ![t] = m]
<1>0. VfsTypes /\ RefsHeld /\ ThreadsRight /\ InMountedFs /\ BootRight
  BY DEF VfsInv
<1>1. N \in [Threads -> Thread] /\ N[t] = m /\ \A u \in Threads \ {t} : N[u] = th[u]
  BY <1>0 DEF VfsTypes
<1>2. th' = Stale(N, refs, g)
  OBVIOUS
<1> HIDE DEF N
<1>3. th' \in [Threads -> Thread]
  <2>1. ASSUME NEW ths \in [Threads -> Thread], NEW r, NEW e
        PROVE  Stale(ths, r, e) \in [Threads -> Thread]
    BY StaleFacts
  <2>2. Stale(N, refs, g) \in [Threads -> Thread]
    BY <1>1, <2>1
  <2> QED
    BY <1>2, <2>2
<1>4. \A u \in Threads :
         /\ th'[u].pc = N[u].pc /\ th'[u].op = N[u].op
         /\ th'[u].hand = N[u].hand /\ th'[u].ix = N[u].ix
         /\ th'[u].peek \in Vnodes => th'[u].peek = N[u].peek /\ refs[N[u].peek] # 0
         /\ N[u].fs = NONE \/ N[u].fs # g => th'[u].fs = N[u].fs
         /\ N[u].fs # NONE /\ N[u].fs = g => th'[u].fs = GONE
  BY <1>1, <1>2, StaleFacts
<1>5. refs' = refs /\ cwd' = cwd /\ bootfs' = bootfs /\ elf' = elf /\ power' = power
  OBVIOUS
<1>e. /\ handles' \in SUBSET Handles /\ unclosed' = unclosed
      /\ UnclosedRight /\ UnclosedRight'
  BY <1>0 DEF EmuKept, VfsTypes, UnclosedRight
<1>6. RefsHeld'
  <2>1. \A u \in Threads : th'[u].hand = th[u].hand
    BY <1>1, <1>4
  <2>2. refs \in [Vnodes -> Int] /\ th \in [Threads -> Thread]
    BY <1>0 DEF VfsTypes
  <2>3. ASSUME NEW x \in Vnodes
        PROVE  refs'[x] = refs[x] + Same(cwd'[t], x) - Same(cwd[t], x)
                            + Same(elf'[t], x) - Same(elf[t], x)
                            + Same(th'[t].hand, x) - Same(th[t].hand, x)
                            + Same(bootfs', x) - Same(bootfs, x)
                            + unclosed'[x] - unclosed[x]
    <3>1. /\ Same(cwd'[t], x) = Same(cwd[t], x) /\ Same(elf'[t], x) = Same(elf[t], x)
          /\ Same(th'[t].hand, x) = Same(th[t].hand, x)
          /\ Same(bootfs', x) = Same(bootfs, x) /\ refs'[x] = refs[x]
      BY <1>5, <2>1
    <3>2. \A y : Same(y, x) \in Nat
      BY DEF Same
    <3>3. refs[x] \in Int /\ unclosed'[x] = unclosed[x] /\ unclosed[x] \in Nat
      BY <1>e, <2>2 DEF UnclosedRight
    <3> QED
      BY <3>1, <3>2, <3>3
  <2>4. unclosed \in [Vnodes -> Nat] /\ unclosed' \in [Vnodes -> Nat]
    BY <1>e DEF UnclosedRight
  <2> QED
    BY <1>0, <1>3, <1>5, <2>1, <2>2, <2>3, <2>4, RefsFollow DEF VfsTypes
<1>7. VfsTypes'
  BY <1>0, <1>3, <1>5, <1>e DEF VfsTypes
<1>8. ASSUME NEW v \in Vnodes, refs[v] > 0 PROVE Fine(v)'
  <2>1. Fine(v)
    BY <1>0, <1>8 DEF InMountedFs
  <2>2. v[1] = d /\ v[2] # "raw" => left = "mounted"
    BY <1>8 DEF Loaded
  <2>3. v[1] \in Disks => kdfs'[v[1]] = IF v[1] = d THEN left ELSE kdfs[v[1]]
    BY <1>0 DEF VfsTypes
  <2> QED
    BY <2>1, <2>2, <2>3 DEF Fine
<1>9. InMountedFs'
  BY <1>5, <1>8 DEF InMountedFs
<1>10. \A b \in Disks : kdfs'[b] = IF b = d THEN left ELSE kdfs[b]
  BY <1>0 DEF VfsTypes
<1>11. ASSUME NEW u \in Threads, u # t PROVE Right(u, th[u], cwd[u], elf[u])'
  <2>1. Right(u, th[u], cwd[u], elf[u]) /\ N[u] = th[u]
    BY <1>0, <1>1, <1>11 DEF ThreadsRight
  <2>2. th'[u] \in Thread
    BY <1>3
  <2>3. th'[u].fs \in Disks => kdfs'[th'[u].fs] = "mounted"
    <3> SUFFICES ASSUME th'[u].fs \in Disks PROVE kdfs'[th'[u].fs] = "mounted"
      OBVIOUS
    <3>1. th'[u].fs = th[u].fs /\ th[u].fs # g
      BY <1>4, <2>1, DiskFacts
    <3>2. kdfs[th[u].fs] = "mounted"
      BY <2>1, <3>1 DEF Right
    <3>3. th[u].fs = d => left = "mounted"
      BY <3>1
    <3> QED
      BY <1>10, <3>1, <3>2, <3>3
  <2>4. ASSUME th[u].pc = "getroot"
        PROVE  /\ th'[u].fs \in Disks \cup {GONE}
               /\ th[u].hand # NONE => th[u].hand[2] = "root" /\ th'[u].fs = th[u].hand[1]
    <3>1. /\ th[u].fs \in Disks \cup {GONE}
          /\ th[u].hand # NONE => th[u].hand[2] = "root" /\ th[u].fs = th[u].hand[1]
      BY <2>1, <2>4 DEF Right
    <3>2. CASE th'[u].fs = th[u].fs
      BY <3>1, <3>2
    <3>3. CASE th'[u].fs # th[u].fs
      <4>1. th[u].fs = g /\ g = d /\ th'[u].fs = GONE
        BY <1>4, <2>1, <3>1, <3>3
      <4>2. th[u].hand = NONE
        <5> SUFFICES ASSUME th[u].hand # NONE PROVE FALSE
          OBVIOUS
        <5>1. th[u].hand \in Vnodes
          BY <1>0 DEF VfsTypes, Thread
        <5>2. refs[th[u].hand] > 0 /\ Fine(th[u].hand)
          BY <5>1, HeldCounted
        <5>3. th[u].hand \in Loaded(d)
          BY <3>1, <4>1, <5>1, <5>2 DEF Loaded
        <5>4. left = "mounted"
          BY <5>3
        <5> QED
          BY <4>1, <5>3, <5>4 
      <4> QED
        BY <4>1, <4>2
    <3> QED
      BY <3>2, <3>3
  <2>5. th[u].pc = "print" => u = Menu /\ kdfs'[DiskSeq[th[u].ix]] = "freed"
    <3> SUFFICES ASSUME th[u].pc = "print"
                 PROVE  u = Menu /\ kdfs'[DiskSeq[th[u].ix]] = "freed"
      OBVIOUS
    <3>1. u = Menu /\ kdfs[DiskSeq[th[u].ix]] = "freed" /\ th[u].ix <= Len(DiskSeq)
            /\ th[u].ix \in 1 .. (Len(DiskSeq) + 1)
      BY <1>0, <2>1 DEF Right, VfsTypes, Thread
    <3>2. DiskSeq[th[u].ix] \in Disks
      BY <3>1, DiskFacts
    <3>3. DiskSeq[th[u].ix] # d
      BY <1>11, <3>1
    <3> QED
      BY <1>10, <3>1, <3>2, <3>3
  <2>6. /\ th'[u].pc = th[u].pc /\ th'[u].op = th[u].op
        /\ th'[u].hand = th[u].hand /\ th'[u].ix = th[u].ix
    BY <1>4, <2>1
  <2>7. cwd'[u] = cwd[u] /\ elf'[u] = elf[u]
    BY <1>5
  <2>8. th[u].fs = NONE => th'[u].fs = NONE
    BY <1>4, <2>1
  <2> QED
    BY <2>1, <2>2, <2>3, <2>4, <2>5, <2>6, <2>7, <2>8 DEF Right
<1>12. Right(t, th[t], cwd[t], elf[t])'
  <2>1. /\ th'[t] \in Thread /\ th'[t].pc = m.pc /\ th'[t].op = "none"
        /\ th'[t].hand = NONE /\ th'[t].ix = m.ix /\ th'[t].fs = NONE
    BY <1>1, <1>3, <1>4
  <2>2. NONE \notin Disks
    BY DiskFacts
  <2>3. cwd'[t] = cwd[t] /\ elf'[t] = elf[t]
    BY <1>5
  <2>4. CASE m.pc = "prompt" /\ elf[t] = NONE
    BY <2>1, <2>2, <2>3, <2>4 DEF Right, UnmountPCs
  <2>5. CASE /\ m.pc = "print" /\ elf[t] = NONE /\ t = Menu /\ left = "freed"
             /\ m.ix <= Len(DiskSeq) /\ DiskSeq[m.ix] = d
    <3>1. kdfs'[DiskSeq[m.ix]] = "freed"
      BY <1>10, <2>5
    <3> QED
      BY <2>1, <2>2, <2>3, <2>5, <3>1 DEF Right, UnmountPCs
  <2>6. CASE m.pc = "unmountall" /\ cwd[t] = NONE
    BY <2>1, <2>2, <2>3, <2>6 DEF Right, UnmountPCs, ElfPCs
  <2> QED
    BY <2>4, <2>5, <2>6
<1>13. ThreadsRight'
  <2> SUFFICES ASSUME NEW u \in Threads
               PROVE  /\ Right(u, th[u], cwd[u], elf[u])'
                      /\ th'[u].peek \in Vnodes => refs'[th'[u].peek] > 0
                      /\ cwd'[u] # NONE => cwd'[u][2] = "root"
    BY DEF ThreadsRight
  <2>1. Right(u, th[u], cwd[u], elf[u])'
    BY <1>11, <1>12
  <2>2. th'[u].peek \in Vnodes => refs'[th'[u].peek] > 0
    <3>1. refs \in [Vnodes -> Nat]
      BY <1>0 DEF VfsTypes
    <3>2. th'[u].peek \in Vnodes => refs[th'[u].peek] # 0
      BY <1>4
    <3> QED
      BY <1>5, <3>1, <3>2
  <2>3. cwd'[u] # NONE => cwd'[u][2] = "root"
    BY <1>0, <1>5 DEF ThreadsRight
  <2> QED
    BY <2>1, <2>2, <2>3
<1>14. BootRight'
  <2>1. Menu \in Threads
    BY VnodeFacts
  <2>2. CASE t = Menu
    <3>1. th'[Menu].pc = m.pc
      BY <1>1, <1>4, <2>2
    <3> QED
      BY <1>5, <2>2, <3>1 DEF BootRight, ClearedPCs, UnmountPCs
  <2>3. CASE t # Menu
    <3>1. th'[Menu].pc = th[Menu].pc
      BY <1>1, <1>4, <2>1, <2>3
    <3> QED
      BY <1>0, <1>5, <3>1 DEF BootRight
  <2> QED
    BY <2>2, <2>3
<1> QED
  BY <1>6, <1>7, <1>9, <1>13, <1>14 DEF VfsInv

-----------------------------------------------------------------------------
(***************************************************************************)
(* The invariant holds after boot and after every step.                    *)
(***************************************************************************)

\* A thread has neither file nor vnode in hand where its step says so.
LEMMA EmptyHanded ==
  ASSUME VfsInv, NEW t \in Threads
  PROVE  /\ th[t].pc \notin HandPCs => th[t].hand = NONE
         /\ th[t].pc \notin ElfPCs => elf[t] = NONE
         /\ th[t] \in Thread /\ Right(t, th[t], cwd[t], elf[t])
         /\ refs \in [Vnodes -> Int]
         /\ cwd[t] \in Vnodes \cup {NONE} /\ elf[t] \in Vnodes \cup {NONE}
         /\ bootfs \in Vnodes \cup {NONE}
  BY DEF VfsInv, VfsTypes, ThreadsRight, Right

\* A thread that goes on with what it had in hand, or with nothing as before.
LEMMA OnlyGoesKeeps ==
  ASSUME VfsInv, EmuKept, NEW t \in Threads, NEW m \in Thread, Goes(t, m, refs),
         UNCHANGED <<kdfs, cwd, bootfs, elf>>, m.hand = th[t].hand,
         Right(t, m, cwd[t], elf[t]),
         t = Menu => (m.pc \in ClearedPCs => bootfs = NONE)
  PROVE  VfsInv'
<1>1. refs \in [Vnodes -> Int] /\ th[t].hand \in Vnodes \cup {NONE}
  BY DEF VfsInv, VfsTypes, Thread
<1>2. \A x \in Vnodes : refs[x] = refs[x] + Same(m.hand, x) - Same(th[t].hand, x)
  BY <1>1 DEF Same
<1>3. m.hand \in Vnodes => Fine(m.hand)
  BY HeldCounted
<1> QED
  BY <1>1, <1>2, <1>3, HandKeeps

LEMMA VfsInit == Init => VfsInv
<1> SUFFICES ASSUME Init PROVE VfsInv
  OBVIOUS
<1>0. /\ Menu \in Threads /\ EmuRoot \in Vnodes /\ EmuRoot # NONE
      /\ EmuRoot[1] = Emu /\ EmuRoot[2] = "root" /\ Emu \notin Disks
  BY VnodeFacts, DiskFacts
<1>1. \A t \in Threads :
         /\ th[t] \in Thread /\ th[t].pc = IF t = Menu THEN "prompt" ELSE "unborn"
         /\ th[t].op = "none" /\ th[t].fs = NONE /\ th[t].peek = NONE
         /\ th[t].hand = NONE /\ th[t].ix = 1
  <2> SUFFICES ASSUME NEW t \in Threads
               PROVE  /\ th[t] \in Thread /\ th[t].pc = IF t = Menu THEN "prompt" ELSE "unborn"
                      /\ th[t].op = "none" /\ th[t].fs = NONE /\ th[t].peek = NONE
                      /\ th[t].hand = NONE /\ th[t].ix = 1
    OBVIOUS
  <2>1. th[t] = At(IF t = Menu THEN "prompt" ELSE "unborn")
    BY DEF Init
  <2>2. (IF t = Menu THEN "prompt" ELSE "unborn") \in PCs
    BY DEF PCs
  <2> QED
    BY <2>1, <2>2, AtFacts
<1>2. /\ \A t \in Threads : cwd[t] = IF t = Menu THEN EmuRoot ELSE NONE
      /\ \A t \in Threads : elf[t] = NONE
      /\ bootfs = EmuRoot /\ \A d \in Disks : kdfs[d] = "none"
      /\ \A v \in Vnodes : refs[v] = Base(v) + IF v = EmuRoot THEN 2 ELSE 0
  BY DEF Init
<1>3. VfsTypes
  <2>1. \A v \in Vnodes : Base(v) \in Nat
    BY DEF Base
  <2>2. refs \in [Vnodes -> Nat]
    BY <2>1 DEF Init
  <2>3. th \in [Threads -> Thread]
    BY <1>1 DEF Init
  <2>4. kdfs \in [Disks -> {"none", "mounted", "freed"}] /\ power \in Powers
    BY DEF Init, Powers
  <2>5. cwd \in [Threads -> Vnodes \cup {NONE}] /\ elf \in [Threads -> Vnodes \cup {NONE}]
    BY <1>0 DEF Init
  <2>6. bootfs \in Vnodes \cup {NONE}
    BY <1>0, <1>2
  <2>7. handles \in SUBSET Handles /\ UnclosedRight
    BY DEF Init, UnclosedRight
  <2> QED
    BY <2>2, <2>3, <2>4, <2>5, <2>6, <2>7 DEF VfsTypes
<1>4. RefsHeld
  <2> SUFFICES ASSUME NEW v \in Vnodes PROVE refs[v] = Holders(v) + unclosed[v]
    BY DEF RefsHeld
  <2>0. v # NONE
    BY VnodeFacts
  <2>1. Owns(elf, v) = 0
    BY <1>2, <2>0, OwnsCounts
  <2>2. Owns(Hands(th), v) = 0
    <3>1. \A t \in Threads : Hands(th)[t] # v
      BY <1>1, <2>0 DEF Hands
    <3> QED
      BY <3>1, OwnsCounts
  <2>3. Owns(cwd, v) = Same(EmuRoot, v)
    <3> DEFINE e == [t \in Threads |-> NONE]
    <3>1. \A t \in Threads : e[t] # v
      BY <2>0
    <3>2. Owns(e, v) = 0
      BY <3>1, OwnsCounts
    <3>3. \A t \in Threads \ {Menu} : cwd[t] = e[t]
      BY <1>2
    <3>4. e[Menu] = NONE /\ cwd[Menu] = EmuRoot
      BY <1>0, <1>2
    <3>5. e \in [Threads -> Vnodes \cup {NONE}] /\ cwd \in [Threads -> Vnodes \cup {NONE}]
      BY <1>3 DEF VfsTypes
    <3> HIDE DEF e
    <3>6. Owns(cwd, v) = Owns(e, v) + Same(cwd[Menu], v) - Same(e[Menu], v)
      BY <1>0, <3>3, <3>5, OwnsChange
    <3>7. Same(e[Menu], v) = 0 /\ Same(EmuRoot, v) \in Nat
      BY <2>0, <3>4 DEF Same
    <3> QED
      BY <3>2, <3>4, <3>6, <3>7
  <2>4. Holders(v) = Same(EmuRoot, v) + Same(EmuRoot, v) + Base(v)
    <3>1. Same(EmuRoot, v) \in Nat /\ Base(v) \in Nat
      BY DEF Same, Base
    <3> QED
      BY <1>2, <2>1, <2>2, <2>3, <3>1, HoldersAre
  <2>5. refs[v] = Base(v) + IF v = EmuRoot THEN 2 ELSE 0
    BY <1>2
  <2>6. Base(v) \in Nat /\ unclosed[v] = 0
    BY DEF Base, Init
  <2> QED
    BY <2>4, <2>5, <2>6 DEF Same
<1>5. ThreadsRight
  <2> SUFFICES ASSUME NEW t \in Threads
               PROVE  /\ Right(t, th[t], cwd[t], elf[t])
                      /\ th[t].peek \in Vnodes => refs[th[t].peek] > 0
                      /\ cwd[t] # NONE => cwd[t][2] = "root"
    BY DEF ThreadsRight
  <2>1. NONE \notin Disks /\ NONE \notin Vnodes
    BY DiskFacts, VnodeFacts
  <2>2. Right(t, th[t], cwd[t], elf[t])
    BY <1>1, <1>2, <2>1 DEF Right, UnmountPCs
  <2> QED
    BY <1>0, <1>1, <1>2, <2>1, <2>2
<1>6. InMountedFs
  <2> SUFFICES ASSUME NEW v \in Vnodes, refs[v] > 0 PROVE Fine(v)
    BY DEF InMountedFs
  <2>1. v = EmuRoot \/ v[2] = "raw"
    BY <1>2 DEF Base
  <2> QED
    BY <1>0, <2>1 DEF Fine
<1>7. BootRight
  BY <1>0, <1>1 DEF BootRight, ClearedPCs, UnmountPCs
<1> QED
  BY <1>3, <1>4, <1>5, <1>6, <1>7 DEF VfsInv

LEMMA SlashSteps ==
  ASSUME VfsInv, EmuKept, NEW t \in Threads
  PROVE  /\ SlashPeek(t) => VfsInv'
         /\ SlashIncref(t) => VfsInv'
         /\ SlashStart(t) => VfsInv'
<1>0. /\ th[t] \in Thread /\ Right(t, th[t], cwd[t], elf[t]) /\ refs \in [Vnodes -> Int]
      /\ bootfs \in Vnodes \cup {NONE}
  BY EmptyHanded
<1>1. ASSUME SlashPeek(t) PROVE VfsInv'
  <2>1. CASE bootfs = NONE
    BY <1>1, <2>1, BreaksKeeps DEF SlashPeek, Powers
  <2>2. CASE bootfs # NONE
    <3> DEFINE m == [th[t] EXCEPT !.peek = bootfs]
    <3>1. Goes(t, m, refs) /\ UNCHANGED <<kdfs, cwd, bootfs, elf>> /\ th[t].pc = "slash"
      BY <1>1, <2>2 DEF SlashPeek, Is
    <3>2. /\ m \in Thread /\ m.pc = th[t].pc /\ m.op = th[t].op /\ m.fs = th[t].fs
          /\ m.hand = th[t].hand /\ m.ix = th[t].ix
      BY <1>0 DEF Thread
    <3> HIDE DEF m
    <3>3. Right(t, m, cwd[t], elf[t])
      BY <1>0, <3>2 DEF Right
    <3>4. m.pc \notin ClearedPCs
      BY <3>1, <3>2 DEF ClearedPCs, UnmountPCs
    <3> QED
      BY <3>1, <3>2, <3>3, <3>4, OnlyGoesKeeps
  <2> QED
    BY <2>1, <2>2
<1>2. ASSUME SlashIncref(t) PROVE VfsInv'
  <2>1. CASE th[t].peek = GONE
    BY <1>2, <2>1, BreaksKeeps DEF SlashIncref, Powers
  <2>2. CASE th[t].peek # GONE
    <3> DEFINE v == th[t].peek
               m == [th[t] EXCEPT !.pc = "increfed", !.peek = NONE, !.hand = v]
    <3>1. /\ Goes(t, m, Incref(refs, v)) /\ UNCHANGED <<kdfs, cwd, bootfs, elf>>
          /\ th[t].pc = "slash" /\ v # NONE
      BY <1>2, <2>2 DEF SlashIncref, Is
    <3>2. v \in Vnodes
      BY <1>0, <2>2, <3>1 DEF Thread
    <3>3. th[t].hand = NONE
      BY <1>0, <3>1, EmptyHanded DEF HandPCs
    <3>4. Fine(v)
      <4>1. refs[v] > 0
        BY <3>2 DEF VfsInv, ThreadsRight
      <4> QED
        BY <3>2, <4>1 DEF VfsInv, InMountedFs
    <3>5. /\ Incref(refs, v) \in [Vnodes -> Int]
          /\ \A x \in Vnodes : Incref(refs, v)[x] = refs[x] + Same(v, x) - Same(th[t].hand, x)
      BY <3>2, <3>3, TakeFirst
    <3> HIDE DEF v
    <3>6. /\ m \in Thread /\ m.pc = "increfed" /\ m.op = th[t].op /\ m.fs = th[t].fs
          /\ m.hand = v /\ m.ix = th[t].ix
      BY <1>0, <3>2 DEF Thread
    <3> HIDE DEF m
    <3>7. Right(t, m, cwd[t], elf[t])
      BY <1>0, <3>1, <3>2, <3>6, VnodeFacts DEF Right, HandPCs, UnmountPCs, ElfPCs
    <3>8. m.pc \notin ClearedPCs
      BY <3>6 DEF ClearedPCs, UnmountPCs
    <3> QED
      BY <3>1, <3>4, <3>5, <3>6, <3>7, <3>8, HandKeeps
  <2> QED
    BY <2>1, <2>2
<1>3. ASSUME SlashStart(t) PROVE VfsInv'
  <2>1. CASE bootfs # th[t].hand
    BY <1>3, <2>1, BreaksKeeps DEF SlashStart, Powers
  <2>2. CASE bootfs = th[t].hand
    <3>1. /\ FromStart(t, th[t].op, th[t].file, bootfs, refs) /\ UNCHANGED <<kdfs, elf>>
          /\ th[t].pc = "increfed"
      BY <1>3, <2>2 DEF SlashStart, Is
    <3>2. th[t].op \in Ops /\ th[t].file \in BOOLEAN /\ (th[t].op = "bootfs" => t = Menu)
      BY <1>0 DEF Thread, Ops, Right
    <3>3. bootfs \in Vnodes
      BY <1>0, <2>2, <3>1 DEF Right
    <3>4. Fine(bootfs)
      BY <3>3, HeldCounted
    <3>5. elf[t] = NONE
      BY <3>1, EmptyHanded DEF ElfPCs, UnmountPCs
    <3>6. \A x \in Vnodes : refs[x] = refs[x] + Same(bootfs, x) - Same(th[t].hand, x)
      BY <1>0, <2>2 DEF Same
    <3> QED
      BY <1>0, <3>1, <3>2, <3>3, <3>4, <3>5, <3>6, FromStartKeeps
  <2> QED
    BY <2>1, <2>2
<1> QED
  BY <1>1, <1>2, <1>3

LEMMA RootReadStep ==
  ASSUME VfsInv, EmuKept, NEW t \in Threads, RootRead(t)
  PROVE  VfsInv'
<1> DEFINE m == th[t]
           v == <<m.fs, "root", t>>
<1>0. /\ m \in Thread /\ Right(t, m, cwd[t], elf[t]) /\ m.pc = "getroot" /\ elf[t] = NONE
  BY EmptyHanded DEF RootRead, Is, ElfPCs, UnmountPCs
<1>1. CASE m.fs = GONE
  <2>1. m.hand = NONE
    <3> SUFFICES ASSUME m.hand # NONE PROVE FALSE
      OBVIOUS
    <3>1. m.hand \in Vnodes /\ m.hand[1] = GONE
      BY <1>0, <1>1 DEF Right, Thread
    <3> QED
      BY <3>1, VnodeFacts, DiskFacts
  <2>2. Breaks("file system")
    BY <1>1, <2>1 DEF RootRead
  <2> QED
    BY <2>2, BreaksKeeps DEF Powers
<1>2. CASE m.fs # GONE
  <2>1. m.fs \in Disks /\ kdfs[m.fs] = "mounted"
    BY <1>0, <1>2 DEF Right
  <2>2. v \in Vnodes /\ Fine(v)
    BY <2>1, VnodeFacts DEF Fine
  <2>3. m.op \in Ops /\ m.file \in BOOLEAN /\ (m.op = "bootfs" => t = Menu)
    BY <1>0 DEF Thread, Ops, Right
  <2>4. CASE Fails(t, m.hand) /\ UNCHANGED <<kdfs, elf>>
    BY <1>0, <2>4, FailsKeeps
  <2>5. CASE FromStart(t, m.op, m.file, v, Decref(Incref(refs, v), m.hand))
              /\ UNCHANGED <<kdfs, elf>>
    <3> DEFINE q == Decref(Incref(refs, v), m.hand)
    <3>1. q \in [Vnodes -> Int]
            /\ \A x \in Vnodes : q[x] = refs[x] + Same(v, x) - Same(th[t].hand, x)
      BY <2>2, TakeFacts
    <3>2. FromStart(t, m.op, m.file, v, q)
      BY <2>5
    <3> HIDE DEF q, v
    <3> QED
      BY <1>0, <2>2, <2>3, <2>5, <3>1, <3>2, FromStartKeeps
  <2> QED
    BY <1>2, <2>4, <2>5 DEF RootRead
<1> QED
  BY <1>1, <1>2

\* The lookup in a directory ends with the program v.
LEMMA FoundKeeps ==
  ASSUME VfsInv, EmuKept, NEW t \in Threads, NEW op, NEW v \in Vnodes,
         elf[t] = NONE, op = "bootfs" => t = Menu, Fine(v), UNCHANGED <<kdfs, elf>>,
         FromLookup(t, op, v, Decref(Incref(refs, v), th[t].hand))
  PROVE  VfsInv'
<1> DEFINE q == Decref(Incref(refs, v), th[t].hand)
<1>1. q \in [Vnodes -> Int]
        /\ \A x \in Vnodes : q[x] = refs[x] + Same(v, x) - Same(th[t].hand, x)
  BY TakeFacts
<1>2. FromLookup(t, op, v, q)
  OBVIOUS
<1> HIDE DEF q
<1> QED
  BY <1>1, <1>2, FromLookupKeeps

LEMMA ReadSteps ==
  ASSUME VfsInv, EmuKept, NEW t \in Threads
  PROVE  DirRead(t) \/ FileRead(t) => VfsInv'
<1> SUFFICES ASSUME DirRead(t) \/ FileRead(t) PROVE VfsInv'
  OBVIOUS
<1> DEFINE m == th[t]
           d == m.hand[1]
<1>0. /\ m \in Thread /\ Right(t, m, cwd[t], elf[t]) /\ m.pc \in {"lookup", "getfile"}
      /\ elf[t] = NONE /\ refs \in [Vnodes -> Int]
  BY EmptyHanded DEF DirRead, FileRead, Is, ElfPCs, UnmountPCs
<1>1. m.hand \in Vnodes /\ m.hand[2] # "raw"
  BY <1>0 DEF Right, Thread
<1>2. refs[m.hand] > 0 /\ Fine(m.hand)
  BY <1>1, HeldCounted
<1>3. InMemory(m.hand)
  BY <1>2 DEF InMemory
<1>4. m.op = "bootfs" => t = Menu
  BY <1>0 DEF Right
<1>5. d \in Devices /\ (d \in Disks => kdfs[d] = "mounted")
  BY <1>1, <1>2, VnodeFacts DEF Fine
<1>7. ASSUME Fails(t, m.hand), UNCHANGED <<kdfs, elf>> PROVE VfsInv'
  BY <1>0, <1>7, FailsKeeps
<1>8. CASE FileRead(t)
  <2>1. /\ UNCHANGED <<kdfs, elf>>
        /\ \/ Fails(t, m.hand)
           \/ FromLookup(t, m.op, <<d, "prog", t>>,
                         Decref(Incref(refs, <<d, "prog", t>>), m.hand))
    BY <1>3, <1>8 DEF FileRead
  <2>2. th[t].hand[1] # Emu
    BY <1>0, <1>8 DEF FileRead, Is, Right
  <2>3. <<d, "prog", t>> \in Vnodes /\ Fine(<<d, "prog", t>>)
    BY <1>5, <2>2, VnodeFacts DEF Fine, Devices
  <2> QED
    BY <1>0, <1>4, <1>7, <2>1, <2>3, FoundKeeps
<1>9. CASE DirRead(t)
  <2> DEFINE known == {v \in Loaded(d) : v[2] = "prog"}
  <2>1. /\ UNCHANGED <<kdfs, elf>>
        /\ \/ Fails(t, m.hand)
           \/ \E v \in known :
                 FromLookup(t, m.op, v, Decref(Incref(refs, v), m.hand))
           \/ /\ known = {}
              /\ Goes(t, [m EXCEPT !.pc = "getfile"], refs)
              /\ UNCHANGED <<cwd, bootfs>>
    BY <1>3, <1>9 DEF DirRead
  <2>2. ASSUME NEW v \in known,
               FromLookup(t, m.op, v, Decref(Incref(refs, v), m.hand))
        PROVE  VfsInv'
    <3>1. v \in Vnodes /\ Fine(v)
      <4>1. v \in Vnodes /\ refs[v] > 0
        BY DEF Loaded
      <4> QED
        BY <4>1 DEF VfsInv, InMountedFs
    <3> QED
      BY <1>0, <1>4, <2>1, <2>2, <3>1, FoundKeeps
  <2>3. CASE Goes(t, [m EXCEPT !.pc = "getfile"], refs) /\ UNCHANGED <<cwd, bootfs>>
    <3>0. th[t].hand[1] # Emu
      BY <1>9 DEF DirRead
    <3> DEFINE a == th[t]
               n == [a EXCEPT !.pc = "getfile"]
    <3>1. Goes(t, n, refs) /\ UNCHANGED <<kdfs, cwd, bootfs, elf>>
      BY <2>1, <2>3
    <3>2. a \in Thread /\ Right(t, a, cwd[t], elf[t]) /\ a.pc \in {"lookup", "getfile"}
            /\ a.hand = th[t].hand
      BY <1>0
    <3> HIDE DEF a
    <3>3. /\ n \in Thread /\ n.pc = "getfile" /\ n.op = a.op /\ n.fs = a.fs
          /\ n.hand = a.hand /\ n.ix = a.ix
      BY <3>2 DEF Thread
    <3> HIDE DEF n
    <3>4. Right(t, n, cwd[t], elf[t])
      BY <3>0, <3>2, <3>3 DEF Right, HandPCs, UnmountPCs, ElfPCs
    <3>5. n.pc \notin ClearedPCs
      BY <3>3 DEF ClearedPCs, UnmountPCs
    <3> QED
      BY <3>1, <3>2, <3>3, <3>4, <3>5, OnlyGoesKeeps
  <2> QED
    BY <1>7, <2>1, <2>2, <2>3
<1> QED
  BY <1>8, <1>9

\* The menu and the programs hold nothing and have no executable at the prompt
\* and at birth.
LEMMA LookupSteps ==
  ASSUME VfsInv, EmuKept
  PROVE  /\ MenuLookup => VfsInv'
         /\ \A p \in Progs : Progthread(p) => VfsInv'
<1>1. ASSUME MenuLookup PROVE VfsInv'
  <2>1. Menu \in Threads /\ th[Menu].pc = "prompt"
    BY <1>1, VnodeFacts DEF MenuLookup, Is
  <2>2. th[Menu].hand = NONE /\ elf[Menu] = NONE
    BY <2>1, EmptyHanded DEF HandPCs, ElfPCs, UnmountPCs
  <2>3. "chdir" \in Ops /\ "bootfs" \in Ops
    BY DEF Ops
  <2> QED
    BY <1>1, <2>1, <2>2, <2>3, LookupKeeps DEF MenuLookup
<1>2. ASSUME NEW p \in Progs, Progthread(p) PROVE VfsInv'
  <2>1. p \in Threads /\ th[p].pc = "born"
    BY <1>2, VnodeFacts DEF Progthread, Is
  <2>2. th[p].hand = NONE /\ elf[p] = NONE
    BY <2>1, EmptyHanded DEF HandPCs, ElfPCs, UnmountPCs
  <2>3. "open" \in Ops /\ "open" # "bootfs"
    BY DEF Ops
  <2> QED
    BY <1>2, <2>1, <2>2, <2>3, LookupKeeps DEF Progthread
<1> QED
  BY <1>1, <1>2

\* common_prog and thread_fork.
LEMMA ProcCreateStep ==
  ASSUME VfsInv, EmuKept, ProcCreate
  PROVE  VfsInv'
<1> DEFINE v == cwd[Menu]
           a == At("fork")
           m == [a EXCEPT !.hand = v]
           q == IF v = NONE THEN refs ELSE Incref(refs, v)
<1>1. /\ Menu \in Threads /\ th[Menu].pc = "prompt"
      /\ Goes(Menu, m, q) /\ UNCHANGED <<kdfs, cwd, bootfs, elf>>
  BY VnodeFacts DEF ProcCreate, Is
<1>2. /\ th[Menu].hand = NONE /\ elf[Menu] = NONE /\ v \in Vnodes \cup {NONE}
      /\ refs \in [Vnodes -> Int]
  BY <1>1, EmptyHanded DEF HandPCs, ElfPCs, UnmountPCs
<1>3. v # NONE => v[2] = "root"
  BY <1>1 DEF VfsInv, ThreadsRight
<1>4. a \in Thread /\ a.pc = "fork" /\ a.fs = NONE /\ a.op = "none"
  BY AtFacts DEF PCs
<1>5. q \in [Vnodes -> Int]
        /\ \A x \in Vnodes : q[x] = refs[x] + Same(v, x) - Same(th[Menu].hand, x)
  <2>1. CASE v = NONE
    BY <1>2, <2>1 DEF Same
  <2>2. CASE v # NONE
    BY <1>1, <1>2, <2>2, TakeFirst
  <2> QED
    BY <2>1, <2>2
<1>6. v \in Vnodes => Fine(v)
  BY <1>1, HeldCounted
<1> HIDE DEF a, q, v
<1>7. m \in Thread /\ m.pc = "fork" /\ m.hand = v /\ m.fs = NONE /\ m.op = "none"
  BY <1>2, <1>4 DEF Thread
<1> HIDE DEF m
<1>8. Right(Menu, m, cwd[Menu], elf[Menu])
  BY <1>2, <1>3, <1>7, DiskFacts DEF Right, HandPCs, UnmountPCs
<1>9. m.pc \notin ClearedPCs
  BY <1>7 DEF ClearedPCs, UnmountPCs
<1> QED
  BY <1>1, <1>5, <1>6, <1>7, <1>8, <1>9, HandKeeps

\* The new thread takes over the directory: nothing is counted.
LEMMA BirthRefs ==
  ASSUME RefsHeld, NEW p \in Threads, NEW t \in Threads,
         cwd \in [Threads -> Vnodes \cup {NONE}], cwd' \in [Threads -> Vnodes \cup {NONE}],
         th \in [Threads -> Thread], th' \in [Threads -> Thread],
         cwd[p] = NONE, cwd'[p] = th[t].hand, th'[t].hand = NONE,
         \A u \in Threads \ {p} : cwd'[u] = cwd[u],
         \A u \in Threads \ {t} : th'[u].hand = th[u].hand,
         elf' = elf, bootfs' = bootfs, refs' = refs,
         unclosed' = unclosed, unclosed \in [Vnodes -> Nat]
  PROVE  RefsHeld'
<1> SUFFICES ASSUME NEW x \in Vnodes PROVE refs'[x] = Holders(x)' + unclosed'[x]
  BY DEF RefsHeld
<1>1. Owns(cwd', x) = Owns(cwd, x) + Same(cwd'[p], x) - Same(cwd[p], x)
  BY OwnsChange
<1>2. Owns(Hands(th'), x) = Owns(Hands(th), x) + Same(th'[t].hand, x) - Same(th[t].hand, x)
  BY HandsChange
<1>3. Holders(x)' = Owns(cwd', x) + Owns(elf', x) + Owns(Hands(th'), x)
                      + Same(bootfs', x) + Base(x)
  BY HoldersAre
<1>4. refs[x] = Owns(cwd, x) + Owns(elf, x) + Owns(Hands(th), x)
                  + Same(bootfs, x) + Base(x) + unclosed[x]
  BY HoldersAre DEF RefsHeld
<1>5. /\ Owns(cwd, x) \in Nat /\ Owns(elf, x) \in Nat /\ Owns(Hands(th), x) \in Nat
      /\ Base(x) \in Nat /\ unclosed[x] \in Nat /\ \A y : Same(y, x) \in Nat
  BY OwnsCounts DEF Base, Same
<1>6. /\ Owns(elf', x) = Owns(elf, x) /\ Same(bootfs', x) = Same(bootfs, x)
      /\ refs'[x] = refs[x] /\ Same(cwd'[p], x) = Same(th[t].hand, x)
      /\ Same(th'[t].hand, x) = Same(cwd[p], x) /\ unclosed'[x] = unclosed[x]
  OBVIOUS
<1> QED
  BY <1>1, <1>2, <1>3, <1>4, <1>5, <1>6

LEMMA BirthStep ==
  ASSUME VfsInv, EmuKept, NEW p \in Progs, Is(Menu, "fork"), UNCHANGED <<kdfs, bootfs, elf>>,
         th[p].pc = "unborn",
         th' = [th EXCEPT ![Menu] = At("prompt"), ![p] = At("born")],
         cwd' = [cwd EXCEPT ![p] = th[Menu].hand], UNCHANGED <<refs, power>>
  PROVE  VfsInv'
<1> DEFINE v == th[Menu].hand
<1>0. VfsTypes /\ RefsHeld /\ ThreadsRight /\ InMountedFs /\ BootRight
  BY DEF VfsInv
<1>1. Menu \in Threads /\ p \in Threads /\ p # Menu
  BY VnodeFacts, VfsAssumption
<1>2. th[Menu].pc = "fork" /\ Right(Menu, th[Menu], cwd[Menu], elf[Menu])
        /\ v \in Vnodes \cup {NONE} /\ elf[Menu] = NONE
  BY <1>1, EmptyHanded DEF Is, ElfPCs, UnmountPCs, Thread
<1>3. th[p].hand = NONE /\ elf[p] = NONE /\ cwd[p] = NONE
  BY <1>1, EmptyHanded DEF Right, HandPCs, ElfPCs, UnmountPCs
<1>4. v # NONE => v[2] = "root"
  BY <1>2 DEF Right
<1>5. /\ At("prompt") \in Thread /\ At("born") \in Thread
      /\ At("prompt").pc = "prompt" /\ At("prompt").hand = NONE /\ At("prompt").fs = NONE
      /\ At("prompt").op = "none" /\ At("prompt").peek = NONE
      /\ At("born").pc = "born" /\ At("born").hand = NONE /\ At("born").fs = NONE
      /\ At("born").op = "none" /\ At("born").peek = NONE
  BY AtFacts DEF PCs
<1>6. /\ th' \in [Threads -> Thread] /\ th'[Menu] = At("prompt") /\ th'[p] = At("born")
      /\ \A u \in Threads \ {Menu, p} : th'[u] = th[u]
  BY <1>0, <1>1, <1>5 DEF VfsTypes
<1>7. /\ cwd' \in [Threads -> Vnodes \cup {NONE}] /\ cwd'[p] = v
      /\ \A u \in Threads \ {p} : cwd'[u] = cwd[u]
  BY <1>0, <1>1, <1>2 DEF VfsTypes
<1>8. kdfs' = kdfs /\ bootfs' = bootfs /\ elf' = elf /\ refs' = refs /\ power' = power
  OBVIOUS
<1>e. /\ handles' \in SUBSET Handles /\ unclosed' = unclosed
      /\ unclosed \in [Vnodes -> Nat] /\ UnclosedRight'
  BY <1>0 DEF EmuKept, VfsTypes, UnclosedRight
<1>9. VfsTypes'
  BY <1>0, <1>6, <1>7, <1>8, <1>e DEF VfsTypes
<1>10. /\ \A u \in Threads \ {Menu} : th'[u].hand = th[u].hand
       /\ th'[Menu].hand = NONE /\ cwd[p] = NONE
       /\ cwd \in [Threads -> Vnodes \cup {NONE}] /\ th \in [Threads -> Thread]
  BY <1>0, <1>3, <1>5, <1>6 DEF VfsTypes
<1>11. RefsHeld'
  BY <1>0, <1>1, <1>6, <1>7, <1>8, <1>10, <1>e, BirthRefs
<1>12. ASSUME NEW u \in Threads
       PROVE  /\ Right(u, th[u], cwd[u], elf[u])'
              /\ th'[u].peek \in Vnodes => refs'[th'[u].peek] > 0
              /\ cwd'[u] # NONE => cwd'[u][2] = "root"
  <2>0. NONE \notin Disks /\ NONE \notin Vnodes
    BY DiskFacts, VnodeFacts
  <2>1. CASE u = Menu
    <3>1. th'[u] = At("prompt") /\ elf'[u] = NONE /\ cwd'[u] = cwd[u]
      BY <1>1, <1>2, <1>6, <1>7, <1>8, <2>1
    <3>2. Right(u, th[u], cwd[u], elf[u])'
      <4> DEFINE m == th'[u]
      <4>1. /\ m \in Thread /\ m.hand = NONE /\ m.fs = NONE /\ m.op = "none"
            /\ m.pc \in {"prompt", "born"}
        BY <1>5, <3>1
      <4> HIDE DEF m
      <4>2. elf'[u] = NONE /\ m = th'[u]
        BY <3>1 DEF m
      <4> QED
        BY <2>0, <4>1, <4>2 DEF Right, UnmountPCs
    <3> QED
      BY <1>0, <1>5, <2>0, <3>1, <3>2 DEF ThreadsRight
  <2>2. CASE u = p
    <3>1. th'[u] = At("born") /\ elf'[u] = NONE /\ cwd'[u] = v
      BY <1>3, <1>6, <1>7, <1>8, <2>2
    <3>2. Right(u, th[u], cwd[u], elf[u])'
      <4> DEFINE m == th'[u]
      <4>1. /\ m \in Thread /\ m.hand = NONE /\ m.fs = NONE /\ m.op = "none"
            /\ m.pc \in {"prompt", "born"}
        BY <1>5, <3>1
      <4> HIDE DEF m
      <4>2. elf'[u] = NONE /\ m = th'[u]
        BY <3>1 DEF m
      <4> QED
        BY <2>0, <4>1, <4>2 DEF Right, UnmountPCs
    <3> QED
      BY <1>4, <1>5, <2>0, <3>1, <3>2
  <2>3. CASE u # Menu /\ u # p
    <3>1. th'[u] = th[u] /\ elf'[u] = elf[u] /\ cwd'[u] = cwd[u]
      BY <1>6, <1>7, <1>8, <2>3
    <3>2. Right(u, th[u], cwd[u], elf[u])
      BY <1>0 DEF ThreadsRight
    <3>3. Right(u, th[u], cwd[u], elf[u])'
      BY <1>8, <3>1, <3>2 DEF Right
    <3> QED
      BY <1>0, <1>8, <3>1, <3>3 DEF ThreadsRight
  <2> QED
    BY <2>1, <2>2, <2>3
<1>13. ThreadsRight'
  BY <1>12 DEF ThreadsRight
<1>14. InMountedFs'
  BY <1>0, <1>8 DEF InMountedFs, Fine
<1>15. BootRight'
  BY <1>5, <1>6 DEF BootRight, ClearedPCs, UnmountPCs
<1> QED
  BY <1>9, <1>11, <1>13, <1>14, <1>15 DEF VfsInv

\* A thread drops what it had in hand.
LEMMA DropKeeps ==
  ASSUME VfsInv, EmuKept, NEW t \in Threads, NEW m \in Thread,
         Goes(t, m, Decref(refs, th[t].hand)), UNCHANGED <<kdfs, cwd, bootfs, elf>>,
         m.hand = NONE, Right(t, m, cwd[t], elf[t]),
         t = Menu => (m.pc \in ClearedPCs => bootfs = NONE)
  PROVE  VfsInv'
<1> DEFINE q == Decref(refs, th[t].hand)
<1>1. refs \in [Vnodes -> Int] /\ th[t].hand \in Vnodes \cup {NONE}
  BY EmptyHanded DEF Thread
<1>2. q \in [Vnodes -> Int] /\ \A x \in Vnodes : q[x] = refs[x] - Same(th[t].hand, x)
  BY <1>1, CountFacts
<1>3. Goes(t, m, q)
  OBVIOUS
<1> HIDE DEF q
<1>4. \A x \in Vnodes : q[x] = refs[x] + Same(m.hand, x) - Same(th[t].hand, x)
  BY <1>1, <1>2, VnodeFacts DEF Same
<1>5. m.hand \notin Vnodes
  BY VnodeFacts
<1> QED
  BY <1>2, <1>3, <1>4, <1>5, HandKeeps

LEMMA ThreadForkStep ==
  ASSUME VfsInv, EmuKept, ThreadFork
  PROVE  VfsInv'
<1>1. Menu \in Threads /\ Is(Menu, "fork") /\ UNCHANGED <<kdfs, bootfs, elf>>
        /\ th[Menu].pc = "fork"
  BY VnodeFacts DEF ThreadFork, Is
<1>2. CASE \E p \in Progs :
              /\ th[p].pc = "unborn"
              /\ th' = [th EXCEPT ![Menu] = At("prompt"), ![p] = At("born")]
              /\ cwd' = [cwd EXCEPT ![p] = th[Menu].hand]
              /\ UNCHANGED <<refs, power>>
  BY <1>1, <1>2, BirthStep
<1>3. CASE Goes(Menu, At("prompt"), Decref(refs, th[Menu].hand)) /\ UNCHANGED cwd
  <2>1. elf[Menu] = NONE
    BY <1>1, EmptyHanded DEF ElfPCs, UnmountPCs
  <2> DEFINE m == At("prompt")
  <2>2. m \in Thread /\ m.pc = "prompt" /\ m.hand = NONE /\ m.fs = NONE /\ m.op = "none"
    BY AtFacts DEF PCs
  <2>3. Goes(Menu, m, Decref(refs, th[Menu].hand)) /\ UNCHANGED <<kdfs, cwd, bootfs, elf>>
    BY <1>1, <1>3
  <2> HIDE DEF m
  <2>4. Right(Menu, m, cwd[Menu], elf[Menu])
    BY <2>1, <2>2, DiskFacts DEF Right, UnmountPCs
  <2>5. m.pc \notin ClearedPCs
    BY <2>2 DEF ClearedPCs, UnmountPCs
  <2> QED
    BY <1>1, <2>2, <2>3, <2>4, <2>5, DropKeeps
<1> QED
  BY <1>2, <1>3 DEF ThreadFork

\* The menu goes on with nothing in hand.
LEMMA MenuGoesKeeps ==
  ASSUME VfsInv, EmuKept, NEW m \in Thread, Goes(Menu, m, refs), UNCHANGED <<kdfs, cwd, bootfs, elf>>,
         th[Menu].pc \in {"prompt", "mount", "unmount", "sync"},
         m.pc \in {"prompt", "mount", "unmount", "sync", "shutdown"},
         m.hand = NONE, m.fs \in Disks => kdfs[m.fs] = "mounted",
         m.pc \in {"mount", "unmount"} \/ m.fs # NONE => m.ix <= Len(DiskSeq)
  PROVE  VfsInv'
<1>1. Menu \in Threads
  BY VnodeFacts
<1>2. th[Menu].hand = NONE /\ elf[Menu] = NONE
  BY <1>1, EmptyHanded DEF HandPCs, ElfPCs, UnmountPCs
<1>3. Right(Menu, m, cwd[Menu], elf[Menu])
  BY <1>2 DEF Right, UnmountPCs
<1>4. m.pc \notin ClearedPCs
  BY DEF ClearedPCs, UnmountPCs
<1> QED
  BY <1>1, <1>2, <1>3, <1>4, OnlyGoesKeeps

LEMMA MountSteps ==
  ASSUME VfsInv, EmuKept
  PROVE  /\ Mount => VfsInv'
         /\ Unmount => VfsInv'
         /\ Sync => VfsInv'
<1>0. NONE \notin Disks /\ Len(DiskSeq) \in Nat
        /\ \A i \in 1 .. Len(DiskSeq) : DiskSeq[i] \in Disks /\ DiskSeq[i] \in Devices
  BY DiskFacts, VnodeFacts
<1>1. ASSUME Mount PROVE VfsInv'
  <2>1. PICK i \in 1 .. Len(DiskSeq) : Goes(Menu, [At("mount") EXCEPT !.ix = i], refs)
    BY <1>1 DEF Mount
  <2> DEFINE a == At("mount")
             m == [a EXCEPT !.ix = i]
  <2>2. Goes(Menu, m, refs) /\ UNCHANGED <<kdfs, cwd, bootfs, elf>> /\ th[Menu].pc = "prompt"
    BY <1>1, <2>1 DEF Mount, Is
  <2>3. a \in Thread /\ a.pc = "mount" /\ a.hand = NONE /\ a.fs = NONE
    BY AtFacts DEF PCs
  <2> HIDE DEF a
  <2>4. m \in Thread /\ m.pc = "mount" /\ m.hand = NONE /\ m.fs = NONE /\ m.ix = i
    BY <1>0, <2>3 DEF Thread
  <2> HIDE DEF m
  <2> QED
    BY <1>0, <2>2, <2>4, MenuGoesKeeps
<1>2. ASSUME Unmount PROVE VfsInv'
  <2>1. PICK i \in 1 .. Len(DiskSeq) :
           /\ kdfs[DiskSeq[i]] = "mounted"
           /\ Goes(Menu, [At("unmount") EXCEPT !.fs = DiskSeq[i], !.ix = i], refs)
    BY <1>2 DEF Unmount
  <2> DEFINE a == At("unmount")
             d == DiskSeq[i]
             m == [a EXCEPT !.fs = d, !.ix = i]
  <2>2. Goes(Menu, m, refs) /\ UNCHANGED <<kdfs, cwd, bootfs, elf>> /\ th[Menu].pc = "prompt"
    BY <1>2, <2>1 DEF Unmount, Is
  <2>3. a \in Thread /\ a.pc = "unmount" /\ a.hand = NONE
    BY AtFacts DEF PCs
  <2>4. d \in Devices /\ kdfs[d] = "mounted"
    BY <1>0, <2>1
  <2> HIDE DEF a, d
  <2>5. m \in Thread /\ m.pc = "unmount" /\ m.hand = NONE /\ m.fs = d /\ m.ix = i
    <3> DEFINE b == [a EXCEPT !.fs = d]
               c == [b EXCEPT !.ix = i]
    <3>1. m = c
      OBVIOUS
    <3> HIDE DEF m
    <3>2. b \in Thread /\ b.pc = "unmount" /\ b.hand = NONE /\ b.fs = d
      BY <2>3, <2>4 DEF Thread
    <3> HIDE DEF b
    <3>3. c \in Thread /\ c.pc = "unmount" /\ c.hand = NONE /\ c.fs = d /\ c.ix = i
      BY <1>0, <3>2 DEF Thread
    <3> QED
      BY <3>1, <3>3
  <2> HIDE DEF m
  <2> QED
    BY <1>0, <2>2, <2>4, <2>5, MenuGoesKeeps
<1>3. ASSUME Sync PROVE VfsInv'
  <2>1. PICK op \in {"sync", "quit"} : Goes(Menu, [At("sync") EXCEPT !.op = op], refs)
    BY <1>3 DEF Sync
  <2> DEFINE a == At("sync")
             m == [a EXCEPT !.op = op]
  <2>2. Goes(Menu, m, refs) /\ UNCHANGED <<kdfs, cwd, bootfs, elf>> /\ th[Menu].pc = "prompt"
    BY <1>3, <2>1 DEF Sync, Is
  <2>3. a \in Thread /\ a.pc = "sync" /\ a.hand = NONE /\ a.fs = NONE
    BY AtFacts DEF PCs
  <2> HIDE DEF a
  <2>4. m \in Thread /\ m.pc = "sync" /\ m.hand = NONE /\ m.fs = NONE
    BY <2>3 DEF Thread
  <2> HIDE DEF m
  <2> QED
    BY <1>0, <2>2, <2>4, MenuGoesKeeps
<1> QED
  BY <1>1, <1>2, <1>3

LEMMA SyncNextStep ==
  ASSUME VfsInv, EmuKept, SyncNext
  PROVE  VfsInv'
<1> DEFINE s == th[Menu]
<1>0. /\ NONE \notin Disks /\ Len(DiskSeq) \in Nat /\ Menu \in Threads
      /\ \A i \in 1 .. Len(DiskSeq) : DiskSeq[i] \in Disks /\ DiskSeq[i] \in Devices
  BY DiskFacts, VnodeFacts
<1>1. /\ UNCHANGED <<kdfs, cwd, bootfs, elf>> /\ s.pc = "sync"
      /\ s \in Thread /\ Right(Menu, s, cwd[Menu], elf[Menu]) /\ s.hand = NONE
  BY <1>0, EmptyHanded DEF SyncNext, Is, HandPCs
<1>2. s.ix \in 1 .. (Len(DiskSeq) + 1)
  BY <1>1 DEF Thread
<1>3. CASE Goes(Menu, IF s.op = "quit" THEN At("shutdown") ELSE At("prompt"), refs)
  <2> DEFINE m == IF s.op = "quit" THEN At("shutdown") ELSE At("prompt")
  <2>1. m \in Thread /\ m.pc \in {"shutdown", "prompt"} /\ m.hand = NONE /\ m.fs = NONE
    BY AtFacts DEF PCs
  <2>2. Goes(Menu, m, refs)
    BY <1>3
  <2> HIDE DEF m
  <2> QED
    BY <1>0, <1>1, <2>1, <2>2, MenuGoesKeeps
<1>4. CASE /\ s.ix <= Len(DiskSeq) /\ kdfs[DiskSeq[s.ix]] = "mounted"
           /\ Goes(Menu, [s EXCEPT !.fs = DiskSeq[s.ix]], refs)
  <2> DEFINE m == [s EXCEPT !.fs = DiskSeq[s.ix]]
  <2>1. DiskSeq[s.ix] \in Disks /\ DiskSeq[s.ix] \in Devices
    BY <1>0, <1>2, <1>4
  <2>2. Goes(Menu, m, refs)
    BY <1>4
  <2>3. /\ m \in Thread /\ m.pc = "sync" /\ m.hand = NONE /\ m.fs = DiskSeq[s.ix]
        /\ m.ix = s.ix
    BY <1>1, <2>1 DEF Thread
  <2> HIDE DEF m
  <2> QED
    BY <1>0, <1>1, <1>4, <2>2, <2>3, MenuGoesKeeps
<1>5. CASE /\ s.ix <= Len(DiskSeq) /\ s.fs = NONE
           /\ Goes(Menu, [s EXCEPT !.ix = @ + 1], refs)
  <2> DEFINE m == [s EXCEPT !.ix = @ + 1]
  <2>1. s.ix + 1 \in 1 .. (Len(DiskSeq) + 1)
    BY <1>0, <1>2, <1>5
  <2>2. Goes(Menu, m, refs)
    BY <1>5
  <2>3. m \in Thread /\ m.pc = "sync" /\ m.hand = NONE /\ m.fs = NONE
    BY <1>1, <1>5, <2>1 DEF Thread
  <2> HIDE DEF m
  <2> QED
    BY <1>0, <1>1, <2>2, <2>3, MenuGoesKeeps
<1>6. CASE power' = "sync" /\ UNCHANGED <<refs, th>>
  BY <1>1, <1>6, BreaksKeeps DEF Breaks, Powers
<1>7. CASE /\ s.fs \in Disks
           /\ Goes(Menu, [s EXCEPT !.fs = NONE, !.ix = @ + 1], refs)
  <2> DEFINE m == [s EXCEPT !.fs = NONE, !.ix = @ + 1]
  <2>1. s.ix + 1 \in 1 .. (Len(DiskSeq) + 1)
    BY <1>0, <1>1, <1>2, <1>7 DEF Right
  <2>2. Goes(Menu, m, refs)
    BY <1>7
  <2>3. m \in Thread /\ m.pc = "sync" /\ m.hand = NONE /\ m.fs = NONE
    BY <1>1, <2>1 DEF Thread
  <2> HIDE DEF m
  <2> QED
    BY <1>0, <1>1, <2>2, <2>3, MenuGoesKeeps
<1> QED
  BY <1>3, <1>4, <1>5, <1>6, <1>7 DEF SyncNext

\* sfs_domount, and the two halves of the unmount command.
LEMMA MountDoneSteps ==
  ASSUME VfsInv, EmuKept
  PROVE  /\ MountDone => VfsInv'
         /\ UnmountSynced => VfsInv'
         /\ UnmountPrinted => VfsInv'
<1> DEFINE s == th[Menu]
           d == DiskSeq[s.ix]
           p == At("prompt")
<1>0. Menu \in Threads /\ s \in Thread /\ Right(Menu, s, cwd[Menu], elf[Menu])
  BY VnodeFacts, EmptyHanded
<1>1. ASSUME s.pc \in {"mount", "unmount", "print"}
      PROVE  /\ s.hand = NONE /\ elf[Menu] = NONE /\ s.ix \in 1 .. Len(DiskSeq)
             /\ d \in Disks
  <2>1. s.hand = NONE /\ elf[Menu] = NONE
    BY <1>0, <1>1, EmptyHanded DEF HandPCs, ElfPCs, UnmountPCs
  <2>2. s.ix \in 1 .. (Len(DiskSeq) + 1) /\ s.ix <= Len(DiskSeq)
    BY <1>0, <1>1 DEF Right, Thread
  <2>3. s.ix \in 1 .. Len(DiskSeq)
    BY <2>2, DiskFacts
  <2> QED
    BY <2>1, <2>3, DiskFacts
<1>2. p \in Thread /\ p.pc = "prompt" /\ p.hand = NONE /\ p.fs = NONE /\ p.op = "none"
  BY AtFacts DEF PCs
<1> HIDE DEF p
<1>3. ASSUME MountDone PROVE VfsInv'
  <2>1. s.pc = "mount" /\ Goes(Menu, p, refs) /\ UNCHANGED <<cwd, bootfs, elf>>
    BY <1>3 DEF MountDone, Is, p
  <2>2. CASE UNCHANGED kdfs
    BY <1>1, <1>2, <2>1, <2>2, DiskFacts, MenuGoesKeeps
  <2>3. CASE kdfs' = [kdfs EXCEPT ![d] = "mounted"]
    <3> HIDE DEF d
    <3>1. th' = Stale([th EXCEPT ![Menu] = p], refs, NONE)
            /\ UNCHANGED <<refs, cwd, bootfs, elf, power>>
      BY <2>1 DEF Goes
    <3>2. d \in Disks /\ NONE # d
      BY <1>1, <2>1, DiskFacts
    <3> QED
      BY <1>0, <1>1, <1>2, <2>1, <2>3, <3>1, <3>2, KdfsKeeps
  <2> QED
    BY <1>3, <2>2, <2>3 DEF MountDone
<1>4. ASSUME UnmountSynced PROVE VfsInv'
  <2>1. s.pc = "unmount"
    BY <1>4 DEF UnmountSynced, Is
  <2>2. CASE s.fs = GONE
    BY <1>4, <2>2, BreaksKeeps DEF UnmountSynced, Powers
  <2>3. CASE s.fs # GONE /\ Goes(Menu, p, refs) /\ UNCHANGED <<kdfs, cwd, bootfs, elf>>
    BY <1>2, <2>1, <2>3, DiskFacts, MenuGoesKeeps
  <2>4. CASE /\ s.fs # GONE /\ Loaded(d) = {} /\ UNCHANGED <<cwd, bootfs, elf>>
             /\ Destroy(Menu, [At("print") EXCEPT !.ix = s.ix], d, "freed")
    <3> DEFINE a == At("print")
               i == s.ix
               m == [a EXCEPT !.ix = i]
    <3>1. a \in Thread /\ a.pc = "print" /\ a.hand = NONE /\ a.fs = NONE /\ a.op = "none"
      BY AtFacts DEF PCs
    <3>2. /\ kdfs' = [kdfs EXCEPT ![d] = "freed"]
          /\ th' = Stale([th EXCEPT ![Menu] = m], refs, d)
          /\ UNCHANGED <<refs, cwd, bootfs, elf, power>>
      BY <2>4 DEF Destroy
    <3>3. i \in 1 .. Len(DiskSeq) /\ d \in Disks /\ NONE # d /\ Len(DiskSeq) \in Nat
      BY <1>1, <2>1, DiskFacts
    <3> HIDE DEF a, i
    <3>4. /\ m \in Thread /\ m.pc = "print" /\ m.hand = NONE /\ m.fs = NONE
          /\ m.op = "none" /\ m.ix = i
      BY <3>1, <3>3 DEF Thread
    <3> HIDE DEF m
    <3>5. m.ix <= Len(DiskSeq) /\ DiskSeq[m.ix] = d
      BY <3>3, <3>4 DEF i
    <3> HIDE DEF d
    <3> QED
      BY <1>0, <1>1, <2>1, <2>4, <3>2, <3>3, <3>4, <3>5, KdfsKeeps
  <2> QED
    BY <1>4, <2>2, <2>3, <2>4 DEF UnmountSynced, p
<1>5. ASSUME UnmountPrinted PROVE VfsInv'
  <2>1. s.pc = "print" /\ Goes(Menu, p, refs) /\ UNCHANGED <<cwd, bootfs, elf>>
          /\ kdfs' = [kdfs EXCEPT ![d] = "none"]
    BY <1>5 DEF UnmountPrinted, Is, p
  <2>2. kdfs[d] = "freed" /\ d \in Disks /\ NONE # d
    BY <1>0, <1>1, <2>1, DiskFacts DEF Right
  <2> HIDE DEF d
  <2>3. th' = Stale([th EXCEPT ![Menu] = p], refs, NONE)
          /\ UNCHANGED <<refs, cwd, bootfs, elf, power>>
    BY <2>1 DEF Goes
  <2>4. Loaded(d) = {}
    <3> SUFFICES ASSUME NEW v \in Vnodes, v[1] = d, v[2] # "raw", refs[v] > 0 PROVE FALSE
      BY DEF Loaded
    <3>1. Fine(v)
      BY DEF VfsInv, InMountedFs
    <3> QED
      BY <2>2, <3>1 DEF Fine
  <2>5. \A u \in Threads : th[u].fs # d
    <3> SUFFICES ASSUME NEW u \in Threads, th[u].fs = d PROVE FALSE
      OBVIOUS
    <3>1. Right(u, th[u], cwd[u], elf[u])
      BY EmptyHanded
    <3> QED
      BY <2>2, <3>1 DEF Right
  <2> QED
    BY <1>0, <1>1, <1>2, <2>1, <2>2, <2>3, <2>4, <2>5, KdfsKeeps
<1> QED
  BY <1>3, <1>4, <1>5

\* runprogram, sys__exit and sys_reboot.
LEMMA ProgramSteps ==
  ASSUME VfsInv, EmuKept, NEW p \in Progs
  PROVE  /\ RunProgram(p) => VfsInv'
         /\ Exit(p) => VfsInv'
         /\ Reboot(p) => VfsInv'
<1>0. /\ p \in Threads /\ p # Menu /\ th[p] \in Thread /\ Right(p, th[p], cwd[p], elf[p])
      /\ refs \in [Vnodes -> Int] /\ refs \in [Vnodes -> Nat]
      /\ cwd \in [Threads -> Vnodes \cup {NONE}] /\ elf \in [Threads -> Vnodes \cup {NONE}]
      /\ bootfs \in Vnodes \cup {NONE} /\ NONE \notin Disks /\ NONE \notin Vnodes
      /\ cwd[p] # NONE => cwd[p][2] = "root"
  BY VnodeFacts, DiskFacts, VfsAssumption, EmptyHanded DEF VfsInv, VfsTypes, ThreadsRight
<1>1. \A pc \in {"user", "dead", "shutdown"} :
         /\ At(pc) \in Thread /\ At(pc).pc = pc /\ At(pc).hand = NONE
         /\ At(pc).fs = NONE /\ At(pc).op = "none" /\ At(pc).pc \notin ClearedPCs
         /\ \A e : (pc = "user" => e # NONE) => Right(p, At(pc), cwd[p], e)
  <2> SUFFICES ASSUME NEW pc \in {"user", "dead", "shutdown"}
               PROVE  /\ At(pc) \in Thread /\ At(pc).pc = pc /\ At(pc).hand = NONE
                      /\ At(pc).fs = NONE /\ At(pc).op = "none" /\ At(pc).pc \notin ClearedPCs
                      /\ \A e : (pc = "user" => e # NONE) => Right(p, At(pc), cwd[p], e)
    OBVIOUS
  <2> DEFINE m == At(pc)
  <2>1. /\ m \in Thread /\ m.pc = pc /\ m.hand = NONE /\ m.fs = NONE /\ m.op = "none"
    BY AtFacts DEF PCs
  <2> HIDE DEF m
  <2>2. m.pc \notin ClearedPCs
    BY <2>1 DEF ClearedPCs, UnmountPCs
  <2>3. \A e : (pc = "user" => e # NONE) => Right(p, m, cwd[p], e)
    BY <1>0, <2>1 DEF Right, ElfPCs, UnmountPCs
  <2> QED
    BY <2>1, <2>2, <2>3 DEF m
<1>5. /\ Back(p) = At("dead")
      /\ \A v \in Vnodes :
            LET c == [At("closing") EXCEPT !.hand = v]
            IN /\ c \in Thread /\ c.hand = v
               /\ v[1] = Emu => Right(p, c, cwd[p], NONE)
  <2> SUFFICES ASSUME NEW v \in Vnodes
               PROVE  LET c == [At("closing") EXCEPT !.hand = v]
                      IN /\ c \in Thread /\ c.hand = v
                         /\ v[1] = Emu => Right(p, c, cwd[p], NONE)
    BY <1>0 DEF Back
  <2> DEFINE c == [At("closing") EXCEPT !.hand = v]
  <2>1. c \in Thread /\ c.hand = v /\ c.pc = "closing" /\ c.fs = NONE /\ c.op = "none"
    BY AtFacts, WithHand DEF PCs
  <2> HIDE DEF c
  <2>2. v[1] = Emu => Right(p, c, cwd[p], NONE)
    BY <1>0, <2>1 DEF Right, HandPCs, UnmountPCs
  <2> QED
    BY <2>1, <2>2 DEF c
<1>2. ASSUME RunProgram(p) PROVE VfsInv'
  <2> DEFINE v == th[p].hand
  <2>1. th[p].pc = "opened" /\ v \in Vnodes /\ elf[p] = NONE
    BY <1>0, <1>2, EmptyHanded DEF RunProgram, Is, Right, Thread, ElfPCs, UnmountPCs
  <2>2. InMemory(v)
    BY <1>0, <2>1, HeldCounted DEF InMemory
  <2>3. UNCHANGED <<kdfs, cwd, bootfs>>
    BY <1>2 DEF RunProgram
  <2>4. CASE Drop(p, v, refs) /\ UNCHANGED elf
    <3> DEFINE c == [At("closing") EXCEPT !.hand = v]
    <3>1. CASE Goes(p, At("dead"), Decref(refs, v))
      BY <1>0, <1>1, <2>3, <2>4, <3>1, DropKeeps
    <3>2. CASE v[1] = Emu /\ Goes(p, c, refs)
      <4>1. c \in Thread /\ c.hand = v /\ Right(p, c, cwd[p], elf[p])
        BY <1>5, <2>1, <3>2
      <4>2. Goes(p, c, refs) /\ UNCHANGED <<kdfs, cwd, bootfs, elf>>
        BY <2>3, <2>4, <3>2
      <4> HIDE DEF c
      <4> QED
        BY <1>0, <4>1, <4>2, OnlyGoesKeeps
    <3> QED
      BY <1>5, <2>4, <3>1, <3>2 DEF Drop
  <2>5. ASSUME elf' = [elf EXCEPT ![p] = v], NEW pc \in {"user", "dead"},
               Goes(p, At(pc), refs)
        PROVE  VfsInv'
    <3> DEFINE m == At(pc)
    <3>1. m \in Thread /\ m.hand = NONE /\ Right(p, m, cwd[p], v)
      BY <1>0, <1>1, <2>1
    <3>2. /\ elf' \in [Threads -> Vnodes \cup {NONE}] /\ elf'[p] = v
          /\ \A u \in Threads \ {p} : elf'[u] = elf[u]
      BY <1>0, <2>1, <2>5
    <3>3. Goes(p, m, refs) /\ cwd' = cwd /\ bootfs' = bootfs /\ kdfs' = kdfs
      BY <2>3, <2>5
    <3> HIDE DEF m
    <3>4. ASSUME NEW x \in Vnodes
          PROVE  refs[x] = refs[x] + Same(cwd'[p], x) - Same(cwd[p], x)
                             + Same(elf'[p], x) - Same(elf[p], x)
                             + Same(m.hand, x) - Same(th[p].hand, x)
                             + Same(bootfs', x) - Same(bootfs, x)
      <4>1. /\ Same(cwd'[p], x) = Same(cwd[p], x) /\ Same(elf'[p], x) = Same(th[p].hand, x)
            /\ Same(m.hand, x) = Same(elf[p], x) /\ Same(bootfs', x) = Same(bootfs, x)
        BY <2>1, <3>1, <3>2, <3>3
      <4>2. \A y : Same(y, x) \in Nat
        BY DEF Same
      <4> QED
        BY <1>0, <4>1, <4>2
    <3> HIDE DEF v
    <3> QED
      BY <1>0, <3>1, <3>2, <3>3, <3>4, GoesKeeps
  <2> QED
    BY <1>2, <2>2, <2>4, <2>5 DEF RunProgram
<1>3. ASSUME Exit(p) PROVE VfsInv'
  <2> DEFINE v == elf[p]
  <2>1. th[p].hand = NONE /\ v \in Vnodes
    BY <1>0, <1>3, EmptyHanded DEF Exit, Is, HandPCs, Right
  <2>2. InMemory(v) /\ Fine(v)
    BY <1>0, <2>1, HeldCounted DEF InMemory
  <2>3. /\ elf' = [elf EXCEPT ![p] = NONE] /\ Drop(p, v, refs)
        /\ cwd' = cwd /\ bootfs' = bootfs /\ kdfs' = kdfs
    BY <1>3, <2>2 DEF Exit
  <2>4. /\ elf' \in [Threads -> Vnodes \cup {NONE}] /\ elf'[p] = NONE
        /\ \A u \in Threads \ {p} : elf'[u] = elf[u]
    BY <1>0, <2>3
  <2>5. ASSUME NEW m \in Thread, NEW q \in [Vnodes -> Int], Goes(p, m, q),
               Right(p, m, cwd[p], NONE),
               \A x \in Vnodes : q[x] = refs[x] + Same(m.hand, x) - Same(v, x),
               m.hand \in {NONE, v}
        PROVE  VfsInv'
    <3>1. ASSUME NEW x \in Vnodes
          PROVE  /\ q[x] = refs[x] + Same(cwd'[p], x) - Same(cwd[p], x)
                             + Same(elf'[p], x) - Same(elf[p], x)
                             + Same(m.hand, x) - Same(th[p].hand, x)
                             + Same(bootfs', x) - Same(bootfs, x)
                 /\ q[x] > 0 => refs[x] > 0
      <4>1. /\ Same(cwd'[p], x) = Same(cwd[p], x) /\ Same(elf'[p], x) = Same(NONE, x)
            /\ Same(th[p].hand, x) = Same(NONE, x)
            /\ Same(bootfs', x) = Same(bootfs, x) /\ Same(NONE, x) = 0
        BY <1>0, <2>1, <2>3, <2>4 DEF Same
      <4>2. /\ \A y : Same(y, x) \in Nat
            /\ Same(m.hand, x) <= Same(v, x)
        BY <1>0, <2>5 DEF Same
      <4>3. refs[x] \in Nat /\ q[x] = refs[x] + Same(m.hand, x) - Same(v, x)
        BY <1>0, <2>5
      <4> HIDE DEF v
      <4> QED
        BY <4>1, <4>2, <4>3 DEF v
    <3> HIDE DEF v
    <3> QED
      BY <1>0, <2>3, <2>4, <2>5, <3>1, GoesKeeps
  <2>6. CASE Goes(p, At("dead"), Decref(refs, v))
    <3> DEFINE m == At("dead")
               q == Decref(refs, v)
    <3>1. m \in Thread /\ m.hand = NONE /\ Right(p, m, cwd[p], NONE)
      BY <1>1
    <3>2. q \in [Vnodes -> Int] /\ \A x \in Vnodes : q[x] = refs[x] - Same(v, x)
      BY <1>0, <2>1, CountFacts
    <3>3. \A x, y : Same(y, x) \in Nat
      BY DEF Same
    <3>4. \A x \in Vnodes : Same(NONE, x) = 0
      BY <1>0 DEF Same
    <3>5. Goes(p, m, q)
      BY <2>6
    <3> HIDE DEF m, q, v
    <3>6. \A x \in Vnodes : q[x] = refs[x] + Same(m.hand, x) - Same(v, x)
      BY <1>0, <3>1, <3>2, <3>3, <3>4
    <3> QED
      BY <2>5, <3>1, <3>2, <3>5, <3>6
  <2>7. CASE v[1] = Emu /\ Goes(p, [At("closing") EXCEPT !.hand = v], refs)
    <3> DEFINE m == [At("closing") EXCEPT !.hand = v]
    <3>1. m \in Thread /\ m.hand = v /\ Right(p, m, cwd[p], NONE)
      BY <1>5, <2>1, <2>7
    <3>2. Goes(p, m, refs)
      BY <2>7
    <3> HIDE DEF m, v
    <3>3. \A x \in Vnodes : refs[x] = refs[x] + Same(m.hand, x) - Same(v, x)
      BY <1>0, <3>1 DEF Same
    <3> QED
      BY <1>0, <2>5, <3>1, <3>2, <3>3
  <2> QED
    BY <1>5, <2>3, <2>6, <2>7 DEF Drop
<1>4. ASSUME Reboot(p) PROVE VfsInv'
  <2>1. /\ th[p].hand = NONE /\ Goes(p, At("shutdown"), refs)
        /\ UNCHANGED <<kdfs, cwd, bootfs, elf>>
    BY <1>0, <1>4, EmptyHanded DEF Reboot, Is, HandPCs
  <2> QED
    BY <1>0, <1>1, <2>1, OnlyGoesKeeps
<1> QED
  BY <1>2, <1>3, <1>4

\* Files on emu0: what the device answers, and what emufs_reclaim makes of it.
LEMMA EmuSteps ==
  ASSUME VfsInv, NEW t \in Threads
  PROVE  /\ EmuLookup(t) => VfsInv'
         /\ EmuClose(t) => VfsInv'
         /\ Reclaimed(t) => VfsInv'
<1> DEFINE s == th[t]
<1>0. /\ s \in Thread /\ Right(t, s, cwd[t], elf[t]) /\ refs \in [Vnodes -> Int]
      /\ handles \in SUBSET Handles /\ UnclosedRight
      /\ s.pc \in {"lookup", "closing", "closed"} => elf[t] = NONE
  BY EmptyHanded DEF VfsInv, VfsTypes, ElfPCs, UnmountPCs
<1>b. /\ Back(t) \in Thread /\ Back(t).hand = NONE /\ Back(t).pc \notin ClearedPCs
      /\ elf[t] = NONE => Right(t, Back(t), cwd[t], elf[t])
  BY BackFacts DEF ClearedPCs, UnmountPCs
<1>1. ASSUME EmuLookup(t) PROVE VfsInv'
  <2>1. /\ s.pc = "lookup" /\ elf[t] = NONE /\ UNCHANGED <<kdfs, elf, unclosed>>
        /\ s.op = "bootfs" => t = Menu
    BY <1>0, <1>1 DEF EmuLookup, Is, Right
  <2>2. handles' \in SUBSET Handles
    BY <1>0, <1>1 DEF EmuLookup
  <2>3. EmuKept
    BY <2>1, <2>2 DEF EmuKept
  <2>4. CASE Fails(t, s.hand)
    BY <2>1, <2>3, <2>4, FailsKeeps
  <2>5. ASSUME NEW h \in Handles,
               FromLookup(t, s.op, <<Emu, "prog", h>>,
                          Decref(Incref(refs, <<Emu, "prog", h>>), s.hand))
        PROVE  VfsInv'
    <3>1. <<Emu, "prog", h>> \in Vnodes /\ Fine(<<Emu, "prog", h>>)
      BY VnodeFacts, DiskFacts DEF Fine
    <3> QED
      BY <2>1, <2>3, <2>5, <3>1, FoundKeeps
  <2> QED
    BY <1>1, <2>4, <2>5 DEF EmuLookup
<1>2. ASSUME EmuClose(t) PROVE VfsInv'
  <2> DEFINE v == s.hand
  <2>1. /\ s.pc = "closing" /\ UNCHANGED <<kdfs, cwd, bootfs, elf>>
        /\ elf[t] = NONE /\ v \in Vnodes /\ v[1] = Emu
    BY <1>0, <1>2 DEF EmuClose, Is, Right, Thread
  <2>2. CASE /\ handles' = handles \ {v[3]} /\ UNCHANGED unclosed
             /\ Goes(t, [s EXCEPT !.pc = "closed"], refs)
    <3> DEFINE m == [s EXCEPT !.pc = "closed"]
    <3>1. EmuKept
      BY <1>0, <2>2 DEF EmuKept
    <3>2. /\ m \in Thread /\ m.pc = "closed" /\ m.op = s.op /\ m.fs = s.fs
          /\ m.hand = s.hand /\ m.ix = s.ix
      BY <1>0 DEF Thread
    <3>3. Goes(t, m, refs)
      BY <2>2
    <3> HIDE DEF m
    <3>4. Right(t, m, cwd[t], elf[t])
      BY <1>0, <2>1, <3>2 DEF Right, HandPCs, UnmountPCs
    <3>5. m.pc \notin ClearedPCs
      BY <3>2 DEF ClearedPCs, UnmountPCs
    <3> QED
      BY <2>1, <3>1, <3>2, <3>3, <3>4, <3>5, OnlyGoesKeeps
  <2>3. CASE /\ unclosed' = [unclosed EXCEPT ![v] = @ + 1] /\ UNCHANGED handles
             /\ Goes(t, Back(t), refs)
    <3>1. \A x \in Vnodes : /\ unclosed[x] \in Nat
                            /\ unclosed'[x] = unclosed[x] + Same(v, x)
      BY <1>0, <2>3 DEF UnclosedRight, Same
    <3>2. unclosed' \in [Vnodes -> Nat]
      BY <1>0, <2>1, <2>3 DEF UnclosedRight
    <3>3. UnclosedRight'
      <4>1. \A x \in Vnodes : unclosed'[x] > 0 => x[1] = Emu
        BY <1>0, <2>1, <3>1 DEF UnclosedRight, Same
      <4> QED
        BY <3>2, <4>1 DEF UnclosedRight
    <3>4. ASSUME NEW x \in Vnodes
          PROVE  refs[x] = refs[x] + Same(cwd'[t], x) - Same(cwd[t], x)
                             + Same(elf'[t], x) - Same(elf[t], x)
                             + Same(Back(t).hand, x) - Same(th[t].hand, x)
                             + Same(bootfs', x) - Same(bootfs, x)
                             + unclosed'[x] - unclosed[x]
      <4>1. /\ Same(cwd'[t], x) = Same(cwd[t], x) /\ Same(elf'[t], x) = Same(elf[t], x)
            /\ Same(bootfs', x) = Same(bootfs, x) /\ Same(Back(t).hand, x) = 0
        BY <1>b, <2>1, VnodeFacts DEF Same
      <4>2. \A y : Same(y, x) \in Nat
        BY DEF Same
      <4>3. /\ refs[x] \in Int /\ unclosed[x] \in Nat
            /\ unclosed'[x] = unclosed[x] + Same(th[t].hand, x)
        BY <1>0, <3>1
      <4> QED
        BY <4>1, <4>2, <4>3
    <3>5. /\ cwd' \in [Threads -> Vnodes \cup {NONE}]
          /\ elf' \in [Threads -> Vnodes \cup {NONE}]
          /\ bootfs' \in Vnodes \cup {NONE} /\ kdfs' = kdfs /\ bootfs' = bootfs
          /\ \A u \in Threads \ {t} : cwd'[u] = cwd[u] /\ elf'[u] = elf[u]
          /\ cwd'[t] # NONE => cwd'[t][2] = "root"
          /\ handles' \in SUBSET Handles
      BY <1>0, <2>1, <2>3 DEF VfsInv, VfsTypes, ThreadsRight
    <3>6. Right(t, Back(t), cwd'[t], elf'[t])
      BY <1>b, <2>1
    <3> QED
      BY <1>0, <1>b, <2>3, <3>3, <3>4, <3>5, <3>6, GoesOrLeaves
  <2> QED
    BY <1>2, <2>2, <2>3 DEF EmuClose
<1>3. ASSUME Reclaimed(t) PROVE VfsInv'
  <2>1. s.pc = "closed" /\ elf[t] = NONE
    BY <1>0, <1>3 DEF Reclaimed, Is
  <2>2. EmuKept
    BY <1>0, <1>3 DEF Reclaimed, emuvars, EmuKept
  <2>3. CASE refs[s.hand] # 1
    BY <1>3, <2>2, <2>3, BreaksKeeps DEF Reclaimed, Powers
  <2>4. CASE refs[s.hand] = 1
    <3>1. /\ Goes(t, Back(t), Decref(refs, s.hand))
          /\ UNCHANGED <<kdfs, cwd, bootfs, elf>>
      BY <1>3, <2>4 DEF Reclaimed
    <3> QED
      BY <1>b, <2>1, <2>2, <3>1, DropKeeps
  <2> QED
    BY <2>3, <2>4
<1> QED
  BY <1>1, <1>2, <1>3

\* shutdown's first two steps.
LEMMA ClearSteps ==
  ASSUME VfsInv, EmuKept, NEW t \in Threads
  PROVE  /\ ClearBootfs(t) => VfsInv'
         /\ ClearCurdir(t) => VfsInv'
<1>0. /\ th[t] \in Thread /\ Right(t, th[t], cwd[t], elf[t])
      /\ refs \in [Vnodes -> Int] /\ refs \in [Vnodes -> Nat]
      /\ cwd \in [Threads -> Vnodes \cup {NONE}] /\ elf \in [Threads -> Vnodes \cup {NONE}]
      /\ bootfs \in Vnodes \cup {NONE} /\ NONE \notin Disks /\ NONE \notin Vnodes
      /\ cwd[t] # NONE => cwd[t][2] = "root"
  BY VnodeFacts, DiskFacts, EmptyHanded DEF VfsInv, VfsTypes, ThreadsRight
<1>s. /\ \A x, y : Same(y, x) \in Nat
      /\ \A x \in Vnodes : Same(NONE, x) = 0
  BY VnodeFacts DEF Same
<1>1. ASSUME ClearBootfs(t) PROVE VfsInv'
  <2> DEFINE m == At("clearcwd")
             q == Decref(refs, bootfs)
  <2>1. /\ th[t].hand = NONE /\ bootfs' = NONE /\ Goes(t, m, q)
        /\ kdfs' = kdfs /\ cwd' = cwd /\ elf' = elf
    BY <1>1, EmptyHanded DEF ClearBootfs, Is, HandPCs
  <2>2. m \in Thread /\ m.pc = "clearcwd" /\ m.hand = NONE /\ m.fs = NONE /\ m.op = "none"
    BY AtFacts DEF PCs
  <2>3. q \in [Vnodes -> Int] /\ \A x \in Vnodes : q[x] = refs[x] - Same(bootfs, x)
    BY <1>0, CountFacts
  <2> HIDE DEF m, q
  <2>4. Right(t, m, cwd'[t], elf'[t])
    BY <1>0, <2>2 DEF Right, ElfPCs, UnmountPCs
  <2>5. ASSUME NEW x \in Vnodes
        PROVE  /\ q[x] = refs[x] + Same(cwd'[t], x) - Same(cwd[t], x)
                           + Same(elf'[t], x) - Same(elf[t], x)
                           + Same(m.hand, x) - Same(th[t].hand, x)
                           + Same(bootfs', x) - Same(bootfs, x)
               /\ q[x] > 0 => refs[x] > 0
    <3>1. /\ Same(cwd'[t], x) = Same(cwd[t], x) /\ Same(elf'[t], x) = Same(elf[t], x)
          /\ Same(m.hand, x) = 0 /\ Same(th[t].hand, x) = 0 /\ Same(bootfs', x) = 0
      BY <1>s, <2>1, <2>2
    <3> QED
      BY <1>0, <1>s, <2>3, <3>1
  <2> QED
    BY <1>0, <2>1, <2>2, <2>3, <2>4, <2>5, GoesKeeps
<1>2. ASSUME ClearCurdir(t) PROVE VfsInv'
  <2> DEFINE m == At("unmountall")
             q == Decref(refs, cwd[t])
  <2>1. /\ th[t].hand = NONE /\ cwd' = [cwd EXCEPT ![t] = NONE] /\ Goes(t, m, q)
        /\ kdfs' = kdfs /\ bootfs' = bootfs /\ elf' = elf /\ th[t].pc = "clearcwd"
    BY <1>2, EmptyHanded DEF ClearCurdir, Is, HandPCs
  <2>2. m \in Thread /\ m.pc = "unmountall" /\ m.hand = NONE /\ m.fs = NONE /\ m.op = "none"
    BY AtFacts DEF PCs
  <2>3. q \in [Vnodes -> Int] /\ \A x \in Vnodes : q[x] = refs[x] - Same(cwd[t], x)
    BY <1>0, CountFacts
  <2>4. /\ cwd' \in [Threads -> Vnodes \cup {NONE}] /\ cwd'[t] = NONE
        /\ \A u \in Threads \ {t} : cwd'[u] = cwd[u]
    BY <1>0, <2>1
  <2> HIDE DEF m, q
  <2>5. Right(t, m, cwd'[t], elf'[t])
    BY <1>0, <2>2, <2>4 DEF Right, ElfPCs, UnmountPCs
  <2>6. ASSUME NEW x \in Vnodes
        PROVE  /\ q[x] = refs[x] + Same(cwd'[t], x) - Same(cwd[t], x)
                           + Same(elf'[t], x) - Same(elf[t], x)
                           + Same(m.hand, x) - Same(th[t].hand, x)
                           + Same(bootfs', x) - Same(bootfs, x)
               /\ q[x] > 0 => refs[x] > 0
    <3>1. /\ Same(cwd'[t], x) = 0 /\ Same(elf'[t], x) = Same(elf[t], x)
          /\ Same(m.hand, x) = 0 /\ Same(th[t].hand, x) = 0
          /\ Same(bootfs', x) = Same(bootfs, x)
      BY <1>s, <2>1, <2>2, <2>4
    <3> QED
      BY <1>0, <1>s, <2>3, <3>1
  <2>7. t = Menu => bootfs' = NONE
    BY <2>1 DEF VfsInv, BootRight, ClearedPCs
  <2> QED
    BY <1>0, <2>1, <2>2, <2>3, <2>4, <2>5, <2>6, <2>7, GoesKeeps
<1> QED
  BY <1>1, <1>2

\* vfs_unmountall goes on: no current directory is left, and in the menu no
\* boot file system.
LEMMA UnmountGoesKeeps ==
  ASSUME VfsInv, EmuKept, NEW t \in Threads, NEW m \in Thread, Goes(t, m, refs),
         UNCHANGED <<kdfs, cwd, bootfs, elf>>,
         th[t].pc \in UnmountPCs, m.pc \in UnmountPCs, m.hand = NONE,
         m.op = th[t].op, m.fs \in Disks => kdfs[m.fs] = "mounted",
         m.pc \in {"tell", "drop"} \/ m.fs # NONE => m.ix <= Len(DiskSeq)
  PROVE  VfsInv'
<1>1. th[t].hand = NONE /\ Right(t, th[t], cwd[t], elf[t])
  BY EmptyHanded DEF HandPCs, UnmountPCs
<1>2. Right(t, m, cwd[t], elf[t])
  BY <1>1 DEF Right, UnmountPCs, ElfPCs
<1>3. t = Menu => bootfs = NONE
  BY DEF VfsInv, BootRight, ClearedPCs
<1> QED
  BY <1>1, <1>2, <1>3, OnlyGoesKeeps

LEMMA UnmountallSteps ==
  ASSUME VfsInv, EmuKept, NEW t \in Threads
  PROVE  /\ UnmountallFind(t) => VfsInv'
         /\ UnmountallSync(t) => VfsInv'
         /\ UnmountallSynced(t) => VfsInv'
<1> DEFINE s == th[t]
           d == DiskSeq[s.ix]
<1>0. /\ s \in Thread /\ Right(t, s, cwd[t], elf[t]) /\ NONE \notin Disks
      /\ s.ix \in 1 .. (Len(DiskSeq) + 1) /\ Len(DiskSeq) \in Nat
      /\ s.pc \in UnmountPCs => s.hand = NONE
      /\ s.ix <= Len(DiskSeq) =>
            d \in Disks /\ d \in Devices /\ s.ix + 1 \in 1 .. (Len(DiskSeq) + 1)
  BY VnodeFacts, DiskFacts, EmptyHanded DEF Thread, HandPCs, UnmountPCs
<1>1. ASSUME UnmountallFind(t) PROVE VfsInv'
  <2>1. /\ s.pc = "unmountall" /\ s.ix <= Len(DiskSeq) /\ s.fs = NONE
        /\ UNCHANGED <<kdfs, cwd, bootfs, elf>>
        /\ \/ Goes(t, [s EXCEPT !.ix = @ + 1], refs)
           \/ Goes(t, [s EXCEPT !.pc = "tell"], refs)
    BY <1>1 DEF UnmountallFind, Is
  <2>2. CASE Goes(t, [s EXCEPT !.ix = @ + 1], refs)
    <3> DEFINE m == [s EXCEPT !.ix = @ + 1]
    <3>1. Goes(t, m, refs)
      BY <2>2
    <3>2. m \in Thread /\ m.pc = s.pc /\ m.hand = s.hand /\ m.fs = s.fs /\ m.op = s.op
      BY <1>0, <2>1 DEF Thread
    <3> HIDE DEF m
    <3> QED
      BY <1>0, <2>1, <3>1, <3>2, UnmountGoesKeeps DEF UnmountPCs
  <2>3. CASE Goes(t, [s EXCEPT !.pc = "tell"], refs)
    <3> DEFINE m == [s EXCEPT !.pc = "tell"]
    <3>1. Goes(t, m, refs)
      BY <2>3
    <3>2. /\ m \in Thread /\ m.pc = "tell" /\ m.hand = s.hand /\ m.fs = s.fs
          /\ m.op = s.op /\ m.ix = s.ix
      BY <1>0 DEF Thread
    <3> HIDE DEF m
    <3> QED
      BY <1>0, <2>1, <3>1, <3>2, UnmountGoesKeeps DEF UnmountPCs
  <2> QED
    BY <2>1, <2>2, <2>3
<1>2. ASSUME UnmountallSync(t) PROVE VfsInv'
  <2>1. s.pc = "tell" /\ s.ix <= Len(DiskSeq)
    BY <1>0, <1>2 DEF UnmountallSync, Is, Right
  <2>2. CASE kdfs[d] # "mounted"
    BY <1>2, <2>2, BreaksKeeps DEF UnmountallSync, Powers
  <2>3. CASE kdfs[d] = "mounted"
    <3> DEFINE b == [s EXCEPT !.pc = "unmountall"]
               m == [b EXCEPT !.fs = d]
    <3>1. Goes(t, [s EXCEPT !.pc = "unmountall", !.fs = d], refs)
            /\ UNCHANGED <<kdfs, cwd, bootfs, elf>>
      BY <1>2, <2>3 DEF UnmountallSync
    <3>2. Goes(t, m, refs)
      BY <3>1
    <3>3. d \in Devices /\ d \in Disks
      BY <1>0, <2>1
    <3> HIDE DEF d
    <3>4. /\ b \in Thread /\ b.pc = "unmountall" /\ b.hand = s.hand /\ b.op = s.op
          /\ b.ix = s.ix
      BY <1>0 DEF Thread
    <3> HIDE DEF b
    <3>5. /\ m \in Thread /\ m.pc = "unmountall" /\ m.hand = s.hand /\ m.fs = d
          /\ m.op = s.op /\ m.ix = s.ix
      BY <3>3, <3>4 DEF Thread
    <3> HIDE DEF m
    <3> QED
      BY <1>0, <2>1, <2>3, <3>1, <3>2, <3>5, UnmountGoesKeeps DEF UnmountPCs
  <2> QED
    BY <2>2, <2>3
<1>3. ASSUME UnmountallSynced(t) PROVE VfsInv'
  <2>1. s.pc = "unmountall" /\ s.fs # NONE /\ s.ix <= Len(DiskSeq)
    BY <1>0, <1>3 DEF UnmountallSynced, Is, Right
  <2>2. CASE s.fs = GONE
    BY <1>3, <2>2, BreaksKeeps DEF UnmountallSynced, Powers
  <2>3. CASE s.fs # GONE
    <3> DEFINE b == [s EXCEPT !.fs = NONE]
               m == [b EXCEPT !.ix = @ + 1]
               n == [b EXCEPT !.pc = "drop"]
    <3>1. /\ \/ Goes(t, [s EXCEPT !.fs = NONE, !.ix = @ + 1], refs)
             \/ Goes(t, [s EXCEPT !.fs = NONE, !.pc = "drop"], refs)
          /\ UNCHANGED <<kdfs, cwd, bootfs, elf>>
      BY <1>3, <2>3 DEF UnmountallSynced
    <3>2. Goes(t, m, refs) \/ Goes(t, n, refs)
      BY <3>1
    <3>3. /\ b \in Thread /\ b.pc = "unmountall" /\ b.hand = s.hand /\ b.op = s.op
          /\ b.ix = s.ix /\ b.fs = NONE
      BY <1>0, <2>1 DEF Thread
    <3>4. b.ix + 1 \in 1 .. (Len(DiskSeq) + 1)
      BY <1>0, <2>1, <3>3
    <3> HIDE DEF b
    <3>5. /\ m \in Thread /\ m.pc = "unmountall" /\ m.hand = s.hand /\ m.fs = NONE
          /\ m.op = s.op
      BY <3>3, <3>4 DEF Thread
    <3>6. /\ n \in Thread /\ n.pc = "drop" /\ n.hand = s.hand /\ n.fs = NONE
          /\ n.op = s.op /\ n.ix = s.ix
      BY <3>3 DEF Thread
    <3> HIDE DEF m, n
    <3> QED
      BY <1>0, <2>1, <3>1, <3>2, <3>5, <3>6, UnmountGoesKeeps DEF UnmountPCs
  <2> QED
    BY <2>2, <2>3
<1> QED
  BY <1>1, <1>2, <1>3

LEMMA DropSteps ==
  ASSUME VfsInv, EmuKept, NEW t \in Threads
  PROVE  /\ UnmountallDrop(t) => VfsInv'
         /\ PowerOff(t) => VfsInv'
<1> DEFINE s == th[t]
           d == DiskSeq[s.ix]
<1>1. ASSUME PowerOff(t) PROVE VfsInv'
  BY <1>1, BreaksKeeps DEF PowerOff, Breaks, Powers
<1>2. ASSUME UnmountallDrop(t) PROVE VfsInv'
  <2>1. /\ s.pc = "drop" /\ s \in Thread /\ Right(t, s, cwd[t], elf[t]) /\ s.hand = NONE
        /\ NONE \notin Disks /\ Len(DiskSeq) \in Nat
    BY <1>2, DiskFacts, EmptyHanded DEF UnmountallDrop, Is, HandPCs
  <2>2. /\ s.ix + 1 \in 1 .. (Len(DiskSeq) + 1) /\ d \in Disks /\ NONE # d
        /\ cwd[t] = NONE
    BY <2>1, DiskFacts DEF Right, Thread, UnmountPCs
  <2>3. t = Menu => bootfs = NONE
    BY <2>1 DEF VfsInv, BootRight, ClearedPCs, UnmountPCs
  <2>4. CASE kdfs[d] # "mounted"
    BY <1>2, <2>4, BreaksKeeps DEF UnmountallDrop, Powers
  <2>5. CASE kdfs[d] = "mounted"
    <3> DEFINE a == At("unmountall")
               i == s.ix + 1
               m == [a EXCEPT !.ix = i]
    <3>1. /\ UNCHANGED <<cwd, bootfs, elf>>
          /\ \/ Loaded(d) = {} /\ Destroy(t, m, d, "none")
             \/ Goes(t, m, refs) /\ UNCHANGED kdfs
      BY <1>2, <2>5 DEF UnmountallDrop
    <3>2. a \in Thread /\ a.pc = "unmountall" /\ a.hand = NONE /\ a.fs = NONE /\ a.op = "none"
      BY AtFacts DEF PCs
    <3>3. i \in 1 .. (Len(DiskSeq) + 1)
      BY <2>2
    <3> HIDE DEF a, i
    <3>4. m \in Thread /\ m.pc = "unmountall" /\ m.hand = NONE /\ m.fs = NONE /\ m.op = "none"
      BY <3>2, <3>3 DEF Thread
    <3> HIDE DEF m, d
    <3>5. CASE Goes(t, m, refs) /\ UNCHANGED kdfs
      <4>1. Right(t, m, cwd[t], elf[t])
        BY <2>1, <2>2, <3>4 DEF Right, ElfPCs, UnmountPCs
      <4> QED
        BY <2>1, <2>3, <3>1, <3>4, <3>5, <4>1, OnlyGoesKeeps
    <3>6. CASE Loaded(d) = {} /\ Destroy(t, m, d, "none")
      <4>1. /\ kdfs' = [kdfs EXCEPT ![d] = "none"]
            /\ th' = Stale([th EXCEPT ![t] = m], refs, d)
            /\ UNCHANGED <<refs, cwd, bootfs, elf, power>>
        BY <3>1, <3>6 DEF Destroy
      <4> QED
        BY <2>1, <2>2, <2>3, <2>5, <3>4, <3>6, <4>1, KdfsKeeps
    <3> QED
      BY <3>1, <3>5, <3>6
  <2> QED
    BY <2>4, <2>5
<1> QED
  BY <1>1, <1>2

LEMMA EmuIsKept ==
  ASSUME VfsInv, UNCHANGED emuvars
  PROVE  EmuKept
  BY DEF emuvars, EmuKept, VfsInv, VfsTypes

LEMMA VfsNext == VfsInv /\ [Next]_vars => VfsInv'
<1> SUFFICES ASSUME VfsInv, [Next]_vars PROVE VfsInv'
  OBVIOUS
<1>1. CASE MenuLookup \/ \E p \in Progs : Progthread(p)
  <2>1. EmuKept
    BY <1>1, EmuIsKept DEF MenuLookup, Progthread
  <2> QED
    BY <1>1, <2>1, LookupSteps
<1>2. CASE ProcCreate \/ ThreadFork
  <2>1. EmuKept
    BY <1>2, EmuIsKept DEF ProcCreate, ThreadFork
  <2> QED
    BY <1>2, <2>1, ProcCreateStep, ThreadForkStep
<1>3. CASE Mount \/ Unmount \/ Sync
  <2>1. EmuKept
    BY <1>3, EmuIsKept DEF Mount, Unmount, Sync
  <2> QED
    BY <1>3, <2>1, MountSteps
<1>4. CASE MountDone \/ UnmountSynced \/ UnmountPrinted
  <2>1. EmuKept
    BY <1>4, EmuIsKept DEF MountDone, UnmountSynced, UnmountPrinted
  <2> QED
    BY <1>4, <2>1, MountDoneSteps
<1>5. CASE SyncNext
  <2>1. EmuKept
    BY <1>5, EmuIsKept DEF SyncNext
  <2> QED
    BY <1>5, <2>1, SyncNextStep
<1>6. ASSUME NEW p \in Progs, RunProgram(p) \/ Exit(p) \/ Reboot(p) PROVE VfsInv'
  <2>1. EmuKept
    BY <1>6, EmuIsKept DEF RunProgram, Exit, Reboot
  <2> QED
    BY <1>6, <2>1, ProgramSteps
<1>7. ASSUME NEW t \in Threads, LookupStep(t) PROVE VfsInv'
  <2>1. EmuKept
    BY <1>7, EmuIsKept
       DEF LookupStep, SlashPeek, SlashIncref, SlashStart, RootRead, DirRead, FileRead
  <2> QED
    BY <1>7, <2>1, SlashSteps, RootReadStep, ReadSteps DEF LookupStep
<1>8. ASSUME NEW t \in Threads, ShutdownStep(t) PROVE VfsInv'
  <2>1. EmuKept
    BY <1>8, EmuIsKept
       DEF ShutdownStep, ClearBootfs, ClearCurdir, UnmountallFind, UnmountallSync,
           UnmountallSynced, UnmountallDrop, PowerOff
  <2> QED
    BY <1>8, <2>1, ClearSteps, UnmountallSteps, DropSteps DEF ShutdownStep
<1>9. CASE UNCHANGED vars
  <2>1. UNCHANGED <<kdfs, refs, cwd, bootfs, elf, th>> /\ power' \in Powers
    BY <1>9 DEF vars, VfsInv, VfsTypes
  <2>2. EmuKept
    BY <1>9, EmuIsKept DEF vars
  <2> QED
    BY <2>1, <2>2, BreaksKeeps DEF Breaks
<1>10. CASE \E t \in Threads : EmuStep(t)
  BY <1>10, EmuSteps DEF EmuStep
<1> QED
  BY <1>1, <1>2, <1>3, <1>4, <1>5, <1>6, <1>7, <1>8, <1>9, <1>10 DEF Next

-----------------------------------------------------------------------------
(***************************************************************************)
(* What the invariant says.                                                *)
(***************************************************************************)

LEMMA VfsAlways == VfsSpec => []VfsInv
<1>1. Init => VfsInv
  BY VfsInit
<1>2. VfsInv /\ [Next]_vars => VfsInv'
  BY VfsNext
<1> QED
  BY <1>1, <1>2, PTL DEF VfsSpec

\* Every variable of the VFS layer keeps its type, and no count becomes
\* negative (vnode.c's KASSERTs on vn_refcount), with any number of disks in
\* knowndevs and of programs.
THEOREM VfsTypesKept == VfsSpec => []VfsTypeOK
<1>1. VfsInv => VfsTypeOK
  BY DEF VfsInv, VfsTypes, UnclosedRight, VfsTypeOK, Powers
<1> QED
  BY <1>1, VfsAlways, PTL

\* Reference counts are exact (VOP_INCREF and VOP_DECREF of vnode.c): whatever
\* the lookups, runs, exits, mounts and shutdowns of any number of threads,
\* each vnode counts those who hold it, the device table included, and the
\* emu_close calls of emufs_reclaim that have failed on it, and nothing else.
THEOREM ReferencesAreExact == VfsSpec => []RefsHeld
<1>1. VfsInv => RefsHeld
  BY DEF VfsInv
<1> QED
  BY <1>1, VfsAlways, PTL

\* What is held is in memory and mounted (sfs_unmount's search of sfs_vnodes,
\* against what vfs_biglock does not lock out), and no thread finds what it
\* holds gone: pointers that are not counted are the only stale ones.
THEOREM HeldIsMounted == VfsSpec => []HeldStaysMounted
<1>1. VfsInv => HeldStaysMounted
  <2> SUFFICES ASSUME VfsInv PROVE HeldStaysMounted
    OBVIOUS
  <2>1. power # "held"
    BY DEF VfsInv, VfsTypes, Powers
  <2>2. ASSUME NEW v \in Vnodes, Holders(v) > 0 PROVE refs[v] > 0 /\ Fine(v)
    <3>1. refs[v] = Holders(v) + unclosed[v] /\ unclosed[v] \in Nat /\ Holders(v) \in Int
      <4>1. Holders(v) \in Nat
        BY HoldersAre, OwnsCounts DEF Same, Base
      <4> QED
        BY <4>1 DEF VfsInv, VfsTypes, UnclosedRight, RefsHeld
    <3>2. refs[v] > 0
      BY <2>2, <3>1
    <3> QED
      BY <3>2 DEF VfsInv, InMountedFs
  <2> QED
    BY <2>1, <2>2 DEF HeldStaysMounted, Fine
<1> QED
  BY <1>1, VfsAlways, PTL

\* A step of thread u sends nobody else anywhere.
Moves(u) == \E m, r, g : th' = Stale([th EXCEPT ![u] = m], r, g)

LEMMA OthersStay ==
  ASSUME VfsInv, NEW t \in Threads, NEW u \in Threads, u # t, Moves(u)
  PROVE  th'[t].pc = th[t].pc
<1>1. PICK m, r, g : th' = Stale([th EXCEPT ![u] = m], r, g)
  BY DEF Moves
<1> DEFINE N == [th EXCEPT ![u] = m]
           p == IF N[t].peek \in Vnodes /\ r[N[t].peek] = 0 THEN GONE ELSE N[t].peek
           f == IF N[t].fs # NONE /\ N[t].fs = g THEN GONE ELSE N[t].fs
           s == Stale(N, r, g)[t]
<1>2. N[t] = th[t] /\ th[t] \in Thread
  BY DEF VfsInv, VfsTypes
<1>3. th'[t] = s
  BY <1>1
<1> HIDE DEF N
<1>4. s = [N[t] EXCEPT !.peek = p, !.fs = f]
  BY Zenon DEF Stale
<1> HIDE DEF p, f, s
<1> QED
  BY <1>2, <1>3, <1>4 DEF Thread

\* Goes moves the thread that goes, and so does all that is made of it.
LEMMA LookupMoves ==
  ASSUME NEW t
  PROVE  /\ \A m, r : Goes(t, m, r) => Moves(t)
         /\ \A v, r : Drop(t, v, r) => Moves(t)
         /\ \A op, v, r : FromLookup(t, op, v, r) => Moves(t)
         /\ \A op, file, v, r : FromStart(t, op, file, v, r) => Moves(t)
         /\ \A v : Fails(t, v) => Moves(t)
         /\ \A op, file, d, h, r : GetRoot(t, op, file, d, h, r) => Moves(t)
         /\ \A op, file : ByName(t, op, file) => Moves(t) \/ th' = th
         /\ \A op : Lookup(t, op) => Moves(t) \/ th' = th
<1>1. \A m, r : Goes(t, m, r) => Moves(t)
  BY Zenon DEF Goes, Moves
<1>d. \A v, r : Drop(t, v, r) => Moves(t)
  BY <1>1 DEF Drop
<1>2. \A op, v, r : FromLookup(t, op, v, r) => Moves(t)
  BY <1>1, <1>d, Zenon DEF FromLookup, Opened, SetCurdir
<1>3. \A op, file, v, r : FromStart(t, op, file, v, r) => Moves(t)
  BY <1>1, <1>2, Zenon DEF FromStart
<1>4. \A v : Fails(t, v) => Moves(t)
  BY <1>1, Zenon DEF Fails
<1>5. \A op, file, d, h, r : GetRoot(t, op, file, d, h, r) => Moves(t)
  BY <1>1, <1>3, Zenon DEF GetRoot
<1>6. \A op, file : ByName(t, op, file) => Moves(t) \/ th' = th
  BY <1>3, <1>4, <1>5 DEF ByName, Breaks
<1>7. \A op, file : Relative(t, op, file) \/ Slash(t, op, file) \/ Colon(t, op, file)
                       => Moves(t)
  BY <1>1, <1>3, <1>4, <1>5, Zenon DEF Relative, Slash, Colon
<1>8. \A op : Lookup(t, op) => Moves(t) \/ th' = th
  BY <1>6, <1>7 DEF Lookup
<1> QED
  BY <1>1, <1>d, <1>2, <1>3, <1>4, <1>5, <1>6, <1>8

\* Who moves: a thread that is not dropping a disk, or a new one, or one that
\* is dropping a disk.
LEMMA WhoMoves ==
  ASSUME Next
  PROVE  \/ th' = th
         \/ \E u \in Threads : th[u].pc # "drop" /\ Moves(u)
         \/ \E p \in Progs : /\ th[Menu].pc = "fork" /\ th[p].pc = "unborn"
                             /\ th' = [th EXCEPT ![Menu] = At("prompt"), ![p] = At("born")]
         \/ \E u \in Threads : UnmountallDrop(u)
<1>0. Menu \in Threads /\ \A p \in Progs : p \in Threads
  BY VnodeFacts
<1> DEFINE Moved(u) == th' = th \/ (th[u].pc # "drop" /\ Moves(u))
<1>1. CASE MenuLookup \/ ProcCreate
  <2>1. Moved(Menu)
    BY <1>1, LookupMoves DEF MenuLookup, ProcCreate, Is
  <2> QED
    BY <1>0, <2>1
<1>2. CASE ThreadFork
  BY <1>0, <1>2, LookupMoves DEF ThreadFork, Is
<1>3. CASE Mount \/ MountDone \/ Unmount \/ UnmountPrinted \/ Sync \/ SyncNext
  <2>1. Moved(Menu)
    BY <1>3, LookupMoves
       DEF Mount, MountDone, Unmount, UnmountPrinted, Sync, SyncNext, Is
  <2> QED
    BY <1>0, <2>1
<1>4. CASE UnmountSynced
  <2>1. Moved(Menu)
    <3>1. \A m, d, left : Destroy(Menu, m, d, left) => Moves(Menu)
      BY Zenon DEF Destroy, Moves
    <3> QED
      BY <1>4, <3>1, LookupMoves DEF UnmountSynced, Is, Breaks
  <2> QED
    BY <1>0, <2>1
<1>5. ASSUME NEW p \in Progs, Progthread(p) \/ RunProgram(p) \/ Exit(p) \/ Reboot(p)
      PROVE  Moved(p)
  BY <1>5, LookupMoves DEF Progthread, RunProgram, Exit, Reboot, Is, Breaks
<1>6. ASSUME NEW t \in Threads, LookupStep(t) PROVE Moved(t)
  <2>1. CASE SlashPeek(t) \/ SlashIncref(t) \/ SlashStart(t)
    BY <2>1, LookupMoves DEF SlashPeek, SlashIncref, SlashStart, Is, Breaks
  <2>2. CASE RootRead(t) \/ DirRead(t) \/ FileRead(t)
    BY <2>2, LookupMoves DEF RootRead, DirRead, FileRead, Is, Breaks
  <2> QED
    BY <1>6, <2>1, <2>2 DEF LookupStep
<1>e. ASSUME NEW t \in Threads, EmuStep(t) PROVE Moved(t)
  BY <1>e, LookupMoves DEF EmuStep, EmuLookup, EmuClose, Reclaimed, Is, Breaks
<1>7. ASSUME NEW t \in Threads, ShutdownStep(t), ~UnmountallDrop(t) PROVE Moved(t)
  <2>1. CASE ClearBootfs(t) \/ ClearCurdir(t) \/ PowerOff(t)
    BY <2>1, LookupMoves DEF ClearBootfs, ClearCurdir, PowerOff, Is
  <2>2. CASE UnmountallFind(t) \/ UnmountallSync(t) \/ UnmountallSynced(t)
    BY <2>2, LookupMoves DEF UnmountallFind, UnmountallSync, UnmountallSynced, Is, Breaks
  <2> QED
    BY <1>7, <2>1, <2>2 DEF ShutdownStep
<1> HIDE DEF Moved
<1>8. \A u \in Threads : Moved(u) => th' = th \/ \E w \in Threads : th[w].pc # "drop" /\ Moves(w)
  BY DEF Moved
<1>9. CASE \E p \in Progs : Progthread(p) \/ RunProgram(p) \/ Exit(p) \/ Reboot(p)
  BY <1>0, <1>5, <1>8, <1>9
<1>10. CASE \E t \in Threads : LookupStep(t) \/ EmuStep(t) \/ ShutdownStep(t)
  BY <1>6, <1>7, <1>8, <1>10, <1>e
<1> QED
  BY <1>1, <1>2, <1>3, <1>4, <1>9, <1>10 DEF Next

\* A file system that is in memory is there for somebody.
LEMMA LoadedIsHeld ==
  ASSUME VfsInv, NEW d \in Disks, NEW v \in Loaded(d)
  PROVE  /\ v \in Vnodes /\ v[1] = d
         /\ \/ bootfs = v
            \/ \E u \in Threads : cwd[u] = v \/ elf[u] = v \/ th[u].hand = v
<1>1. v \in Vnodes /\ v[1] = d /\ v[2] # "raw" /\ refs[v] > 0
  BY DEF Loaded
<1>2. Base(v) = 0
  BY <1>1, VnodeFacts, DiskFacts DEF Base
<1>3. /\ refs[v] = Owns(cwd, v) + Owns(elf, v) + Owns(Hands(th), v) + Same(bootfs, v)
                      + Base(v) + unclosed[v]
      /\ unclosed[v] = 0
  <2>1. ~(unclosed[v] > 0) /\ unclosed[v] \in Nat
    BY <1>1, DiskFacts DEF VfsInv, VfsTypes, UnclosedRight
  <2> QED
    BY <1>1, <2>1, HoldersAre DEF VfsInv, RefsHeld
<1>4. ASSUME bootfs # v, \A u \in Threads : cwd[u] # v /\ elf[u] # v /\ th[u].hand # v
      PROVE  FALSE
  <2>1. \A u \in Threads : Hands(th)[u] # v
    BY <1>4 DEF Hands
  <2>2. Owns(cwd, v) = 0 /\ Owns(elf, v) = 0 /\ Owns(Hands(th), v) = 0
    BY <1>4, <2>1, OwnsCounts
  <2>3. Same(bootfs, v) = 0
    BY <1>4 DEF Same
  <2> QED
    BY <1>1, <1>2, <1>3, <2>2, <2>3
<1> QED
  BY <1>1, <1>4

\* vfs_unmountall leaves a disk that it could sync mounted only for another's
\* sake: what shutdown lets go of (vfs_clearbootfs, vfs_clearcurdir) never
\* keeps a file system busy, whatever the other threads do meanwhile.
THEOREM ShutdownDropsItsOwn == VfsSpec => ShutdownLeavesBusy
<1> DEFINE A == \A t \in Threads, d \in Disks :
                   LeavesMounted(t, d) => \E v \in Others(t) \cap Vnodes : v[1] = d
<1>1. ASSUME VfsInv, Next, NEW t \in Threads, NEW d \in Disks, LeavesMounted(t, d)
      PROVE  \E v \in Others(t) \cap Vnodes : v[1] = d
  <2>1. /\ th[t].pc = "drop" /\ th'[t].pc = "unmountall"
        /\ d = DiskSeq[th[t].ix] /\ kdfs'[d] = "mounted"
    BY <1>1 DEF LeavesMounted
  <2>2. th'[t].pc # th[t].pc /\ th' # th
    BY <2>1
  <2>3. UnmountallDrop(t)
    <3>1. \A u \in Threads \ {t} : ~Moves(u)
      BY <1>1, <2>2, OthersStay
    <3>2. \A u \in Threads : UnmountallDrop(u) => Moves(u) \/ th' = th
      <4>1. \A u, m, e, left : Destroy(u, m, e, left) => Moves(u)
        BY Zenon DEF Destroy, Moves
      <4> QED
        BY <4>1, LookupMoves DEF UnmountallDrop, Breaks
    <3>3. ASSUME NEW p \in Progs, th[Menu].pc = "fork", th[p].pc = "unborn",
                 th' = [th EXCEPT ![Menu] = At("prompt"), ![p] = At("born")]
          PROVE  FALSE
      <4>1. th \in [Threads -> Thread] /\ t # Menu /\ t # p
        BY <1>1, <2>1, <3>3 DEF VfsInv, VfsTypes
      <4>2. th'[t] = th[t]
        BY <3>3, <4>1
      <4> QED
        BY <2>2, <4>2
    <3>4. \A u \in Threads : th[u].pc # "drop" => u # t
      BY <2>1
    <3> QED
      BY <1>1, <2>2, <3>1, <3>2, <3>3, <3>4, WhoMoves
  <2>4. kdfs[d] = "mounted"
    BY <2>1, <2>2, <2>3 DEF UnmountallDrop, Breaks
  <2>5. Loaded(d) # {}
    <3> SUFFICES ASSUME Loaded(d) = {} PROVE FALSE
      OBVIOUS
    <3>1. kdfs' = [kdfs EXCEPT ![d] = "none"]
      BY <2>1, <2>3, <2>4 DEF UnmountallDrop, Destroy
    <3>2. kdfs'[d] = "none"
      BY <1>1, <3>1 DEF VfsInv, VfsTypes
    <3> QED
      BY <2>1, <3>2
  <2>6. PICK v \in Loaded(d) : TRUE
    BY <2>5
  <2>7. /\ v \in Vnodes /\ v[1] = d
        /\ \/ bootfs = v
           \/ \E u \in Threads : cwd[u] = v \/ elf[u] = v \/ th[u].hand = v
    BY <1>1, <2>6, LoadedIsHeld
  <2>8. cwd[t] # v /\ th[t].hand # v
    BY <1>1, <2>1, <2>7, VnodeFacts, EmptyHanded DEF Right, HandPCs, UnmountPCs
  <2>9. t = Menu => bootfs # v
    BY <1>1, <2>1, <2>7, VnodeFacts DEF VfsInv, BootRight, ClearedPCs, UnmountPCs
  <2>10. v \in Others(t)
    BY <2>7, <2>8, <2>9 DEF Others
  <2> QED
    BY <2>7, <2>10
<1>2. VfsInv /\ [Next]_vars => [A]_vars
  BY <1>1 DEF A
<1>3. VfsSpec => [][A]_vars
  BY <1>2, VfsAlways, PTL DEF VfsSpec
<1> QED
  BY <1>3 DEF ShutdownLeavesBusy, A

=============================================================================
