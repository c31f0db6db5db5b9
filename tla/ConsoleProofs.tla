--------------------------- MODULE ConsoleProofs ---------------------------
(***************************************************************************)
(* Proofs about the console, for any number of threads, of readers (one in *)
(* the last theorem) and of characters, and any size of the input ring.    *)
(***************************************************************************)
EXTENDS Console, FiniteSetTheorems, SequenceTheorems, TLAPS

-----------------------------------------------------------------------------
(***************************************************************************)
(* The inductive invariant.                                                *)
(***************************************************************************)

\* What every variable ranges over, without the bounds that ConTypeOK gives
\* and that only the rest of the invariant brings: what the actors keep,
\* the locks and semaphores, the ring with the handler, and the device.
ActorTypes ==
  /\ the_console \in {"none", "flush", "up"} /\ delayed \in Nat
  /\ pc \in [Actors -> PCs]
  /\ out \in [Actors -> Nat]
  /\ \A a \in Actors : out[a] <= MaxOut[a]
  /\ irqpending \subseteq Actors

LockTypes ==
  /\ kprintf_spinlock \in Actors \union {NULL}
  /\ bootcpu \in Actors \union {NULL}
  /\ ls_lock \in Actors \union {NULL}
  /\ cs_wsem \in Nat /\ cs_rsem \in Nat
  /\ ls_wbusy \in BOOLEAN

RingTypes ==
  /\ cs_gotchars \in [Slots -> 0 .. MaxTyped]
  /\ cs_gotchars_head \in Slots /\ cs_gotchars_tail \in Slots
  /\ isr \in [at : {"none", "start", "input", "put", "V"}, got : BOOLEAN,
              ch : 0 .. MaxTyped]
  /\ dropped \subseteq 1 .. MaxTyped
  /\ got \in Seq(1 .. MaxTyped)

DevTypes ==
  /\ rx \in 0 .. MaxTyped /\ typed \in 0 .. MaxTyped
  /\ wirq \subseteq Bits /\ rirq \subseteq {"ENABLE", "ACTIVE"}
  /\ tx \in [by : Actors \union {NULL}, n : Nat]
  /\ shown \in [Actors -> Nat]

\* Until the console is up Boot alone prints; the lines of the boot messages
\* that came before it are delayed and printed first.
BootRight ==
  /\ the_console = "none" =>
       /\ \A a \in Actors : pc[a] = "idle"
       /\ cs_wsem = 0 /\ ~ls_wbusy /\ isr = NoIsr
       /\ wirq = {"ENABLE"} /\ rirq = {"ENABLE"} /\ tx = NoChar
  /\ the_console = "flush" =>
       /\ pc[Boot] \in {"flush", "P", "write", "lock", "drain", "poll"}
       /\ \A a \in Actors \ {Boot} : pc[a] = "idle"
  /\ the_console # "up" => kprintf_spinlock = NULL
  /\ the_console = "up" => delayed = 0 /\ \A a \in Actors : pc[a] # "flush"

\* Who holds the spinlocks, and what only threads do.
PlacesRight ==
  \A a \in Actors :
    /\ pc[a] \in {"drain", "poll"} <=> ls_lock = a
    /\ kprintf_spinlock = a => pc[a] \in {"msg", "lock", "drain", "poll"}
    /\ pc[a] = "msg" => kprintf_spinlock = a
    /\ pc[a] \in {"P", "write", "get", "take", "advance"} => a \in Threads

Polling == \E a \in Actors : pc[a] = "poll"

\* The device has a character, or has said that it is done with one, only for
\* lser_write or for the actor that polls; lser_writepolled knows which of the
\* two the write was that it has waited for.
DeviceRight ==
  /\ tx = NoChar \/ (tx.by \in Actors /\ "ACTIVE" \notin wirq)
  /\ tx # NoChar \/ "ACTIVE" \in wirq => ls_wbusy \/ Polling
  /\ \A a \in Actors : pc[a] = "drain" => ls_wbusy /\ a \in irqpending
  /\ \A a \in Actors : pc[a] = "poll" => (ls_wbusy <=> a \in irqpending)
  /\ "FORCE" \in wirq => "ACTIVE" \in wirq \/ ls_lock # NULL
  /\ "ACTIVE" \in rirq => rx > 0
  /\ isr.at \in {"input", "put", "V"} => isr.got
  /\ isr.got => isr.ch > 0

\* How many threads are at one of the places L.
Number(f, L) == Cardinality({t \in Threads : f[t] \in L})
One(b) == IF b THEN 1 ELSE 0

\* One permission to write: ClearToWrite.
OneClear ==
  the_console # "none" =>
    cs_wsem + Number(pc, {"write"}) + One(ls_wbusy) + One(isr.at = "start") = 1

\* The slots between the tail and the head.
InRing(i) ==
  IF cs_gotchars_tail <= cs_gotchars_head
    THEN cs_gotchars_tail <= i /\ i < cs_gotchars_head
    ELSE cs_gotchars_tail <= i \/ i < cs_gotchars_head

\* The characters in the ring have a unit of cs_rsem each, or a thread in
\* getch_intr, or the handler on its way to V.
RingRight ==
  /\ cs_rsem + Number(pc, {"take", "advance"}) + One(isr.at = "V") = Used
  /\ isr.at = "put" => NextSlot(cs_gotchars_head) # cs_gotchars_tail
  /\ \A i \in Slots : InRing(i) => cs_gotchars[i] > 0

ConInv ==
  /\ ActorTypes /\ LockTypes /\ RingTypes /\ DevTypes
  /\ BootRight /\ PlacesRight /\ DeviceRight
  /\ OneClear /\ OutputExact /\ RingRight

-----------------------------------------------------------------------------
(***************************************************************************)
(* Lemmas about the operators of the model.                                *)
(***************************************************************************)

\* Input_buffer indexes wrap at the end of the ring (console.c: the two
\* increments modulo CONSOLE_INPUT_BUFFER_SIZE).
LEMMA NextSlotWraps ==
  \A i \in Slots :
    /\ NextSlot(i) \in Slots
    /\ NextSlot(i) = IF i = CONSOLE_INPUT_BUFFER_SIZE - 1 THEN 0 ELSE i + 1
<1> SUFFICES ASSUME NEW i \in Slots
             PROVE  /\ NextSlot(i) \in Slots
                    /\ NextSlot(i) = IF i = CONSOLE_INPUT_BUFFER_SIZE - 1
                                       THEN 0 ELSE i + 1
  OBVIOUS
<1> DEFINE N == CONSOLE_INPUT_BUFFER_SIZE
<1>1. N \in Nat /\ N > 1 /\ i \in 0 .. N - 1
  BY ConsoleAssumption DEF Slots
<1>2. CASE i = N - 1
  <2>1. (i + 1) % N = 0
    BY <1>1, <1>2
  <2> QED
    BY <1>1, <1>2, <2>1 DEF NextSlot, Slots
<1>3. CASE i # N - 1
  <2>1. (i + 1) % N = i + 1
    BY <1>1, <1>3
  <2> QED
    BY <1>1, <1>3, <2>1 DEF NextSlot, Slots
<1> QED
  BY <1>2, <1>3

\* The threads at some places are finitely many, and there are some just when
\* one is seen there.
LEMMA NumberCounts ==
  \A f, L :
    /\ Number(f, L) \in Nat
    /\ \A t \in Threads : f[t] \in L => Number(f, L) > 0
    /\ (\A t \in Threads : f[t] \notin L) => Number(f, L) = 0
<1> SUFFICES ASSUME NEW f, NEW L
             PROVE  /\ Number(f, L) \in Nat
                    /\ \A t \in Threads : f[t] \in L => Number(f, L) > 0
                    /\ (\A t \in Threads : f[t] \notin L) => Number(f, L) = 0
  OBVIOUS
<1> DEFINE S == {t \in Threads : f[t] \in L}
<1>1. IsFiniteSet(S) /\ Cardinality(S) \in Nat
  BY ConsoleAssumption, FS_Subset, FS_CardinalityType
<1>2. \A t \in Threads : f[t] \in L => S # {}
  OBVIOUS
<1>3. S # {} => Cardinality(S) > 0
  BY <1>1, FS_EmptySet
<1>4. (\A t \in Threads : f[t] \notin L) => S = {}
  OBVIOUS
<1>5. S = {} => Cardinality(S) = 0
  BY FS_EmptySet
<1> QED
  BY <1>1, <1>2, <1>3, <1>4, <1>5 DEF Number

\* How a thread that goes from one place to another changes the number of
\* those at some places: the threads between P and lser_write, and those in
\* getch_intr, are counted so.
LEMMA NumberGoto ==
  ASSUME NEW f, NEW g, NEW a, NEW L,
         \A t \in Threads \ {a} : g[t] = f[t]
  PROVE  /\ a \in Threads /\ f[a] \notin L /\ g[a] \in L =>
              Number(g, L) = Number(f, L) + 1
         /\ a \in Threads /\ f[a] \in L /\ g[a] \notin L =>
              Number(g, L) = Number(f, L) - 1
         /\ a \notin Threads \/ (f[a] \in L <=> g[a] \in L) =>
              Number(g, L) = Number(f, L)
<1> DEFINE S(h) == {t \in Threads : h[t] \in L}
<1>1. IsFiniteSet(S(f)) /\ Cardinality(S(f)) \in Nat
  BY ConsoleAssumption, FS_Subset, FS_CardinalityType
<1>2. Number(f, L) = Cardinality(S(f)) /\ Number(g, L) = Cardinality(S(g))
  BY DEF Number
<1>3. CASE a \in Threads /\ f[a] \notin L /\ g[a] \in L
  <2>1. S(g) = S(f) \union {a} /\ a \notin S(f)
    BY <1>3
  <2> QED
    BY <1>1, <1>2, <1>3, <2>1, FS_AddElement
<1>4. CASE a \in Threads /\ f[a] \in L /\ g[a] \notin L
  <2>1. S(g) = S(f) \ {a} /\ a \in S(f)
    BY <1>4
  <2> QED
    BY <1>1, <1>2, <1>4, <2>1, FS_RemoveElement
<1>5. CASE a \notin Threads \/ (f[a] \in L <=> g[a] \in L)
  <2>1. S(g) = S(f)
    BY <1>5
  <2> QED
    BY <1>2, <1>5, <2>1
<1> QED
  BY <1>3, <1>4, <1>5

-----------------------------------------------------------------------------
(***************************************************************************)
(* The invariant is inductive.                                             *)
(***************************************************************************)

LEMMA ConInit ==
  Init => ConInv
<1> SUFFICES ASSUME Init PROVE ConInv
  OBVIOUS
<1> USE ConsoleAssumption DEF Init
<1>1. 0 \in Slots /\ MaxTyped \in Nat
  BY DEF Slots
<1>2. ActorTypes /\ LockTypes /\ RingTypes /\ DevTypes
  <2>1. isr \in [at : {"none", "start", "input", "put", "V"}, got : BOOLEAN,
                 ch : 0 .. MaxTyped]
    BY <1>1 DEF NoIsr
  <2>2. tx \in [by : Actors \union {NULL}, n : Nat]
    BY DEF NoChar
  <2>3. got \in Seq(1 .. MaxTyped)
    BY EmptySeq
  <2>4. pc \in [Actors -> PCs] /\ cs_gotchars \in [Slots -> 0 .. MaxTyped]
    BY <1>1 DEF PCs
  <2>5. RingTypes
    BY <1>1, <2>1, <2>3, <2>4 DEF RingTypes
  <2>6. DevTypes
    BY <1>1, <2>2 DEF DevTypes, Bits
  <2>7. ActorTypes
    BY <2>4 DEF ActorTypes
  <2> QED
    BY <2>5, <2>6, <2>7 DEF LockTypes
<1>3. BootRight /\ PlacesRight
  BY DEF BootRight, PlacesRight, Actors
<1>4. DeviceRight
  BY DEF DeviceRight, NoIsr
<1>5. OneClear /\ OutputExact
  BY DEF OneClear, OutputExact, NoChar, Actors
<1>6. RingRight
  <2>1. Number(pc, {"take", "advance"}) = 0
    <3>1. {t \in Threads : pc[t] \in {"take", "advance"}} = {}
      BY DEF Actors
    <3> QED
      BY <3>1, FS_EmptySet DEF Number
  <2>2. 0 \in Nat /\ cs_gotchars_head = 0 /\ cs_gotchars_tail = 0 /\ isr.at = "none"
    BY DEF NoIsr
  <2>3. Used = 0 /\ \A i \in Slots : ~ InRing(i)
    BY <2>2 DEF Used, InRing, Slots
  <2> QED
    BY <2>1, <2>2, <2>3 DEF RingRight, One
<1> QED
  BY <1>2, <1>3, <1>4, <1>5, <1>6 DEF ConInv

\* The character that an actor is about to give to the device is the one after
\* those of its own that the device has had.
LEMMA CharIsNext ==
  ASSUME ConInv, NEW a \in Actors, pc[a] \in {"write", "lock", "drain"}
  PROVE  /\ CharOf(a) \in [by : Actors \union {NULL}, n : Nat]
         /\ CharOf(a).by = a /\ CharOf(a) # NoChar
         /\ tx.by # a => CharOf(a).n = shown[a] + 1
<1>1. a \in Actors /\ Boot \in Actors /\ NULL \notin Actors
  BY ConsoleAssumption DEF Actors
<1>2. shown[a] \in Nat /\ out[a] \in Nat /\ delayed \in Nat /\ tx.n \in Nat
  BY DEF ConInv, ActorTypes, DevTypes
<1>3. IF tx.by = a
        THEN tx.n = shown[a] + 1
               /\ out[a] = tx.n + 1 + (IF a = Boot THEN delayed ELSE 0)
        ELSE out[a] = shown[a] + 1 + (IF a = Boot THEN delayed ELSE 0)
  BY <1>2 DEF ConInv, OutputExact
<1> QED
  BY <1>1, <1>2, <1>3 DEF CharOf, NoChar

LEMMA ActorTypesNext ==
  ASSUME ConInv, Next
  PROVE  ActorTypes'
<1>0. ActorTypes /\ Boot \in Actors /\ Threads \subseteq Actors /\ MaxOut \in [Actors -> Nat]
  BY ConsoleAssumption DEF ConInv, Actors
<1> USE <1>0 DEF ActorTypes
<1>1. CASE putch_delayed
  BY <1>1 DEF putch_delayed, Begin, PCs, boot, acts, con, ser, dev
<1>2. CASE config_con
  BY <1>2 DEF config_con, Goto, PCs, boot, acts, con, ser, dev
<1>3. CASE flush_delay_buf
  BY <1>3 DEF flush_delay_buf, Goto, PutchPath, PCs, boot, acts, con, ser,
    dev
<1>4. CASE Transmit \/ Type \/ lser_irq \/ con_start \/ con_input \/
          ConInputPut \/ ConInputV
  BY <1>4 DEF Transmit, Type, lser_irq, lamebus_interrupt, Interrupting,
    con_start, con_input, ConInputPut, ConInputV, boot, acts, con, ser, dev
<1>5. ASSUME NEW t \in Threads,
             putch(t)
      PROVE  ActorTypes'
  BY <1>5 DEF putch, Begin, Goto, PutchPath, Started, PCs, boot, acts, con,
    ser, dev
<1>6. ASSUME NEW t \in Threads,
             P(t)
      PROVE  ActorTypes'
  BY <1>6 DEF P, Goto, PCs, boot, acts, con, ser, dev
<1>7. ASSUME NEW t \in Threads,
             lser_write(t)
      PROVE  ActorTypes'
  BY <1>7 DEF lser_write, Return, Goto, PCs, boot, acts, con, ser, dev
<1>8. ASSUME NEW t \in Threads,
             getch(t)
      PROVE  ActorTypes'
  BY <1>8 DEF getch, Goto, Started, PCs, boot, acts, con, ser, dev
<1>9. ASSUME NEW t \in Threads,
             GetchP(t)
      PROVE  ActorTypes'
  BY <1>9 DEF GetchP, Goto, PCs, boot, acts, con, ser, dev
<1>10. ASSUME NEW t \in Threads,
             GetchTake(t)
      PROVE  ActorTypes'
  BY <1>10 DEF GetchTake, Goto, PCs, boot, acts, con, ser, dev
<1>11. ASSUME NEW t \in Threads,
             GetchAdvance(t)
      PROVE  ActorTypes'
  BY <1>11 DEF GetchAdvance, Goto, PCs, boot, acts, con, ser, dev
<1>12. ASSUME NEW a \in Actors,
             KprintfOff(a)
      PROVE  ActorTypes'
  BY <1>12 DEF KprintfOff, Begin, Goto, Started, PCs, boot, acts, con, ser,
    dev
<1>13. ASSUME NEW a \in Actors,
             TakeSpinlock(a)
      PROVE  ActorTypes'
  BY <1>13 DEF TakeSpinlock, Goto, PCs, boot, acts, con, ser, dev
<1>14. ASSUME NEW a \in Actors,
             putch_polled(a)
      PROVE  ActorTypes'
  BY <1>14 DEF putch_polled, Begin, Goto, PCs, boot, acts, con, ser, dev
<1>15. ASSUME NEW a \in Actors,
             EndKprintf(a)
      PROVE  ActorTypes'
  BY <1>15 DEF EndKprintf, Goto, PCs, boot, acts, con, ser, dev
<1>16. ASSUME NEW a \in Actors,
             lser_writepolled(a)
      PROVE  ActorTypes'
  BY <1>16 DEF lser_writepolled, Goto, PCs, boot, acts, con, ser, dev
<1>17. ASSUME NEW a \in Actors,
             Drain(a)
      PROVE  ActorTypes'
  BY <1>17 DEF Drain, Goto, PCs, boot, acts, con, ser, dev
<1>18. ASSUME NEW a \in Actors,
             Poll(a)
      PROVE  ActorTypes'
  BY <1>18 DEF Poll, Return, Goto, PCs, boot, acts, con, ser, dev
<1> QED
  BY <1>1, <1>2, <1>3, <1>4, <1>5, <1>6, <1>7, <1>8, <1>9, <1>10, <1>11,
    <1>12, <1>13, <1>14, <1>15, <1>16, <1>17, <1>18 DEF Next, Boots,
    Handler, Intr, Read, Polled

LEMMA LockTypesNext ==
  ASSUME ConInv, Next
  PROVE  LockTypes'
<1>0. LockTypes /\ Threads \subseteq Actors
  BY ConsoleAssumption DEF ConInv, Actors
<1> USE <1>0 DEF LockTypes
<1>1. CASE putch_delayed \/ flush_delay_buf \/ Transmit \/ Type \/ con_input
          \/ ConInputPut
  BY <1>1 DEF putch_delayed, Begin, flush_delay_buf, Goto, PutchPath,
    Transmit, Type, con_input, ConInputPut, boot, acts, con, ser, dev
<1>2. CASE config_con
  BY <1>2 DEF config_con, Goto, boot, acts, con, ser, dev
<1>3. CASE lser_irq
  BY <1>3 DEF lser_irq, lamebus_interrupt, Interrupting, boot, acts, con,
    ser, dev
<1>4. CASE con_start
  BY <1>4 DEF con_start, boot, acts, con, ser, dev
<1>5. CASE ConInputV
  BY <1>5 DEF ConInputV, boot, acts, con, ser, dev
<1>6. ASSUME NEW t \in Threads,
             putch(t) \/ getch(t) \/ GetchTake(t) \/
             GetchAdvance(t)
      PROVE  LockTypes'
  BY <1>6 DEF putch, Begin, Goto, PutchPath, Started, getch, GetchTake,
    GetchAdvance, boot, acts, con, ser, dev
<1>7. ASSUME NEW t \in Threads,
             P(t)
      PROVE  LockTypes'
  BY <1>7 DEF P, Goto, boot, acts, con, ser, dev
<1>8. ASSUME NEW t \in Threads,
             lser_write(t)
      PROVE  LockTypes'
  BY <1>8 DEF lser_write, Return, Goto, boot, acts, con, ser, dev
<1>9. ASSUME NEW t \in Threads,
             GetchP(t)
      PROVE  LockTypes'
  BY <1>9 DEF GetchP, Goto, boot, acts, con, ser, dev
<1>10. ASSUME NEW a \in Actors,
             KprintfOff(a)
      PROVE  LockTypes'
  BY <1>10 DEF KprintfOff, Begin, Goto, Started, boot, acts, con, ser, dev
<1>11. ASSUME NEW a \in Actors,
             TakeSpinlock(a)
      PROVE  LockTypes'
  BY <1>11 DEF TakeSpinlock, Goto, boot, acts, con, ser, dev
<1>12. ASSUME NEW a \in Actors,
             putch_polled(a) \/ Drain(a)
      PROVE  LockTypes'
  BY <1>12 DEF putch_polled, Begin, Goto, Drain, boot, acts, con, ser, dev
<1>13. ASSUME NEW a \in Actors,
             EndKprintf(a)
      PROVE  LockTypes'
  BY <1>13 DEF EndKprintf, Goto, boot, acts, con, ser, dev
<1>14. ASSUME NEW a \in Actors,
             lser_writepolled(a)
      PROVE  LockTypes'
  BY <1>14 DEF lser_writepolled, Goto, boot, acts, con, ser, dev
<1>15. ASSUME NEW a \in Actors,
             Poll(a)
      PROVE  LockTypes'
  BY <1>15 DEF Poll, Return, Goto, boot, acts, con, ser, dev
<1> QED
  BY <1>1, <1>2, <1>3, <1>4, <1>5, <1>6, <1>7, <1>8, <1>9, <1>10, <1>11,
    <1>12, <1>13, <1>14, <1>15 DEF Next, Boots, Handler, Intr, Read, Polled

LEMMA RingTypesNext ==
  ASSUME ConInv, Next
  PROVE  RingTypes'
<1>0. RingTypes /\ DevTypes /\ 0 \in Slots /\ MaxTyped \in Nat
  BY ConsoleAssumption DEF ConInv, Slots
<1> USE <1>0 DEF RingTypes, DevTypes
<1>1. CASE putch_delayed \/ flush_delay_buf \/ Transmit \/ Type
  BY <1>1 DEF putch_delayed, Begin, flush_delay_buf, Goto, PutchPath,
    Transmit, Type, boot, acts, con, ser, dev
<1>2. CASE config_con
  BY <1>2 DEF config_con, Goto, ser
<1>3. CASE lser_irq
  <2>1. isr' \in [at : {"none", "start", "input", "put", "V"}, got : BOOLEAN,
                  ch : 0 .. MaxTyped]
    BY <1>3 DEF lser_irq, NoIsr
  <2> QED
    BY <1>3, <2>1 DEF lser_irq, con
<1>4. CASE con_start
  <2>1. isr' \in [at : {"none", "start", "input", "put", "V"}, got : BOOLEAN,
                  ch : 0 .. MaxTyped]
    <3>1. [isr EXCEPT !.at = "input"] \in
            [at : {"none", "start", "input", "put", "V"}, got : BOOLEAN,
             ch : 0 .. MaxTyped]
      OBVIOUS
    <3> QED
      BY <1>4, <3>1, <1>0 DEF con_start, NoIsr
  <2> QED
    BY <1>4, <2>1 DEF con_start
<1>5. CASE con_input
  <2>1. isr' \in [at : {"none", "start", "input", "put", "V"}, got : BOOLEAN,
                  ch : 0 .. MaxTyped]
    <3>1. [isr EXCEPT !.at = "put"] \in
            [at : {"none", "start", "input", "put", "V"}, got : BOOLEAN,
             ch : 0 .. MaxTyped]
      OBVIOUS
    <3>2. NoIsr \in [at : {"none", "start", "input", "put", "V"}, got : BOOLEAN,
                     ch : 0 .. MaxTyped]
      BY DEF NoIsr
    <3>3. isr' = NoIsr \/ isr' = [isr EXCEPT !.at = "put"]
      BY <1>5 DEF con_input
    <3> QED
      BY <3>1, <3>2, <3>3
  <2>2. dropped' \subseteq 1 .. MaxTyped
    BY <1>5 DEF con_input, ConInv, DeviceRight
  <2> QED
    BY <1>5, <2>1, <2>2 DEF con_input, con
<1>6. CASE ConInputPut
  <2>1. isr' \in [at : {"none", "start", "input", "put", "V"}, got : BOOLEAN,
                  ch : 0 .. MaxTyped]
    BY <1>6 DEF ConInputPut, NoIsr
  <2>2. cs_gotchars_head' \in Slots
    BY <1>6, NextSlotWraps DEF ConInputPut
  <2>3. cs_gotchars' \in [Slots -> 0 .. MaxTyped]
    BY <1>6 DEF ConInputPut
  <2> QED
    BY <1>6, <2>1, <2>2, <2>3 DEF ConInputPut
<1>7. CASE ConInputV
  <2>1. isr' \in [at : {"none", "start", "input", "put", "V"}, got : BOOLEAN,
                  ch : 0 .. MaxTyped]
    BY <1>7 DEF ConInputV, NoIsr
  <2> QED
    BY <1>7, <2>1 DEF ConInputV
<1>8. ASSUME NEW t \in Threads,
             putch(t) \/ P(t) \/ lser_write(t) \/ getch(t)
             \/ GetchP(t)
      PROVE  RingTypes'
  BY <1>8 DEF putch, Begin, Goto, PutchPath, Started, P, lser_write, Return,
    getch, GetchP, boot, acts, con, ser, dev
<1>9. ASSUME NEW t \in Threads,
             GetchTake(t)
      PROVE  RingTypes'
  <2>1. cs_gotchars[cs_gotchars_tail] \in 1 .. MaxTyped
    <3>1. Number(pc, {"take", "advance"}) \in Nat
            /\ Number(pc, {"take", "advance"}) > 0
      BY <1>9, NumberCounts DEF GetchTake
    <3>2. cs_gotchars_head \in Nat /\ cs_gotchars_tail \in Nat
            /\ cs_gotchars_head < CONSOLE_INPUT_BUFFER_SIZE
            /\ cs_gotchars_tail < CONSOLE_INPUT_BUFFER_SIZE
      BY ConsoleAssumption DEF Slots
    <3>3. Used > 0
      BY <3>1, <3>2 DEF ConInv, LockTypes, RingRight, One, Used
    <3>4. InRing(cs_gotchars_tail)
      BY <3>2, <3>3 DEF Used, InRing
    <3> QED
      BY <3>4 DEF ConInv, RingRight
  <2>2. got' \in Seq(1 .. MaxTyped)
    BY <1>9, <2>1, AppendProperties DEF GetchTake
  <2> QED
    BY <1>9, <2>2 DEF GetchTake, con, ser
<1>10. ASSUME NEW t \in Threads,
             GetchAdvance(t)
      PROVE  RingTypes'
  <2>1. cs_gotchars_tail' \in Slots
    BY <1>10, NextSlotWraps DEF GetchAdvance
  <2> QED
    BY <1>10, <2>1 DEF GetchAdvance, ser
<1>11. ASSUME NEW a \in Actors,
             KprintfOff(a) \/ TakeSpinlock(a) \/
             putch_polled(a) \/ EndKprintf(a) \/
             lser_writepolled(a) \/ Drain(a) \/ Poll(a)
      PROVE  RingTypes'
  BY <1>11 DEF KprintfOff, Begin, Goto, Started, TakeSpinlock, putch_polled,
    EndKprintf, lser_writepolled, Drain, Poll, Return, boot, acts, con, ser,
    dev
<1> QED
  BY <1>1, <1>2, <1>3, <1>4, <1>5, <1>6, <1>7, <1>8, <1>9, <1>10, <1>11 DEF
    Next, Boots, Handler, Intr, Read, Polled

LEMMA DevTypesNext ==
  ASSUME ConInv, Next
  PROVE  DevTypes'
<1>0. DevTypes /\ MaxTyped \in Nat /\ Threads \subseteq Actors
  BY ConsoleAssumption DEF ConInv, Actors
<1> USE <1>0 DEF DevTypes
<1>1. CASE putch_delayed \/ config_con \/ flush_delay_buf \/ con_start \/
          con_input \/ ConInputPut \/ ConInputV
  BY <1>1 DEF putch_delayed, Begin, config_con, Goto, flush_delay_buf,
    PutchPath, con_start, con_input, ConInputPut, ConInputV, boot, acts,
    con, ser, dev
<1>2. CASE Transmit
  <2>1. shown' \in [Actors -> Nat] /\ wirq' \subseteq Bits
    BY <1>2 DEF Transmit, Bits, ConInv, DeviceRight
  <2>2. tx' \in [by : Actors \union {NULL}, n : Nat]
    BY <1>2 DEF Transmit, NoChar
  <2> QED
    BY <1>2, <2>1, <2>2 DEF Transmit
<1>3. CASE Type
  BY <1>3 DEF Type
<1>4. CASE lser_irq
  <2>1. wirq' \subseteq Bits /\ rirq' \subseteq {"ENABLE", "ACTIVE"}
    BY <1>4 DEF lser_irq, Bits
  <2> QED
    BY <1>4, <2>1 DEF lser_irq
<1>5. ASSUME NEW t \in Threads,
             putch(t) \/ P(t) \/ getch(t) \/ GetchP(t) \/
             GetchTake(t) \/ GetchAdvance(t)
      PROVE  DevTypes'
  BY <1>5 DEF putch, Begin, Goto, PutchPath, Started, P, getch, GetchP,
    GetchTake, GetchAdvance, boot, acts, con, ser, dev
<1>6. ASSUME NEW t \in Threads,
             lser_write(t)
      PROVE  DevTypes'
  BY <1>6, CharIsNext DEF lser_write, Return, Goto
<1>7. ASSUME NEW a \in Actors,
             KprintfOff(a) \/ TakeSpinlock(a) \/
             putch_polled(a) \/ EndKprintf(a)
      PROVE  DevTypes'
  BY <1>7 DEF KprintfOff, Begin, Goto, Started, TakeSpinlock, putch_polled,
    EndKprintf, boot, acts, con, ser, dev
<1>8. ASSUME NEW a \in Actors,
             lser_writepolled(a)
      PROVE  DevTypes'
  BY <1>8, CharIsNext DEF lser_writepolled, Goto, Bits
<1>9. ASSUME NEW a \in Actors,
             Drain(a)
      PROVE  DevTypes'
  BY <1>9, CharIsNext DEF Drain, Goto, Bits
<1>10. ASSUME NEW a \in Actors,
             Poll(a)
      PROVE  DevTypes'
  BY <1>10 DEF Poll, Return, Goto, Bits
<1> QED
  BY <1>1, <1>2, <1>3, <1>4, <1>5, <1>6, <1>7, <1>8, <1>9, <1>10 DEF Next,
    Boots, Handler, Intr, Read, Polled

LEMMA BootNext ==
  ASSUME ConInv, Next
  PROVE  BootRight'
<1>0. /\ BootRight /\ PlacesRight /\ DeviceRight
     /\ pc \in [Actors -> PCs] /\ kprintf_spinlock \in Actors \union {NULL}
     /\ the_console \in {"none", "flush", "up"}
     /\ Boot \in Actors /\ Threads \subseteq Actors /\ NULL \notin Actors
  BY ConsoleAssumption DEF ConInv, Actors, ActorTypes, LockTypes
<1> USE <1>0 DEF BootRight, PlacesRight
<1>1. CASE putch_delayed
  BY <1>1, <1>0 DEF putch_delayed, Begin, boot, acts, con, ser, dev
<1>2. CASE config_con
  BY <1>2, <1>0 DEF config_con, Goto, boot, acts, con, ser, dev
<1>3. CASE flush_delay_buf
  BY <1>3, <1>0 DEF flush_delay_buf, Goto, PutchPath, boot, acts, con, ser,
    dev
<1>4. CASE Transmit
  BY <1>4, <1>0 DEF Transmit, boot, acts, con, ser, dev
<1>5. CASE Type
  BY <1>5, <1>0 DEF Type, boot, acts, con, ser, dev
<1>6. CASE lser_irq
  <2>1. the_console # "none"
    BY <1>6 DEF lser_irq, lamebus_interrupt, Interrupting, NoIsr
  <2> QED
    BY <1>6, <2>1 DEF lser_irq, boot, acts, con, dev
<1>7. CASE con_start
  <2>1. the_console # "none"
    BY <1>7 DEF con_start, NoIsr
  <2> QED
    BY <1>7, <2>1 DEF con_start, boot, acts, con, dev
<1>8. CASE con_input
  <2>1. the_console # "none"
    BY <1>8 DEF con_input, NoIsr
  <2> QED
    BY <1>8, <2>1 DEF con_input, boot, acts, con, dev
<1>9. CASE ConInputPut
  <2>1. the_console # "none"
    BY <1>9 DEF ConInputPut, NoIsr
  <2> QED
    BY <1>9, <2>1 DEF ConInputPut, boot, acts, dev
<1>10. CASE ConInputV
  BY <1>10, <1>0 DEF ConInputV, boot, acts, con, ser, dev
<1>11. ASSUME NEW t \in Threads,
             putch(t)
      PROVE  BootRight'
  BY <1>11, <1>0 DEF putch, Begin, Goto, PutchPath, Started, boot, acts,
    con, ser, dev
<1>12. ASSUME NEW t \in Threads,
             P(t)
      PROVE  BootRight'
  BY <1>12, <1>0 DEF P, Goto, boot, acts, con, ser, dev
<1>13. ASSUME NEW t \in Threads,
             lser_write(t)
      PROVE  BootRight'
  <2>1. kprintf_spinlock # t
    BY <1>13 DEF lser_write
  <2>2. pc' = [pc EXCEPT ![t] = IF t = Boot /\ the_console # "up"
                                  THEN "flush" ELSE "idle"]
    BY <1>13, <2>1 DEF lser_write, Return, Goto, Started
  <2>3. UNCHANGED <<boot, kprintf_spinlock>> /\ the_console # "none"
    BY <1>13 DEF lser_write
  <2> QED
    BY <2>2, <2>3 DEF boot
<1>14. ASSUME NEW t \in Threads,
             getch(t)
      PROVE  BootRight'
  BY <1>14, <1>0 DEF getch, Goto, Started, boot, acts, con, ser, dev
<1>15. ASSUME NEW t \in Threads,
             GetchP(t)
      PROVE  BootRight'
  BY <1>15, <1>0 DEF GetchP, Goto, boot, acts, con, ser, dev
<1>16. ASSUME NEW t \in Threads,
             GetchTake(t)
      PROVE  BootRight'
  BY <1>16, <1>0 DEF GetchTake, Goto, boot, acts, con, ser, dev
<1>17. ASSUME NEW t \in Threads,
             GetchAdvance(t)
      PROVE  BootRight'
  BY <1>17, <1>0 DEF GetchAdvance, Goto, boot, acts, con, ser, dev
<1>18. ASSUME NEW a \in Actors,
             KprintfOff(a)
      PROVE  BootRight'
  BY <1>18, <1>0 DEF KprintfOff, Begin, Goto, Started, boot, acts, con, ser,
    dev
<1>19. ASSUME NEW a \in Actors,
             TakeSpinlock(a)
      PROVE  BootRight'
  BY <1>19, <1>0 DEF TakeSpinlock, Goto, boot, acts, con, ser, dev
<1>20. ASSUME NEW a \in Actors,
             putch_polled(a)
      PROVE  BootRight'
  BY <1>20, <1>0 DEF putch_polled, Begin, Goto, boot, acts, con, ser, dev
<1>21. ASSUME NEW a \in Actors,
             EndKprintf(a)
      PROVE  BootRight'
  BY <1>21, <1>0 DEF EndKprintf, Goto, boot, acts, con, ser, dev
<1>22. ASSUME NEW a \in Actors,
             lser_writepolled(a)
      PROVE  BootRight'
  BY <1>22, <1>0 DEF lser_writepolled, Goto, boot, acts, con, ser, dev
<1>23. ASSUME NEW a \in Actors,
             Drain(a)
      PROVE  BootRight'
  BY <1>23, <1>0 DEF Drain, Goto, boot, acts, con, ser, dev, DeviceRight
<1>24. ASSUME NEW a \in Actors,
             Poll(a)
      PROVE  BootRight'
  <2>1. pc' = [pc EXCEPT ![a] =
                 IF kprintf_spinlock = a THEN "msg"
                 ELSE IF a = Boot /\ the_console # "up" THEN "flush" ELSE "idle"]
    BY <1>24 DEF Poll, Return, Goto, Started
  <2>2. UNCHANGED <<boot, kprintf_spinlock>> /\ the_console # "none"
    BY <1>24 DEF Poll
  <2>3. the_console = "flush" => a = Boot /\ kprintf_spinlock # a
    BY <1>24 DEF Poll
  <2> QED
    BY <2>1, <2>2, <2>3 DEF boot
<1> QED
  BY <1>1, <1>2, <1>3, <1>4, <1>5, <1>6, <1>7, <1>8, <1>9, <1>10, <1>11,
    <1>12, <1>13, <1>14, <1>15, <1>16, <1>17, <1>18, <1>19, <1>20, <1>21,
    <1>22, <1>23, <1>24 DEF Next, Boots, Handler, Intr, Read, Polled

LEMMA PlacesNext ==
  ASSUME ConInv, Next
  PROVE  PlacesRight'
<1>0. /\ BootRight /\ PlacesRight
     /\ pc \in [Actors -> PCs] /\ kprintf_spinlock \in Actors \union {NULL}
     /\ ls_lock \in Actors \union {NULL}
     /\ the_console \in {"none", "flush", "up"}
     /\ Boot \in Threads /\ Threads \subseteq Actors /\ NULL \notin Actors
  BY ConsoleAssumption DEF ConInv, Actors, ActorTypes, LockTypes
<1> USE <1>0 DEF PlacesRight
<1>1. CASE putch_delayed
  BY <1>1, <1>0 DEF putch_delayed, Begin, boot, acts, con, ser, dev
<1>2. CASE config_con
  BY <1>2, <1>0 DEF config_con, Goto, boot, acts, con, ser, dev, BootRight
<1>3. CASE flush_delay_buf
  BY <1>3, <1>0 DEF flush_delay_buf, Goto, PutchPath, boot, acts, con, ser,
    dev, BootRight
<1>4. CASE Transmit
  BY <1>4, <1>0 DEF Transmit, boot, acts, con, ser, dev
<1>5. CASE Type
  BY <1>5, <1>0 DEF Type, boot, acts, con, ser, dev
<1>6. CASE lser_irq
  BY <1>6, <1>0 DEF lser_irq, lamebus_interrupt, Interrupting, boot, acts,
    con, ser, dev
<1>7. CASE con_start
  BY <1>7, <1>0 DEF con_start, boot, acts, con, ser, dev
<1>8. CASE con_input
  BY <1>8, <1>0 DEF con_input, boot, acts, con, ser, dev
<1>9. CASE ConInputPut
  BY <1>9, <1>0 DEF ConInputPut, boot, acts, con, ser, dev
<1>10. CASE ConInputV
  BY <1>10, <1>0 DEF ConInputV, boot, acts, con, ser, dev
<1>11. ASSUME NEW t \in Threads,
             putch(t)
      PROVE  PlacesRight'
  BY <1>11, <1>0 DEF putch, Begin, Goto, PutchPath, Started, boot, acts,
    con, ser, dev
<1>12. ASSUME NEW t \in Threads,
             P(t)
      PROVE  PlacesRight'
  BY <1>12, <1>0 DEF P, Goto, boot, acts, con, ser, dev
<1>13. ASSUME NEW t \in Threads,
             lser_write(t)
      PROVE  PlacesRight'
  BY <1>13, <1>0 DEF lser_write, Return, Goto, boot, acts, con, ser, dev,
    BootRight
<1>14. ASSUME NEW t \in Threads,
             getch(t)
      PROVE  PlacesRight'
  BY <1>14, <1>0 DEF getch, Goto, Started, boot, acts, con, ser, dev
<1>15. ASSUME NEW t \in Threads,
             GetchP(t)
      PROVE  PlacesRight'
  BY <1>15, <1>0 DEF GetchP, Goto, boot, acts, con, ser, dev
<1>16. ASSUME NEW t \in Threads,
             GetchTake(t)
      PROVE  PlacesRight'
  BY <1>16, <1>0 DEF GetchTake, Goto, boot, acts, con, ser, dev
<1>17. ASSUME NEW t \in Threads,
             GetchAdvance(t)
      PROVE  PlacesRight'
  BY <1>17, <1>0 DEF GetchAdvance, Goto, boot, acts, con, ser, dev
<1>18. ASSUME NEW a \in Actors,
             KprintfOff(a)
      PROVE  PlacesRight'
  BY <1>18, <1>0 DEF KprintfOff, Begin, Goto, Started, boot, acts, con, ser,
    dev
<1>19. ASSUME NEW a \in Actors,
             TakeSpinlock(a)
      PROVE  PlacesRight'
  BY <1>19, <1>0 DEF TakeSpinlock, Goto, boot, acts, con, ser, dev
<1>20. ASSUME NEW a \in Actors,
             putch_polled(a)
      PROVE  PlacesRight'
  BY <1>20, <1>0 DEF putch_polled, Begin, Goto, boot, acts, con, ser, dev
<1>21. ASSUME NEW a \in Actors,
             EndKprintf(a)
      PROVE  PlacesRight'
  BY <1>21, <1>0 DEF EndKprintf, Goto, boot, acts, con, ser, dev, BootRight
<1>22. ASSUME NEW a \in Actors,
             lser_writepolled(a)
      PROVE  PlacesRight'
  BY <1>22, <1>0 DEF lser_writepolled, Goto, boot, acts, con, ser, dev
<1>23. ASSUME NEW a \in Actors,
             Drain(a)
      PROVE  PlacesRight'
  BY <1>23, <1>0 DEF Drain, Goto, boot, acts, con, ser, dev
<1>24. ASSUME NEW a \in Actors,
             Poll(a)
      PROVE  PlacesRight'
  <2>1. pc' = [pc EXCEPT ![a] =
                 IF kprintf_spinlock = a THEN "msg"
                 ELSE IF a = Boot /\ the_console # "up" THEN "flush" ELSE "idle"]
    BY <1>24 DEF Poll, Return, Goto, Started, BootRight
  <2>2. pc[a] = "poll" /\ ls_lock = a /\ ls_lock' = NULL
          /\ kprintf_spinlock' = kprintf_spinlock
    BY <1>24 DEF Poll
  <2> QED
    BY <2>1, <2>2
<1> QED
  BY <1>1, <1>2, <1>3, <1>4, <1>5, <1>6, <1>7, <1>8, <1>9, <1>10, <1>11,
    <1>12, <1>13, <1>14, <1>15, <1>16, <1>17, <1>18, <1>19, <1>20, <1>21,
    <1>22, <1>23, <1>24 DEF Next, Boots, Handler, Intr, Read, Polled

LEMMA DeviceNext ==
  ASSUME ConInv, Next
  PROVE  DeviceRight'
<1>0. /\ BootRight /\ PlacesRight /\ DeviceRight
     /\ pc \in [Actors -> PCs] /\ ls_lock \in Actors \union {NULL}
     /\ the_console \in {"none", "flush", "up"} /\ tx.by \in Actors \union {NULL}
     /\ ls_wbusy \in BOOLEAN /\ isr.got \in BOOLEAN
     /\ rx \in Nat /\ typed \in Nat /\ isr.ch \in Nat
     /\ Boot \in Threads /\ Threads \subseteq Actors /\ NULL \notin Actors
  BY ConsoleAssumption DEF ConInv, Actors, ActorTypes, LockTypes,
    DevTypes, RingTypes
<1> USE <1>0 DEF DeviceRight, PlacesRight, Polling
<1>1. CASE putch_delayed
  BY <1>1, <1>0 DEF putch_delayed, Begin, boot, acts, con, ser, dev
<1>2. CASE config_con
  BY <1>2, <1>0 DEF config_con, Goto, boot, acts, con, ser, dev, BootRight
<1>3. CASE flush_delay_buf
  BY <1>3, <1>0 DEF flush_delay_buf, Goto, PutchPath, boot, acts, con, ser,
    dev, BootRight
<1>4. CASE Transmit
  BY <1>4, <1>0 DEF Transmit, boot, acts, con, ser, dev
<1>5. CASE Type
  BY <1>5, <1>0 DEF Type, boot, acts, con, ser, dev
<1>6. CASE lser_irq
  BY <1>6, <1>0 DEF lser_irq, lamebus_interrupt, Interrupting, boot, acts,
    con, ser, dev, NoIsr
<1>7. CASE con_start
  BY <1>7, <1>0 DEF con_start, boot, acts, con, ser, dev, NoIsr
<1>8. CASE con_input
  <2>1. isr' = NoIsr \/ isr' = [isr EXCEPT !.at = "put"]
    BY <1>8 DEF con_input
  <2>2. isr'.at \in {"input", "put", "V"} => isr'.got
    BY <1>8, <2>1 DEF con_input, NoIsr, ConInv, RingTypes
  <2>3. isr'.got => isr'.ch > 0
    BY <1>8, <2>1 DEF con_input, NoIsr, ConInv, RingTypes
  <2> QED
    BY <1>8, <2>2, <2>3 DEF con_input, acts, dev
<1>9. CASE ConInputPut
  BY <1>9, <1>0 DEF ConInputPut, boot, acts, con, ser, dev, NoIsr
<1>10. CASE ConInputV
  BY <1>10, <1>0 DEF ConInputV, boot, acts, con, ser, dev, NoIsr
<1>11. ASSUME NEW t \in Threads,
             putch(t)
      PROVE  DeviceRight'
  BY <1>11, <1>0 DEF putch, Begin, Goto, PutchPath, Started, boot, acts,
    con, ser, dev
<1>12. ASSUME NEW t \in Threads,
             P(t)
      PROVE  DeviceRight'
  BY <1>12, <1>0 DEF P, Goto, boot, acts, con, ser, dev
<1>13. ASSUME NEW t \in Threads,
             lser_write(t)
      PROVE  DeviceRight'
  BY <1>13, <1>0, CharIsNext DEF lser_write, Return, Goto, boot, acts, con,
    ser, dev
<1>14. ASSUME NEW t \in Threads,
             getch(t)
      PROVE  DeviceRight'
  BY <1>14, <1>0 DEF getch, Goto, Started, boot, acts, con, ser, dev
<1>15. ASSUME NEW t \in Threads,
             GetchP(t)
      PROVE  DeviceRight'
  BY <1>15, <1>0 DEF GetchP, Goto, boot, acts, con, ser, dev
<1>16. ASSUME NEW t \in Threads,
             GetchTake(t)
      PROVE  DeviceRight'
  BY <1>16, <1>0 DEF GetchTake, Goto, boot, acts, con, ser, dev
<1>17. ASSUME NEW t \in Threads,
             GetchAdvance(t)
      PROVE  DeviceRight'
  BY <1>17, <1>0 DEF GetchAdvance, Goto, boot, acts, con, ser, dev
<1>18. ASSUME NEW a \in Actors,
             KprintfOff(a)
      PROVE  DeviceRight'
  BY <1>18, <1>0 DEF KprintfOff, Begin, Goto, Started, boot, acts, con, ser,
    dev
<1>19. ASSUME NEW a \in Actors,
             TakeSpinlock(a)
      PROVE  DeviceRight'
  BY <1>19, <1>0 DEF TakeSpinlock, Goto, boot, acts, con, ser, dev
<1>20. ASSUME NEW a \in Actors,
             putch_polled(a)
      PROVE  DeviceRight'
  BY <1>20, <1>0 DEF putch_polled, Begin, Goto, boot, acts, con, ser, dev
<1>21. ASSUME NEW a \in Actors,
             EndKprintf(a)
      PROVE  DeviceRight'
  BY <1>21, <1>0 DEF EndKprintf, Goto, boot, acts, con, ser, dev
<1>22. ASSUME NEW a \in Actors,
             lser_writepolled(a)
      PROVE  DeviceRight'
  BY <1>22, <1>0, CharIsNext DEF lser_writepolled, Goto, boot, acts, con,
    ser, dev
<1>23. ASSUME NEW a \in Actors,
             Drain(a)
      PROVE  DeviceRight'
  BY <1>23, <1>0, CharIsNext DEF Drain, Goto, boot, acts, con, ser, dev
<1>24. ASSUME NEW a \in Actors,
             Poll(a)
      PROVE  DeviceRight'
  BY <1>24, <1>0 DEF Poll, Return, Goto, boot, acts, con, ser, dev
<1> QED
  BY <1>1, <1>2, <1>3, <1>4, <1>5, <1>6, <1>7, <1>8, <1>9, <1>10, <1>11,
    <1>12, <1>13, <1>14, <1>15, <1>16, <1>17, <1>18, <1>19, <1>20, <1>21,
    <1>22, <1>23, <1>24 DEF Next, Boots, Handler, Intr, Read, Polled

LEMMA ClearNext ==
  ASSUME ConInv, Next
  PROVE  OneClear'
<1>0. /\ OneClear /\ BootRight /\ PlacesRight /\ DeviceRight
     /\ pc \in [Actors -> PCs] /\ ls_wbusy \in BOOLEAN /\ cs_wsem \in Nat
     /\ Boot \in Actors /\ Threads \subseteq Actors /\ NULL \notin Actors
  BY ConsoleAssumption DEF ConInv, Actors, ActorTypes, LockTypes
<1>a. ASSUME NEW a \in Actors, NEW l \in PCs, pc' = [pc EXCEPT ![a] = l]
      PROVE  Number(pc', {"write"}) =
               IF a \in Threads /\ pc[a] \notin {"write"} /\ l \in {"write"}
                 THEN Number(pc, {"write"}) + 1
               ELSE IF a \in Threads /\ pc[a] \in {"write"} /\ l \notin {"write"}
                 THEN Number(pc, {"write"}) - 1 ELSE Number(pc, {"write"})
  <2>1. pc'[a] = l /\ \A t \in Threads \ {a} : pc'[t] = pc[t]
    BY <1>0, <1>a
  <2> QED
    BY <2>1, NumberGoto
<1>b. Number(pc, {"write"}) \in Nat
  BY NumberCounts
<1> USE <1>0, <1>b DEF OneClear, One
<1>1. CASE putch_delayed
  BY <1>1 DEF putch_delayed, Begin, boot, acts, con, ser, dev
<1>2. CASE config_con
  <2>1. Number(pc, {"write"}) = 0
    <3>1. \A t \in Threads : pc[t] \notin {"write"}
      BY <1>2 DEF config_con, BootRight
    <3> QED
      BY <3>1, NumberCounts
  <2>2. pc' = [pc EXCEPT ![Boot] = "flush"] /\ "flush" \in PCs
    BY <1>2 DEF config_con, Goto, PCs
  <2>3. Number(pc', {"write"}) = 0
    BY <1>2, <2>1, <2>2, <1>a DEF config_con, BootRight
  <2> QED
    BY <1>2, <2>3 DEF config_con, BootRight, ser, NoIsr
<1>3. CASE flush_delay_buf
  <2>1. PICK l \in PCs \ {"write"} : pc' = [pc EXCEPT ![Boot] = l]
    BY <1>3 DEF flush_delay_buf, PutchPath, Goto, PCs
  <2>2. Number(pc', {"write"}) = Number(pc, {"write"})
    BY <1>3, <2>1, <1>a DEF flush_delay_buf
  <2> QED
    BY <1>3, <2>2 DEF flush_delay_buf, con, ser, boot, BootRight
<1>4. CASE Transmit \/ Type
  BY <1>4 DEF Transmit, Type, boot, acts, con, ser, dev
<1>5. CASE lser_irq
  <2>1. ~ Polling /\ isr.at = "none"
    BY <1>5 DEF lser_irq, lamebus_interrupt, PlacesRight, Polling, NoIsr
  <2>2. pc' = pc
    BY <1>5 DEF lser_irq, acts
  <2>3. isr'.at = IF "ACTIVE" \in wirq THEN "start" ELSE "input"
    BY <1>5 DEF lser_irq
  <2>4. ls_wbusy' = (ls_wbusy /\ "ACTIVE" \notin wirq)
    BY <1>5 DEF lser_irq
  <2>5. "ACTIVE" \in wirq => ls_wbusy
    BY <2>1 DEF DeviceRight
  <2>6. UNCHANGED <<the_console, cs_wsem>>
    BY <1>5 DEF lser_irq, boot, con
  <2> QED
    <3>1. CASE "ACTIVE" \in wirq
      <4>1. ls_wbusy /\ ~ ls_wbusy'
        BY <3>1, <2>4, <2>5
      <4>2. isr'.at = "start"
        BY <3>1, <2>3
      <4> QED
        BY <4>1, <4>2, <2>1, <2>2, <2>6
    <3>2. CASE "ACTIVE" \notin wirq
      <4>1. ls_wbusy' = ls_wbusy
        BY <3>2, <2>4
      <4>2. isr'.at = "input"
        BY <3>2, <2>3
      <4> QED
        BY <4>1, <4>2, <2>1, <2>2, <2>6
    <3> QED
      BY <3>1, <3>2
<1>6. CASE con_start
  <2>1. isr'.at # "start"
    BY <1>6 DEF con_start, NoIsr, ConInv, RingTypes
  <2> QED
    BY <1>6, <2>1 DEF con_start, boot, acts
<1>7. CASE con_input
  <2>1. isr'.at # "start" /\ isr.at # "start"
    BY <1>7 DEF con_input, NoIsr, ConInv, RingTypes
  <2> QED
    BY <1>7, <2>1 DEF con_input, boot, acts, con
<1>8. CASE ConInputPut
  <2>1. isr'.at # "start" /\ isr.at # "start"
    BY <1>8 DEF ConInputPut, NoIsr, ConInv, RingTypes
  <2> QED
    BY <1>8, <2>1 DEF ConInputPut, boot, acts, con
<1>9. CASE ConInputV
  <2>1. isr'.at # "start" /\ isr.at # "start"
    BY <1>9 DEF ConInputV, NoIsr, ConInv, RingTypes
  <2> QED
    BY <1>9, <2>1 DEF ConInputV, boot, acts, con
<1>10. ASSUME NEW t \in Threads,
             putch(t)
      PROVE  OneClear'
  <2>1. PICK l \in PCs \ {"write"} : pc' = [pc EXCEPT ![t] = l]
    BY <1>10 DEF putch, PutchPath, Goto, PCs
  <2>2. Number(pc', {"write"}) = Number(pc, {"write"})
    BY <1>10, <2>1, <1>a DEF putch
  <2> QED
    BY <1>10, <2>2 DEF putch, con, ser, boot, BootRight
<1>11. ASSUME NEW t \in Threads,
             P(t)
      PROVE  OneClear'
  <2>1. Number(pc', {"write"}) = Number(pc, {"write"}) + 1
    BY <1>11, <1>a DEF P, Goto, PCs
  <2> QED
    BY <1>11, <2>1 DEF P, ser, boot
<1>12. ASSUME NEW t \in Threads,
             lser_write(t)
      PROVE  OneClear'
  <2>1. PICK l \in PCs \ {"write"} : pc' = [pc EXCEPT ![t] = l]
    <3>1. (IF kprintf_spinlock = t THEN "msg"
           ELSE IF t = Boot /\ ~Started THEN "flush" ELSE "idle") \in PCs \ {"write"}
      BY DEF PCs
    <3> QED
      BY <1>12, <3>1 DEF lser_write, Return, Goto, BootRight, Started
  <2>2. Number(pc', {"write"}) = Number(pc, {"write"}) - 1
    BY <1>12, <2>1, <1>a DEF lser_write
  <2> QED
    BY <1>12, <2>2 DEF lser_write, con, boot, ser
<1>13. ASSUME NEW t \in Threads,
             getch(t)
      PROVE  OneClear'
  <2>1. PICK l \in PCs \ {"write"} : pc' = [pc EXCEPT ![t] = l]
    BY <1>13 DEF getch, Goto, PCs
  <2>2. Number(pc', {"write"}) = Number(pc, {"write"})
    BY <1>13, <2>1, <1>a DEF getch
  <2> QED
    BY <1>13, <2>2 DEF getch, con, ser, boot
<1>14. ASSUME NEW t \in Threads,
             GetchP(t)
      PROVE  OneClear'
  <2>1. PICK l \in PCs \ {"write"} : pc' = [pc EXCEPT ![t] = l]
    BY <1>14 DEF GetchP, Goto, PCs
  <2>2. Number(pc', {"write"}) = Number(pc, {"write"})
    BY <1>14, <2>1, <1>a DEF GetchP
  <2> QED
    BY <1>14, <2>2 DEF GetchP, con, ser, boot
<1>15. ASSUME NEW t \in Threads,
             GetchTake(t)
      PROVE  OneClear'
  <2>1. PICK l \in PCs \ {"write"} : pc' = [pc EXCEPT ![t] = l]
    BY <1>15 DEF GetchTake, Goto, PCs
  <2>2. Number(pc', {"write"}) = Number(pc, {"write"})
    BY <1>15, <2>1, <1>a DEF GetchTake
  <2> QED
    BY <1>15, <2>2 DEF GetchTake, con, ser, boot
<1>16. ASSUME NEW t \in Threads,
             GetchAdvance(t)
      PROVE  OneClear'
  <2>1. PICK l \in PCs \ {"write"} : pc' = [pc EXCEPT ![t] = l]
    BY <1>16 DEF GetchAdvance, Goto, PCs
  <2>2. Number(pc', {"write"}) = Number(pc, {"write"})
    BY <1>16, <2>1, <1>a DEF GetchAdvance
  <2> QED
    BY <1>16, <2>2 DEF GetchAdvance, con, ser, boot
<1>17. ASSUME NEW a \in Actors,
             KprintfOff(a)
      PROVE  OneClear'
  <2>1. PICK l \in PCs \ {"write"} : pc' = [pc EXCEPT ![a] = l]
    BY <1>17 DEF KprintfOff, Goto, PCs
  <2>2. Number(pc', {"write"}) = Number(pc, {"write"})
    BY <1>17, <2>1, <1>a DEF KprintfOff
  <2> QED
    BY <1>17, <2>2 DEF KprintfOff, con, ser, boot
<1>18. ASSUME NEW a \in Actors,
             TakeSpinlock(a)
      PROVE  OneClear'
  <2>1. PICK l \in PCs \ {"write"} : pc' = [pc EXCEPT ![a] = l]
    BY <1>18 DEF TakeSpinlock, Goto, PCs
  <2>2. Number(pc', {"write"}) = Number(pc, {"write"})
    BY <1>18, <2>1, <1>a DEF TakeSpinlock
  <2> QED
    BY <1>18, <2>2 DEF TakeSpinlock, con, ser, boot
<1>19. ASSUME NEW a \in Actors,
             putch_polled(a)
      PROVE  OneClear'
  <2>1. PICK l \in PCs \ {"write"} : pc' = [pc EXCEPT ![a] = l]
    BY <1>19 DEF putch_polled, Goto, PCs
  <2>2. Number(pc', {"write"}) = Number(pc, {"write"})
    BY <1>19, <2>1, <1>a DEF putch_polled
  <2> QED
    BY <1>19, <2>2 DEF putch_polled, con, ser, boot
<1>20. ASSUME NEW a \in Actors,
             EndKprintf(a)
      PROVE  OneClear'
  <2>1. PICK l \in PCs \ {"write"} : pc' = [pc EXCEPT ![a] = l]
    BY <1>20 DEF EndKprintf, Goto, PCs
  <2>2. Number(pc', {"write"}) = Number(pc, {"write"})
    BY <1>20, <2>1, <1>a DEF EndKprintf
  <2> QED
    BY <1>20, <2>2 DEF EndKprintf, con, ser, boot
<1>21. ASSUME NEW a \in Actors,
             lser_writepolled(a)
      PROVE  OneClear'
  <2>1. PICK l \in PCs \ {"write"} : pc' = [pc EXCEPT ![a] = l]
    BY <1>21 DEF lser_writepolled, Goto, PCs
  <2>2. Number(pc', {"write"}) = Number(pc, {"write"})
    BY <1>21, <2>1, <1>a DEF lser_writepolled
  <2> QED
    BY <1>21, <2>2 DEF lser_writepolled, con, ser, boot
<1>22. ASSUME NEW a \in Actors,
             Drain(a)
      PROVE  OneClear'
  <2>1. PICK l \in PCs \ {"write"} : pc' = [pc EXCEPT ![a] = l]
    BY <1>22 DEF Drain, Goto, PCs
  <2>2. Number(pc', {"write"}) = Number(pc, {"write"})
    BY <1>22, <2>1, <1>a DEF Drain
  <2> QED
    BY <1>22, <2>2 DEF Drain, con, ser, boot
<1>23. ASSUME NEW a \in Actors,
             Poll(a)
      PROVE  OneClear'
  <2>1. PICK l \in PCs \ {"write"} : pc' = [pc EXCEPT ![a] = l]
    <3>1. (IF kprintf_spinlock = a THEN "msg"
           ELSE IF a = Boot /\ ~Started THEN "flush" ELSE "idle") \in PCs \ {"write"}
      BY DEF PCs
    <3> QED
      BY <1>23, <3>1 DEF Poll, Return, Goto, BootRight, Started
  <2>2. Number(pc', {"write"}) = Number(pc, {"write"})
    BY <1>23, <2>1, <1>a DEF Poll
  <2> QED
    BY <1>23, <2>2 DEF Poll, con, boot, ser
<1> QED
  BY <1>1, <1>2, <1>3, <1>4, <1>5, <1>6, <1>7, <1>8, <1>9, <1>10, <1>11,
    <1>12, <1>13, <1>14, <1>15, <1>16, <1>17, <1>18, <1>19, <1>20, <1>21,
    <1>22, <1>23 DEF Next, Boots, Handler, Intr, Read, Polled

LEMMA OutputNext ==
  ASSUME ConInv, Next
  PROVE  OutputExact'
<1>0. /\ OutputExact /\ BootRight /\ PlacesRight /\ DeviceRight
     /\ pc \in [Actors -> PCs] /\ out \in [Actors -> Nat]
     /\ shown \in [Actors -> Nat] /\ delayed \in Nat
     /\ tx.by \in Actors \union {NULL} /\ tx.n \in Nat
     /\ Boot \in Actors /\ Threads \subseteq Actors /\ NULL \notin Actors
  BY ConsoleAssumption DEF ConInv, Actors, ActorTypes, DevTypes
<1> USE <1>0 DEF OutputExact
<1>1. CASE putch_delayed
  BY <1>1 DEF putch_delayed, Begin, boot, dev
<1>2. CASE config_con
  BY <1>2 DEF config_con, Goto, boot, dev, BootRight
<1>3. CASE flush_delay_buf
  BY <1>3 DEF flush_delay_buf, Goto, PutchPath, boot, dev
<1>4. CASE Transmit
  <2>1. tx.by \in Actors /\ tx' = NoChar
    BY <1>4 DEF Transmit, DeviceRight
  <2>2. UNCHANGED <<out, delayed, pc>> /\ shown' = [shown EXCEPT ![tx.by] = tx.n]
    BY <1>4 DEF Transmit, acts, boot
  <2> QED
    BY <2>1, <2>2 DEF NoChar
<1>5. CASE Type \/ lser_irq \/ con_start \/ con_input \/ ConInputPut \/
          ConInputV
  BY <1>5 DEF Type, lser_irq, lamebus_interrupt, Interrupting, con_start,
    con_input, ConInputPut, ConInputV, boot, acts, con, ser, dev
<1>6. ASSUME NEW t \in Threads,
             putch(t)
      PROVE  OutputExact'
  BY <1>6 DEF putch, Begin, Goto, PutchPath, Started, boot, dev
<1>7. ASSUME NEW t \in Threads,
             P(t)
      PROVE  OutputExact'
  BY <1>7 DEF P, Goto, boot, dev
<1>8. ASSUME NEW t \in Threads,
             lser_write(t)
      PROVE  OutputExact'
  <2>1. PICK l \in {"msg", "flush", "idle"} : pc' = [pc EXCEPT ![t] = l]
    <3>1. (IF kprintf_spinlock = t THEN "msg"
           ELSE IF t = Boot /\ ~Started THEN "flush" ELSE "idle")
             \in {"msg", "flush", "idle"}
      OBVIOUS
    <3> QED
      BY <1>8, <3>1 DEF lser_write, Return, Goto, BootRight, Started
  <2>2. tx = NoChar /\ tx' = CharOf(t)
    BY <1>8 DEF lser_write, DeviceRight, PlacesRight, Polling
  <2>3. CharOf(t).by = t /\ CharOf(t).n = shown[t] + 1
    BY <1>8, <2>2, CharIsNext DEF lser_write, NoChar
  <2>4. UNCHANGED <<out, shown, delayed>> /\ pc[t] = "write"
    BY <1>8 DEF lser_write, boot
  <2> QED
    BY <2>1, <2>2, <2>3, <2>4 DEF NoChar
<1>9. ASSUME NEW t \in Threads,
             getch(t)
      PROVE  OutputExact'
  BY <1>9 DEF getch, Goto, Started, boot, dev
<1>10. ASSUME NEW t \in Threads,
             GetchP(t)
      PROVE  OutputExact'
  BY <1>10 DEF GetchP, Goto, boot, dev
<1>11. ASSUME NEW t \in Threads,
             GetchTake(t)
      PROVE  OutputExact'
  BY <1>11 DEF GetchTake, Goto, boot, dev
<1>12. ASSUME NEW t \in Threads,
             GetchAdvance(t)
      PROVE  OutputExact'
  BY <1>12 DEF GetchAdvance, Goto, boot, dev
<1>13. ASSUME NEW a \in Actors,
             KprintfOff(a)
      PROVE  OutputExact'
  BY <1>13 DEF KprintfOff, Begin, Goto, Started, boot, dev
<1>14. ASSUME NEW a \in Actors,
             TakeSpinlock(a)
      PROVE  OutputExact'
  BY <1>14 DEF TakeSpinlock, Goto, boot, dev
<1>15. ASSUME NEW a \in Actors,
             putch_polled(a)
      PROVE  OutputExact'
  BY <1>15 DEF putch_polled, Begin, Goto, boot, dev
<1>16. ASSUME NEW a \in Actors,
             EndKprintf(a)
      PROVE  OutputExact'
  BY <1>16 DEF EndKprintf, Goto, boot, dev
<1>17. ASSUME NEW a \in Actors,
             lser_writepolled(a)
      PROVE  OutputExact'
  <2>1. CASE ls_wbusy
    BY <1>17, <2>1 DEF lser_writepolled, Goto, boot
  <2>2. CASE ~ ls_wbusy
    <3>1. tx = NoChar /\ tx' = CharOf(a)
      BY <1>17, <2>2 DEF lser_writepolled, DeviceRight, PlacesRight, Polling
    <3>2. CharOf(a).by = a /\ CharOf(a).n = shown[a] + 1
      BY <1>17, <3>1, CharIsNext DEF lser_writepolled, NoChar
    <3>3. UNCHANGED <<out, shown, delayed>> /\ pc[a] = "lock"
            /\ pc' = [pc EXCEPT ![a] = "poll"]
      BY <1>17, <2>2 DEF lser_writepolled, Goto, boot
    <3> QED
      BY <3>1, <3>2, <3>3 DEF NoChar
  <2> QED
    BY <2>1, <2>2
<1>18. ASSUME NEW a \in Actors,
             Drain(a)
      PROVE  OutputExact'
  <2>1. tx = NoChar /\ tx' = CharOf(a)
    BY <1>18 DEF Drain, DeviceRight
  <2>2. CharOf(a).by = a /\ CharOf(a).n = shown[a] + 1
    BY <1>18, <2>1, CharIsNext DEF Drain, NoChar
  <2>3. UNCHANGED <<out, shown, delayed>> /\ pc[a] = "drain"
          /\ pc' = [pc EXCEPT ![a] = "poll"]
    BY <1>18 DEF Drain, Goto, boot
  <2> QED
    BY <2>1, <2>2, <2>3 DEF NoChar
<1>19. ASSUME NEW a \in Actors,
             Poll(a)
      PROVE  OutputExact'
  <2>1. PICK l \in {"msg", "flush", "idle"} : pc' = [pc EXCEPT ![a] = l]
    <3>1. (IF kprintf_spinlock = a THEN "msg"
           ELSE IF a = Boot /\ ~Started THEN "flush" ELSE "idle")
             \in {"msg", "flush", "idle"}
      OBVIOUS
    <3> QED
      BY <1>19, <3>1 DEF Poll, Return, Goto, BootRight, Started
  <2>2. UNCHANGED <<out, shown, delayed, tx>> /\ pc[a] = "poll"
    BY <1>19 DEF Poll, boot
  <2> QED
    BY <2>1, <2>2
<1> QED
  BY <1>1, <1>2, <1>3, <1>4, <1>5, <1>6, <1>7, <1>8, <1>9, <1>10, <1>11,
    <1>12, <1>13, <1>14, <1>15, <1>16, <1>17, <1>18, <1>19 DEF Next, Boots,
    Handler, Intr, Read, Polled

LEMMA RingNext ==
  ASSUME ConInv, Next
  PROVE  RingRight'
<1>0. /\ RingRight /\ BootRight /\ DeviceRight /\ RingTypes
     /\ pc \in [Actors -> PCs] /\ cs_rsem \in Nat
     /\ CONSOLE_INPUT_BUFFER_SIZE \in Nat /\ CONSOLE_INPUT_BUFFER_SIZE > 1
     /\ Boot \in Actors /\ Threads \subseteq Actors /\ NULL \notin Actors
  BY ConsoleAssumption DEF ConInv, Actors, ActorTypes, LockTypes
<1>a. ASSUME NEW a \in Actors, NEW l \in PCs, pc' = [pc EXCEPT ![a] = l]
      PROVE  Number(pc', {"take", "advance"}) =
               IF a \in Threads /\ pc[a] \notin {"take", "advance"} /\ l \in {"take", "advance"}
                 THEN Number(pc, {"take", "advance"}) + 1
               ELSE IF a \in Threads /\ pc[a] \in {"take", "advance"} /\ l \notin {"take", "advance"}
                 THEN Number(pc, {"take", "advance"}) - 1 ELSE Number(pc, {"take", "advance"})
  <2>1. pc'[a] = l /\ \A t \in Threads \ {a} : pc'[t] = pc[t]
    BY <1>0, <1>a
  <2> QED
    BY <2>1, NumberGoto
<1>b. Number(pc, {"take", "advance"}) \in Nat
  BY NumberCounts
<1>c. /\ cs_gotchars_head \in Nat /\ cs_gotchars_head < CONSOLE_INPUT_BUFFER_SIZE
      /\ cs_gotchars_tail \in Nat /\ cs_gotchars_tail < CONSOLE_INPUT_BUFFER_SIZE
  BY <1>0 DEF RingTypes, Slots
<1>d. UNCHANGED <<cs_gotchars, cs_gotchars_head, cs_gotchars_tail>> =>
        Used' = Used /\ \A i \in Slots : InRing(i)' = InRing(i)
  BY DEF Used, InRing
<1> USE <1>0, <1>b DEF RingRight, One
<1>1. CASE putch_delayed
  <2>1. UNCHANGED <<pc, isr, cs_rsem, cs_gotchars, cs_gotchars_head, cs_gotchars_tail>>
    BY <1>1 DEF putch_delayed, acts, con, ser
  <2> QED
    BY <2>1, <1>d
<1>2. CASE config_con
  <2>1. Number(pc, {"take", "advance"}) = 0
    <3>1. \A t \in Threads : pc[t] \notin {"take", "advance"}
      BY <1>2 DEF config_con, BootRight
    <3> QED
      BY <3>1, NumberCounts
  <2>2. pc' = [pc EXCEPT ![Boot] = "flush"] /\ "flush" \in PCs
    BY <1>2 DEF config_con, Goto, PCs
  <2>3. Number(pc', {"take", "advance"}) = 0
    BY <1>2, <2>1, <2>2, <1>a DEF config_con, BootRight
  <2>4. cs_rsem' = 0 /\ cs_gotchars_head' = 0 /\ cs_gotchars_tail' = 0
    BY <1>2 DEF config_con
  <2>5. Used' = 0 /\ \A i \in Slots : ~ InRing(i)'
    BY <2>4 DEF Used, InRing, Slots
  <2>6. isr'.at = "none"
    BY <1>2 DEF config_con, BootRight, ser, NoIsr
  <2> QED
    BY <2>3, <2>4, <2>5, <2>6
<1>3. CASE flush_delay_buf
  <2>1. PICK l \in PCs \ {"take", "advance"} : pc' = [pc EXCEPT ![Boot] = l]
    BY <1>3 DEF flush_delay_buf, PutchPath, Goto, PCs
  <2>2. Number(pc', {"take", "advance"}) = Number(pc, {"take", "advance"})
    BY <1>3, <2>1, <1>a DEF flush_delay_buf
  <2>3. UNCHANGED <<isr, cs_rsem, cs_gotchars, cs_gotchars_head, cs_gotchars_tail>>
    BY <1>3 DEF flush_delay_buf, con, ser
  <2> QED
    BY <2>2, <2>3, <1>d
<1>4. CASE Transmit
  <2>1. UNCHANGED <<pc, isr, cs_rsem, cs_gotchars, cs_gotchars_head, cs_gotchars_tail>>
    BY <1>4 DEF Transmit, acts, con, ser
  <2> QED
    BY <2>1, <1>d
<1>5. CASE Type
  <2>1. UNCHANGED <<pc, isr, cs_rsem, cs_gotchars, cs_gotchars_head, cs_gotchars_tail>>
    BY <1>5 DEF Type, acts, con, ser
  <2> QED
    BY <2>1, <1>d
<1>6. CASE lser_irq
  <2>1. pc' = pc /\ UNCHANGED <<cs_gotchars, cs_gotchars_head, cs_gotchars_tail>>
    BY <1>6 DEF lser_irq, acts, con
  <2>2. cs_rsem' = cs_rsem /\ isr.at = "none" /\ isr'.at \in {"start", "input"}
    BY <1>6 DEF lser_irq, lamebus_interrupt, NoIsr, con
  <2> QED
    BY <2>1, <2>2, <1>d
<1>7. CASE con_start
  <2>1. pc' = pc /\ UNCHANGED <<cs_gotchars, cs_gotchars_head, cs_gotchars_tail>>
    BY <1>7 DEF con_start, acts, con
  <2>2. cs_rsem' = cs_rsem /\ isr.at = "start" /\ isr'.at \in {"none", "input"}
    BY <1>7 DEF con_start, NoIsr, con, RingTypes
  <2> QED
    BY <2>1, <2>2, <1>d
<1>8. CASE con_input
  <2>1. pc' = pc /\ UNCHANGED <<cs_gotchars, cs_gotchars_head, cs_gotchars_tail>>
    BY <1>8 DEF con_input, acts, con
  <2>2. cs_rsem' = cs_rsem /\ isr.at = "input"
    BY <1>8 DEF con_input, con
  <2>3. isr'.at = "none" \/ (isr'.at = "put" /\ NextSlot(cs_gotchars_head) # cs_gotchars_tail)
    BY <1>8 DEF con_input, NoIsr, RingTypes
  <2> QED
    BY <2>1, <2>2, <2>3, <1>d
<1>9. CASE ConInputPut
  <2>1. pc' = pc /\ UNCHANGED <<cs_rsem, cs_gotchars_tail>>
    BY <1>9 DEF ConInputPut, acts
  <2>2. isr.at = "put" /\ isr'.at = "V"
    BY <1>9 DEF ConInputPut, RingTypes
  <2>3. cs_gotchars_head' = NextSlot(cs_gotchars_head)
    BY <1>9 DEF ConInputPut
  <2>4. cs_gotchars_head' = IF cs_gotchars_head = CONSOLE_INPUT_BUFFER_SIZE - 1
                              THEN 0 ELSE cs_gotchars_head + 1
    BY <2>3, NextSlotWraps DEF RingTypes
  <2>5. NextSlot(cs_gotchars_head) # cs_gotchars_tail
    BY <2>2
  <2>6. Used' = Used + 1
    BY <2>1, <2>3, <2>4, <2>5, <1>c DEF Used
  <2>7. ASSUME NEW i \in Slots, InRing(i)'
        PROVE  i = cs_gotchars_head \/ InRing(i)
    BY <2>1, <2>3, <2>4, <2>5, <2>7, <1>c DEF InRing, Slots
  <2>8. isr.ch > 0
    BY <2>2 DEF DeviceRight
  <2>9. \A i \in Slots :
          cs_gotchars'[i] = IF i = cs_gotchars_head THEN isr.ch ELSE cs_gotchars[i]
    BY <1>9 DEF ConInputPut, RingTypes
  <2> QED
    BY <2>1, <2>2, <2>6, <2>7, <2>8, <2>9
<1>10. CASE ConInputV
  <2>1. pc' = pc /\ UNCHANGED <<cs_gotchars, cs_gotchars_head, cs_gotchars_tail>>
    BY <1>10 DEF ConInputV, acts, con
  <2>2. cs_rsem' = cs_rsem + 1 /\ isr.at = "V" /\ isr'.at = "none"
    BY <1>10 DEF ConInputV, NoIsr, con
  <2> QED
    BY <2>1, <2>2, <1>d
<1>11. ASSUME NEW t \in Threads,
             putch(t)
      PROVE  RingRight'
  <2>1. PICK l \in PCs \ {"take", "advance"} : pc' = [pc EXCEPT ![t] = l]
    BY <1>11 DEF putch, PutchPath, Goto, PCs
  <2>2. Number(pc', {"take", "advance"}) = Number(pc, {"take", "advance"})
    BY <1>11, <2>1, <1>a DEF putch
  <2>3. UNCHANGED <<isr, cs_rsem, cs_gotchars, cs_gotchars_head, cs_gotchars_tail>>
    BY <1>11 DEF putch, con, ser
  <2> QED
    BY <2>2, <2>3, <1>d
<1>12. ASSUME NEW t \in Threads,
             P(t)
      PROVE  RingRight'
  <2>1. PICK l \in PCs \ {"take", "advance"} : pc' = [pc EXCEPT ![t] = l]
    BY <1>12 DEF P, Goto, PCs
  <2>2. Number(pc', {"take", "advance"}) = Number(pc, {"take", "advance"})
    BY <1>12, <2>1, <1>a DEF P
  <2>3. UNCHANGED <<isr, cs_rsem, cs_gotchars, cs_gotchars_head, cs_gotchars_tail>>
    BY <1>12 DEF P, con, ser
  <2> QED
    BY <2>2, <2>3, <1>d
<1>13. ASSUME NEW t \in Threads,
             lser_write(t)
      PROVE  RingRight'
  <2>1. PICK l \in {"msg", "flush", "idle"} : pc' = [pc EXCEPT ![t] = l]
    <3>1. (IF kprintf_spinlock = t THEN "msg"
           ELSE IF t = Boot /\ ~Started THEN "flush" ELSE "idle")
             \in {"msg", "flush", "idle"}
      OBVIOUS
    <3> QED
      BY <1>13, <3>1 DEF lser_write, Return, Goto, BootRight, Started
  <2>2. "msg" \in PCs /\ "flush" \in PCs /\ "idle" \in PCs
    BY DEF PCs
  <2>3. Number(pc', {"take", "advance"}) = Number(pc, {"take", "advance"})
    BY <1>13, <2>1, <2>2, <1>a DEF lser_write
  <2>4. UNCHANGED <<isr, cs_rsem, cs_gotchars, cs_gotchars_head, cs_gotchars_tail>>
    BY <1>13 DEF lser_write, con, ser
  <2> QED
    BY <2>3, <2>4, <1>d
<1>14. ASSUME NEW t \in Threads,
             getch(t)
      PROVE  RingRight'
  <2>1. PICK l \in PCs \ {"take", "advance"} : pc' = [pc EXCEPT ![t] = l]
    BY <1>14 DEF getch, Goto, PCs
  <2>2. Number(pc', {"take", "advance"}) = Number(pc, {"take", "advance"})
    BY <1>14, <2>1, <1>a DEF getch
  <2>3. UNCHANGED <<isr, cs_rsem, cs_gotchars, cs_gotchars_head, cs_gotchars_tail>>
    BY <1>14 DEF getch, con, ser
  <2> QED
    BY <2>2, <2>3, <1>d
<1>15. ASSUME NEW t \in Threads,
             GetchP(t)
      PROVE  RingRight'
  <2>1. Number(pc', {"take", "advance"}) = Number(pc, {"take", "advance"}) + 1
    BY <1>15, <1>a DEF GetchP, Goto, PCs
  <2>2. cs_rsem' = cs_rsem - 1
          /\ UNCHANGED <<isr, cs_gotchars, cs_gotchars_head, cs_gotchars_tail>>
    BY <1>15 DEF GetchP, ser
  <2> QED
    BY <2>1, <2>2, <1>d
<1>16. ASSUME NEW t \in Threads,
             GetchTake(t)
      PROVE  RingRight'
  <2>1. pc' = [pc EXCEPT ![t] = "advance"] /\ "advance" \in PCs /\ pc[t] = "take"
    BY <1>16 DEF GetchTake, Goto, PCs
  <2>2. Number(pc', {"take", "advance"}) = Number(pc, {"take", "advance"})
    BY <1>16, <2>1, <1>a DEF GetchTake
  <2>3. UNCHANGED <<isr, cs_rsem, cs_gotchars, cs_gotchars_head, cs_gotchars_tail>>
    BY <1>16 DEF GetchTake, con, ser
  <2> QED
    BY <2>2, <2>3, <1>d
<1>17. ASSUME NEW t \in Threads,
             GetchAdvance(t)
      PROVE  RingRight'
  <2>1. Number(pc', {"take", "advance"}) = Number(pc, {"take", "advance"}) - 1
    BY <1>17, <1>a DEF GetchAdvance, Goto, PCs
  <2>2. pc[t] = "advance" /\ UNCHANGED <<cs_rsem, cs_gotchars, cs_gotchars_head, isr>>
    BY <1>17 DEF GetchAdvance, ser
  <2>3. cs_gotchars_tail' = NextSlot(cs_gotchars_tail)
    BY <1>17 DEF GetchAdvance
  <2>4. cs_gotchars_tail' = IF cs_gotchars_tail = CONSOLE_INPUT_BUFFER_SIZE - 1
                              THEN 0 ELSE cs_gotchars_tail + 1
    BY <2>3, NextSlotWraps DEF RingTypes
  <2>5. Used > 0
    <3>1. Number(pc, {"take", "advance"}) > 0
      BY <2>2, NumberCounts
    <3> QED
      BY <3>1 DEF Used
  <2>6. Used' = Used - 1
    BY <2>2, <2>4, <2>5, <1>c DEF Used
  <2>7. ASSUME NEW i \in Slots, InRing(i)'
        PROVE  InRing(i)
    BY <2>2, <2>4, <2>5, <2>7, <1>c DEF InRing, Used, Slots
  <2>8. isr.at = "put" => NextSlot(cs_gotchars_head) # cs_gotchars_tail'
    <3>1. NextSlot(cs_gotchars_head) = IF cs_gotchars_head = CONSOLE_INPUT_BUFFER_SIZE - 1
                                         THEN 0 ELSE cs_gotchars_head + 1
      BY NextSlotWraps DEF RingTypes
    <3> QED
      BY <3>1, <2>4, <2>5, <1>c DEF Used
  <2> QED
    BY <2>1, <2>2, <2>6, <2>7, <2>8
<1>18. ASSUME NEW a \in Actors,
             KprintfOff(a)
      PROVE  RingRight'
  <2>1. PICK l \in PCs \ {"take", "advance"} : pc' = [pc EXCEPT ![a] = l]
    BY <1>18 DEF KprintfOff, Goto, PCs
  <2>2. Number(pc', {"take", "advance"}) = Number(pc, {"take", "advance"})
    BY <1>18, <2>1, <1>a DEF KprintfOff
  <2>3. UNCHANGED <<isr, cs_rsem, cs_gotchars, cs_gotchars_head, cs_gotchars_tail>>
    BY <1>18 DEF KprintfOff, con, ser
  <2> QED
    BY <2>2, <2>3, <1>d
<1>19. ASSUME NEW a \in Actors,
             TakeSpinlock(a)
      PROVE  RingRight'
  <2>1. PICK l \in PCs \ {"take", "advance"} : pc' = [pc EXCEPT ![a] = l]
    BY <1>19 DEF TakeSpinlock, Goto, PCs
  <2>2. Number(pc', {"take", "advance"}) = Number(pc, {"take", "advance"})
    BY <1>19, <2>1, <1>a DEF TakeSpinlock
  <2>3. UNCHANGED <<isr, cs_rsem, cs_gotchars, cs_gotchars_head, cs_gotchars_tail>>
    BY <1>19 DEF TakeSpinlock, con, ser
  <2> QED
    BY <2>2, <2>3, <1>d
<1>20. ASSUME NEW a \in Actors,
             putch_polled(a)
      PROVE  RingRight'
  <2>1. PICK l \in PCs \ {"take", "advance"} : pc' = [pc EXCEPT ![a] = l]
    BY <1>20 DEF putch_polled, Goto, PCs
  <2>2. Number(pc', {"take", "advance"}) = Number(pc, {"take", "advance"})
    BY <1>20, <2>1, <1>a DEF putch_polled
  <2>3. UNCHANGED <<isr, cs_rsem, cs_gotchars, cs_gotchars_head, cs_gotchars_tail>>
    BY <1>20 DEF putch_polled, con, ser
  <2> QED
    BY <2>2, <2>3, <1>d
<1>21. ASSUME NEW a \in Actors,
             EndKprintf(a)
      PROVE  RingRight'
  <2>1. PICK l \in PCs \ {"take", "advance"} : pc' = [pc EXCEPT ![a] = l]
    BY <1>21 DEF EndKprintf, Goto, PCs
  <2>2. Number(pc', {"take", "advance"}) = Number(pc, {"take", "advance"})
    BY <1>21, <2>1, <1>a DEF EndKprintf
  <2>3. UNCHANGED <<isr, cs_rsem, cs_gotchars, cs_gotchars_head, cs_gotchars_tail>>
    BY <1>21 DEF EndKprintf, con, ser
  <2> QED
    BY <2>2, <2>3, <1>d
<1>22. ASSUME NEW a \in Actors,
             lser_writepolled(a)
      PROVE  RingRight'
  <2>1. PICK l \in PCs \ {"take", "advance"} : pc' = [pc EXCEPT ![a] = l]
    BY <1>22 DEF lser_writepolled, Goto, PCs
  <2>2. Number(pc', {"take", "advance"}) = Number(pc, {"take", "advance"})
    BY <1>22, <2>1, <1>a DEF lser_writepolled
  <2>3. UNCHANGED <<isr, cs_rsem, cs_gotchars, cs_gotchars_head, cs_gotchars_tail>>
    BY <1>22 DEF lser_writepolled, con, ser
  <2> QED
    BY <2>2, <2>3, <1>d
<1>23. ASSUME NEW a \in Actors,
             Drain(a)
      PROVE  RingRight'
  <2>1. PICK l \in PCs \ {"take", "advance"} : pc' = [pc EXCEPT ![a] = l]
    BY <1>23 DEF Drain, Goto, PCs
  <2>2. Number(pc', {"take", "advance"}) = Number(pc, {"take", "advance"})
    BY <1>23, <2>1, <1>a DEF Drain
  <2>3. UNCHANGED <<isr, cs_rsem, cs_gotchars, cs_gotchars_head, cs_gotchars_tail>>
    BY <1>23 DEF Drain, con, ser
  <2> QED
    BY <2>2, <2>3, <1>d
<1>24. ASSUME NEW a \in Actors,
             Poll(a)
      PROVE  RingRight'
  <2>1. PICK l \in {"msg", "flush", "idle"} : pc' = [pc EXCEPT ![a] = l]
    <3>1. (IF kprintf_spinlock = a THEN "msg"
           ELSE IF a = Boot /\ ~Started THEN "flush" ELSE "idle")
             \in {"msg", "flush", "idle"}
      OBVIOUS
    <3> QED
      BY <1>24, <3>1 DEF Poll, Return, Goto, BootRight, Started
  <2>2. "msg" \in PCs /\ "flush" \in PCs /\ "idle" \in PCs
    BY DEF PCs
  <2>3. Number(pc', {"take", "advance"}) = Number(pc, {"take", "advance"})
    BY <1>24, <2>1, <2>2, <1>a DEF Poll
  <2>4. UNCHANGED <<isr, cs_rsem, cs_gotchars, cs_gotchars_head, cs_gotchars_tail>>
    BY <1>24 DEF Poll, con, ser
  <2> QED
    BY <2>3, <2>4, <1>d
<1> QED
  BY <1>1, <1>2, <1>3, <1>4, <1>5, <1>6, <1>7, <1>8, <1>9, <1>10, <1>11,
    <1>12, <1>13, <1>14, <1>15, <1>16, <1>17, <1>18, <1>19, <1>20, <1>21,
    <1>22, <1>23, <1>24 DEF Next, Boots, Handler, Intr, Read, Polled

LEMMA ConStutter ==
  ConInv /\ UNCHANGED vars => ConInv'
<1> SUFFICES ASSUME ConInv, UNCHANGED vars PROVE ConInv'
  OBVIOUS
<1>1. /\ UNCHANGED <<the_console, delayed, pc, out, irqpending>>
      /\ UNCHANGED <<kprintf_spinlock, bootcpu, dropped, got>>
      /\ UNCHANGED <<cs_wsem, cs_rsem, cs_gotchars, cs_gotchars_head>>
      /\ UNCHANGED <<cs_gotchars_tail, ls_lock, ls_wbusy, isr>>
      /\ UNCHANGED <<wirq, rirq, tx, rx, typed, shown>>
  BY DEF vars, boot, acts, con, ser, dev
<1>2. ActorTypes' /\ LockTypes' /\ RingTypes' /\ DevTypes'
  BY <1>1 DEF ConInv, ActorTypes, LockTypes, RingTypes, DevTypes
<1>3. BootRight' /\ PlacesRight' /\ DeviceRight'
  BY <1>1 DEF ConInv, BootRight, PlacesRight, DeviceRight, Polling
<1>4. OneClear' /\ OutputExact'
  BY <1>1 DEF ConInv, OneClear, OutputExact
<1>5. RingRight'
  BY <1>1 DEF ConInv, RingRight, Used, InRing
<1> QED
  BY <1>2, <1>3, <1>4, <1>5 DEF ConInv

LEMMA ConInvAlways ==
  Spec => []ConInv
<1>1. Init => ConInv
  BY ConInit
<1>2. ConInv /\ [Next]_vars => ConInv'
  <2> SUFFICES ASSUME ConInv, [Next]_vars PROVE ConInv'
    OBVIOUS
  <2>1. CASE Next
    BY <2>1, ActorTypesNext, LockTypesNext, RingTypesNext, DevTypesNext,
      BootNext, PlacesNext, DeviceNext, ClearNext, OutputNext, RingNext
      DEF ConInv
  <2>2. CASE UNCHANGED vars
    BY <2>2, ConStutter
  <2> QED
    BY <2>1, <2>2
<1> QED
  BY <1>1, <1>2, PTL DEF Spec

-----------------------------------------------------------------------------
(***************************************************************************)
(* Input.  The sequence of characters on their way, which only gets longer *)
(* at its end, by Type, and loses one only when con_input drops it: every  *)
(* other step moves its characters from one place to the next.             *)
(***************************************************************************)

\* At most one thread reads the console.
OneReader == \A s, t \in Readers : s = t

AllInput == got \o Unread \o InHandler \o InDevice

Increasing(s) == \A i, j \in 1 .. Len(s) : i < j => s[i] < s[j]

Reading == {"get", "take", "advance"}

InputInv ==
  /\ ConInv
  /\ InputExact /\ dropped \subseteq 1 .. typed
  /\ \A a \in Actors : pc[a] \in Reading => a \in Readers
  /\ the_console = "none" => typed = 0 /\ got = <<>>

\* The members of a sequence of numbers.
LEMMA Members ==
  ASSUME NEW s \in Seq(Nat)
  PROVE  /\ Len(s) \in Nat /\ DOMAIN s = 1 .. Len(s)
         /\ \A i \in 1 .. Len(s) : s[i] \in Nat
         /\ ToSet(s) = {s[i] : i \in 1 .. Len(s)}
BY DEF ToSet

LEMMA EmptyMembers == ToSet(<<>>) = {} /\ Increasing(<<>>)
<1>1. DOMAIN <<>> = {} /\ Len(<<>>) = 0
  OBVIOUS
<1> QED
  BY <1>1 DEF ToSet, Increasing

\* A sequence of one, and of none.
LEMMA ShortSequences ==
  ASSUME NEW x \in Nat
  PROVE  /\ <<x>> \in Seq(Nat) /\ Len(<<x>>) = 1 /\ <<x>>[1] = x
         /\ <<>> \in Seq(Nat) /\ Len(<<>>) = 0
OBVIOUS

\* A character that is greater than all before it may follow them.
LEMMA AddLast ==
  ASSUME NEW s \in Seq(Nat), NEW x \in Nat, Increasing(s),
         \A y \in ToSet(s) : y < x
  PROVE  Increasing(s \o <<x>>) /\ ToSet(s \o <<x>>) = ToSet(s) \union {x}
<1> DEFINE r == s \o <<x>>
           n == Len(s)
<1>1. /\ r \in Seq(Nat) /\ n \in Nat /\ Len(r) = n + 1
      /\ \A i \in 1 .. n + 1 : r[i] = IF i <= n THEN s[i] ELSE x
  BY ConcatProperties, ShortSequences
<1>2. /\ \A i \in 1 .. n : s[i] \in Nat /\ s[i] < x
      /\ ToSet(s) = {s[i] : i \in 1 .. n}
  BY Members
<1>3. ToSet(r) = {r[i] : i \in 1 .. n + 1}
  BY <1>1, Members
<1> HIDE DEF r, n
<1>4. ToSet(r) = ToSet(s) \union {x}
  <2>1. ASSUME NEW y \in ToSet(r) PROVE y \in ToSet(s) \union {x}
    <3>1. PICK i \in 1 .. n + 1 : y = r[i]
      BY <1>3, <2>1
    <3>2. i \in 1 .. n \/ i = n + 1
      BY <1>1
    <3> QED
      BY <1>1, <1>2, <3>1, <3>2
  <2>2. ASSUME NEW y \in ToSet(s) PROVE y \in ToSet(r)
    <3>1. PICK i \in 1 .. n : y = s[i]
      BY <1>2, <2>2
    <3>2. i \in 1 .. n + 1 /\ y = r[i]
      BY <1>1, <3>1
    <3> QED
      BY <1>3, <3>2
  <2>3. x \in ToSet(r)
    <3>1. n + 1 \in 1 .. n + 1 /\ r[n + 1] = x
      BY <1>1
    <3> QED
      BY <1>3, <3>1
  <2> QED
    BY <2>1, <2>2, <2>3
<1>5. Increasing(r)
  <2> SUFFICES ASSUME NEW i \in 1 .. n + 1, NEW j \in 1 .. n + 1, i < j
               PROVE  r[i] < r[j]
    BY <1>1 DEF Increasing
  <2>1. i \in 1 .. n /\ (j \in 1 .. n \/ j = n + 1)
    BY <1>1
  <2>2. r[i] = s[i] /\ r[j] = IF j = n + 1 THEN x ELSE s[j]
    BY <1>1, <2>1
  <2>3. j \in 1 .. n => s[i] < s[j]
    BY <2>1 DEF Increasing, n
  <2> QED
    BY <1>1, <1>2, <2>1, <2>2, <2>3
<1> QED
  BY <1>4, <1>5 DEF r

\* Where the parts of s \o <<x>> \o t are.
LEMMA MiddleAt ==
  ASSUME NEW s \in Seq(Nat), NEW x \in Nat, NEW t \in Seq(Nat)
  PROVE  LET r == s \o <<x>> \o t
             q == s \o t
             n == Len(s)
             m == Len(s) + Len(t)
         IN  /\ n \in Nat /\ m \in Nat /\ n <= m
             /\ r \in Seq(Nat) /\ q \in Seq(Nat) /\ Len(r) = m + 1 /\ Len(q) = m
             /\ \A i \in 1 .. n : r[i] = q[i]
             /\ r[n + 1] = x
             /\ \A i \in n + 1 .. m : r[i + 1] = q[i]
<1> DEFINE p == s \o <<x>>
           r == p \o t
           q == s \o t
           n == Len(s)
           k == Len(t)
<1>1. n \in Nat /\ k \in Nat
  OBVIOUS
<1>2. /\ p \in Seq(Nat) /\ Len(p) = n + 1
      /\ \A i \in 1 .. n + 1 : p[i] = IF i <= n THEN s[i] ELSE x
  BY ConcatProperties, ShortSequences
<1>3. /\ q \in Seq(Nat) /\ Len(q) = n + k
      /\ \A i \in 1 .. n + k : q[i] = IF i <= n THEN s[i] ELSE t[i - n]
  BY ConcatProperties
<1> HIDE DEF p
<1>4. /\ r \in Seq(Nat) /\ Len(r) = (n + 1) + k
      /\ \A i \in 1 .. (n + 1) + k : r[i] = IF i <= n + 1 THEN p[i] ELSE t[i - (n + 1)]
  <2>1. /\ r \in Seq(Nat) /\ Len(r) = Len(p) + Len(t)
        /\ \A i \in 1 .. Len(p) + Len(t) :
             r[i] = IF i <= Len(p) THEN p[i] ELSE t[i - Len(p)]
    BY <1>2, ConcatProperties
  <2> HIDE DEF r
  <2> QED
    BY <1>2, <2>1
<1> HIDE DEF r, q, n, k
<1>5. \A i \in 1 .. n : r[i] = q[i]
  <2> SUFFICES ASSUME NEW i \in 1 .. n
               PROVE  r[i] = q[i]
    OBVIOUS
  <2>1. /\ i \in 1 .. (n + 1) + k /\ i \in 1 .. n + k /\ i \in 1 .. n + 1
        /\ i <= n /\ i <= n + 1
    BY <1>1
  <2> QED
    BY <1>2, <1>3, <1>4, <2>1
<1>6. r[n + 1] = x
  <2>1. /\ n + 1 \in 1 .. (n + 1) + k /\ n + 1 \in 1 .. n + 1
        /\ n + 1 <= n + 1 /\ ~ (n + 1 <= n)
    BY <1>1
  <2> QED
    BY <1>2, <1>4, <2>1
<1>7. \A i \in n + 1 .. n + k : r[i + 1] = q[i]
  <2> SUFFICES ASSUME NEW i \in n + 1 .. n + k
               PROVE  r[i + 1] = q[i]
    OBVIOUS
  <2>0. /\ i + 1 \in 1 .. (n + 1) + k /\ ~ (i + 1 <= n + 1)
        /\ i \in 1 .. n + k /\ ~ (i <= n)
    BY <1>1
  <2>1. r[i + 1] = t[(i + 1) - (n + 1)] /\ q[i] = t[i - n]
    BY <1>3, <1>4, <2>0
  <2>2. (i + 1) - (n + 1) = i - n
    BY <1>1
  <2> QED
    BY <2>1, <2>2
<1>8. Len(r) = n + k + 1
  BY <1>1, <1>4
<1> QED
  BY <1>1, <1>3, <1>4, <1>5, <1>6, <1>7, <1>8 DEF p, r, q, n, k

LEMMA MiddleIsMember ==
  ASSUME NEW s \in Seq(Nat), NEW x \in Nat, NEW t \in Seq(Nat)
  PROVE  x \in ToSet(s \o <<x>> \o t)
<1> DEFINE r == s \o <<x>> \o t
<1>1. /\ Len(s) \in Nat /\ Len(s) + Len(t) \in Nat /\ Len(s) <= Len(s) + Len(t)
      /\ r \in Seq(Nat) /\ Len(r) = Len(s) + Len(t) + 1 /\ r[Len(s) + 1] = x
  BY MiddleAt
<1> HIDE DEF r
<1>2. Len(s) + 1 \in 1 .. Len(r)
  BY <1>1
<1>3. x \in ToSet(r)
  BY <1>1, <1>2, Members
<1> QED
  BY <1>3 DEF r

\* A character that is taken out leaves the others in order.
LEMMA TakeOut ==
  ASSUME NEW s \in Seq(Nat), NEW x \in Nat, NEW t \in Seq(Nat),
         Increasing(s \o <<x>> \o t)
  PROVE  /\ Increasing(s \o t)
         /\ ToSet(s \o t) = ToSet(s \o <<x>> \o t) \ {x}
<1> DEFINE r == s \o <<x>> \o t
           q == s \o t
           n == Len(s)
           m == Len(s) + Len(t)
           At(i) == IF i <= n THEN i ELSE i + 1
<1>1. /\ n \in Nat /\ m \in Nat /\ n <= m
      /\ r \in Seq(Nat) /\ q \in Seq(Nat) /\ Len(r) = m + 1 /\ Len(q) = m
      /\ \A i \in 1 .. n : r[i] = q[i]
      /\ r[n + 1] = x
      /\ \A i \in n + 1 .. m : r[i + 1] = q[i]
  BY MiddleAt
<1>2. Increasing(r)
  OBVIOUS
<1> HIDE DEF r, q, n, m
<1>3. /\ \A i \in 1 .. m + 1 : r[i] \in Nat
      /\ ToSet(r) = {r[i] : i \in 1 .. m + 1}
      /\ ToSet(q) = {q[i] : i \in 1 .. m}
  BY <1>1, Members
<1>4. \A i \in 1 .. m : At(i) \in 1 .. m + 1 /\ At(i) # n + 1 /\ q[i] = r[At(i)]
  BY <1>1
<1>5. \A i \in 1 .. m + 1 : i # n + 1 => r[i] # x
  <2> SUFFICES ASSUME NEW i \in 1 .. m + 1, i # n + 1
               PROVE  r[i] # x
    OBVIOUS
  <2>1. n + 1 \in 1 .. m + 1 /\ (i < n + 1 \/ n + 1 < i)
    BY <1>1
  <2>2. r[i] < r[n + 1] \/ r[n + 1] < r[i]
    BY <1>1, <1>2, <2>1 DEF Increasing
  <2> QED
    BY <1>1, <1>3, <2>1, <2>2
<1>6. Increasing(q)
  <2> SUFFICES ASSUME NEW i \in 1 .. m, NEW j \in 1 .. m, i < j
               PROVE  q[i] < q[j]
    BY <1>1 DEF Increasing
  <2>1. At(i) \in 1 .. m + 1 /\ At(j) \in 1 .. m + 1 /\ At(i) < At(j)
    BY <1>1
  <2>2. r[At(i)] < r[At(j)]
    BY <1>1, <1>2, <2>1 DEF Increasing
  <2> QED
    BY <1>4, <2>2
<1>7. ASSUME NEW y \in ToSet(q) PROVE y \in ToSet(r) \ {x}
  <2>1. PICK i \in 1 .. m : y = q[i]
    BY <1>3, <1>7
  <2>2. At(i) \in 1 .. m + 1 /\ At(i) # n + 1 /\ y = r[At(i)]
    BY <1>4, <2>1
  <2> HIDE DEF At
  <2> QED
    BY <1>3, <1>5, <2>2
<1>8. ASSUME NEW y \in ToSet(r) \ {x} PROVE y \in ToSet(q)
  <2>1. PICK i \in 1 .. m + 1 : y = r[i]
    BY <1>3, <1>8
  <2>2. i # n + 1
    BY <1>1, <1>8, <2>1
  <2>3. CASE i \in 1 .. n
    BY <1>1, <1>3, <2>1, <2>3
  <2>4. CASE i \in n + 2 .. m + 1
    <3>1. i - 1 \in n + 1 .. m /\ (i - 1) + 1 = i /\ i - 1 \in 1 .. m
      BY <1>1, <2>4
    <3>2. y = q[i - 1]
      BY <1>1, <2>1, <3>1
    <3> QED
      BY <1>3, <3>1, <3>2
  <2> QED
    BY <1>1, <2>2, <2>3, <2>4
<1> QED
  BY <1>6, <1>7, <1>8 DEF r, q

\* The first of a sequence may be taken away before or after one is put behind.
LEMMA TailOfConcat ==
  ASSUME NEW s \in Seq(Nat), s # <<>>, NEW x \in Nat
  PROVE  Tail(s \o <<x>>) = Tail(s) \o <<x>>
<1> DEFINE r == s \o <<x>>
           n == Len(s)
<1>1. /\ r \in Seq(Nat) /\ n \in Nat /\ n > 0 /\ Len(r) = n + 1
      /\ \A i \in 1 .. n + 1 : r[i] = IF i <= n THEN s[i] ELSE x
  BY ConcatProperties, ShortSequences, EmptySeq
<1>2. /\ Tail(s) \in Seq(Nat) /\ Len(Tail(s)) = n - 1
      /\ \A i \in 1 .. n - 1 : Tail(s)[i] = s[i + 1]
  BY HeadTailProperties
<1> HIDE DEF r
<1>3. /\ Tail(r) \in Seq(Nat) /\ Len(Tail(r)) = n
      /\ \A i \in 1 .. n : Tail(r)[i] = r[i + 1]
  <2>1. r # <<>>
    BY <1>1, EmptySeq
  <2> QED
    BY <1>1, <2>1, HeadTailProperties
<1> DEFINE q == Tail(s) \o <<x>>
<1>4. /\ q \in Seq(Nat) /\ Len(q) = n
      /\ \A i \in 1 .. n : q[i] = IF i <= n - 1 THEN Tail(s)[i] ELSE x
  <2>1. /\ q \in Seq(Nat) /\ Len(q) = (n - 1) + 1
        /\ \A i \in 1 .. (n - 1) + 1 :
             q[i] = IF i <= n - 1 THEN Tail(s)[i] ELSE <<x>>[i - (n - 1)]
    BY <1>2, ShortSequences, ConcatProperties
  <2>2. \A i \in 1 .. n : ~ (i <= n - 1) => i - (n - 1) = 1
    BY <1>1
  <2> HIDE DEF q
  <2> QED
    BY <1>1, <2>1, <2>2
<1> HIDE DEF q, n
<1>5. ASSUME NEW i \in 1 .. n
      PROVE  Tail(r)[i] = q[i]
  <2>1. i + 1 \in 1 .. n + 1 /\ (i <= n - 1 <=> i + 1 <= n)
        /\ (i <= n - 1 => i \in 1 .. n - 1)
    BY <1>1
  <2> QED
    BY <1>1, <1>2, <1>3, <1>4, <2>1
<1>6. Tail(r) = q
  BY <1>3, <1>4, <1>5, SeqEqual
<1> QED
  BY <1>6 DEF r, q

\* The first of a sequence moved to the end of another.
LEMMA HeadMoves ==
  ASSUME NEW s \in Seq(Nat), NEW t \in Seq(Nat), t # <<>>
  PROVE  Append(s, t[1]) \o Tail(t) = s \o t
<1>1. /\ Tail(t) \in Seq(Nat) /\ Len(Tail(t)) = Len(t) - 1
      /\ \A i \in 1 .. Len(t) - 1 : Tail(t)[i] = t[i + 1]
  BY HeadTailProperties
<1>2. Len(t) \in Nat /\ Len(t) > 0 /\ t[1] \in Nat
  BY EmptySeq, Members
<1>3. Append(s, t[1]) = s \o <<t[1]>>
  BY <1>2, AppendIsConcat
<1>4. <<t[1]>> \in Seq(Nat) /\ Len(<<t[1]>>) = 1 /\ <<t[1]>>[1] = t[1]
  BY <1>2
<1>5. <<t[1]>> \o Tail(t) = t
  <2> DEFINE q == <<t[1]>> \o Tail(t)
  <2>1. /\ q \in Seq(Nat) /\ Len(q) = Len(<<t[1]>>) + Len(Tail(t))
        /\ \A i \in 1 .. Len(<<t[1]>>) + Len(Tail(t)) :
             q[i] = IF i <= Len(<<t[1]>>) THEN <<t[1]>>[i] ELSE Tail(t)[i - Len(<<t[1]>>)]
    BY <1>1, <1>4, ConcatProperties
  <2> HIDE DEF q
  <2>2. Len(q) = Len(t)
    BY <1>1, <1>2, <1>4, <2>1
  <2>3. ASSUME NEW i \in 1 .. Len(t)
        PROVE  q[i] = t[i]
    <3>1. CASE i = 1
      BY <1>1, <1>2, <1>4, <2>1, <3>1
    <3>2. CASE i # 1
      <4>1. i - 1 \in 1 .. Len(t) - 1 /\ (i - 1) + 1 = i /\ ~ (i <= 1)
        BY <1>2, <3>2
      <4>2. q[i] = Tail(t)[i - 1]
        BY <1>1, <1>2, <1>4, <2>1, <4>1
      <4> QED
        BY <1>1, <4>1, <4>2
    <3> QED
      BY <3>1, <3>2
  <2> QED
    BY <2>1, <2>2, <2>3, SeqEqual DEF q
<1>6. (s \o <<t[1]>>) \o Tail(t) = s \o (<<t[1]>> \o Tail(t))
  BY <1>1, <1>4, ConcatAssociative
<1> QED
  BY <1>3, <1>5, <1>6

\* The characters on their way are in sequences of numbers; getch_intr copies
\* one only when there is one.
PartsRight ==
  /\ got \in Seq(Nat) /\ Ring \in Seq(Nat) /\ Unread \in Seq(Nat)
  /\ InHandler \in Seq(Nat) /\ InDevice \in Seq(Nat)
  /\ Len(Ring) = Used /\ Used \in Nat /\ Used < CONSOLE_INPUT_BUFFER_SIZE
  /\ \A i \in 1 .. Used :
       Ring[i] = cs_gotchars[(cs_gotchars_tail + i - 1) % CONSOLE_INPUT_BUFFER_SIZE]
  /\ \A t \in Threads : pc[t] \in {"take", "advance"} => Used > 0

\* Where the i-th character of the ring is.
LEMMA SlotAt ==
  ASSUME NEW t \in Slots, NEW i \in 1 .. CONSOLE_INPUT_BUFFER_SIZE
  PROVE  LET k == (t + i - 1) % CONSOLE_INPUT_BUFFER_SIZE
         IN  /\ k \in Slots
             /\ k = IF t + i - 1 < CONSOLE_INPUT_BUFFER_SIZE THEN t + i - 1
                    ELSE t + i - 1 - CONSOLE_INPUT_BUFFER_SIZE
<1> DEFINE N == CONSOLE_INPUT_BUFFER_SIZE
           x == t + i - 1
<1>1. N \in Nat \ {0} /\ t \in 0 .. N - 1 /\ i \in 1 .. N
  BY ConsoleAssumption DEF Slots
<1>2. x \in Nat /\ x < N + N
  BY <1>1
<1> HIDE DEF N, x
<1>3. CASE x < N
  <2>1. x % N = x
    BY <1>1, <1>2, <1>3
  <2> QED
    BY <1>1, <1>2, <1>3, <2>1 DEF N, x, Slots
<1>4. CASE ~ (x < N)
  <2>1. x - N \in 0 .. N - 1
    BY <1>1, <1>2, <1>4
  <2>2. x % N = x - N
    BY <1>1, <1>2, <2>1
  <2> QED
    BY <1>1, <1>2, <1>4, <2>1, <2>2 DEF N, x, Slots
<1> QED
  BY <1>3, <1>4

LEMMA PartsAreRight == ConInv => PartsRight
<1> SUFFICES ASSUME ConInv PROVE PartsRight
  OBVIOUS
<1> DEFINE N == CONSOLE_INPUT_BUFFER_SIZE
<1>1. /\ N \in Nat /\ N > 1 /\ MaxTyped \in Nat
      /\ cs_gotchars_head \in 0 .. N - 1 /\ cs_gotchars_tail \in 0 .. N - 1
      /\ cs_gotchars \in [Slots -> 0 .. MaxTyped]
      /\ isr.ch \in Nat /\ rx \in Nat
  BY ConsoleAssumption DEF ConInv, RingTypes, DevTypes, Slots
<1>2. Used \in Nat /\ Used < N
  BY <1>1 DEF Used
<1>3. got \in Seq(Nat)
  <2>1. got \in Seq(1 .. MaxTyped) /\ 1 .. MaxTyped \subseteq Nat
    BY DEF ConInv, RingTypes
  <2> QED
    BY <2>1, SeqMonotonic
<1>4. \A i \in 1 .. Used :
        cs_gotchars[(cs_gotchars_tail + i - 1) % N] \in Nat
  <2> SUFFICES ASSUME NEW i \in 1 .. Used
               PROVE  cs_gotchars[(cs_gotchars_tail + i - 1) % N] \in Nat
    OBVIOUS
  <2>1. i \in 1 .. N /\ cs_gotchars_tail \in Slots
    BY <1>1, <1>2 DEF Slots
  <2>2. (cs_gotchars_tail + i - 1) % N \in Slots
    BY <2>1, SlotAt
  <2> QED
    BY <1>1, <2>2
<1>5. /\ Ring \in Seq(Nat) /\ Len(Ring) = Used
      /\ \A i \in 1 .. Used : Ring[i] = cs_gotchars[(cs_gotchars_tail + i - 1) % N]
  BY <1>2, <1>4 DEF Ring
<1>6. ASSUME NEW t \in Threads, pc[t] \in {"take", "advance"}
      PROVE  Used > 0
  <2>1. /\ Number(pc, {"take", "advance"}) \in Nat
        /\ Number(pc, {"take", "advance"}) > 0
    BY <1>6, NumberCounts
  <2>2. cs_rsem \in Nat
    BY DEF ConInv, LockTypes
  <2> QED
    BY <1>2, <2>1, <2>2 DEF ConInv, RingRight, One
<1>7. Unread \in Seq(Nat)
  <2>1. CASE Copied
    <3>1. Used > 0
      BY <1>6, <2>1, ConsoleAssumption DEF Copied
    <3>2. Ring # <<>>
      BY <1>5, <3>1, EmptySeq
    <3>3. Tail(Ring) \in Seq(Nat)
      BY <1>5, <3>2, HeadTailProperties
    <3> QED
      BY <2>1, <3>3 DEF Unread
  <2>2. CASE ~ Copied
    BY <1>5, <2>2 DEF Unread
  <2> QED
    BY <2>1, <2>2
<1>8. InHandler \in Seq(Nat) /\ InDevice \in Seq(Nat)
  BY <1>1 DEF InHandler, InDevice
<1> QED
  BY <1>2, <1>3, <1>5, <1>6, <1>7, <1>8 DEF PartsRight

LEMMA PartsAreRightNext == ConInv' => PartsRight'
BY PartsAreRight, PTL

\* con_input stores the character behind those in the ring.
LEMMA PutAppends ==
  ASSUME ConInv, ConInv', ConInputPut
  PROVE  Ring' = Ring \o <<isr.ch>>
<1> DEFINE N == CONSOLE_INPUT_BUFFER_SIZE
           h == cs_gotchars_head
           t == cs_gotchars_tail
           At(i) == (t + i - 1) % N
<1>1. /\ N \in Nat /\ N > 1 /\ h \in Slots /\ t \in Slots
      /\ h \in 0 .. N - 1 /\ t \in 0 .. N - 1 /\ isr.ch \in Nat
      /\ cs_gotchars \in [Slots -> 0 .. MaxTyped]
  BY ConsoleAssumption DEF ConInv, RingTypes, Slots
<1>2. /\ cs_gotchars' = [cs_gotchars EXCEPT ![h] = isr.ch]
      /\ cs_gotchars_head' = NextSlot(h) /\ cs_gotchars_tail' = t
      /\ NextSlot(h) # t
  BY DEF ConInputPut, ConInv, RingRight
<1>3. NextSlot(h) = IF h = N - 1 THEN 0 ELSE h + 1
  BY <1>1, NextSlotWraps
<1>4. /\ Used = IF t <= h THEN h - t ELSE h + N - t
      /\ Used' = IF t <= NextSlot(h) THEN NextSlot(h) - t ELSE NextSlot(h) + N - t
  BY <1>2 DEF Used
<1>5. Used' = Used + 1 /\ Used \in Nat /\ Used + 1 < N
  BY <1>1, <1>2, <1>3, <1>4
<1>6. /\ Ring \in Seq(Nat) /\ Len(Ring) = Used
      /\ \A i \in 1 .. Used : Ring[i] = cs_gotchars[At(i)]
  BY PartsAreRight DEF PartsRight
<1>7. /\ Ring' \in Seq(Nat) /\ Len(Ring') = Used + 1
      /\ \A i \in 1 .. Used + 1 : Ring'[i] = cs_gotchars'[At(i)]
  BY <1>2, <1>5, PartsAreRightNext DEF PartsRight
<1>8. \A i \in 1 .. Used + 1 : /\ At(i) \in Slots
                               /\ At(i) = h <=> i = Used + 1
  <2> SUFFICES ASSUME NEW i \in 1 .. Used + 1
               PROVE  At(i) \in Slots /\ (At(i) = h <=> i = Used + 1)
    OBVIOUS
  <2>1. i \in 1 .. N /\ i \in Nat
    BY <1>1, <1>5
  <2>2. /\ At(i) \in Slots
        /\ At(i) = IF t + i - 1 < N THEN t + i - 1 ELSE t + i - 1 - N
    BY <1>1, <2>1, SlotAt
  <2> HIDE DEF At
  <2> QED
    BY <1>1, <1>4, <1>5, <2>1, <2>2
<1>9. /\ Ring \o <<isr.ch>> \in Seq(Nat) /\ Len(Ring \o <<isr.ch>>) = Used + 1
      /\ \A i \in 1 .. Used + 1 :
           (Ring \o <<isr.ch>>)[i] = IF i <= Used THEN Ring[i] ELSE isr.ch
  <2>1. <<isr.ch>> \in Seq(Nat) /\ Len(<<isr.ch>>) = 1 /\ <<isr.ch>>[1] = isr.ch
    BY <1>1
  <2>2. /\ Ring \o <<isr.ch>> \in Seq(Nat)
        /\ Len(Ring \o <<isr.ch>>) = Len(Ring) + Len(<<isr.ch>>)
        /\ \A i \in 1 .. Len(Ring) + Len(<<isr.ch>>) :
             (Ring \o <<isr.ch>>)[i]
               = IF i <= Len(Ring) THEN Ring[i] ELSE <<isr.ch>>[i - Len(Ring)]
    BY <1>6, <2>1, ConcatProperties
  <2>3. \A i \in 1 .. Used + 1 : ~ (i <= Used) => i - Used = 1
    BY <1>5
  <2> QED
    BY <1>5, <1>6, <2>1, <2>2, <2>3
<1> HIDE DEF At, N, h, t
<1>10. ASSUME NEW i \in 1 .. Used + 1
       PROVE  Ring'[i] = (Ring \o <<isr.ch>>)[i]
  <2>1. Ring'[i] = IF At(i) = h THEN isr.ch ELSE cs_gotchars[At(i)]
    BY <1>1, <1>2, <1>7, <1>8, <1>10
  <2>2. CASE i = Used + 1
    BY <1>5, <1>8, <1>9, <2>1, <2>2
  <2>3. CASE i # Used + 1
    <3>1. i \in 1 .. Used /\ i <= Used
      BY <1>5, <2>3
    <3> QED
      BY <1>6, <1>8, <1>9, <2>1, <2>3, <3>1
  <2> QED
    BY <2>2, <2>3
<1> QED
  BY <1>7, <1>9, <1>10, SeqEqual

\* getch_intr takes the first away.
LEMMA AdvanceDrops ==
  ASSUME ConInv, ConInv', NEW r \in Threads, GetchAdvance(r)
  PROVE  Ring # <<>> /\ Ring' = Tail(Ring)
<1> DEFINE N == CONSOLE_INPUT_BUFFER_SIZE
           h == cs_gotchars_head
           t == cs_gotchars_tail
           At(i) == (t + i - 1) % N
           AtNext(i) == (NextSlot(t) + i - 1) % N
<1>1. /\ N \in Nat /\ N > 1 /\ h \in Slots /\ t \in Slots /\ NextSlot(t) \in Slots
      /\ h \in 0 .. N - 1 /\ t \in 0 .. N - 1
      /\ NextSlot(t) = IF t = N - 1 THEN 0 ELSE t + 1
  BY ConsoleAssumption, NextSlotWraps DEF ConInv, RingTypes, Slots
<1>2. /\ cs_gotchars' = cs_gotchars /\ cs_gotchars_head' = h
      /\ cs_gotchars_tail' = NextSlot(t) /\ pc[r] = "advance"
  BY DEF GetchAdvance
<1>3. /\ Ring \in Seq(Nat) /\ Len(Ring) = Used /\ Used \in Nat /\ Used < N
      /\ Used > 0
      /\ \A i \in 1 .. Used : Ring[i] = cs_gotchars[At(i)]
  BY <1>2, PartsAreRight DEF PartsRight
<1>4. /\ Used = IF t <= h THEN h - t ELSE h + N - t
      /\ Used' = IF NextSlot(t) <= h THEN h - NextSlot(t) ELSE h + N - NextSlot(t)
  BY <1>2 DEF Used
<1>5. Used' = Used - 1
  BY <1>1, <1>3, <1>4
<1>6. /\ Ring' \in Seq(Nat) /\ Len(Ring') = Used - 1
      /\ \A i \in 1 .. Used - 1 : Ring'[i] = cs_gotchars[AtNext(i)]
  BY <1>2, <1>5, PartsAreRightNext DEF PartsRight
<1>7. Ring # <<>>
  BY <1>3, EmptySeq
<1>8. /\ Tail(Ring) \in Seq(Nat) /\ Len(Tail(Ring)) = Used - 1
      /\ \A i \in 1 .. Used - 1 : Tail(Ring)[i] = Ring[i + 1]
  BY <1>3, <1>7, HeadTailProperties
<1>9. ASSUME NEW i \in 1 .. Used - 1
      PROVE  Ring'[i] = Tail(Ring)[i]
  <2>1. i \in 1 .. N /\ i + 1 \in 1 .. N /\ i \in Nat /\ i + 1 \in 1 .. Used
    BY <1>1, <1>3
  <2>2. /\ At(i + 1) = IF t + (i + 1) - 1 < N THEN t + (i + 1) - 1
                       ELSE t + (i + 1) - 1 - N
        /\ AtNext(i) = IF NextSlot(t) + i - 1 < N THEN NextSlot(t) + i - 1
                       ELSE NextSlot(t) + i - 1 - N
    BY <1>1, <2>1, SlotAt
  <2>3. At(i + 1) = AtNext(i)
    <3> HIDE DEF At, AtNext
    <3> QED
      BY <1>1, <1>3, <2>1, <2>2
  <2> HIDE DEF At, AtNext
  <2> QED
    BY <1>3, <1>6, <1>8, <2>1, <2>3
<1> QED
  BY <1>6, <1>7, <1>8, <1>9, SeqEqual

\* A step that types and drops nothing, keeps the sequence and brings no other
\* thread into getch_intr keeps the invariant.
LEMMA InputMoved ==
  ASSUME InputInv, ConInv', AllInput' = AllInput, UNCHANGED <<typed, dropped>>,
         \A a \in Actors : pc'[a] \in Reading => a \in Readers,
         the_console' = "none" => the_console = "none" /\ got' = got
  PROVE  InputInv'
BY DEF InputInv, InputExact, AllInput

\* What a step of actor a outside getch_intr leaves as it is.
NoInput(a, l) ==
  /\ l \in PCs \ {"take", "advance"}
  /\ pc' = [pc EXCEPT ![a] = l] /\ pc[a] \notin {"take", "advance"}
  /\ l = "get" => a \in Readers
  /\ the_console' = "none" => the_console = "none"
  /\ UNCHANGED <<got, cs_gotchars, cs_gotchars_head, cs_gotchars_tail>>
  /\ UNCHANGED <<isr, rirq, rx, typed, dropped>>

LEMMA NoInputKeeps ==
  ASSUME InputInv, ConInv', NEW a \in Actors, NEW l, NoInput(a, l)
  PROVE  InputInv'
<1>1. pc \in [Actors -> PCs] /\ Readers \subseteq Actors
  BY ConsoleAssumption DEF InputInv, ConInv, ActorTypes, Actors
<1>2. \A b \in Actors : pc'[b] = IF b = a THEN l ELSE pc[b]
  BY <1>1 DEF NoInput
<1>3. Copied' = Copied
  BY <1>1, <1>2 DEF NoInput, Copied
<1>4. AllInput' = AllInput
  BY <1>3 DEF NoInput, AllInput, Unread, Ring, Used, InHandler, InDevice
<1>5. \A b \in Actors : pc'[b] \in Reading => b \in Readers
  BY <1>2 DEF NoInput, InputInv, Reading
<1> QED
  BY <1>4, <1>5, InputMoved DEF NoInput

\* The steps that print.
LEMMA PrintingIsNoInput ==
  ASSUME ConInv, NEW a \in Actors,
         \/ a \in Threads /\ (putch(a) \/ Intr(a) \/ getch(a))
         \/ KprintfOff(a) \/ TakeSpinlock(a) \/ putch_polled(a)
         \/ EndKprintf(a) \/ Polled(a)
         \/ a = Boot /\ flush_delay_buf
  PROVE  \E l \in PCs : NoInput(a, l)
<1>1. \A l : l \in {"idle", "flush", "P", "write", "spin", "msg", "lock", "drain",
                    "poll", "get"}
        => l \in PCs \ {"take", "advance"}
  BY DEF PCs
<1>2. CASE putch(a)
  <2>1. PICK l \in {"P", "lock"} : pc' = [pc EXCEPT ![a] = l]
    BY <1>2 DEF putch, PutchPath, Goto
  <2> QED
    BY <1>1, <1>2, <2>1 DEF putch, NoInput, boot, con, ser, dev
<1>3. CASE P(a)
  BY <1>1, <1>3 DEF P, Goto, NoInput, boot, ser, dev
<1>4. Return(a) => \E l \in {"msg", "flush", "idle"} : pc' = [pc EXCEPT ![a] = l]
  <2>1. (CASE kprintf_spinlock = a -> "msg"
           [] a = Boot /\ ~Started  -> "flush"
           [] OTHER                 -> "idle") \in {"msg", "flush", "idle"}
    <3>1. CASE kprintf_spinlock = a
      <4>1. a # Boot \/ Started
        BY <3>1, ConsoleAssumption DEF ConInv, BootRight, Started, ActorTypes, Actors
      <4> QED
        BY <3>1, <4>1
    <3>2. CASE kprintf_spinlock # a
      BY <3>2
    <3> QED
      BY <3>1, <3>2
  <2> QED
    BY <2>1 DEF Return, Goto
<1>5. CASE lser_write(a)
  <2>1. PICK l \in {"msg", "flush", "idle"} : pc' = [pc EXCEPT ![a] = l]
    BY <1>4, <1>5 DEF lser_write
  <2> QED
    BY <1>1, <1>5, <2>1 DEF lser_write, NoInput, boot, con
<1>6. CASE getch(a)
  BY <1>1, <1>6 DEF getch, Goto, NoInput, boot, con, ser, dev
<1>7. CASE KprintfOff(a)
  BY <1>1, <1>7 DEF KprintfOff, Goto, NoInput, boot, con, ser, dev
<1>8. CASE TakeSpinlock(a)
  BY <1>1, <1>8 DEF TakeSpinlock, Goto, NoInput, boot, con, ser, dev
<1>9. CASE putch_polled(a)
  BY <1>1, <1>9 DEF putch_polled, Goto, NoInput, boot, con, ser, dev
<1>10. CASE EndKprintf(a)
  BY <1>1, <1>10 DEF EndKprintf, Goto, NoInput, boot, con, ser, dev
<1>11. CASE lser_writepolled(a)
  <2>1. PICK l \in {"drain", "poll"} : pc' = [pc EXCEPT ![a] = l]
    BY <1>11 DEF lser_writepolled, Goto
  <2> QED
    BY <1>1, <1>11, <2>1 DEF lser_writepolled, NoInput, boot, con
<1>12. CASE Drain(a)
  BY <1>1, <1>12 DEF Drain, Goto, NoInput, boot, con, ser
<1>13. CASE Poll(a)
  <2>1. PICK l \in {"msg", "flush", "idle"} : pc' = [pc EXCEPT ![a] = l]
    BY <1>4, <1>13 DEF Poll
  <2> QED
    BY <1>1, <1>13, <2>1 DEF Poll, NoInput, boot, con
<1>14. CASE a = Boot /\ flush_delay_buf
  <2>1. PICK l \in {"P", "lock", "idle"} : pc' = [pc EXCEPT ![a] = l]
    BY <1>14 DEF flush_delay_buf, PutchPath, Goto
  <2>2. the_console # "none"
    BY <1>14 DEF flush_delay_buf, ConInv, BootRight
  <2> QED
    BY <1>1, <1>14, <2>1, <2>2 DEF flush_delay_buf, NoInput, con, ser, dev
<1> QED
  BY <1>2, <1>3, <1>5, <1>6, <1>7, <1>8, <1>9, <1>10, <1>11, <1>12, <1>13, <1>14
     DEF Intr, Polled

\* The steps of the device and of the handler but the storing of a character.
LEMMA HandlerInput ==
  ASSUME InputInv, ConInv',
         putch_delayed \/ Transmit \/ lser_irq \/ con_start \/ ConInputV
  PROVE  InputInv'
<1>1. UNCHANGED <<pc, the_console, got, cs_gotchars, cs_gotchars_head,
                  cs_gotchars_tail, rx, typed, dropped>>
  BY DEF putch_delayed, Transmit, lser_irq, con_start, ConInputV, boot, acts, con, dev
<1>2. Unread' = Unread
  BY <1>1 DEF Unread, Copied, Ring, Used
<1>3. /\ got \in Seq(Nat) /\ Unread \in Seq(Nat) /\ InHandler \in Seq(Nat)
      /\ InDevice \in Seq(Nat)
  BY PartsAreRight DEF InputInv, PartsRight
<1>4. CASE UNCHANGED <<InHandler, InDevice>>
  BY <1>1, <1>2, <1>4, InputMoved DEF AllInput, InputInv
<1>5. CASE putch_delayed \/ Transmit
  BY <1>1, <1>4, <1>5 DEF putch_delayed, Transmit, ser, dev, InHandler, InDevice
<1>6. CASE lser_irq
  <2>1. isr = NoIsr /\ isr'.at \in {"start", "input"} /\ rx' = rx
    BY <1>6 DEF lser_irq, lamebus_interrupt
  <2>2. /\ isr'.got <=> "ACTIVE" \in rirq
        /\ isr'.got => isr'.ch = rx
        /\ "ACTIVE" \notin rirq'
    BY <1>6 DEF lser_irq
  <2>3. InHandler = <<>> /\ InHandler' = InDevice /\ InDevice' = <<>>
    BY <2>1, <2>2 DEF InHandler, InDevice, NoIsr
  <2>4. got \o Unread \in Seq(Nat)
    BY <1>3, ConcatProperties
  <2>5. AllInput' = AllInput
    <3> DEFINE s == got \o Unread
    <3>1. AllInput = s \o <<>> \o InDevice /\ AllInput' = s \o InDevice \o <<>>
      BY <1>1, <1>2, <2>3 DEF AllInput
    <3>2. s \o <<>> = s /\ s \o InDevice \in Seq(Nat)
      BY <1>3, <2>4, ConcatEmptySeq, ConcatProperties
    <3> HIDE DEF s
    <3>3. (s \o InDevice) \o <<>> = s \o InDevice
      BY <3>2, ConcatEmptySeq
    <3> QED
      BY <3>1, <3>2, <3>3
  <2> QED
    BY <1>1, <2>5, InputMoved DEF InputInv
<1>7. CASE con_start
  <2>1. InHandler' = InHandler
    BY <1>7 DEF con_start, InHandler, NoIsr, InputInv, ConInv, RingTypes
  <2>2. InDevice' = InDevice
    BY <1>7 DEF con_start, InDevice, dev
  <2> QED
    BY <1>4, <2>1, <2>2
<1>8. CASE ConInputV
  BY <1>4, <1>8 DEF ConInputV, InHandler, InDevice, NoIsr, dev
<1> QED
  BY <1>5, <1>6, <1>7, <1>8

\* The device has taken a character that was typed.
LEMMA TypeInput ==
  ASSUME InputInv, ConInv', Type
  PROVE  InputInv'
<1>1. /\ UNCHANGED <<pc, the_console, got, cs_gotchars, cs_gotchars_head>>
      /\ UNCHANGED <<cs_gotchars_tail, isr, dropped>>
      /\ the_console # "none"
      /\ typed' = typed + 1 /\ rx' = typed + 1
      /\ "ACTIVE" \notin rirq /\ "ACTIVE" \in rirq'
  BY DEF Type, boot, acts, con, ser
<1>2. /\ typed \in Nat /\ typed' \in 0 .. MaxTyped
      /\ dropped' \subseteq 1 .. MaxTyped /\ MaxTyped \in Nat
  BY ConsoleAssumption DEF InputInv, ConInv, DevTypes, RingTypes
<1>3. /\ got \in Seq(Nat) /\ Unread \in Seq(Nat) /\ InHandler \in Seq(Nat)
  BY PartsAreRight DEF InputInv, PartsRight
<1> DEFINE s == got \o Unread \o InHandler
<1>4. s \in Seq(Nat)
  <2>1. got \o Unread \in Seq(Nat)
    BY <1>3, ConcatProperties
  <2> QED
    BY <1>3, <2>1, ConcatProperties
<1>5. /\ AllInput = s \o <<>> /\ AllInput' = s \o <<typed + 1>>
  BY <1>1 DEF AllInput, Unread, Copied, Ring, Used, InHandler, InDevice
<1> HIDE DEF s
<1>6. AllInput = s
  BY <1>4, <1>5, ConcatEmptySeq
<1>7. ToSet(s) = (1 .. typed) \ dropped /\ Increasing(s)
  BY <1>6 DEF InputInv, InputExact, AllInput, Increasing
<1>8. /\ Increasing(AllInput')
      /\ ToSet(AllInput') = ((1 .. typed) \ dropped) \union {typed + 1}
  <2>1. \A y \in ToSet(s) : y < typed + 1
    BY <1>2, <1>7
  <2> QED
    BY <1>2, <1>4, <1>5, <1>7, <2>1, AddLast
<1>9. dropped \subseteq 1 .. typed /\ typed + 1 \notin dropped
  BY <1>2 DEF InputInv
<1>10. ToSet(AllInput') = (1 .. typed') \ dropped'
  <2>1. 1 .. typed' = (1 .. typed) \union {typed + 1}
    BY <1>1, <1>2
  <2> QED
    BY <1>1, <1>8, <1>9, <2>1
<1>11. dropped' \subseteq 1 .. typed'
  BY <1>1, <1>2, <1>9
<1> QED
  BY <1>1, <1>8, <1>10, <1>11 DEF InputInv, InputExact, AllInput, Increasing

\* con_input drops the character in hand, or goes on with it.
LEMMA DropInput ==
  ASSUME InputInv, ConInv', con_input
  PROVE  InputInv'
<1>1. /\ UNCHANGED <<pc, the_console, got, cs_gotchars, cs_gotchars_head>>
      /\ UNCHANGED <<cs_gotchars_tail, rirq, rx, typed>>
      /\ isr.at = "input"
  BY DEF con_input, boot, acts, con, dev
<1>2. Unread' = Unread /\ InDevice' = InDevice
  BY <1>1 DEF Unread, Copied, Ring, Used, InDevice
<1>3. isr.got /\ InHandler = <<isr.ch>> /\ isr.ch \in Nat
  BY <1>1 DEF InHandler, InputInv, ConInv, DeviceRight, RingTypes
<1>4. CASE NextSlot(cs_gotchars_head) = cs_gotchars_tail
  <2>1. dropped' = dropped \union {isr.ch} /\ InHandler' = <<>>
    BY <1>4 DEF con_input, InHandler, NoIsr
  <2>2. /\ got \in Seq(Nat) /\ Unread \in Seq(Nat) /\ InDevice \in Seq(Nat)
    BY PartsAreRight DEF InputInv, PartsRight
  <2> DEFINE s == got \o Unread
  <2>3. s \in Seq(Nat) /\ s \o <<>> = s
    BY <2>2, ConcatProperties, ConcatEmptySeq
  <2>4. AllInput = s \o <<isr.ch>> \o InDevice /\ AllInput' = s \o <<>> \o InDevice
    BY <1>1, <1>2, <1>3, <2>1 DEF AllInput
  <2> HIDE DEF s
  <2>5. AllInput' = s \o InDevice
    BY <2>3, <2>4
  <2>6. ToSet(AllInput) = (1 .. typed) \ dropped /\ Increasing(AllInput)
    BY DEF InputInv, InputExact, AllInput, Increasing
  <2>7. /\ Increasing(s \o InDevice)
        /\ ToSet(s \o InDevice) = ToSet(s \o <<isr.ch>> \o InDevice) \ {isr.ch}
    BY <1>3, <2>2, <2>3, <2>4, <2>6, TakeOut
  <2>8. ToSet(AllInput') = (1 .. typed') \ dropped'
    BY <1>1, <2>1, <2>4, <2>5, <2>6, <2>7
  <2>9. isr.ch \in ToSet(AllInput)
    BY <1>3, <2>2, <2>3, <2>4, MiddleIsMember
  <2>10. dropped' \subseteq 1 .. typed'
    BY <1>1, <2>1, <2>6, <2>9 DEF InputInv
  <2> QED
    BY <1>1, <2>5, <2>7, <2>8, <2>10
       DEF InputInv, InputExact, AllInput, Increasing
<1>5. CASE NextSlot(cs_gotchars_head) # cs_gotchars_tail
  <2>1. isr' = [isr EXCEPT !.at = "put"] /\ dropped' = dropped
    BY <1>5 DEF con_input
  <2>2. InHandler' = InHandler
    BY <1>1, <2>1 DEF InHandler, InputInv, ConInv, RingTypes
  <2> QED
    BY <1>1, <1>2, <2>1, <2>2, InputMoved DEF AllInput, InputInv
<1> QED
  BY <1>4, <1>5

\* Two parts joined, and an empty one in the place of the second.
LEMMA JoinParts ==
  ASSUME NEW s \in Seq(Nat), NEW t \in Seq(Nat), NEW u \in Seq(Nat), NEW v
  PROVE  s \o t \o u \o v = s \o (t \o u) \o <<>> \o v
<1>1. (s \o t) \o u = s \o (t \o u)
  BY ConcatAssociative
<1>2. s \o (t \o u) \in Seq(Nat)
  BY ConcatProperties
<1>3. (s \o (t \o u)) \o <<>> = s \o (t \o u)
  BY <1>2, ConcatEmptySeq
<1> QED
  BY <1>1, <1>3

\* It stores it: behind what is in the ring, whether or not the reader has
\* copied the first of those.
LEMMA PutInput ==
  ASSUME InputInv, ConInv', ConInputPut
  PROVE  InputInv'
<1>1. /\ UNCHANGED <<pc, the_console, got, rirq, rx, typed, dropped>>
      /\ isr.at = "put" /\ isr'.at = "V"
  BY DEF ConInputPut, boot, acts, dev, InputInv, ConInv, RingTypes
<1>2. Copied' = Copied /\ InDevice' = InDevice
  BY <1>1 DEF Copied, InDevice
<1>3. isr.got /\ InHandler = <<isr.ch>> /\ InHandler' = <<>> /\ isr.ch \in Nat
  BY <1>1 DEF InHandler, InputInv, ConInv, DeviceRight, RingTypes
<1>4. /\ got \in Seq(Nat) /\ Ring \in Seq(Nat) /\ Unread \in Seq(Nat)
      /\ InDevice \in Seq(Nat) /\ Len(Ring) = Used /\ Used \in Nat
      /\ Copied => Used > 0
  BY PartsAreRight, ConsoleAssumption DEF InputInv, PartsRight, Copied
<1>5. Ring' = Ring \o <<isr.ch>>
  BY PutAppends DEF InputInv
<1>6. Unread' = Unread \o <<isr.ch>>
  <2>1. CASE Copied
    <3>1. Ring # <<>> /\ <<isr.ch>> \in Seq(Nat)
      BY <1>3, <1>4, <2>1, EmptySeq
    <3>2. Tail(Ring \o <<isr.ch>>) = Tail(Ring) \o <<isr.ch>>
      BY <1>3, <1>4, <3>1, TailOfConcat
    <3> QED
      BY <1>2, <1>5, <2>1, <3>2 DEF Unread
  <2>2. CASE ~ Copied
    BY <1>2, <1>5, <2>2 DEF Unread
  <2> QED
    BY <2>1, <2>2
<1>7. AllInput' = AllInput
  <2>0. <<isr.ch>> \in Seq(Nat)
    BY <1>3, ShortSequences
  <2>1. PICK c \in Seq(Nat) : c = <<isr.ch>>
    BY <2>0, Zenon
  <2>2. /\ InHandler = c /\ Unread' = Unread \o c
        /\ InHandler' = <<>> /\ InDevice' = InDevice /\ got' = got
    BY <1>1, <1>2, <1>3, <1>6, <2>1
  <2>3. AllInput = got \o Unread \o c \o InDevice
    BY <2>2 DEF AllInput
  <2>4. AllInput' = got \o (Unread \o c) \o <<>> \o InDevice
    <3>1. AllInput' = got' \o Unread' \o InHandler' \o InDevice'
      BY DEF AllInput
    <3> QED
      BY <2>2, <3>1
  <2>5. got \in Seq(Nat) /\ Unread \in Seq(Nat)
    BY <1>4
  <2>6. got \o Unread \o c \o InDevice
          = got \o (Unread \o c) \o <<>> \o InDevice
    BY <2>5, JoinParts
  <2> QED
    BY <2>3, <2>4, <2>6
<1> QED
  BY <1>1, <1>7, InputMoved DEF InputInv

\* The reader copies the first of those in the ring.  No other thread is in
\* getch_intr, or it might copy the same.
LEMMA TakeInput ==
  ASSUME OneReader, InputInv, ConInv', NEW t \in Threads, GetchTake(t)
  PROVE  InputInv'
<1>1. /\ UNCHANGED <<the_console, cs_gotchars, cs_gotchars_head>>
      /\ UNCHANGED <<cs_gotchars_tail, isr, rirq, rx, typed, dropped>>
      /\ pc[t] = "take" /\ pc' = [pc EXCEPT ![t] = "advance"]
      /\ got' = Append(got, cs_gotchars[cs_gotchars_tail])
  BY DEF GetchTake, Goto, boot, con, ser, dev
<1>2. /\ Threads \subseteq Actors /\ Readers \subseteq Threads
      /\ pc \in [Actors -> PCs]
  BY ConsoleAssumption DEF InputInv, ConInv, ActorTypes, Actors
<1>3. t \in Readers /\ the_console # "none"
  BY <1>1, <1>2 DEF InputInv, Reading, ConInv, BootRight
<1>4. ~ Copied /\ Copied'
  BY <1>1, <1>2, <1>3 DEF Copied, OneReader
<1>5. Ring' = Ring /\ InHandler' = InHandler /\ InDevice' = InDevice
  BY <1>1 DEF Ring, Used, InHandler, InDevice
<1>6. Unread = Ring /\ Unread' = Tail(Ring)
  BY <1>4, <1>5 DEF Unread
<1>7. /\ got \in Seq(Nat) /\ Ring \in Seq(Nat)
      /\ InDevice \in Seq(Nat) /\ InHandler \in Seq(Nat)
      /\ Len(Ring) = Used /\ Used \in Nat /\ Used > 0
      /\ \A i \in 1 .. Used :
           Ring[i] = cs_gotchars[(cs_gotchars_tail + i - 1) % CONSOLE_INPUT_BUFFER_SIZE]
  BY <1>1, PartsAreRight DEF InputInv, PartsRight
<1>8. Ring # <<>>
  BY <1>7, EmptySeq
<1>9. Ring[1] = cs_gotchars[cs_gotchars_tail]
  <2>1. 1 \in 1 .. CONSOLE_INPUT_BUFFER_SIZE /\ cs_gotchars_tail \in Slots
    BY ConsoleAssumption DEF InputInv, ConInv, RingTypes
  <2>2. (cs_gotchars_tail + 1 - 1) % CONSOLE_INPUT_BUFFER_SIZE = cs_gotchars_tail
    BY <2>1, SlotAt, ConsoleAssumption DEF Slots
  <2>3. 1 \in 1 .. Used
    BY <1>7
  <2> QED
    BY <1>7, <2>2, <2>3
<1>10. Head(Ring) \in Nat /\ Tail(Ring) \in Seq(Nat) /\ Head(Ring) = Ring[1]
  BY <1>7, <1>8, HeadTailProperties
<1>11. got' \o Tail(Ring) = got \o Ring
  BY <1>1, <1>7, <1>8, <1>9, <1>10, HeadMoves
<1>12. AllInput' = AllInput
  BY <1>5, <1>6, <1>11 DEF AllInput
<1>13. \A a \in Actors : pc'[a] \in Reading => a \in Readers
  BY <1>1, <1>2, <1>3 DEF InputInv
<1> QED
  BY <1>1, <1>3, <1>12, <1>13, InputMoved

\* ... and then takes it out of the ring.
LEMMA AdvanceInput ==
  ASSUME OneReader, InputInv, ConInv', NEW t \in Threads, GetchAdvance(t)
  PROVE  InputInv'
<1>1. /\ UNCHANGED <<the_console, got, isr, rirq, rx, typed, dropped>>
      /\ pc[t] = "advance" /\ pc' = [pc EXCEPT ![t] = "idle"]
  BY DEF GetchAdvance, Goto, boot, con, ser, dev
<1>2. /\ Threads \subseteq Actors /\ Readers \subseteq Threads
      /\ pc \in [Actors -> PCs]
  BY ConsoleAssumption DEF InputInv, ConInv, ActorTypes, Actors
<1>3. t \in Readers
  BY <1>1, <1>2 DEF InputInv, Reading
<1>4. Copied /\ ~ Copied'
  BY <1>1, <1>2, <1>3 DEF Copied, OneReader
<1>5. Unread' = Unread
  BY <1>4, AdvanceDrops DEF Unread, InputInv
<1>6. AllInput' = AllInput
  BY <1>1, <1>5 DEF AllInput, InHandler, InDevice
<1>7. \A a \in Actors : pc'[a] \in Reading => a \in Readers
  BY <1>1, <1>2 DEF InputInv, Reading
<1> QED
  BY <1>1, <1>6, <1>7, InputMoved DEF InputInv

\* Nothing is on its way when config_con sets up the ring.
LEMMA ConfigInput ==
  ASSUME InputInv, ConInv', config_con
  PROVE  InputInv'
<1>1. /\ UNCHANGED <<got, isr, rirq, rx, typed, dropped>>
      /\ the_console = "none" /\ the_console' = "flush"
      /\ pc' = [pc EXCEPT ![Boot] = "flush"]
      /\ cs_gotchars_head' = 0 /\ cs_gotchars_tail' = 0
  BY DEF config_con, Goto, ser, dev
<1>2. typed = 0 /\ got = <<>>
  BY <1>1 DEF InputInv
<1>3. isr = NoIsr /\ rirq = {"ENABLE"} /\ \A a \in Actors : pc[a] = "idle"
  BY <1>1 DEF InputInv, ConInv, BootRight
<1>4. pc \in [Actors -> PCs] /\ Readers \subseteq Actors
  BY ConsoleAssumption DEF InputInv, ConInv, ActorTypes, Actors
<1>5. \A a \in Actors : pc'[a] \in {"idle", "flush"}
  BY <1>1, <1>3, <1>4
<1>6. ~ Copied'
  BY <1>4, <1>5 DEF Copied
<1>7. Ring' = <<>>
  <2>1. Ring' \in Seq(Nat) /\ Len(Ring') = 0
    BY <1>1, PartsAreRightNext DEF PartsRight, Used
  <2> QED
    BY <2>1, EmptySeq
<1>8. InHandler' = <<>> /\ InDevice' = <<>> /\ Unread' = <<>>
  BY <1>1, <1>3, <1>6, <1>7 DEF InHandler, InDevice, Unread, NoIsr
<1>9. AllInput' = <<>>
  <2>1. <<>> \o <<>> = <<>>
    BY ConcatEmptySeq, EmptySeq
  <2> QED
    BY <1>1, <1>2, <1>8, <2>1 DEF AllInput
<1>10. ToSet(AllInput') = {} /\ Increasing(AllInput')
  BY <1>9, EmptyMembers
<1>11. (1 .. typed') \ dropped' = {} /\ dropped' \subseteq 1 .. typed'
  BY <1>1, <1>2 DEF InputInv
<1> QED
  BY <1>1, <1>5, <1>10, <1>11 DEF InputInv, InputExact, AllInput, Increasing, Reading

LEMMA InputInvInit == Init => InputInv
<1> SUFFICES ASSUME Init PROVE InputInv
  OBVIOUS
<1>1. ConInv
  BY ConInit
<1>2. /\ typed = 0 /\ got = <<>> /\ dropped = {} /\ isr = NoIsr
      /\ rirq = {"ENABLE"} /\ cs_gotchars_head = 0 /\ cs_gotchars_tail = 0
      /\ \A a \in Actors : pc[a] = "idle"
  BY DEF Init
<1>3. Readers \subseteq Actors
  BY ConsoleAssumption DEF Actors
<1>4. Ring = <<>>
  <2>1. Ring \in Seq(Nat) /\ Len(Ring) = 0
    BY <1>1, <1>2, PartsAreRight DEF PartsRight, Used
  <2> QED
    BY <2>1, EmptySeq
<1>5. InHandler = <<>> /\ InDevice = <<>> /\ Unread = <<>>
  BY <1>2, <1>3, <1>4 DEF InHandler, InDevice, Unread, NoIsr, Copied
<1>6. AllInput = <<>>
  <2>1. <<>> \o <<>> = <<>>
    BY ConcatEmptySeq, EmptySeq
  <2> QED
    BY <1>2, <1>5, <2>1 DEF AllInput
<1>7. ToSet(AllInput) = {} /\ Increasing(AllInput)
  BY <1>6, EmptyMembers
<1>8. (1 .. typed) \ dropped = {} /\ dropped \subseteq 1 .. typed
  BY <1>2
<1> QED
  BY <1>1, <1>2, <1>7, <1>8 DEF InputInv, InputExact, AllInput, Increasing, Reading

LEMMA InputInvNext ==
  OneReader /\ InputInv /\ ConInv' /\ [Next]_vars => InputInv'
<1> SUFFICES ASSUME OneReader, InputInv, ConInv', [Next]_vars
             PROVE  InputInv'
  OBVIOUS
<1>0. Threads \subseteq Actors /\ Boot \in Actors
  BY ConsoleAssumption DEF Actors
<1>1. ASSUME NEW a \in Actors,
             \/ a \in Threads /\ (putch(a) \/ Intr(a) \/ getch(a))
             \/ KprintfOff(a) \/ TakeSpinlock(a) \/ putch_polled(a)
             \/ EndKprintf(a) \/ Polled(a)
             \/ a = Boot /\ flush_delay_buf
      PROVE  InputInv'
  <2>1. \E l \in PCs : NoInput(a, l)
    BY <1>1, PrintingIsNoInput DEF InputInv
  <2> QED
    BY <2>1, NoInputKeeps
<1>2. CASE putch_delayed \/ Transmit \/ lser_irq \/ con_start \/ ConInputV
  BY <1>2, HandlerInput
<1>3. CASE Type \/ con_input \/ ConInputPut \/ config_con
  BY <1>3, TypeInput, DropInput, PutInput, ConfigInput
<1>4. ASSUME NEW t \in Threads, GetchP(t)
      PROVE  InputInv'
  <2>1. /\ UNCHANGED <<the_console, got, cs_gotchars, cs_gotchars_head>>
        /\ UNCHANGED <<cs_gotchars_tail, isr, rirq, rx, typed, dropped>>
        /\ pc[t] = "get" /\ pc' = [pc EXCEPT ![t] = "take"]
    BY <1>4 DEF GetchP, Goto, boot, ser, dev
  <2>2. pc \in [Actors -> PCs] /\ Readers \subseteq Actors
    BY ConsoleAssumption DEF InputInv, ConInv, ActorTypes, Actors
  <2>3. Copied' = Copied
    BY <1>0, <2>1, <2>2 DEF Copied
  <2>4. AllInput' = AllInput
    BY <2>1, <2>3 DEF AllInput, Unread, Ring, Used, InHandler, InDevice
  <2>5. \A a \in Actors : pc'[a] \in Reading => a \in Readers
    BY <1>0, <2>1, <2>2 DEF InputInv, Reading
  <2> QED
    BY <2>1, <2>4, <2>5, InputMoved
<1>5. ASSUME NEW t \in Threads, GetchTake(t) \/ GetchAdvance(t)
      PROVE  InputInv'
  BY <1>5, TakeInput, AdvanceInput
<1>6. CASE UNCHANGED vars
  <2>1. /\ UNCHANGED <<the_console, got, cs_gotchars, cs_gotchars_head>>
        /\ UNCHANGED <<cs_gotchars_tail, isr, rirq, rx, typed, dropped, pc>>
    BY <1>6 DEF vars, boot, acts, con, ser, dev
  <2>2. AllInput' = AllInput
    BY <2>1 DEF AllInput, Unread, Copied, Ring, Used, InHandler, InDevice
  <2> QED
    BY <2>1, <2>2, InputMoved DEF InputInv
<1>7. CASE Next
  BY <1>0, <1>1, <1>2, <1>3, <1>4, <1>5, <1>7 DEF Next, Boots, Handler, Read
<1> QED
  BY <1>6, <1>7

-----------------------------------------------------------------------------
(***************************************************************************)
(* The theorems.                                                           *)
(***************************************************************************)

\* There is one permission to write with interrupts, and it is in one place:
\* lser_write never finds ls_wbusy set (its panic, lser.c), whoever polls
\* meanwhile in lser_writepolled and whatever lser_irq finds.
THEOREM WritePermissionIsUnique ==
  Spec => []ClearToWrite
<1>1. ConInv => ClearToWrite
  <2> SUFFICES ASSUME ConInv, the_console # "none"
               PROVE  LET writers == {t \in Threads : pc[t] = "write"}
                      IN  cs_wsem + Cardinality(writers)
                            + (IF ls_wbusy THEN 1 ELSE 0)
                            + (IF isr.at = "start" THEN 1 ELSE 0) = 1
    BY DEF ClearToWrite
  <2>1. {t \in Threads : pc[t] \in {"write"}} = {t \in Threads : pc[t] = "write"}
    OBVIOUS
  <2> QED
    BY <2>1 DEF ConInv, OneClear, Number, One
<1> QED
  BY <1>1, ConInvAlways, PTL

\* Every character that was given to putch is shown, delayed (delayed_outbuf),
\* in hand or in the device, in order and once, in every mixture of putch_intr
\* and putch_polled.
THEOREM OutputIsExact ==
  Spec => []OutputExact
<1>1. ConInv => OutputExact
  BY DEF ConInv
<1> QED
  BY <1>1, ConInvAlways, PTL

\* The variables keep their types and bounds: cs_wsem is a binary semaphore,
\* cs_rsem never counts more than the ring can hold, con_input drops and
\* getch_intr returns only characters that were typed, however many threads
\* read at once.
THEOREM ConsoleTypes ==
  Spec => []ConTypeOK
<1>1. ConInv => ConTypeOK
  <2> SUFFICES ASSUME ConInv PROVE ConTypeOK
    OBVIOUS
  <2>1. ActorTypes /\ LockTypes /\ RingTypes /\ DevTypes
    BY DEF ConInv
  <2>2. \A a \in Actors :
          /\ out[a] \in Nat /\ shown[a] \in Nat /\ out[a] <= MaxOut[a]
          /\ MaxOut[a] \in Nat
    BY <2>1, ConsoleAssumption DEF ActorTypes, DevTypes
  <2>3. \A a \in Actors : shown[a] <= out[a]
    BY <2>1, <2>2 DEF ConInv, OutputExact, ActorTypes, DevTypes
  <2>4. Boot \in Actors /\ delayed <= out[Boot]
    BY <2>1, <2>2, ConsoleAssumption
       DEF ConInv, OutputExact, ActorTypes, DevTypes, Actors
  <2>5. cs_wsem \in 0 .. 1
    <3>1. CASE the_console = "none"
      BY <3>1 DEF ConInv, BootRight
    <3>2. CASE the_console # "none"
      <4>1. Number(pc, {"write"}) \in Nat /\ cs_wsem \in Nat
        BY <2>1, NumberCounts DEF LockTypes
      <4> QED
        BY <3>2, <4>1 DEF ConInv, OneClear, One
    <3> QED
      BY <3>1, <3>2
  <2>6. cs_rsem \in Slots
    <3>1. Number(pc, {"take", "advance"}) \in Nat /\ cs_rsem \in Nat
      BY <2>1, NumberCounts DEF LockTypes
    <3>2. Used \in Nat /\ Used < CONSOLE_INPUT_BUFFER_SIZE
      BY <2>1, ConsoleAssumption DEF Used, RingTypes, Slots
    <3>3. cs_rsem <= Used
      BY <3>1, <3>2 DEF ConInv, RingRight, One
    <3> QED
      BY <3>1, <3>2, <3>3, ConsoleAssumption DEF Slots
  <2>7. \A a \in Actors : out[a] \in 0 .. MaxOut[a] /\ shown[a] \in 0 .. out[a]
    BY <2>2, <2>3
  <2>8. delayed \in 0 .. MaxOut[Boot]
    BY <2>1, <2>2, <2>4 DEF ActorTypes
  <2>9. /\ isr.at \in {"none", "start", "input", "put", "V"}
        /\ {isr.ch, rx} \subseteq 0 .. MaxTyped
        /\ tx.by \in Actors \union {NULL}
    BY <2>1 DEF RingTypes, DevTypes
  <2>10. /\ the_console \in {"none", "flush", "up"}
         /\ pc \in [Actors -> PCs] /\ irqpending \subseteq Actors
    BY <2>1 DEF ActorTypes
  <2>11. {kprintf_spinlock, bootcpu, ls_lock} \subseteq Actors \union {NULL}
           /\ ls_wbusy \in BOOLEAN
    BY <2>1 DEF LockTypes
  <2>12. /\ cs_gotchars \in [Slots -> 0 .. MaxTyped]
         /\ {cs_gotchars_head, cs_gotchars_tail} \subseteq Slots
         /\ dropped \subseteq 1 .. MaxTyped /\ got \in Seq(1 .. MaxTyped)
    BY <2>1 DEF RingTypes
  <2>13. /\ wirq \subseteq Bits /\ rirq \subseteq {"ENABLE", "ACTIVE"}
         /\ typed \in 0 .. MaxTyped
    BY <2>1 DEF DevTypes
  <2> QED
    BY <2>5, <2>6, <2>7, <2>8, <2>9, <2>10, <2>11, <2>12, <2>13 DEF ConTypeOK
<1> QED
  BY <1>1, ConInvAlways, PTL

\* What is typed is read once and in order, or dropped, although con_input and
\* getch_intr use the ring without a lock: for any size of the ring, any number
\* of other threads that print and any timing of the interrupts, as long as one
\* thread reads (two may copy the same character, console.c:146).
THEOREM InputIsExact ==
  ASSUME OneReader
  PROVE  Spec => []InputExact
<1>1. InputInv => InputExact
  BY DEF InputInv
<1> QED
  BY <1>1, ConInvAlways, InputInvInit, InputInvNext, PTL DEF Spec

=============================================================================
