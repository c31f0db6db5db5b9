------------------------------ MODULE Console ------------------------------
(***************************************************************************)
(* The console (kern/dev/generic/console.c) on the LAMEbus serial port     *)
(* (kern/dev/lamebus/lser.c), with kprintf (kern/lib/kprintf.c) above it   *)
(* and the bus's interrupt dispatch below it.                              *)
(*                                                                         *)
(* Threads on several processors print, with interrupts on (waiting for    *)
(* the write-done interrupt) or off (polling the device); one more actor,  *)
(* IRQ, stands for the interrupt handlers that print.  Every LAMEbus       *)
(* interrupt goes to the boot processor, so lser_irq does not run twice at *)
(* once, and runs only when the boot processor has interrupts on.          *)
(*                                                                         *)
(* A character is the n-th of its actor; what it looks like is left out.   *)
(* P and V are single steps (module Threads has their parts).  The locks   *)
(* kprintf_lock and con_userlock_* are those of synch.c and do nothing.    *)
(***************************************************************************)
EXTENDS Naturals, Sequences, SequencesExt, FiniteSets

CONSTANTS
  Threads,
  Readers,        \* the threads that read the console
  Boot,           \* the thread that configures the devices
  IRQ,            \* the handlers that print, on the boot processor
  NULL,
  CONSOLE_INPUT_BUFFER_SIZE,
  MaxOut,         \* MaxOut[a]: bound on the characters actor a prints
  MaxTyped        \* bound on the characters typed

Actors == Threads \union {IRQ}

ASSUME ConsoleAssumption ==
  /\ IsFiniteSet(Threads) /\ Boot \in Threads /\ Readers \subseteq Threads
  /\ IRQ \notin Threads /\ NULL \notin Actors
  /\ CONSOLE_INPUT_BUFFER_SIZE \in Nat /\ CONSOLE_INPUT_BUFFER_SIZE > 1
  /\ MaxOut \in [Actors -> Nat] /\ MaxTyped \in Nat

VARIABLES
  the_console,    \* "none", "flush" in config_con, "up" when it is done
  delayed,        \* characters of Boot in delayed_outbuf
  pc,             \* pc[a]: where actor a stands
  out,            \* out[a]: calls of putch that a has begun
  irqpending,     \* the actors in lser_writepolled that found ls_wbusy
  kprintf_spinlock,
  bootcpu,        \* who has interrupts off on the boot processor
  cs_wsem, cs_rsem, cs_gotchars, cs_gotchars_head, cs_gotchars_tail,
  ls_lock, ls_wbusy,
  isr,            \* lser_irq on the boot processor, after its critical section
  wirq, rirq,     \* the device's interrupt registers, as sets of bits
  tx,             \* the character the device is sending
  rx,             \* the character in the device's input register
  typed,          \* how many characters were typed
  dropped,        \* those that con_input dropped
  shown,          \* shown[a]: how many of a's characters the screen shows
  got             \* what getch returned, in order

con  == <<cs_wsem, cs_rsem, cs_gotchars, cs_gotchars_head, cs_gotchars_tail>>
ser  == <<ls_lock, ls_wbusy, isr>>
dev  == <<wirq, rirq, tx, rx, typed, shown>>
boot == <<the_console, delayed>>
acts == <<pc, out, irqpending, kprintf_spinlock, bootcpu>>
vars == <<boot, acts, con, ser, dev, dropped, got>>

Slots   == 0 .. CONSOLE_INPUT_BUFFER_SIZE - 1
NextSlot(i) == (i + 1) % CONSOLE_INPUT_BUFFER_SIZE
Bits    == {"ENABLE", "ACTIVE", "FORCE"}
NoChar  == [by |-> NULL, n |-> 0]
NoIsr   == [at |-> "none", got |-> FALSE, ch |-> 0]

\* "flush" is Boot in config_con; "P" and "write" are putch_intr; "spin" waits
\* for kprintf_spinlock and "msg" has it, between two characters; "lock",
\* "drain" and "poll" are lser_writepolled; "get", "take" and "advance" are getch_intr.
PCs == {"idle", "flush", "P", "write", "spin", "msg", "lock", "drain", "poll",
        "get", "take", "advance"}

ConTypeOK ==
  /\ the_console \in {"none", "flush", "up"} /\ delayed \in 0 .. MaxOut[Boot]
  /\ pc \in [Actors -> PCs]
  /\ \A a \in Actors : out[a] \in 0 .. MaxOut[a] /\ shown[a] \in 0 .. out[a]
  /\ irqpending \subseteq Actors
  /\ {kprintf_spinlock, bootcpu, ls_lock} \subseteq Actors \union {NULL}
  /\ cs_wsem \in 0 .. 1
  /\ cs_rsem \in Slots
  /\ cs_gotchars \in [Slots -> 0 .. MaxTyped]
  /\ {cs_gotchars_head, cs_gotchars_tail} \subseteq Slots
  /\ ls_wbusy \in BOOLEAN
  /\ isr.at \in {"none", "start", "input", "put", "V"}
  /\ {isr.ch, rx} \subseteq 0 .. MaxTyped
  /\ wirq \subseteq Bits /\ rirq \subseteq {"ENABLE", "ACTIVE"}
  /\ tx.by \in Actors \union {NULL}
  /\ typed \in 0 .. MaxTyped /\ dropped \subseteq 1 .. MaxTyped
  /\ got \in Seq(1 .. MaxTyped)

-----------------------------------------------------------------------------
(***************************************************************************)
(* The device.  It sends one character at a time and then sets ACTIVE; it  *)
(* offers a typed character when the one before has been taken.  Writing   *)
(* an interrupt register clears ACTIVE and sets the other bits.            *)
(***************************************************************************)
Interrupting ==
  \/ {"ENABLE", "ACTIVE"} \subseteq wirq
  \/ "FORCE" \in wirq
  \/ {"ENABLE", "ACTIVE"} \subseteq rirq

Transmit ==
  /\ tx # NoChar
  /\ shown' = [shown EXCEPT ![tx.by] = tx.n]
  /\ tx' = NoChar
  /\ wirq' = wirq \union {"ACTIVE"}
  /\ UNCHANGED <<boot, acts, con, ser, rirq, rx, typed, dropped, got>>

\* Nothing is typed before the console is configured: see the README.
Type ==
  /\ the_console # "none" /\ typed < MaxTyped
  /\ "ACTIVE" \notin rirq
  /\ typed' = typed + 1 /\ rx' = typed'
  /\ rirq' = rirq \union {"ACTIVE"}
  /\ UNCHANGED <<boot, acts, con, ser, wirq, tx, shown, dropped, got>>

-----------------------------------------------------------------------------
(***************************************************************************)
(* kprintf and putch.                                                      *)
(***************************************************************************)

\* The character that a is printing; in config_con, one of the delayed ones.
CharOf(a) ==
  [by |-> a, n |-> IF a = Boot THEN out[a] - delayed ELSE out[a]]

\* Other threads and processors start after the devices are configured.
Started == the_console = "up"

Goto(a, l) == pc' = [pc EXCEPT ![a] = l]

Begin(a) == out[a] < MaxOut[a] /\ out' = [out EXCEPT ![a] = @ + 1]

\* putch before there is a console: putch_delayed.  The buffer is taken to be
\* large enough for what boot prints (MaxOut), which the code checks.
putch_delayed ==
  /\ the_console = "none" /\ Begin(Boot)
  /\ delayed' = delayed + 1
  /\ UNCHANGED <<the_console, pc, irqpending, kprintf_spinlock, bootcpu,
                 con, ser, dev, dropped, got>>

\* The console is configured.  Without memory for its semaphores and locks, or
\* for a second device, config_con returns before it has changed anything,
\* which is not modelled.
config_con ==
  /\ the_console = "none"
  /\ the_console' = "flush"
  /\ cs_wsem' = 1 /\ cs_rsem' = 0
  /\ cs_gotchars_head' = 0 /\ cs_gotchars_tail' = 0
  /\ Goto(Boot, "flush")
  /\ UNCHANGED <<delayed, out, irqpending, kprintf_spinlock, bootcpu,
                 cs_gotchars, ser, dev, dropped, got>>

\* putch with interrupts on.  It may poll all the same: curcpu->c_spinlocks is
\* read in two loads, between which the thread can move to another processor.
PutchPath(a) == Goto(a, "P") \/ Goto(a, "lock")

flush_delay_buf ==
  /\ pc[Boot] = "flush"
  /\ \/ /\ delayed > 0 /\ delayed' = delayed - 1
        /\ PutchPath(Boot)
        /\ UNCHANGED the_console
     \/ /\ delayed = 0 /\ the_console' = "up"
        /\ Goto(Boot, "idle")
        /\ UNCHANGED delayed
  /\ UNCHANGED <<out, irqpending, kprintf_spinlock, bootcpu,
                 con, ser, dev, dropped, got>>

putch(t) ==
  /\ Started /\ pc[t] = "idle"
  /\ Begin(t) /\ PutchPath(t)
  /\ UNCHANGED <<boot, irqpending, kprintf_spinlock, bootcpu, con, ser, dev,
                 dropped, got>>

\* kprintf with interrupts off or a spinlock held, on the boot processor or on
\* another, and in an interrupt handler.
KprintfOff(a) ==
  /\ Started /\ pc[a] = "idle"
  /\ Begin(a) /\ Goto(a, "spin")
  /\ \/ bootcpu = NULL /\ isr = NoIsr /\ bootcpu' = a
     \/ a # IRQ /\ UNCHANGED bootcpu
  /\ UNCHANGED <<boot, irqpending, kprintf_spinlock, con, ser, dev,
                 dropped, got>>

TakeSpinlock(a) ==
  /\ pc[a] = "spin" /\ kprintf_spinlock = NULL
  /\ kprintf_spinlock' = a
  /\ Goto(a, "lock")
  /\ UNCHANGED <<boot, out, irqpending, bootcpu, con, ser, dev, dropped, got>>

putch_polled(a) ==
  /\ pc[a] = "msg" /\ Begin(a)
  /\ Goto(a, "lock")
  /\ UNCHANGED <<boot, irqpending, kprintf_spinlock, bootcpu, con, ser, dev,
                 dropped, got>>

EndKprintf(a) ==
  /\ pc[a] = "msg"
  /\ kprintf_spinlock' = NULL
  /\ bootcpu' = IF bootcpu = a THEN NULL ELSE bootcpu
  /\ Goto(a, "idle")
  /\ UNCHANGED <<boot, out, irqpending, con, ser, dev, dropped, got>>

\* Where putch returns to.
Return(a) ==
  Goto(a, CASE kprintf_spinlock = a -> "msg"
            [] a = Boot /\ ~Started  -> "flush"
            [] OTHER                 -> "idle")

-----------------------------------------------------------------------------
(***************************************************************************)
(* Writing with interrupts: putch_intr.                                    *)
(***************************************************************************)
P(t) ==
  /\ pc[t] = "P" /\ cs_wsem > 0
  /\ cs_wsem' = cs_wsem - 1
  /\ Goto(t, "write")
  /\ UNCHANGED <<boot, out, irqpending, kprintf_spinlock, bootcpu, cs_rsem,
                 cs_gotchars, cs_gotchars_head, cs_gotchars_tail, ser, dev,
                 dropped, got>>

\* It panics, which is no step here, if ls_wbusy is set: see ClearToWrite.
lser_write(t) ==
  /\ pc[t] = "write" /\ ls_lock = NULL
  /\ ~ls_wbusy
  /\ ls_wbusy' = TRUE
  /\ tx' = CharOf(t)
  /\ Return(t)
  /\ UNCHANGED <<boot, out, irqpending, kprintf_spinlock, bootcpu, con,
                 ls_lock, isr, wirq, rirq, rx, typed, shown, dropped, got>>

-----------------------------------------------------------------------------
(***************************************************************************)
(* Writing by polling: lser_writepolled, which holds ls_lock all the time. *)
(***************************************************************************)
\* Mutant: it does not look at ls_wbusy.
lser_writepolled_Hasty(a) ==
  /\ pc[a] = "lock" /\ ls_lock = NULL
  /\ ls_lock' = a
  /\ irqpending' = irqpending \ {a}
  /\ wirq' = {}
  /\ tx' = CharOf(a)
  /\ Goto(a, "poll")
  /\ UNCHANGED <<boot, out, kprintf_spinlock, bootcpu, con, ls_wbusy, isr,
                 rirq, rx, typed, shown, dropped, got>>

lser_writepolled(a) ==
  /\ pc[a] = "lock" /\ ls_lock = NULL
  /\ ls_lock' = a
  /\ \/ /\ ls_wbusy
        /\ irqpending' = irqpending \union {a}
        /\ Goto(a, "drain")
        /\ UNCHANGED <<wirq, tx>>
     \/ /\ ~ls_wbusy
        /\ irqpending' = irqpending \ {a}
        /\ wirq' = {}
        /\ tx' = CharOf(a)
        /\ Goto(a, "poll")
  /\ UNCHANGED <<boot, out, kprintf_spinlock, bootcpu, con, ls_wbusy, isr,
                 rirq, rx, typed, shown, dropped, got>>

\* The first lser_poll_until_write ends: the interrupt stays asserted (FORCE).
Drain(a) ==
  /\ pc[a] = "drain" /\ "ACTIVE" \in wirq
  /\ wirq' = {"FORCE", "ENABLE"}
  /\ tx' = CharOf(a)
  /\ Goto(a, "poll")
  /\ UNCHANGED <<boot, out, irqpending, kprintf_spinlock, bootcpu, con, ser,
                 rirq, rx, typed, shown, dropped, got>>

\* Mutant: the interrupt of the write before is cleared with its own.
Poll_ClearAll(a) ==
  /\ pc[a] = "poll" /\ "ACTIVE" \in wirq
  /\ wirq' = {"ENABLE"}
  /\ ls_lock' = NULL
  /\ Return(a)
  /\ UNCHANGED <<boot, out, irqpending, kprintf_spinlock, bootcpu, con,
                 ls_wbusy, isr, rirq, tx, rx, typed, shown, dropped, got>>

Poll(a) ==
  /\ pc[a] = "poll" /\ "ACTIVE" \in wirq
  /\ wirq' = IF a \in irqpending THEN wirq ELSE {"ENABLE"}
  /\ ls_lock' = NULL
  /\ Return(a)
  /\ UNCHANGED <<boot, out, irqpending, kprintf_spinlock, bootcpu, con,
                 ls_wbusy, isr, rirq, tx, rx, typed, shown, dropped, got>>

-----------------------------------------------------------------------------
(***************************************************************************)
(* The interrupt: lamebus_interrupt and lser_irq on the boot processor.    *)
(***************************************************************************)
\* A slot interrupts, and the boot processor, which alone is sent the
\* interrupts of the bus, takes it.
lamebus_interrupt == Interrupting /\ isr = NoIsr /\ bootcpu = NULL

\* Mutant: every interrupt counts as the end of a write.
lser_irq_AlwaysClear ==
  /\ lamebus_interrupt /\ ls_lock = NULL
  /\ LET read == "ACTIVE" \in rirq
     IN  /\ ls_wbusy' = FALSE
         /\ wirq' = {"ENABLE"}
         /\ rirq' = IF read THEN {"ENABLE"} ELSE rirq
         /\ isr' = [at |-> "start", got |-> read,
                    ch |-> IF read THEN rx ELSE 0]
  /\ UNCHANGED <<boot, acts, con, ls_lock, tx, rx, typed, shown, dropped, got>>

\* The critical section of lser_irq.
lser_irq ==
  /\ lamebus_interrupt /\ ls_lock = NULL
  /\ LET clear == "ACTIVE" \in wirq
         read  == "ACTIVE" \in rirq
     IN  /\ ls_wbusy' = (ls_wbusy /\ ~clear)
         /\ wirq' = IF clear THEN {"ENABLE"} ELSE wirq
         /\ rirq' = IF read THEN {"ENABLE"} ELSE rirq
         /\ isr' = [at    |-> IF clear THEN "start" ELSE "input",
                    got   |-> read,
                    ch    |-> IF read THEN rx ELSE 0]
  /\ UNCHANGED <<boot, acts, con, ls_lock, tx, rx, typed, shown, dropped, got>>

con_start ==
  /\ isr.at = "start"
  /\ cs_wsem' = cs_wsem + 1
  /\ isr' = IF isr.got THEN [isr EXCEPT !.at = "input"] ELSE NoIsr
  /\ UNCHANGED <<boot, acts, cs_rsem, cs_gotchars, cs_gotchars_head,
                 cs_gotchars_tail, ls_lock, ls_wbusy, dev, dropped, got>>

\* Mutant: no check for a full ring.
con_input_Overrun ==
  /\ isr.at = "input"
  /\ isr' = [isr EXCEPT !.at = "put"]
  /\ UNCHANGED <<boot, acts, con, ls_lock, ls_wbusy, dev, dropped, got>>

\* con_input looks for room; it drops the character when there is none.
con_input ==
  /\ isr.at = "input"
  /\ IF NextSlot(cs_gotchars_head) = cs_gotchars_tail
     THEN dropped' = dropped \union {isr.ch} /\ isr' = NoIsr
     ELSE isr' = [isr EXCEPT !.at = "put"] /\ UNCHANGED dropped
  /\ UNCHANGED <<boot, acts, con, ls_lock, ls_wbusy, dev, got>>

\* Mutant: the head does not wrap.
ConInputPut_NoWrap ==
  /\ isr.at = "put"
  /\ cs_gotchars' = [cs_gotchars EXCEPT ![cs_gotchars_head] = isr.ch]
  /\ cs_gotchars_head' = cs_gotchars_head + 1
  /\ isr' = [isr EXCEPT !.at = "V"]
  /\ UNCHANGED <<boot, acts, cs_wsem, cs_rsem, cs_gotchars_tail, ls_lock,
                 ls_wbusy, dev, dropped, got>>

ConInputPut ==
  /\ isr.at = "put"
  /\ cs_gotchars' = [cs_gotchars EXCEPT ![cs_gotchars_head] = isr.ch]
  /\ cs_gotchars_head' = NextSlot(cs_gotchars_head)
  /\ isr' = [isr EXCEPT !.at = "V"]
  /\ UNCHANGED <<boot, acts, cs_wsem, cs_rsem, cs_gotchars_tail, ls_lock,
                 ls_wbusy, dev, dropped, got>>

\* Mutant: only a character for an empty ring is signalled.
ConInputV_WhenEmpty ==
  /\ isr.at = "V"
  /\ cs_rsem' = IF cs_gotchars_head = NextSlot(cs_gotchars_tail)
                THEN cs_rsem + 1 ELSE cs_rsem
  /\ isr' = NoIsr
  /\ UNCHANGED <<boot, acts, cs_wsem, cs_gotchars, cs_gotchars_head,
                 cs_gotchars_tail, ls_lock, ls_wbusy, dev, dropped, got>>

ConInputV ==
  /\ isr.at = "V"
  /\ cs_rsem' = cs_rsem + 1
  /\ isr' = NoIsr
  /\ UNCHANGED <<boot, acts, cs_wsem, cs_gotchars, cs_gotchars_head,
                 cs_gotchars_tail, ls_lock, ls_wbusy, dev, dropped, got>>

-----------------------------------------------------------------------------
(***************************************************************************)
(* Reading: getch_intr, called for kgets and for con_io.                   *)
(***************************************************************************)
getch(t) ==
  /\ Started /\ pc[t] = "idle" /\ t \in Readers
  /\ Goto(t, "get")
  /\ UNCHANGED <<boot, out, irqpending, kprintf_spinlock, bootcpu, con, ser,
                 dev, dropped, got>>

GetchP(t) ==
  /\ pc[t] = "get" /\ cs_rsem > 0
  /\ cs_rsem' = cs_rsem - 1
  /\ Goto(t, "take")
  /\ UNCHANGED <<boot, out, irqpending, kprintf_spinlock, bootcpu, cs_wsem,
                 cs_gotchars, cs_gotchars_head, cs_gotchars_tail, ser, dev,
                 dropped, got>>

GetchTake(t) ==
  /\ pc[t] = "take"
  /\ got' = Append(got, cs_gotchars[cs_gotchars_tail])
  /\ Goto(t, "advance")
  /\ UNCHANGED <<boot, out, irqpending, kprintf_spinlock, bootcpu, con, ser,
                 dev, dropped>>

GetchAdvance(t) ==
  /\ pc[t] = "advance"
  /\ cs_gotchars_tail' = NextSlot(cs_gotchars_tail)
  /\ Goto(t, "idle")
  /\ UNCHANGED <<boot, out, irqpending, kprintf_spinlock, bootcpu, cs_wsem,
                 cs_rsem, cs_gotchars, cs_gotchars_head, ser, dev, dropped,
                 got>>

-----------------------------------------------------------------------------
Init ==
  /\ the_console = "none" /\ delayed = 0
  /\ pc = [a \in Actors |-> "idle"] /\ out = [a \in Actors |-> 0]
  /\ irqpending = {}
  /\ kprintf_spinlock = NULL /\ bootcpu = NULL /\ ls_lock = NULL
  /\ cs_wsem = 0 /\ cs_rsem = 0
  /\ cs_gotchars = [i \in Slots |-> 0]
  /\ cs_gotchars_head = 0 /\ cs_gotchars_tail = 0
  /\ ls_wbusy = FALSE /\ isr = NoIsr
  /\ wirq = {"ENABLE"} /\ rirq = {"ENABLE"}
  /\ tx = NoChar /\ rx = 0 /\ typed = 0 /\ dropped = {}
  /\ shown = [a \in Actors |-> 0]
  /\ got = <<>>

Intr(t)   == P(t) \/ lser_write(t)
Polled(a) == lser_writepolled(a) \/ Drain(a) \/ Poll(a)
Read(t)   == getch(t) \/ GetchP(t) \/ GetchTake(t) \/ GetchAdvance(t)
Boots     == config_con \/ flush_delay_buf
Handler   == lser_irq \/ con_start \/ con_input \/ ConInputPut \/ ConInputV

Next ==
  \/ putch_delayed \/ Boots \/ Handler \/ Transmit \/ Type
  \/ \E t \in Threads : putch(t) \/ Intr(t) \/ Read(t)
  \/ \E a \in Actors : \/ KprintfOff(a) \/ TakeSpinlock(a) \/ putch_polled(a)
                       \/ EndKprintf(a) \/ Polled(a)

Spec == Init /\ [][Next]_vars

\* What has begun goes on: the device sends, its interrupt is taken once the
\* boot processor has interrupts on, and threads are scheduled (module Threads).
\* A reader asks for the next character.
Fairness ==
  /\ WF_vars(Boots) /\ WF_vars(Handler) /\ WF_vars(Transmit)
  /\ \A t \in Threads : WF_vars(Intr(t)) /\ WF_vars(Read(t))
  /\ \A a \in Actors :
       WF_vars(TakeSpinlock(a)) /\ WF_vars(EndKprintf(a)) /\ WF_vars(Polled(a))

FairSpec == Spec /\ Fairness

-----------------------------------------------------------------------------
(***************************************************************************)
(* Properties.                                                             *)
(***************************************************************************)

\* There is one permission to write with interrupts, and it is in one place:
\* in cs_wsem, with the thread on its way to lser_write, in ls_wbusy until the
\* device is done, or with the handler on its way to con_start.  So lser_write
\* never finds ls_wbusy set and panics (lser.c:98-113), whoever polls meanwhile.
ClearToWrite ==
  the_console # "none" =>
    LET writers == {t \in Threads : pc[t] = "write"}
    IN  cs_wsem + Cardinality(writers) + (IF ls_wbusy THEN 1 ELSE 0)
          + (IF isr.at = "start" THEN 1 ELSE 0) = 1

\* Every character that was given to putch is on the screen, after those its
\* actor printed before it, or is delayed, in hand or in the device: none is
\* lost, repeated or written over in the device by a polled write.
OutputExact ==
  \A a \in Actors :
    LET inhand == pc[a] \in {"P", "write", "spin", "lock", "drain"}
        later  == (IF inhand THEN 1 ELSE 0) + (IF a = Boot THEN delayed ELSE 0)
    IN  IF tx.by = a
        THEN tx.n = shown[a] + 1 /\ out[a] = tx.n + later
        ELSE out[a] = shown[a] + later

\* The characters on their way to the reader: those in the ring, of which
\* getch_intr has copied the first when it goes to advance the tail, the one
\* that lser_irq has taken and con_input not yet stored, and the device's.
Used ==
  IF cs_gotchars_tail <= cs_gotchars_head
    THEN cs_gotchars_head - cs_gotchars_tail
    ELSE cs_gotchars_head + CONSOLE_INPUT_BUFFER_SIZE - cs_gotchars_tail
Ring == [i \in 1 .. Used |->
           cs_gotchars[(cs_gotchars_tail + i - 1) % CONSOLE_INPUT_BUFFER_SIZE]]
Copied == \E t \in Readers : pc[t] = "advance"
Unread == IF Copied THEN Tail(Ring) ELSE Ring
InHandler == IF isr.at \in {"start", "input", "put"} /\ isr.got
             THEN <<isr.ch>> ELSE <<>>
InDevice == IF "ACTIVE" \in rirq THEN <<rx>> ELSE <<>>

\* What readers got, the ring, the handler and the device hold the characters
\* that were typed and not dropped, once and in order, although getch_intr and
\* con_input use the ring without a lock.  This needs a single reader, which is
\* what con_userlock_read is for: "so user I/Os are atomic" (console.c:64).
InputExact ==
  LET all == got \o Unread \o InHandler \o InDevice
  IN  /\ ToSet(all) = (1 .. typed) \ dropped
      /\ \A i, j \in 1 .. Len(all) : i < j => all[i] < all[j]

\* Every character given to putch is shown, in every mixture of interrupt-driven
\* and polled writes: no write-done interrupt is lost, and nobody waits with
\* interrupts off for what only an interrupt brings.
EveryCharShown ==
  \A a \in Actors : \A n \in 1 .. MaxOut[a] :
    out[a] >= n ~> shown[a] >= n

\* Every character typed is read, unless the ring was full when it came.
EveryCharRead ==
  \A n \in 1 .. MaxTyped : typed >= n ~> n \in dropped \union ToSet(got)
=============================================================================
