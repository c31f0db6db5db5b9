# OS/161 demand paging in TLA+

The repository is an OS/161 kernel to which a virtual memory system was added in six steps
(kernel options `syscall`, `coremap`, `pt`, `ondemand`, `swap`, `tlb`, `final`): a coremap of
physical frames, page tables, loading of executables page by page, a swap file with
first-in-first-out replacement, management of the TLB and statistics. The models are of the
configuration `kern/conf/FINAL`, in which all of them are on and `dumbvm` is off. They cover
the paging work and the parts of the kernel that it stands on: threads, the kernel heap, the
file system and the names that lead to it, and the console. Comments in the code are partly
Italian; quotations keep the original.

Contents: [1 Inventory](#1-inventory), [2 Modules](#2-modules-and-what-they-model), [3
Runs](#3-runs), [4 Proofs](#4-proofs), [5 Disagreements found](#5-disagreements-found), [6
Limits](#6-what-is-left-out-or-only-checked), [7 Plan](#7-plan).

## 1 Inventory

Paths are relative to `src/kern`.

| Component | State | Operations | Talks to |
|---|---|---|---|
| Coremap, `vm/coremap.c` | `coremap[]`, `timestamp`, under the spinlock `cm_lock` | `cm_bootstrap`, `cm_bootstrap_4test`, `frame_kalloc`, `frame_kfree`, `frame_alloc`, `cm_asfree`, `cm_evict`, `cm_update_vaddr`, `cm_check_state`, `cm_update_state`, `cm_shutdown` | called by `vm.c`, `addrspace.c`, and by kmalloc through `alloc_kpages` |
| Page tables and page faults, `vm/vm.c`, `vm/pt.c` | one `pt_entry` per page in the segments of an address space; the locals of `vm_fault` | `vm_fault`, `handle_victim_and_swapout`, `pt_create`, `pt_update`, `compute_memsz`, `compute_offset`, `alloc_kpages`, `free_kpages` | coremap, swap, TLB, loader, and itself: filling a page faults again |
| Swap file, `vm/swap.c` | `swapspace[]` under the spinlock `sw_lock`; the file | `swapspace_bootstrap`, `swap_in`, `swap_out`, `swap_asfree`, `swapspace_shutdown` | VFS, emulator device, user memory |
| TLB, `vm/tlb.c`, `as_activate` | entries of the processor, the static `next_victim` | `tlbR`, `tlbW`, invalidation | `vm_fault`, `thread_switch` |
| Address spaces, `vm/addrspace.c`, `vm/segment.c` | list of segments, a vnode | `as_create`, `as_define_region`, `as_define_stack`, `as_activate`, `as_destroy` | all of the above |
| Loader, `syscall/loadelf.c`, `syscall/runprogram.c` | - | `load_elf`, `load_page_from_elf`, `runprogram` | VFS, address space |
| Statistics, `vm/vm_stats.c` | counters | `vmstats_inc`, `vmstats_print` | `vm.c`, `tlb.c`, `swap.c` |
| Physical memory at boot, `arch/mips/vm/ram.c` | `firstpaddr`, `lastpaddr` | `ram_stealmem`, `ram_getsize`, `ram_getfirstfree` | coremap |
| Kernel heap, `vm/kmalloc.c` | `sizebases[]`, `allbase`, the pageref pages of `kheaproots[]`, a free list in every heap page, under `kmalloc_spinlock` | `kmalloc`, `kfree`; inside, `subpage_kmalloc`, `allocpageref`, `allocpagerefpage`, `subpage_kfree` | coremap, for which it lets go of its spinlock |
| Threads, `thread/thread.c`, `clock.c` | run queues, wait channels, thread states | `thread_fork`, `thread_switch`, `thread_yield`, `schedule`, `wchan_*`, migration, interprocessor interrupts | everything |
| Spinlocks, interrupt level, `thread/spinlock.c`, `spl.c` | holder, `t_curspl`, `t_iplhigh_count` | acquire, release, `splraise`, `spllower` | everything |
| Synchronisation, `thread/synch.c` | semaphore counts; locks and condition variables are declared but **do nothing** | `P`, `V`, `lock_*`, `cv_*` | devices, file systems |
| Small file system, `fs/sfs` | superblock, free map and its dirty flag, the table of vnodes with their copy of the inode; the disk | mount, unmount, sync; on a file: create, lookup, read, write, truncate, link, remove, rename, reclaim | VFS above, the disk below |
| VFS layer, `vfs` | `knowndevs`, `kd_fs`, the counts in the vnodes, `p_cwd`, `bootfs_vnode`, `vfs_biglock` | lookup of a path, `vfs_open` and the other path operations, mount, unmount, `vfs_chdir`, `vfs_setbootfs`, sync | SFS, emufs, devices |
| Emulator device and emufs, `dev/lamebus/emu.c` | one buffer `e_iobuf`, device registers, `e_lock`, `e_sem`, table of vnodes | `emu_doread`, `emu_write`, open, close, `emu_irq` | every file access, hence swap and loader |
| Disk, bus, timer, `dev/lamebus` | registers, pending interrupt | `lhd_io`, `lhd_irq`, `lamebus_interrupt` | SFS, semaphores, threads |
| Console, `dev/generic/console.c`, `dev/lamebus/lser.c`, `lib/kprintf.c` | ring of typed characters, two semaphores, `ls_wbusy` under `ls_lock`, `delayed_outbuf`, `kprintf_spinlock` | `putch`, `getch`, `kprintf`, `con_input`, `con_start`, `lser_write`, `lser_writepolled`, `lser_irq` | everybody prints, with interrupts on or off |
| Processes, `proc/proc.c`, `syscall/exit.c` | `p_addrspace`, `p_cwd`, `p_numthreads` | create, add and remove threads, `sys__exit` | address spaces, threads, VFS |
| Traps and system calls, `arch/mips/locore/trap.c`, `arch/mips/syscall/syscall.c`, `syscall/std_io.c` | - | `mips_trap`, `kill_curthread`, `syscall`, read and write on the console | `vm_fault` |
| Menu, boot, shutdown, `main/` | argument strings of the command line | `boot`, `shutdown`, `common_prog`, `cmd_mount`, `cmd_unmount`, `cmd_chdir`, `cmd_bootfs`, `cmd_sync`, `cmd_quit` | everything |
| semfs, remaining devices, in-kernel tests, library | - | as in stock OS/161 | not used by the paging work |

What is hard in this code:

* `vm_fault` runs with interrupts enabled and **no lock around it**. Only single table
  operations are protected (`cm_lock`, `sw_lock`, `splhigh`). The timer may give the processor
  to another process between any two of them, and waiting for the device always does.
* The kernel reads and writes the page it is bringing in or throwing out **by its user
  address**: `bzero`, `emu_doread` and `emu_write` can lose the TLB entry they rely on and
  enter `vm_fault` a second time, in the middle of the first.
* Where a page is, is recorded four times (page table, coremap, swap table, TLB), under
  different locks, and updated one after the other.
* The TLB has no address space identifiers; it is kept right by flushing it whenever
  `thread_switch` returns in a thread that has an address space, which includes coming back to
  the same thread.
* `lock_acquire` and `lock_release` are empty functions. The emulator's buffer is shared, and
  `vfs_biglock`, on which VFS and file systems rely for their tables, excludes nobody: whoever
  sleeps on the disk or in the emulator device inside a VFS call is overtaken by others, also
  in the middle of giving a vnode back.
* VFS keeps pointers that it does not count: `kd_fs` while `FSOP_GETROOT` sleeps,
  `bootfs_vnode` while a lookup reads it three times.
* The heap lets go of its spinlock in the middle of an allocation and in the middle of freeing
  a page.
* An operation of SFS changes several blocks, each transfer of which may fail, and each
  failure has its own way out; a rename that fails half way undoes itself, which may fail too.
* `putch` is called with interrupts off, in handlers, and with spinlocks held; it then drives
  by polling the same device that other threads drive by interrupts.
* The FIFO order is held in a 32-bit clock that wraps; `cm_evict` looks only at frames whose
  timestamp is smaller than the clock.
* The offsets and lengths of the pieces of a segment are computed from its size, with special
  cases for the first page, the last page and segments shorter than a page.

What makes each component right:

* *Coremap*: kernel allocations are intact until they are freed as a whole; no page has two
  frames; user frames are tagged, kernel and free frames are out of reach of eviction; a
  victim is found whenever one exists, and it is the oldest.
* *Heap*: blocks do not overlap, every page of blocks is in the lists its blocks need, and
  every frame that the heap has is accounted for, also after an allocation that failed half
  way.
* *Page faults*: the four records agree whenever no process is between two updates; a frame in
  transit is in one pair of hands; a fault met during a fault only reloads the TLB; a fault
  ends.
* *Swap*: a page that is swapped out has one slot, any other page none; a slot is read before
  it is used again; the content comes back.
* *TLB*: in user mode it maps only pages of the running process, once each, to their frames,
  fully loaded, with the permission of the segment.
* *Address spaces*: a process that has exited leaves nothing behind.
* *Loader*: every byte is where the program header puts it and the rest is zero, in whatever
  order pages are touched.
* *Threads*: a thread is in one list or on one processor, never two; its stack is in use by
  one processor at most, also while that processor idles on it; no wake-up is lost, no
  processor sleeps beside a thread it should run, and every thread in a run queue runs.
* *SFS*: a block is free or belongs to one file; link counts and references are what they
  count; what is not marked dirty is on disk; a call that fails leaves names and files as they
  were.
* *VFS, processes, menu*: every reference is counted and given back once; what somebody holds
  a reference to stays mounted; shutdown leaves nothing mounted that could have been
  unmounted.
* *Console*: everything printed appears once and in order, and everything typed is read once
  and in order unless the ring was full; nobody waits for an interrupt that cannot come.
* *As a whole*: every process has a memory of its own.

`PROJECT.json` lists each hazard at its line, with the properties that watch it.

## 2 Modules and what they model

```
Coremap --> CoremapFifo --> Heap --> MCHeap
  ^ CMSpec (refinement)
  |
Paging --> VMStats --> MCPaging      Swap, TLB: operators used by Paging
  |
PagingData == PrivateMemory ==> AbsMem

Sfs --> MCSfs == FilesSpec ==> AbsFiles

ElfPage      Threads --> MCThreads      Console --> MCConsole      Vfs --> MCVfs

Proofs (TLAPS):
CoremapFifo --> CoremapProofs --> PagingProofs --> PagingLayersProofs
                      |                ^                 ^
                      v              Paging      VMStats, PagingData
Heap ----------> HeapProofs      ElfPage --> ElfPageProofs
Threads --> ThreadsProofs      Console --> ConsoleProofs      Vfs --> VfsProofs
```

`-->` is EXTENDS from left to right and top to bottom, `==>` is a refinement.

**Coremap.** `coremap` and `timestamp` are the variables of `coremap.c`; `Frames` are the
indices of the array. Every function of the file changes the coremap in one critical section,
hence each is one action of the same name. First fit is `FirstFit` and `FirstFree`; the scan
of `cm_evict` is `Oldest` over `Candidates`. `Inc` wraps at `UINT_MAX`. `frame_kfree` leaves
the field `as` alone and `frame_kalloc` the field `npages` of interior frames, as the code
does. `CMNext` adds what callers promise: it is the abstract specification of the coremap, and
`Paging` and `Heap` are shown to be such callers.

**CoremapFifo.** The coremap with a history variable that keeps the order in which frames were
filled, to state what "FIFO" means without timestamps.

**Heap.** `kmalloc` and `kfree` on the coremap. `sizebases` and `allbase` are the two lists of
heap pages, `kheaproots` and `pagerefs` the pages of descriptors, each descriptor with the
free list of its page. A call is cut where `kmalloc_spinlock` is released, that is around
`alloc_kpages` and `free_kpages`: `kmalloc` looks for a free block or goes for a page of
blocks, with the page in hand it goes for a descriptor, for which it may need another page
(`kpc` says where a thread is). `kfree` finds out from the address alone whether it has a
block or whole pages. Address spaces fill, evict and free user pages at the same time, so that
any call of the coremap may fail. The initial state is that of `ram_stealmem` and
`cm_bootstrap`, with the frames that the coremap sets aside for itself.

**Swap** and **TLB.** The swap table and the TLB as operators on `swapspace`, `tlb` and
`next_victim`: the search and update of `swap_in` (`swap_in_slot`) and `swap_out`
(`swap_out_slot`), `swap_asfree`; `tlbR`, `tlbW` and the flush of `as_activate`.

**Paging.** The composition, with processes. `pc[p]` says where process `p` is in the kernel,
`loc[p]` holds the locals of `vm_fault` and what it calls, `pt[p][va]` is the page table
entry, `cur` the process on the processor. The path of a page fault:

```
user -> alloc --FrameAlloc--------------------------------------------+
          \-> evict -> out_slot -> out_copy -> out_write -> remap -> tlbR
                                                                      |
   +---- swapped out: in_slot -> in_read -> in_copy ------------------+
   |                                                                  |
   |     otherwise:   bzero -> [elf_read -> elf_copy] ----------------+
   v
 clean -> tlbW -> user                  exit: user -> exit -> none
```

The steps are cut where the code enters or leaves a spinlock, waits for the device or touches
user memory: `Evict`, `SwapOutSlot`, `SwapOutCopy`, `SwapOutWrite`, `Remap`, `TlbReplace` are
the six calls of `handle_victim_and_swapout` and `swap_out` in order. What the code does to a
page table is merged with the neighbouring step, because only the owner reads it.
`NestedFault` is the second entry into `vm_fault`. `thread_switch` is enabled at every point,
not just while waiting, and flushes the TLB if the thread that gets the processor has an
address space. `alloc_kpages` and `free_kpages` are called by the rest of the kernel at any
time. Panics stop the system and are kept apart by `panicked`.

**VMStats.** The counters of `vm_stats.c`, incremented by the steps of `Paging` where the code
calls `vmstats_inc`, and the three checks of `vmstats_print`. `replaced` and `refused` are
history variables: how often `tlbR` counted, and how many faults were counted and then found
to be outside of every segment, which ends in a panic or, in `copyout`, with an error for the
process (`UserSegv`, `CopyoutFails`). Two calls of `vmstats_inc` that follow each other are
one step. The counters only grow; TLC tells states apart by how the checks stand (`Standing`),
on which alone the property depends.

**PagingData.** The same steps with contents: `mem`, `swapfile`, the device's buffer
`e_iobuf`, and the last access of each process, with what it loaded or stored. A page is moved
as a whole. `AbsMem` is the abstract specification: private memory per process, nothing else.
Because a store is visible in `last`, a page whose content changes by itself is not a store,
and breaks the refinement. `PagesAtRestKept` is what is left of that promise when transfers of
several processes overlap: a page that is not itself on its way out of memory or into it keeps
its content.

**ElfPage.** The byte geometry of `as_define_region`, `compute_memsz`, `compute_offset` and
`load_page_from_elf`, for one segment whose pages are touched in any order, with program
headers of all sizes and offsets up to a bound. A byte of memory is named by its index in the
file.

**Threads.** `thread_switch` and what stands around it, on `NCPU` processors, with one
semaphore to sleep on: variables are the fields of `struct cpu` and `struct thread` of the
same names, the wait channel, the count and the spinlock of the semaphore. A critical section
that takes no second spinlock is one step, because nobody can look into it; where a second one
is taken while the first is held (`wchan_sleep` into `thread_switch`, `wchan_wakeone` into
`thread_make_runnable`, a victim's new run queue), or the next thread releases it
(`runqueue_lock` from `LeaveProcessor` to `Back`), the holder is recorded and others wait, as
a step that is not enabled. Interrupts are off in all of these, so `Interruptible` names the
places where they are on. `pc[t]` is the place in the thread's own code and `irq[c]` what the
processor does on top of it: the handler of the timer with `thread_consider_migration`, loop
by loop, or a `V`, by the thread itself or by a device.

```
run -> fork -> run          run -> P -> sleep -+            exit -+
 \--hardclock--> yield -------------------------+-> pick <--------+
                                                  |  ^ \-> idle -> unidle
 run, P <- back <----- (chosen by a processor) <--+  +--------------/
```

`c_curthread` of an idle processor is still the thread that left, asleep, in the run queue
again, or a zombie: the hazards here come from that. The fields of a destroyed thread are
reset, since its memory is free. A new thread is an unused member of `Threads`; it goes on at
"back", which is `thread_startup`. The counters of `hardclock` are left out: the timer may run
`thread_consider_migration` at any tick.

**Sfs.** A call of the file system makes many transfers, any of which may fail, and every
failure takes its own way out. A function of the code is therefore an operator on the file
system `s` that returns the set of its *outcomes*, each with the error, the file system it
leaves and the value it hands back; `Then` goes on with those that succeeded, as the code does
behind `if (result) return result`, and `Finally` with all. The record `sfs` holds the disk
block by block (inode, directory, pointers or data), the free map and its dirty flag, and the
vnodes in memory with their inode, its dirty flag and count. The actions are the calls that
programs make through `vfspath.c`: open with creation and truncation, read through a vnode,
write, truncate, link, remove, rename, close, sync, mount and unmount. `sfs_rwblock` retries
as the code does, with a `uio` that a failed write has used up. `AbsFiles` is the abstract
specification: names that lead to files, files that keep what was written for as long as they
have a name or are open. `MCSfs` maps the one to the other; it keeps the mapped state in the
history variable `seen`, so that TLC computes it once per state, and tells states apart by
`Live`, which leaves out what can no longer be read from the disk.

**Vfs.** Names and references, with the threads that hold them: the menu and the programs it
starts. An action is what a thread does from one point where it may sleep (on the disk, on
emu0, on the console) to the next, because `vfs_biglock` does not keep others out in between.
A vnode is `<<device, what, which>>`. On a disk the last part is the thread that loaded it,
because two threads that look for the same inode at once make a vnode each. A program on emu0
goes by the handle under which the device has opened it: `EmuLookup` is `emufs_lookup` with
`emufs_loadvnode`, which looks for the handle among the vnodes there are. Giving back the last
reference to such a vnode (`Drop`) leads to `emufs_reclaim`, which waits for the device
(`EmuClose`) before it takes the vnode out of memory (`Reclaimed`); both may be overtaken, and
`emu_close` may fail, which leaves the vnode with a reference that nobody holds (`unclosed`)
and its file open in the device (`handles`). On a disk giving a vnode back is one step and
cannot fail, because nothing in this module makes an inode dirty or removes a name; `Sfs` has
the calls that do. `th[t].hand` is a vnode whose reference the thread owns; `fs` and `peek`
are pointers that the code reads and does not count, and become `GONE` when what they point to
is freed. `power` says how the machine ended: turned off, or broken by the use of such a
pointer or a failed `KASSERT`; nothing happens after either. `RunProgram`, `Exit`, `Reboot`
follow `runprogram.c`, `exit.c` and `main.c`; a program that is killed ends in the same way as
one that exits.

```
prompt -> slash -> increfed -> lookup        (path of the boot file system)
       -> getroot -> getfile                 (path of a device)
       -> opened -> user -> dead             (runprogram)
user, lookup, opened -> closing -> closed    (emufs_reclaim) -> dead or prompt
prompt -> fork, mount, unmount -> print, sync -> prompt
prompt, user -> shutdown -> sync -> clearcwd -> unmountall -> tell -> drop -> off
```

**Console.** Everything a character does between `putch` and the screen, and between the
keyboard and `getch`. Actors are threads on several processors and `IRQ`, the handlers that
print. `out[a]` counts the characters an actor has printed; a character is the n-th of its
actor. `tx` is the character the device is sending, `wirq` and `rirq` its interrupt registers;
`isr` is `lser_irq` behind its critical section, with `con_start` and `con_input`. Before
`config_con` there is no console and characters go to `delayed_outbuf`, which it then flushes.
The size of that buffer, which `putch_delayed` checks, and the ways out of `config_con`
without memory or for a second device, which change nothing, are left out.

**MCHeap, MCPaging, MCThreads, MCVfs, MCConsole** give constants that a configuration cannot
write, and symmetry sets. Where symmetry is used no property distinguishes one address space,
thread or handle from another; it is not used with liveness or in `paging_data`.

Operators with an underscore and a comment "Mutant" are not part of the model: each is a
plausible mistake in the definition below it. Substituted for that definition, it makes the
named property fail, which shows that the property can see the mistake.

## 3 Runs

States are distinct states as TLC counts them, up to symmetry where there is any.

| Run | Configuration | States | Shows |
|---|---|---|---|
| `heap` | 6 frames, of which the coremap takes 2; 2 threads in kmalloc, 2 block sizes, 1 page of 2 descriptors; 2 address spaces of 2 pages; history variable | 482 000 | blocks, heap pages and descriptors agree, no frame is lost; the coremap stays well formed under both users of it; eviction finds a victim and is FIFO |
| `paging` | 2 processes with a text and a stack page, 2 usable frames, 2 slots, TLB of 1, 1-page kernel allocations | 435 186 | consistency of the four records, isolation through the TLB, nested faults, exit; the statistics add up, but for what `tlbR` counts; **Paging implements CMSpec** |
| `paging_slot_race` | as `paging` | violation | a slot is given away before it is read |
| `paging_data` | 1 process, 3 pages, 2 usable frames, 3 slots, TLB of 2, kernel allocations of up to 2 | 364 029 | **PagingData implements AbsMem**, with probing, invalid entries and round robin of `tlbW`; every fault and exit ends |
| `paging_buffer_race` | 2 processes | violation | the shared device buffer mixes pages of processes |
| `elf_page` | pages of 4 bytes, segments of up to 11 | 20 572 | bytes of the file in place, loading touches only the faulting page |
| `sfs` | 7 blocks (4 for files), 2 names, 1 direct block and 1 indirect one with 2, blocks of 2 bytes; reads and allocations may fail | 39 500 | blocks, links and references are counted exactly, no panic; **Sfs implements AbsFiles** |
| `sfs_lost_write` | as `sfs`, with writes that fail | violation | a failed write is reported as done |
| `threads` | 2 processors, 4 threads, migration, `sem_count` up to 1 | 850 501 | one processor per thread, one list per thread, no lost wake-up, no stack freed in use, no missed IPI |
| `threads_live` | 2 processors, 3 threads, no migration | 81 744 | every thread in a run queue runs |
| `console` | 2 threads, one of which reads, and a printing handler; ring of 3; 3 characters typed | 193 781 | nothing printed or typed is lost, repeated or reordered; everything printed appears, everything typed is read |
| `vfs` | 2 disks, emu0 with 2 handles for its files, the menu and 1 program | 789 126 | references are counted, also while files are closed slowly or not at all; what is held stays mounted; what shutdown leaves mounted and why |

**Bounds.** `TSBound` limits the number of allocations in a run; it is a guard of the three
actions that advance the clock. `KMaxPages`, `MaxSize` and `FileSize` limit the length of
kernel allocations, of segments and of the file. Two processes are enough for the races,
because every property relates a process to one that interferes with it. Two usable frames for
four pages force eviction and swapping, with room for a kernel allocation to take a frame away
so that a process may have no frame left (panic). Two slots for four pages make the swap file
run full. A TLB of one entry makes every nested access miss when a page is replaced; the run
`paging_data` has two entries for three pages, so that probing, free entries and round robin
are each needed. Pages of 4 bytes and segments of up to 11 bytes give one to four pages,
aligned and not, full and partial last pages. Four threads on two processors let each be busy
while one has two threads to send away and a third processor's worth of work is asleep or
exiting; with three, `Send` never happens. `MaxCount` keeps V from being called when the count
is 1: a V that finds more is like one that finds 1.

`MaxPointers` and `MaxPages` limit what is allocated from the heap at a time and in one call.
One page of two descriptors for four free frames makes the descriptors run out before the
memory and the memory before the descriptors; four-byte pages with blocks of one and two bytes
let a page hold several blocks and become empty in any order. In `sfs`, `MaxOpen` and
`MaxWrite` limit the references that callers hold and the length of a write; a file reaches
from the direct block into the indirect one, and four blocks for two files and their directory
make the disk run full between any two allocations of one call. `MaxTries` (10 in the code) is
2: the first failure, a retry, and giving up. In `console`, `MaxOut` and `MaxTyped` limit the
characters; a ring of 3 holds two, so the third is dropped if it comes early. In `vfs` the
menu and the program are the two threads that every race needs, one that is in the middle of a
lookup, an unmount or a reclaim and one that overtakes it; both can look up files, make vnodes
of the same inode, and shut down. Of two disks one can stop the loops over `knowndevs` or keep
a reference while the other is unmounted; of two handles one is free while the other is being
closed. Any number of programs is left to the proofs.

**What halts.** Deadlock is checked in `heap`, `paging`, `paging_data`, `threads`,
`threads_live`. In `Paging` a panic is followed by stuttering (`Halted`). It is not checked
where the system really stops: a program that has loaded all its pages and made its store
(`ElfPage`), a file system that has panicked or on which the bounds allow no call (`Sfs`), a
console with nothing left to print or type (`Console`), a machine that is turned off or broken
(`Vfs`).

**Fairness** (`Paging!Fairness`). The run queue is first in, first out and `hardclock` yields,
so every process gets the processor again and again: weak fairness of `thread_switch(p)`. A
process that has the processor again and again takes a step of its page fault or exit at some
time: strong fairness, since others take the processor away in between. After a nested fault,
the access that missed is made before the next timer interrupt at some time, because a time
slice is far longer than the reload: strong fairness of `Touch(p)`. Nothing is assumed of user
code: a process need not fault or exit. `FaultsEnd` excuses a fault that needs a timestamp
when the bound of the model is reached, and a kernel panic.

`Threads!Fairness`: a processor goes on with what it has begun (`Switching`, `Handling`), and
its timer ticks whenever interrupts are on often enough (`hardclock`). Strong fairness,
because the spinlock that a step waits for is free again and again, and interrupts are turned
on and off. Threads need not do anything. Migration is off in `threads_live`: in the model the
timer may migrate at every tick, and send a waiting thread back and forth for ever, which the
code, with 16 ticks between two migrations, does not. The run `threads` has migration on.

`Console!Fairness`: threads and handlers go on with what they have begun and the device
finishes a character and raises its interrupt, each under weak fairness, since nothing but
their own progress makes these steps possible or impossible. Nobody is assumed to print or to
type.

## 4 Proofs

Eight modules of proofs are checked by TLAPS, each for every value of the constants that the
named assumptions of its module allow; TLC evaluates these assumptions on every run. Each
module has the same plan: an inductive invariant in named parts, one lemma per action that
says that the action keeps it, a theorem per property. The invariants were checked by TLC on
the constants of the runs before they were proved.

`CoremapProofs` (from `CoremapAssumption`: the bootstrap keeps at least one frame; NULL and
KSEG0 are no user addresses).

* `CoremapWellFormed`: `CMSpec` implies always `CMTypeOK` and `FramesWellFormed`, which is the
  conjunction of `KernelRunsIntact`, `FreeIsBlank`, `UserFramesTagged` and `OneFramePerPage`.
  None of the four is inductive alone. The invariant `CMInv` is their conjunction with the
  facts about FIXED frames that runs depend on: `frame_kfree` may only release from the first
  frame of a run because interior frames have `npages = 0`, which holds because `FreeIsBlank`
  held when they were taken, which holds because `frame_kfree`, `cm_asfree` and `Blank` clear
  it. The lemma `RunsKept` states when a step that does not touch FIXED frames keeps all runs;
  each action has a lemma of its own (`KallocInv`, `KfreeInv`, `FillInv`, `EvictInv`,
  `CleanInv`, `AsfreeInv`).
* `EvictionSucceeds`: as long as the clock has not wrapped (`NoWrap`), a CLEAN frame of an
  address space is always a candidate for eviction. `ClockInv` adds to `CMInv` that the clock
  has passed the timestamp of every frame that an address space owns, LOADING ones included,
  which are CLEAN next.
* `ReplacementIsFifo`: under `NoWrap`, `FifoSpec` implies that timestamps follow the order of
  filling and that every eviction takes the oldest frame. `FifoInv` joins the two invariants
  with `TimestampsFollowOrder`; the history variable is shown to restrict nothing
  (`FifoStepIsCMStep`).

The hypothesis `NoWrap` is needed: a frame stamped before the wrap has a greater timestamp
than the clock, so that `cm_evict` passes it over (`coremap.c:237`), and without a clean frame
stamped since it panics although it has one. These proofs rest on the callers keeping the
protocol in `CMNext`. That `vm.c` and `addrspace.c` do is proved next
(`PagingImplementsCoremap`), that `kmalloc.c` does with `HeapImplementsFifo`.

`PagingProofs` (from the above and `PagingAssumption`: NULL is no frame, the TLB has an entry,
the segments are made of pages). `PInv` joins `TypeOK`, `CMInv`, `PagesRight`,
`SwapSlotsMatch` and `TlbRight`.

* `PageTablesAgree` (`PageTablesMatchCoremap`): it is not inductive, since it says nothing of
  the locals of `vm_fault` on which the next update depends. `PagesRight` says for each place
  of `vm_fault` what `loc[p]` has: while a victim is being given up, its frame is out of the
  coremap and in `loc[p].frame` of one process (`HandsApart`); while a page is being filled,
  its frame is LOADING and belongs to it; what kind of fault it is agrees with the page table
  (`LocalsRight`, `TableRight`, `FramesRight`).
* `SwapTableExact` (`SwapSlotsMatch`), from the same facts: a process asks for a slot once for
  a page that is leaving and gives back the one of the page that it is filling.
* `TlbHoldsOwnPages` (`TlbIsolation`): the property speaks of user mode; `TlbRight` says in
  addition what the TLB may have of the running process inside a fault (the victim until
  `tlbR`, the page being filled with write permission until `tlbW`), and that of a process
  that is coming back nothing is in it, because `thread_switch` flushed it.
* `KernelTouchesMappedPages` (`KernelAccessesSafe`): what the guard of `Bzero`, `ElfCopy`,
  `SwapInCopy` and `SwapOutCopy` might be thought to assume.
* `PagingImplementsCoremap`: `Spec => CMSpec`, step by step, under `PInv`. It carries the
  theorems about the coremap over to demand paging (`PagingKeepsCoremap`).
* `PagingTypes`.

`PagingLayersProofs` has the two modules that add variables to `Paging`.

* `StatisticsAddUp` (`ChecksAddUp`), from `PInv` with the finiteness of the set of faults
  under way (no bound on the number of processes is assumed; faults that `vm_fault` refuses,
  with or without a panic, are in it), and `StatsImplementsPaging`: counting changes nothing,
  so all of the above holds of the system that counts.
* `OneProcessKeepsItsMemory`: for one process `DataSpec` implies `PrivateMemory`, that is the
  specification of `AbsMem`, which is what the run `paging_data` checks, for any number of
  pages, frames, slots and TLB entries. The hypothesis is `~ElfErrors`: no error in reading
  the executable (section 6). The mapping takes for the memory of a process the content of
  each page wherever it is: in its frame, in its slot, in the buffer while it is being brought
  back, or still in the executable. `ContentIsLocated` derives from `PInv` which of these it
  is. `DataInv` adds to `PInv` what `vm_fault` may rely on at each place (`DataRight`): that
  the buffer has the page that is leaving between `SwapOutCopy` and `SwapOutWrite`, the slot
  has it before the page table says so, the buffer has the page of the executable that is
  being loaded. Each action then has a lemma that it moves one page and keeps every content.
  The lemmas are stated for several processes under `OneTransfer` (no two are in a transfer at
  once), which for one process holds by itself and for several is not what the code
  guarantees; no theorem about several processes has it as a hypothesis.
* `PagesAtRestStay` (`PagesAtRestKept`): for any number of processes, with no condition on
  their transfers and with errors in reading the executable, a page that is not itself being
  moved keeps its content until its process stores to it, and loads return it. A step of one
  process leaves such pages of the others alone because slots are unique (`SwapSlotsMatch`),
  frames that are being filled or given up belong to one process (`HandsApart`), and what the
  TLB translates for a store is the frame of the page that is stored to (`TranslatesToOwn`,
  from `TlbRight`). With items 1 and 2 of section 5 this divides the question in two: a page
  that is being moved can be spoiled (`paging_slot_race`, `paging_buffer_race`), and no other
  can. No run has this property; it rests on the proof.

`HeapProofs` (from `HeapAssumption`: NULL is no frame, each block size divides the page, the
coremap sets aside as many frames for itself as `cm_bootstrap` does and `SWAP_TEST` is off).
All theorems have the hypothesis `LargeCoremap`, that the coremap is too large for a block of
a heap page; without it a frame is given out twice from the start (item 8 of section 5).

* `HeapTypesKept`, `HeapStaysConsistent` (`HeapConsistent`), `NoKernelFrameLost`
  (`KernelFramesAccounted`).
* `HeapImplementsFifo`: `HeapSpec => FifoSpec`. The heap is a caller that keeps the protocol
  of the coremap: what it passes to `free_kpages` is the first frame of an allocation that is
  not freed yet. Hence `HeapKeepsFrames` (`FramesWellFormed`) and, under `NoWrap`,
  `HeapKeepsReplacement` (`EvictFindsVictim` and `EvictsOldestFirst`).

`HeapInv` joins `CMInv` with seven parts, of which none is inductive without others.
`HeapTypes` is `HeapTypeOK` in a form that the provers can use. `ListsRight`: the list of a
block size has the pages of that size in the list of all, once each, under a descriptor that
is in use. `BlocksRight`: the free list of a page and the blocks that callers hold are the
blocks of the page, and no page in the lists is all free. `ThreadsRight`: a thread that has
released `kmalloc_spinlock` has a descriptor that is in no list and in no other thread's
hands. `HandsRight`: the same for frames. `UsesRight`: the frames that the coremap says begin
an allocation are those of heap pages, descriptors, whole pages given out and pages in
threads' hands, without overlap; that `kfree` frees the frame of a page when it gets the last
block back is right because of it. `BootRight`: the frames of the coremap itself are never
freed. That two allocations of the coremap do not overlap comes from `KernelRunsIntact`. No
induction along the free lists is needed, because they are sequences whose members
`BlocksRight` describes as a set without repetition (`Inj`, `Elems`).

`ElfPageProofs` (from `ElfAssumption`; any page size, length of the file and segment).
`ExecutableLoaded` (`FileBytesInPlace`) holds of all segments, and `OnlyFaultingPageLoaded`
(`LoadsOnlyFaultingPage`) under `~SmallCrossing`, without which it is false (item 6 of section
5): the copy into the first page of such a segment runs on into the second, with the right
bytes of the file, but over what the program stored there. The work is arithmetic: where
`compute_offset` and `compute_memsz` put the first, a middle and the last page of a segment.
`ElfInv` says of every byte of a page in memory, but the one that the program stored to, that
it is the byte of the file that the header names, or zero behind the end of the file.

`ThreadsProofs` (from `ThreadsAssumption`: finitely many threads, at least one for each
processor, NULL is neither a thread nor a processor). `ThreadsInv`, with `GoneRight`, implies
all five properties of the run `threads`: `ThreadsTypesKept`, `OneProcessor`, `OneList`,
`NoWakeupIsLost`, `IdleIsTheOneTold`. None is inductive. Its parts are:

* `ListsRight`, `ListsDistinct`: who is in a list, in which state, on which processor;
  `Place(t)` names the one list a thread can be in, from which `ThreadsInOneList` follows.
* `CurrentRight`: the current thread of a processor is in one of its lists only if the
  processor idles on its stack; with interrupts off nobody but the thread itself moves it; a
  thread on the way into `wchan_sleep` holds the semaphore's spinlock and has seen the count
  0, on which `NoLostWakeup` rests.
* `WaitingRight`: a thread that is nobody's current thread stands at the end of
  `thread_switch` with its context saved, and one that is ready is in a list. A thread that
  `exorcise` destroys is therefore on nobody's stack, though its `KASSERT` sees only its own
  processor.
* `IrqRight`: `to_send` of `thread_consider_migration` never exceeds what is in the run queue
  when `Take` cuts it off, although the counts were made with the locks released: the run
  queue of the processor that counts can only grow meanwhile.
* `ChildRight`: a thread that is being created is known to its creator alone.

That `NoLostWakeup` is kept by a step is `NobodyForgotten`: who was on the way to the count
still is. The lemmas `AddTail`, `RemoveHead`, `CutTail`, `PutBack` say what the list
operations of `threadlist.c` do to the set and the order of the members; `ListLength`, that a
list without repetition is not longer than there are threads.

`ConsoleProofs` (from `ConsoleAssumption`: finitely many threads, a ring of at least two
slots). `ConInv` gives `WritePermissionIsUnique` (`ClearToWrite`), `OutputIsExact`
(`OutputExact`) and `ConsoleTypes`. `ClearToWrite` is a sum over the places where the one
permission can be; it is inductive only with `DeviceRight`, which ties the write-done
interrupt to whom it is for: while somebody polls, `irqpending` says whether the interrupt
belongs to `lser_write`. `PlacesRight` says who holds which spinlock, `RingRight` counts the
characters in the ring against `cs_rsem`, `BootRight` covers the time before the console is
up. These theorems allow any number of readers.

`InputIsExact` (`InputExact`) is about one reader (`OneReader`), as `getch_intr` takes no lock
and two threads in it may copy the same character. Its invariant `InputInv` adds to `ConInv`
the sequence `AllInput`: what was read, then the ring (without its first character once the
reader has copied that), the handler and the device. Only `Type` puts a character in it, at
its end and greater than all before (`AddLast`); only the drop in `con_input` takes one out
(`TakeOut`); every other step moves a character from one part to the next (`PutAppends`,
`AdvanceDrops`, `HeadMoves`). No recursion and no induction over the input is needed, since
the property compares the members and the order of the sequence with the numbers typed.

`VfsProofs` (from `VfsAssumption`: the devices are distinct, the menu is no program, there are
finitely many programs, NONE and GONE are neither devices nor vnodes). `VfsInv` gives
`VfsTypesKept`, `ReferencesAreExact` (`RefsHeld`), `HeldIsMounted` (`HeldStaysMounted`) and
the action property `ShutdownDropsItsOwn` (`ShutdownLeavesBusy`). `RefsHeld` alone is not
inductive: that `VOP_DECREF` takes back what `VOP_INCREF` gave needs to know what each thread
can have in its hands at its place (`ThreadsRight`), that what it looks at without counting
was not freed, or it was told so (`InMountedFs`), that nobody sets the boot file system again
while the menu shuts down (`BootRight`), and that only vnodes on emu0 are left behind by a
failed `emu_close` (`UnclosedRight`). A vnode that is being reclaimed is in the hand of the
thread that reclaims it; that its count is still 1 when `vnode_cleanup` looks is not claimed,
because it is false (item 4 of section 5).

## 5 Disagreements found

With a run that shows them:

1. `swap_in` empties the slot under `sw_lock` and reads it afterwards without a lock
   (`vm/swap.c:46` and `:65`). Another process can be given the slot and write to it in
   between (`paging_slot_race`).
2. `e_lock` excludes nobody (`thread/synch.c:174`), while `synch.h:86` says "Only one thread
   can hold the lock at the same time". Transfers of two processes share `e_iobuf`; a page can
   be filled with the data of the other process (`paging_buffer_race`). With two processes
   `PrivateMemory` fails for this reason and that of item 1, and `paging_data` has one. What
   holds for several is `PagesAtRestKept` (section 4).
3. `sfs_rwblock` retries a failed write with the `uio` that the failed attempt has used up
   (`fs/sfs/sfs_io.c:84`), and takes the empty transfer for success (`sfs_lost_write`). This
   is why `sfs` lets reads and allocations fail, and not writes.

Seen while modelling, and part of the models or left out as said; no run claims anything about
them:

4. `emufs_reclaim` says "Since we hold e_lock and are the last ref, nobody can increment the
   refcount" (`emu.c:497`), but `e_lock` excludes nobody, and it sleeps in `emu_close` with
   the vnode still in `ef_vnodes`. When the device has closed the file, another thread's open
   can be given the same handle before the reclaimer runs again; `emufs_loadvnode` finds the
   vnode and counts it (`emu.c:1156-1163`), and `vnode_cleanup` fails its `KASSERT`
   (`vnode.c:64`). `Vfs` reaches this, as `power = "reclaim"`.
5. `load_elf` hands `p_memsz` to `as_define_region` and `vm_fault` takes it for the size in
   the file; `loadelf.c:70` says the rest of a segment is zero-filled. (`ElfPage` with `Bss`
   has the defect; `FileBytesInPlace` speaks of the bytes that are in the file.)
6. A segment shorter than a page that straddles a page boundary overwrites its second page
   whenever its first is loaded; `loadelf.c:163` says that only the faulting page is loaded.
   (`SmallCrossing` of `ElfPage` turns such segments on; with it `LoadsOnlyFaultingPage`
   fails.)
7. Replacement is FIFO (`coremap.h:84`) only until the 32-bit clock wraps.
8. `cm_bootstrap` sets aside `space/PAGE_SIZE + 1` frames for itself (`coremap.c:45`). That is
   one too many when the coremap fills its frames exactly, and one too few when it is small
   enough to be a block of a heap page, because the heap then takes a page of descriptors as
   well: that frame is handed out a second time. `BootHeap` has all three cases; the instance
   checked is the usual one.
9. When memory for a page of descriptors cannot be had, `allocpageref` keeps the descriptor
   marked in use (`kmalloc.c:276`), and it is never used again. `HeapConsistent` takes it in.
10. `sfs_itrunc` keeps the block just behind the new end when that block is reached through
    the indirect block (`sfs_bmap.c:266` compares with `<` where the direct blocks use `>=`);
    nor does it clear the end of a block that it keeps, so that a file that grows again shows
    old bytes there. `Sfs!Contents` has both; the run truncates to 0 only.
11. A vnode whose reclaim fails (`sfs_inode.c:100`) keeps the reference that nobody holds, and
    its disk cannot be unmounted any more. The same goes for a vnode on emu0 whose `emu_close`
    fails more than ten times (`emu.c:503-508`): it stays in memory, with its file open in the
    device, until the machine is turned off. `RefsHeld` counts these references in `unclosed`.
12. A write that fails half way has extended the size of the file over bytes that were not
    written.
13. Two threads that read the console may both take the same character: the ring is read at
    `console.c:146` and advanced in the next statement, with `con_userlock_read` doing
    nothing. `console` has one reader.
14. `lser_write` says of its panic that it "won't recurse" (`lser.c:108-110`), but it holds
    `ls_lock`, which `lser_writepolled` takes first.
15. An interrupt of the serial port between `config_lser` and `config_con` calls whatever
    `ls_start` holds: `attach_lser_to_lamebus` does not clear the memory it gets from kmalloc,
    and `lser_irq` compares with NULL (`lser.c:79`).
16. `emufs_loadvnode` returns ENOMEM without giving `vfs_biglock` back (`emu.c:1172`), which
    matters only when locks work.
17. `vfs_setbootfs` refuses every name with a colon, where its comment allows one at the end
    (`vfslookup.c:84`).
18. `vfs_biglock_depth` is counted up and down by threads that nothing excludes
    (`vfslist.c:139`).
19. `sfs_loadvnode` "or dig up one that's already resident" (`sfs_inode.c:147`): it sleeps
    between looking and adding, so that one file may have two vnodes.
20. `vfs_unmount` leaves `kd_fs` set while it prints that the file system is gone
    (`vfslist.c:648`); `bootfs_vnode` is read three times in one lookup
    (`vfslookup.c:191-195`). `Vfs` reaches the states that come of this, in `power`.
21. `vfs_mount` does not compare the name of the volume that it mounts with the names there
    are (`vfslist.c:550`).
22. The first check that `vmstats_print` makes (`vm_stats.c:76`) fails after an eviction whose
    victim was in the TLB: `tlbR` and `tlbW` both count the fault (`tlb.c:43` and `:67`). The
    first two checks also fail once a fault outside of every segment has been refused, because
    it is counted first (`vm.c:308` and `:324`): that is a panic, unless it happens in the
    `copyout` of `__time`, which returns EFAULT to a process that goes on (`trap.c:300`).
    `ChecksAddUp` says that there is no third reason when no fault is in progress, and by how
    much these two put the checks off.
23. `p_cwd` of a process that has exited is never given back, and a program that calls reboot
    keeps its own executable open: the disk is left mounted. `ShutdownLeavesBusy` says that
    these are the only reasons.

## 6 What is left out, or only checked

* `Paging` has one processor. `vm_tlbshootdown` panics, so the VM system supports no other
  set-up.
* One thread per process, one program per process: there is no `fork` or `execv` in this
  kernel.
* Only checked by TLC, on the instances above: `Sfs` and its refinement of `AbsFiles`, and
  liveness. Liveness and `ENABLED` are beyond TLAPS. `sfs_bmap` and the directory searches of
  `Sfs` are folds over sets and sequences: what they are for every input needs induction over
  data, which the installed provers cannot do.
* Errors of the device are panics in `swap.c`, as in the code; a failed read of the executable
  is ignored by `vm_fault` (`ElfReadError`) and leaves a page of zeros. `PagingData` takes it
  in when `ElfErrors` is TRUE; then `PrivateMemory` does not hold, and nothing in the
  repository promises otherwise, so no run claims it.
* The guard of `SwapOutCopy`, `SwapInCopy`, `Bzero` and `ElfCopy` that the access is not
  refused is not an assumption: `KernelStoresAllowed` and `NestedFaultResident` show that it
  is not.
* Programming the registers of the emulator device and the transfer are one step. In the code
  another process may overwrite the registers before the device starts, which can only add to
  item 2 of section 5.
* The clock of the coremap does not wrap in any run; what happens then is described in section
  4. `EvictFindsVictim` is about an address space that has a clean frame: one that has none
     panics in `cm_evict`, which `Paging` has as `EvictPanics` and no property excludes.
* `LoadsOnlyFaultingPage` is checked and proved without segments that are shorter than a page
  and straddle a page boundary, for which it is false (item 6 of section 5).
* `Threads` has one semaphore for all wait channels. `wchan_wakeall` (used by `clocksleep`),
  the interprocessor interrupts other than `IPI_UNIDLE`, failures of `thread_fork` for lack of
  memory, the start of processors in `cpu_hatch` and `thread_shutdown` are left out, and so is
  `t_proc`. No property says that a thread that sleeps is woken: that is up to those who call
  V.
* `Sfs` makes one call at a time. The file system relies on `vfs_biglock` for more; with two
  calls at once its static buffers and the two vnodes of item 19 break it, and no property of
  the kind checked here could hold. There is no crash: nothing in this kernel recovers a file
  system, and there is no program that checks one in the repository.
* `Vfs` has no names of volumes (a disk is known by its device), no directories below the root
  of emu0, no volume on the raw device of a swap disk (`vfs_swapon` and `vfs_swapoff` have no
  callers) and not the vnode of the swap file. Of emu0 it has the root and programs in it.
  Each operation of the device gets its own answer, although `e_lock` does not see to that
  (item 2 of section 5 is what happens otherwise), an `emu_close` that fails has not closed
  the file, and the one that `emufs_lookup` calls for lack of memory is part of the step of
  the lookup, whether or not the device closes the file. A thread is overtaken where it sleeps
  and, between two reads of a pointer that others change, where it may be preempted; the
  moment between the reading of such a pointer and its first use in the same expression is not
  taken apart further. It ends where `thread_shutdown` begins. Once a pointer to freed memory
  has been used nothing is claimed.
* In `Console`, P and V are single steps (`Threads` has their parts), nothing is typed before
  `config_con`, and one thread reads.
* Not modelled: the inside of spinlocks and interrupt levels (assembler and processor state;
  `Threads` and `Console` take what they provide as given), semfs (built on condition
  variables that do nothing, so a process that should block in it spins in the kernel), the
  probing of the bus, the random and the clock device, traps and registers, the bytes that
  `copyin` and `copyout` copy (a `copyout` that fails is in `Paging`), the in-kernel tests and
  the library.
* The map covers the logic of the kernel that runs under `FINAL`. Most of the other files of
  the repository belong to the base system and never run in it or hold no state: user programs
  and their libraries, `dumbvm`, one generated `autoconf.c` per configuration, tests, headers.

## 7 Plan

Done: Coremap, CoremapFifo, Heap, Swap, TLB, Paging, VMStats, PagingData with AbsMem, ElfPage,
Threads, Sfs with AbsFiles, Console, Vfs, and the proofs about the coremap, the heap, paging
with its statistics and the contents of pages, executables, threads, the console and VFS.
Left, in this order:

1. The parts of `Sfs` that do not need induction over data (`CountsExact`: links and
   references against directories and open files), with its directories and pointers as
   functions instead of folds.
2. Spinlocks with interrupt levels (`t_curspl`, `t_iplhigh_count`, the hand-over through
   `thread_switch`), registers and interrupt of the emulator device, `wchan_wakeall` and the
   other interprocessor interrupts, as far as they add states worth checking to the runs there
   are.
