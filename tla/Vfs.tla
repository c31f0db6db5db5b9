-------------------------------- MODULE Vfs --------------------------------
(***************************************************************************)
(* Names and references: the device table of the VFS layer, the vnodes it  *)
(* hands out, the current directories, the boot file system, the processes *)
(* that hold all of these, and the menu that mounts, unmounts, starts      *)
(* programs and shuts down.                                                *)
(*                                                                         *)
(* vfs_biglock excludes nobody (lock_acquire is empty), so a thread that   *)
(* sleeps on the disk, on emu0 or on the console inside a VFS call is      *)
(* overtaken.  An action is what a thread does from one such point to the  *)
(* next.                                                                   *)
(*                                                                         *)
(* A vnode is <<device, what, which>>: the root directory or a program of  *)
(* the file system on the device, or the raw device itself. On a disk the  *)
(* last part is the thread whose VOP_LOOKUP or FSOP_GETROOT made it, since *)
(* two threads that miss sfs_vnodes together each make one; a program on   *)
(* emu0 goes by the handle under which the device has opened it.           *)
(*                                                                         *)
(* VOP_RECLAIM closes the file in the device, if it is on emu0, and sleeps *)
(* meanwhile. On a disk it is one step: nothing is written or removed      *)
(* here, so sfs_reclaim has nothing to do on the disk, and cannot fail     *)
(* (Sfs has the calls that make it). Each operation of the device gets its *)
(* own answer, although e_lock does not see to that.                       *)
(***************************************************************************)
EXTENDS Integers, FiniteSets, Sequences

CONSTANTS
    Menu,       \* the kernel's thread, which runs the menu in kproc
    Progs,      \* threads of the programs the menu may start, one process each
    DiskSeq,    \* the mountable devices, in the order of knowndevs
    Emu,        \* emu0, which is a file system and no mountable device
    Handles,    \* by which the device knows open files
    NONE,       \* NULL
    GONE        \* an address whose memory has been freed

Disks == {DiskSeq[i] : i \in 1..Len(DiskSeq)}
Devices == Disks \cup {Emu}
Threads == {Menu} \cup Progs

VARIABLES
    kdfs,       \* kd_fs of each disk: "none", "mounted", or "freed" but still there
    refs,       \* vn_refcount; 0 when the vnode is not in memory
    cwd,        \* p_cwd of the process of each thread
    bootfs,     \* bootfs_vnode
    elf,        \* elf_file of the address space of each thread
    th,         \* what each thread is doing
    power,      \* "on", "off", or how the kernel came to grief
    handles,    \* those of the files that are open in the device of emu0
    unclosed    \* history variable: references to each vnode that nobody
                \* will ever drop, since the device has not closed its file

emuvars == <<handles, unclosed>>
vars == <<kdfs, refs, cwd, bootfs, elf, th, power, emuvars>>

EmuRoot == <<Emu, "root", Menu>>        \* ef_root
Raw(d) == <<d, "raw", Menu>>            \* kd_vnode

Vnodes == {EmuRoot}
          \cup {Raw(d) : d \in Disks}
          \cup {<<Emu, "prog", h>> : h \in Handles}
          \cup {<<d, k, t>> : d \in Disks, k \in {"root", "prog"}, t \in Threads}

(* NULL and freed memory hold no device and no vnode.                      *)
ASSUME VfsAssumption ==
    /\ DiskSeq \in Seq(Disks)
    /\ Menu \notin Progs /\ Emu \notin Disks
    /\ IsFiniteSet(Progs)
    /\ NONE \notin Devices \cup Vnodes /\ GONE \notin Devices \cup Vnodes
    /\ NONE # GONE

IsDir(v) == v[2] = "root"
Loaded(d) == {v \in Vnodes : v[1] = d /\ v[2] # "raw" /\ refs[v] > 0}

(* What one thread has in its registers and on its stack.                  *)
Thread == [pc : {"unborn", "born", "prompt", "slash", "increfed", "getroot",
                 "lookup", "getfile", "closing", "closed", "opened", "user", "dead", "fork",
                 "mount", "unmount", "print", "sync", "shutdown", "clearcwd",
                 "unmountall", "tell", "drop"},
           op : {"none", "chdir", "bootfs", "open", "sync", "quit"},
           file : BOOLEAN,              \* the path goes on after its first part
           fs : Devices \cup {NONE, GONE},     \* kd_fs, read and not counted
           peek : Vnodes \cup {NONE, GONE},    \* bootfs_vnode, read and not counted
           hand : Vnodes \cup {NONE},   \* a vnode whose reference it owns
           ix : 1..(Len(DiskSeq) + 1)]  \* where it is in knowndevs

At(pc) == [pc |-> pc, op |-> "none", file |-> FALSE, fs |-> NONE,
           peek |-> NONE, hand |-> NONE, ix |-> 1]

(* The prompt, or the end of a thread whose runprogram failed.             *)
Back(t) == At(IF t = Menu THEN "prompt" ELSE "dead")

----------------------------------------------------------------------------
(* The state after main.c's boot: emu0 is the boot file system and the     *)
(* menu's current directory.                                               *)
Base(v) == IF v = EmuRoot \/ v[2] = "raw" THEN 1 ELSE 0

Init ==
    /\ kdfs = [d \in Disks |-> "none"]
    /\ refs = [v \in Vnodes |-> Base(v) + IF v = EmuRoot THEN 2 ELSE 0]
    /\ cwd = [t \in Threads |-> IF t = Menu THEN EmuRoot ELSE NONE]
    /\ bootfs = EmuRoot
    /\ elf = [t \in Threads |-> NONE]
    /\ th = [t \in Threads |-> At(IF t = Menu THEN "prompt" ELSE "unborn")]
    /\ power = "on"
    /\ handles = {}
    /\ unclosed = [v \in Vnodes |-> 0]

(* VOP_INCREF and VOP_DECREF as a change to the counts; a count that goes  *)
(* to zero is VOP_RECLAIM, which takes the vnode out of memory. A device's *)
(* vnode and ef_root keep the reference of the table.                      *)
Incref(r, v) == [r EXCEPT ![v] = @ + 1]
Decref(r, v) == IF v = NONE THEN r ELSE [r EXCEPT ![v] = @ - 1]

(* Pointers to what has been freed, in the hands of threads that did not   *)
(* count them.                                                             *)
Stale(ths, r, d) ==
    [t \in Threads |->
        [ths[t] EXCEPT !.peek = IF @ \in Vnodes /\ r[@] = 0 THEN GONE ELSE @,
                       !.fs = IF @ # NONE /\ @ = d THEN GONE ELSE @]]

(* A thread goes on as m, the counts having become r.                      *)
Goes(t, m, r) ==
    /\ refs' = r
    /\ th' = Stale([th EXCEPT ![t] = m], r, NONE)
    /\ UNCHANGED power

(* A thread uses freed memory or fails a KASSERT: nothing after that is    *)
(* defined.                                                                *)
Breaks(how) == power' = how /\ UNCHANGED <<kdfs, refs, cwd, bootfs, elf, th>>

(* The last VOP_DECREF of a thread before it goes back. The last reference *)
(* to a program on emu0 goes on to emufs_reclaim, which closes the file.   *)
Drop(t, v, r) ==
    IF v[1] = Emu /\ v[2] = "prog" /\ r[v] = 1
    THEN Goes(t, [At("closing") EXCEPT !.hand = v], r)
    ELSE Goes(t, Back(t), Decref(r, v))

Is(t, pc) == power = "on" /\ th[t].pc = pc

(* vnode_check and the KASSERT of vnode_decref, for a counted vnode.       *)
InMemory(v) == v = NONE \/ refs[v] > 0
----------------------------------------------------------------------------
(* Path lookup. FromLookup: the lookup ends with v, counted for t in r.    *)
(*   open     runprogram has its vnode                                     *)
(*   chdir    vfs_setcurdir refuses what is no directory, else takes v     *)
(*            for the current directory and drops the old one              *)
(*   bootfs   and then vfs_setbootfs takes the new current directory       *)
Opened(t, v, r) == Goes(t, [At("opened") EXCEPT !.hand = v], r) /\ UNCHANGED <<cwd, bootfs>>

SetCurdir(t, v, r) == cwd' = [cwd EXCEPT ![t] = v] /\ Goes(t, Back(t), Decref(r, cwd[t]))

FromLookup(t, op, v, r) ==
    \/ /\ op = "open"
       /\ Opened(t, v, r)
    \/ /\ op # "open" /\ ~IsDir(v)                          \* ENOTDIR
       /\ Drop(t, v, r) /\ UNCHANGED <<cwd, bootfs>>
    \/ /\ op = "chdir" /\ IsDir(v)
       /\ SetCurdir(t, v, r) /\ UNCHANGED bootfs
    \/ /\ op = "bootfs" /\ IsDir(v)
       /\ bootfs' = v
       /\ SetCurdir(t, v, Decref(Incref(r, v), bootfs))

(* startvn is v, counted in r: what is left of the path is looked up in    *)
(* it, on the disk or the host, or there is nothing left of it. A device   *)
(* has no files.                                                           *)
FromStart(t, op, file, v, r) ==
    \/ /\ ~file
       /\ FromLookup(t, op, v, r)
    \/ /\ file /\ v[2] = "raw"
       /\ Goes(t, Back(t), Decref(r, v)) /\ UNCHANGED <<cwd, bootfs>>
    \/ /\ file /\ v[2] # "raw"
       /\ Goes(t, [At("lookup") EXCEPT !.op = op, !.file = TRUE, !.hand = v], r)
       /\ UNCHANGED <<cwd, bootfs>>

\* Mutant: vfs_lookup and getdevice both drop the reference.
Fails_Twice(t, v) == Goes(t, Back(t), Decref(Decref(refs, v), v)) /\ UNCHANGED <<cwd, bootfs>>

\* The lookup fails; v, or NONE, was in hand.
Fails(t, v) == Goes(t, Back(t), Decref(refs, v)) /\ UNCHANGED <<cwd, bootfs>>

(* FSOP_GETROOT of the file system on d, with hand counted for t meanwhile *)
(* (the current directory, for a path that starts with a colon). The root  *)
(* is in memory, or sfs_loadvnode reads it with nothing but the pointer to *)
(* the file system.                                                        *)
GetRoot(t, op, file, d, hand, r) ==
    \/ \E v \in Vnodes :
          /\ v[1] = d /\ v[2] = "root" /\ refs[v] > 0
          /\ FromStart(t, op, file, v, Decref(Incref(r, v), hand))
    \/ /\ d # Emu /\ \A v \in Loaded(d) : v[2] # "root"
       /\ Goes(t, [At("getroot") EXCEPT !.op = op, !.file = file, !.fs = d,
                                        !.hand = hand], r)
       /\ UNCHANGED <<cwd, bootfs>>

(* A path with no colon before its first slash: the current directory.     *)
Relative(t, op, file) ==
    IF cwd[t] = NONE THEN Fails(t, NONE)
    ELSE FromStart(t, op, file, cwd[t], Incref(refs, cwd[t]))

(* "device:", the device's name or its volume's: vfs_getroot goes through  *)
(* the table and asks every file system it passes for its volume's name.   *)
Before(d) == {DiskSeq[j] : j \in {j \in 1..Len(DiskSeq) :
                            \E i \in j..Len(DiskSeq) : DiskSeq[i] = d}}

ByName(t, op, file) ==
    \/ GetRoot(t, op, file, Emu, NONE, refs) /\ UNCHANGED <<kdfs, elf>>
    \/ \E d \in Disks :
          \/ /\ \E b \in Before(d) : kdfs[b] = "freed"
             /\ Breaks("volume name")
          \/ /\ \A b \in Before(d) : kdfs[b] # "freed"
             /\ UNCHANGED <<kdfs, elf>>
             /\ \/ kdfs[d] = "mounted" /\ GetRoot(t, op, file, d, NONE, refs)
                \/ kdfs[d] = "none" /\ Fails(t, NONE)                   \* ENXIO
                \/ FromStart(t, op, file, Raw(d), Incref(refs, Raw(d)))  \* "lhd0raw:"

(* "/": the boot file system, read three times: for the test, for the      *)
(* VOP_INCREF and for *startvn.                                            *)
Slash(t, op, file) ==
    IF bootfs = NONE THEN Fails(t, NONE)
    ELSE /\ Goes(t, [At("slash") EXCEPT !.op = op, !.file = file], refs)
         /\ UNCHANGED <<cwd, bootfs>>

(* ":": the root of the file system of the current directory.              *)
Colon(t, op, file) ==
    IF cwd[t] = NONE THEN Fails(t, NONE)
    ELSE GetRoot(t, op, file, cwd[t][1], cwd[t], Incref(refs, cwd[t]))

Lookup(t, op) ==
    \E file \in BOOLEAN :
       \/ Relative(t, op, file) /\ UNCHANGED <<kdfs, elf>>
       \/ ByName(t, op, file)
       \/ Slash(t, op, file) /\ UNCHANGED <<kdfs, elf>>
       \/ Colon(t, op, file) /\ UNCHANGED <<kdfs, elf>>

(* The address that VOP_INCREF is called with was read after the test.     *)
SlashPeek(t) ==
    /\ Is(t, "slash") /\ th[t].peek = NONE
    /\ UNCHANGED emuvars
    /\ IF bootfs = NONE THEN Breaks("null")
       ELSE Goes(t, [th[t] EXCEPT !.peek = bootfs], refs) /\ UNCHANGED <<kdfs, cwd, bootfs, elf>>

SlashIncref(t) ==
    /\ Is(t, "slash") /\ th[t].peek # NONE
    /\ UNCHANGED emuvars
    /\ IF th[t].peek = GONE THEN Breaks("boot vnode")
       ELSE /\ Goes(t, [th[t] EXCEPT !.pc = "increfed", !.peek = NONE, !.hand = th[t].peek],
                    Incref(refs, th[t].peek))
            /\ UNCHANGED <<kdfs, cwd, bootfs, elf>>

SlashStart(t) ==
    /\ Is(t, "increfed")
    /\ UNCHANGED emuvars
    /\ IF bootfs # th[t].hand THEN Breaks("other vnode")
       ELSE FromStart(t, th[t].op, th[t].file, bootfs, refs) /\ UNCHANGED <<kdfs, elf>>

(* The root's inode has been read, or it could not be, or there was no     *)
(* memory for it: a new vnode, whatever others have loaded meanwhile.      *)
RootRead(t) ==
    /\ Is(t, "getroot")
    /\ UNCHANGED emuvars
    /\ LET m == th[t]
           v == <<m.fs, "root", t>>
       IN IF m.fs = GONE THEN Breaks(IF m.hand = NONE THEN "file system" ELSE "held")
          ELSE /\ \/ FromStart(t, m.op, m.file, v, Decref(Incref(refs, v), m.hand))
                  \/ Fails(t, m.hand)
               /\ UNCHANGED <<kdfs, elf>>

(* VOP_LOOKUP in the directory of a disk: it has been read, and does not   *)
(* have the name, or the program's vnode is in memory, or that is read     *)
(* too.                                                                    *)
DirRead(t) ==
    /\ Is(t, "lookup") /\ th[t].hand[1] # Emu
    /\ UNCHANGED emuvars
    /\ LET m == th[t]
           d == m.hand[1]
           known == {v \in Loaded(d) : v[2] = "prog"}
       IN IF ~InMemory(m.hand) THEN Breaks("held")
          ELSE /\ UNCHANGED <<kdfs, elf>>
               /\ \/ Fails(t, m.hand)
                  \/ \E v \in known :
                        FromLookup(t, m.op, v, Decref(Incref(refs, v), m.hand))
                  \/ /\ known = {}
                     /\ Goes(t, [m EXCEPT !.pc = "getfile"], refs)
                     /\ UNCHANGED <<cwd, bootfs>>

FileRead(t) ==
    /\ Is(t, "getfile")
    /\ UNCHANGED emuvars
    /\ LET m == th[t]
           v == <<m.hand[1], "prog", t>>
       IN IF ~InMemory(m.hand) THEN Breaks("held")
          ELSE /\ UNCHANGED <<kdfs, elf>>
               /\ \/ Fails(t, m.hand)
                  \/ FromLookup(t, m.op, v, Decref(Incref(refs, v), m.hand))

----------------------------------------------------------------------------
(* Files on emu0. They are opened and closed in the device.                *)

\* Mutant: emufs_loadvnode does not count the vnode that it finds.
EmuLookup_NoIncref(t) ==
    /\ Is(t, "lookup") /\ th[t].hand[1] = Emu
    /\ UNCHANGED <<kdfs, elf, unclosed>>
    /\ \E h \in Handles \ handles :
          LET v == <<Emu, "prog", h>>
              r == IF refs[v] = 0 THEN Incref(refs, v) ELSE refs
          IN handles' = handles \cup {h} /\ FromLookup(t, th[t].op, v, Decref(r, th[t].hand))

(* VOP_LOOKUP: the device has opened the file, by a handle that was free,  *)
(* or it has not. emufs_loadvnode finds a vnode with this handle, which is *)
(* one that is being reclaimed, or makes one; without memory for it the    *)
(* file is closed again, whether or not the device does so.                *)
EmuLookup(t) ==
    /\ Is(t, "lookup") /\ th[t].hand[1] = Emu
    /\ UNCHANGED <<kdfs, elf, unclosed>>
    /\ LET m == th[t]
       IN \/ Fails(t, m.hand) /\ UNCHANGED handles
          \/ \E h \in Handles \ handles :
                LET v == <<Emu, "prog", h>>
                IN /\ handles' = handles \cup {h}
                   /\ \/ refs[v] = 0 /\ Fails(t, m.hand)
                      \/ FromLookup(t, m.op, v, Decref(Incref(refs, v), m.hand))

(* emu_close returns: the device has closed the file, though emufs_reclaim *)
(* does not run yet, or it has failed more than ten times: then vnode and  *)
(* handle stay as they are.                                                *)
EmuClose(t) ==
    /\ Is(t, "closing")
    /\ UNCHANGED <<kdfs, cwd, bootfs, elf>>
    /\ LET v == th[t].hand
       IN \/ /\ handles' = handles \ {v[3]}
             /\ Goes(t, [th[t] EXCEPT !.pc = "closed"], refs)
             /\ UNCHANGED unclosed
          \/ /\ unclosed' = [unclosed EXCEPT ![v] = @ + 1]
             /\ Goes(t, Back(t), refs)
             /\ UNCHANGED handles

(* The vnode leaves ef_vnodes, and vnode_cleanup checks its count. "Since  *)
(* we hold e_lock and are the last ref, nobody can increment the refcount" *)
(* (emufs_reclaim) does not hold: EmuLookup can.                           *)
Reclaimed(t) ==
    /\ Is(t, "closed")
    /\ UNCHANGED emuvars
    /\ IF refs[th[t].hand] # 1 THEN Breaks("reclaim")
       ELSE /\ Goes(t, Back(t), Decref(refs, th[t].hand))
            /\ UNCHANGED <<kdfs, cwd, bootfs, elf>>

----------------------------------------------------------------------------
(* The menu's commands.                                                    *)
MenuLookup ==
    /\ Is(Menu, "prompt")
    /\ UNCHANGED emuvars
    /\ \/ Lookup(Menu, "chdir")                            \* cd
       \/ ByName(Menu, "bootfs", FALSE)                    \* bootfs

(* common_prog: the new process gets the menu's current directory, then    *)
(* thread_fork takes memory for the thread and its stack; without it       *)
(* proc_destroy undoes the process.                                        *)
ProcCreate ==
    /\ Is(Menu, "prompt")
    /\ UNCHANGED emuvars
    /\ \E p \in Progs : th[p].pc = "unborn"
    /\ Goes(Menu, [At("fork") EXCEPT !.hand = cwd[Menu]],
            IF cwd[Menu] = NONE THEN refs ELSE Incref(refs, cwd[Menu]))
    /\ UNCHANGED <<kdfs, cwd, bootfs, elf>>

ThreadFork ==
    /\ Is(Menu, "fork")
    /\ UNCHANGED emuvars
    /\ UNCHANGED <<kdfs, bootfs, elf>>
    /\ \/ \E p \in Progs :
            /\ th[p].pc = "unborn"
            /\ th' = [th EXCEPT ![Menu] = At("prompt"), ![p] = At("born")]
            /\ cwd' = [cwd EXCEPT ![p] = th[Menu].hand]
            /\ UNCHANGED <<refs, power>>
       \/ Goes(Menu, At("prompt"), Decref(refs, th[Menu].hand)) /\ UNCHANGED cwd

Mount ==
    /\ Is(Menu, "prompt")
    /\ UNCHANGED emuvars
    /\ \E i \in 1..Len(DiskSeq) :
          /\ kdfs[DiskSeq[i]] = "none"                     \* else EBUSY
          /\ Goes(Menu, [At("mount") EXCEPT !.ix = i], refs)
    /\ UNCHANGED <<kdfs, cwd, bootfs, elf>>

(* sfs_domount has read the superblock and the free map, or failed.        *)
MountDone ==
    /\ Is(Menu, "mount")
    /\ UNCHANGED emuvars
    /\ \/ kdfs' = [kdfs EXCEPT ![DiskSeq[th[Menu].ix]] = "mounted"]
       \/ UNCHANGED kdfs
    /\ Goes(Menu, At("prompt"), refs)
    /\ UNCHANGED <<cwd, bootfs, elf>>

(* The file system on d is destroyed: sfs_unmount has found no vnode.      *)
Destroy(t, m, d, left) ==
    /\ kdfs' = [kdfs EXCEPT ![d] = left]
    /\ th' = Stale([th EXCEPT ![t] = m], refs, d)
    /\ UNCHANGED <<refs, power>>

Unmount ==
    /\ Is(Menu, "prompt")
    /\ UNCHANGED emuvars
    /\ \E i \in 1..Len(DiskSeq) :
          /\ kdfs[DiskSeq[i]] = "mounted"                  \* else EINVAL
          /\ Goes(Menu, [At("unmount") EXCEPT !.fs = DiskSeq[i], !.ix = i], refs)
    /\ UNCHANGED <<kdfs, cwd, bootfs, elf>>

\* Mutant: sfs_unmount does not look for vnodes in use.
UnmountSynced_NotBusy ==
    /\ Is(Menu, "unmount")
    /\ UNCHANGED emuvars
    /\ LET d == DiskSeq[th[Menu].ix]
       IN IF th[Menu].fs = GONE THEN Breaks("two unmount")
          ELSE /\ UNCHANGED <<cwd, bootfs, elf>>
               /\ Destroy(Menu, [At("print") EXCEPT !.ix = th[Menu].ix], d, "freed")

(* FSOP_SYNC has returned; an error of it, or a vnode, ends the command.   *)
(* kd_fs is cleared only after the message has been printed.               *)
UnmountSynced ==
    /\ Is(Menu, "unmount")
    /\ UNCHANGED emuvars
    /\ LET d == DiskSeq[th[Menu].ix]
       IN IF th[Menu].fs = GONE THEN Breaks("two unmount")
          ELSE /\ UNCHANGED <<cwd, bootfs, elf>>
               /\ \/ Goes(Menu, At("prompt"), refs) /\ UNCHANGED kdfs
                  \/ /\ Loaded(d) = {}
                     /\ Destroy(Menu, [At("print") EXCEPT !.ix = th[Menu].ix], d, "freed")

UnmountPrinted ==
    /\ Is(Menu, "print")
    /\ UNCHANGED emuvars
    /\ kdfs' = [kdfs EXCEPT ![DiskSeq[th[Menu].ix]] = "none"]
    /\ Goes(Menu, At("prompt"), refs)
    /\ UNCHANGED <<cwd, bootfs, elf>>

(* sync, and the vfs_sync of q.                                            *)
Sync ==
    /\ Is(Menu, "prompt")
    /\ UNCHANGED emuvars
    /\ \E op \in {"sync", "quit"} : Goes(Menu, [At("sync") EXCEPT !.op = op], refs)
    /\ UNCHANGED <<kdfs, cwd, bootfs, elf>>

SyncNext ==
    /\ Is(Menu, "sync")
    /\ UNCHANGED emuvars
    /\ UNCHANGED <<kdfs, cwd, bootfs, elf>>
    /\ LET m == th[Menu]
       IN \/ /\ m.ix > Len(DiskSeq)
             /\ Goes(Menu, IF m.op = "quit" THEN At("shutdown") ELSE At("prompt"), refs)
          \/ /\ m.ix <= Len(DiskSeq) /\ m.fs = NONE
             /\ IF kdfs[DiskSeq[m.ix]] = "mounted"
                THEN Goes(Menu, [m EXCEPT !.fs = DiskSeq[m.ix]], refs)
                ELSE Goes(Menu, [m EXCEPT !.ix = @ + 1], refs)
          \/ /\ m.fs = GONE
             /\ power' = "sync" /\ UNCHANGED <<refs, th>>
          \/ /\ m.fs \in Disks
             /\ Goes(Menu, [m EXCEPT !.fs = NONE, !.ix = @ + 1], refs)

----------------------------------------------------------------------------
(* A program's thread. cmd_progthread reads a path that the menu may have  *)
(* overwritten, so it may be any path.                                     *)
Progthread(p) == Is(p, "born") /\ Lookup(p, "open") /\ UNCHANGED emuvars

(* runprogram, from as_create on: without memory, or when load_elf fails,  *)
(* it closes the file; when as_define_stack fails, the address space that  *)
(* nobody will destroy keeps it.                                           *)
RunProgram(p) ==
    /\ Is(p, "opened")
    /\ UNCHANGED emuvars
    /\ UNCHANGED <<kdfs, cwd, bootfs>>
    /\ LET v == th[p].hand
       IN IF ~InMemory(v) THEN Breaks("held") /\ UNCHANGED elf
          ELSE \/ Drop(p, v, refs) /\ UNCHANGED elf
               \/ /\ ~IsDir(v)                             \* EISDIR
                  /\ elf' = [elf EXCEPT ![p] = v]
                  /\ \E pc \in {"user", "dead"} : Goes(p, At(pc), refs)

(* sys__exit: as_destroy closes the executable; the process structure and  *)
(* its p_cwd stay for ever.                                                *)
Exit(p) ==
    /\ Is(p, "user")
    /\ UNCHANGED emuvars
    /\ IF ~InMemory(elf[p]) THEN Breaks("held")
       ELSE /\ elf' = [elf EXCEPT ![p] = NONE]
            /\ Drop(p, elf[p], refs)
            /\ UNCHANGED <<kdfs, cwd, bootfs>>

Reboot(p) ==
    /\ Is(p, "user")
    /\ UNCHANGED emuvars
    /\ Goes(p, At("shutdown"), refs)
    /\ UNCHANGED <<kdfs, cwd, bootfs, elf>>

----------------------------------------------------------------------------
(* shutdown(), called by the menu or by a program.                         *)
ClearBootfs(t) ==
    /\ Is(t, "shutdown")
    /\ UNCHANGED emuvars
    /\ bootfs' = NONE
    /\ Goes(t, At("clearcwd"), Decref(refs, bootfs))
    /\ UNCHANGED <<kdfs, cwd, elf>>

\* Mutant: shutdown does not call vfs_clearcurdir.
ClearCurdir_Skip(t) ==
    /\ Is(t, "clearcwd")
    /\ UNCHANGED emuvars
    /\ Goes(t, At("unmountall"), refs)
    /\ UNCHANGED <<kdfs, cwd, bootfs, elf>>

ClearCurdir(t) ==
    /\ Is(t, "clearcwd")
    /\ UNCHANGED emuvars
    /\ cwd' = [cwd EXCEPT ![t] = NONE]
    /\ Goes(t, At("unmountall"), Decref(refs, cwd[t]))
    /\ UNCHANGED <<kdfs, bootfs, elf>>

(* One device of vfs_unmountall. Something is mounted: "Unmounting" is     *)
(* printed, which takes its time, before kd_fs is read again.              *)
UnmountallFind(t) ==
    /\ Is(t, "unmountall") /\ th[t].ix <= Len(DiskSeq) /\ th[t].fs = NONE
    /\ UNCHANGED emuvars
    /\ Goes(t, IF kdfs[DiskSeq[th[t].ix]] = "none" THEN [th[t] EXCEPT !.ix = @ + 1]
               ELSE [th[t] EXCEPT !.pc = "tell"], refs)
    /\ UNCHANGED <<kdfs, cwd, bootfs, elf>>

UnmountallSync(t) ==
    /\ Is(t, "tell")
    /\ UNCHANGED emuvars
    /\ LET d == DiskSeq[th[t].ix]
       IN IF kdfs[d] # "mounted" THEN Breaks("two unmount")
          ELSE /\ Goes(t, [th[t] EXCEPT !.pc = "unmountall", !.fs = d], refs)
               /\ UNCHANGED <<kdfs, cwd, bootfs, elf>>

(* FSOP_SYNC has returned: it failed twice and the disk is left mounted,   *)
(* or it is to be unmounted.                                               *)
UnmountallSynced(t) ==
    /\ Is(t, "unmountall") /\ th[t].fs # NONE
    /\ UNCHANGED emuvars
    /\ IF th[t].fs = GONE THEN Breaks("two unmount")
       ELSE /\ \/ Goes(t, [th[t] EXCEPT !.fs = NONE, !.ix = @ + 1], refs)
               \/ Goes(t, [th[t] EXCEPT !.fs = NONE, !.pc = "drop"], refs)
            /\ UNCHANGED <<kdfs, cwd, bootfs, elf>>

(* FSOP_UNMOUNT of what kd_fs is now: EBUSY, or the file system is dropped. *)
UnmountallDrop(t) ==
    /\ Is(t, "drop")
    /\ UNCHANGED emuvars
    /\ LET d == DiskSeq[th[t].ix]
           next == [At("unmountall") EXCEPT !.ix = th[t].ix + 1]
       IN IF kdfs[d] # "mounted" THEN Breaks("two unmount")
          ELSE /\ UNCHANGED <<cwd, bootfs, elf>>
               /\ IF Loaded(d) = {} THEN Destroy(t, next, d, "none")
                  ELSE Goes(t, next, refs) /\ UNCHANGED kdfs

(* thread_shutdown, vm_shutdown and the power.                             *)
PowerOff(t) ==
    /\ Is(t, "unmountall") /\ th[t].ix > Len(DiskSeq)
    /\ UNCHANGED emuvars
    /\ power' = "off"
    /\ UNCHANGED <<kdfs, refs, cwd, bootfs, elf, th>>

LookupStep(t) ==
    SlashPeek(t) \/ SlashIncref(t) \/ SlashStart(t) \/ RootRead(t) \/ DirRead(t) \/ FileRead(t)

EmuStep(t) == EmuLookup(t) \/ EmuClose(t) \/ Reclaimed(t)

ShutdownStep(t) ==
    \/ ClearBootfs(t) \/ ClearCurdir(t) \/ UnmountallFind(t) \/ UnmountallSync(t)
    \/ UnmountallSynced(t) \/ UnmountallDrop(t) \/ PowerOff(t)

Next ==
    \/ MenuLookup \/ ProcCreate \/ ThreadFork
    \/ Mount \/ MountDone \/ Unmount \/ UnmountSynced \/ UnmountPrinted
    \/ Sync \/ SyncNext
    \/ \E p \in Progs : Progthread(p) \/ RunProgram(p) \/ Exit(p) \/ Reboot(p)
    \/ \E t \in Threads : LookupStep(t) \/ EmuStep(t) \/ ShutdownStep(t)

VfsSpec == Init /\ [][Next]_vars

----------------------------------------------------------------------------
(* TYPE INVARIANT.                                                         *)
VfsTypeOK ==
    /\ kdfs \in [Disks -> {"none", "mounted", "freed"}]
    /\ refs \in [Vnodes -> Nat]
    /\ cwd \in [Threads -> Vnodes \cup {NONE}]
    /\ bootfs \in Vnodes \cup {NONE}
    /\ elf \in [Threads -> Vnodes \cup {NONE}]
    /\ th \in [Threads -> Thread]
    /\ power \in {"on", "off", "null", "volume name", "boot vnode", "other vnode",
                  "file system", "held", "two unmount", "sync", "reclaim"}
    /\ handles \subseteq Handles
    /\ unclosed \in [Vnodes -> Nat]

(* Who holds a reference to v: current directories, also those of the dead *)
(* processes, executables, what threads have in hand, the boot file system *)
(* and the tables.                                                         *)
Holders(v) ==
    Cardinality({t \in Threads : cwd[t] = v}) + Cardinality({t \in Threads : elf[t] = v})
    + Cardinality({t \in Threads : th[t].hand = v})
    + (IF bootfs = v THEN 1 ELSE 0) + Base(v)

(* vn_refcount is the number of holders, on every path through lookups,    *)
(* runprogram's failures, exits, commands and shutdowns: none is dropped   *)
(* twice (vnode_decref's KASSERT), and none is leaked but by an emu_close  *)
(* that fails.                                                             *)
RefsHeld == \A v \in Vnodes : refs[v] = Holders(v) + unclosed[v]

(* What somebody holds is in memory and in a mounted file system, however  *)
(* unmount, unmountall and lookups overlap without vfs_biglock; no thread  *)
(* ever finds what it holds gone. The pointers that are not counted are    *)
(* the only ones that freed memory is reached by.                          *)
HeldStaysMounted ==
    /\ power # "held"
    /\ \A v \in Vnodes : Holders(v) > 0 =>
          /\ refs[v] > 0
          /\ v[1] \in Disks /\ v[2] # "raw" => kdfs[v[1]] = "mounted"

(* shutdown leaves a disk that it could sync mounted only for another's    *)
(* sake, its program's or, when a program shuts down, the boot file        *)
(* system's, which the menu may have set again: what shutdown itself lets  *)
(* go of never keeps one.                                                  *)
Others(t) ==
    {cwd[u] : u \in Threads \ {t}} \cup {th[u].hand : u \in Threads \ {t}}
    \cup {elf[u] : u \in Threads} \cup (IF t = Menu THEN {} ELSE {bootfs})

LeavesMounted(t, d) ==
    th[t].pc = "drop" /\ th'[t].pc = "unmountall" /\ d = DiskSeq[th[t].ix] /\ kdfs'[d] = "mounted"

ShutdownLeavesBusy ==
    [][\A t \in Threads, d \in Disks :
          LeavesMounted(t, d) => \E v \in Others(t) \cap Vnodes : v[1] = d]_vars
=============================================================================
