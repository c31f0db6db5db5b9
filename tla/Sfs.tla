-------------------------------- MODULE Sfs --------------------------------
(* The small file system (fs/sfs) on a disk (dev/lamebus/lhd.c), driven     *)
(* through the path operations of the VFS (vfs/vfspath.c) and the reference *)
(* counts of vnodes (vfs/vnode.c), by one thread at a time.                 *)
(*                                                                          *)
(* A call makes many transfers, each of which may fail, and every failure   *)
(* takes its own way out of the code. So a function is an operator that     *)
(* returns the set of its outcomes: the error, the file system it leaves    *)
(* and the value it hands back. Then goes on with the outcomes that         *)
(* succeeded, as the code does after "if (result) return result".           *)
EXTENDS Integers, FiniteSets, Sequences, FiniteSetsExt, Folds, SequencesExt

CONSTANTS
    Names,          \* file names
    NBLOCKS,        \* sb_nblocks
    SFS_NDIRECT,    \* direct blocks of an inode
    SFS_DBPERIDB,   \* blocks per indirect block
    SFS_BLOCKSIZE,  \* bytes of a block
    PERBLOCK,       \* directory entries of a block
    MaxTries,       \* retries after an I/O error (10 in the code)
    Faults,         \* what may fail: "read", "write" (the medium), "memory"
    MaxOpen,        \* bound: references held by callers
    MaxWrite,       \* bound: bytes of a write
    TruncLens       \* lengths passed to VOP_TRUNCATE

ASSUME SfsAssumption ==
    /\ NBLOCKS \in Nat /\ NBLOCKS > 3
    /\ SFS_NDIRECT \in Nat \ {0} /\ SFS_DBPERIDB \in Nat \ {0}
    /\ SFS_BLOCKSIZE \in Nat \ {0} /\ PERBLOCK \in Nat \ {0}
    /\ Faults \subseteq {"read", "write", "memory"}

VARIABLES
    sfs,        \* struct sfs_fs with its vnodes, and the disk under it
    mounted,
    held,       \* held[ino]: references that open files have to the vnode
    cwd         \* the current directory is the root of this file system

vars == <<sfs, mounted, held, cwd>>

Blocks == 0..NBLOCKS - 1
SFS_NOINO == 0
SFS_ROOTDIR_INO == 1
SFS_FREEMAP_START == 2
NoName == "noname"
NoVnode == [ref |-> 0]
NoEntry == [ino |-> SFS_NOINO, name |-> NoName]
MaxSize == (SFS_NDIRECT + SFS_DBPERIDB) * SFS_BLOCKSIZE

Zeros(n) == [k \in 1..n |-> 0]
BlankInode == [type |-> "INVAL", linkcount |-> 0, size |-> 0,
               direct |-> Zeros(SFS_NDIRECT), indirect |-> 0]

\* What a block holds depends on who wrote it; a cleared block reads as
\* zeros to everyone.
Cleared == [kind |-> "zeros"]
Block(k, c) == [kind |-> k, c |-> c]
Read(b, k, blank) == IF b.kind = k THEN b.c ELSE blank
AsInode(b) == Read(b, "inode", BlankInode)
AsData(b) == Read(b, "data", Zeros(SFS_BLOCKSIZE))
AsMap(b) == Read(b, "map", Zeros(SFS_DBPERIDB))
AsEntries(b) == Read(b, "dir", [k \in 1..PERBLOCK |-> NoEntry])

-----------------------------------------------------------------------------
(* Outcomes                                                                 *)

Ok(s, v) == [err |-> "OK", s |-> s, v |-> <<v>>]
Fails(s, e) == {[err |-> e, s |-> s, v |-> <<>>]}
Panic(s) == Fails([s EXCEPT !.panicked = "assertion"], "panic")
Then(outs, F(_, _)) ==
    UNION {IF o.err = "OK" THEN F(o.s, o.v[1]) ELSE {[o EXCEPT !.v = <<>>]} : o \in outs}
\* Clean up on every way out: G, then the outcome as it was.
Finally(outs, G(_)) ==
    UNION {{[p EXCEPT !.err = IF @ = "panic" THEN @ ELSE o.err, !.v = o.v] :
               p \in G(o.s)} : o \in {x \in outs : x.err # "panic"}}
      \cup {x \in outs : x.err = "panic"}
NoMemory(s) == IF "memory" \in Faults THEN Fails(s, "ENOMEM") ELSE {}

-----------------------------------------------------------------------------
(* Blocks                                                                   *)

\* The transfer of one sector. A write moves the data out of the uio before
\* the disk is asked, a read moves them into it after the disk has answered.
\* resid is uio_resid, in sectors; the caller's uio keeps what is left of it.
lhd_io(s, b, rw, c, resid) ==
    IF resid = 0 THEN {Ok(s, c)}
    ELSE IF rw = "read"
    THEN {Ok(s, s.disk[b])} \cup (IF "read" \in Faults THEN Fails(s, "EIO") ELSE {})
    ELSE {Ok([s EXCEPT !.disk[b] = c], c)} \cup
         (IF "write" \in Faults THEN Fails(s, "EIO") ELSE {})
\* What is left of the request after a failed attempt.
Resid(rw) == IF rw = "read" THEN 1 ELSE 0

\* Retry on EIO, with the uio as the failed attempt left it.
sfs_rwblock(s, b, rw, c) ==
    LET attempt[t \in 0..MaxTries, resid \in 0..1] ==
            UNION {IF o.err = "EIO" /\ t < MaxTries
                   THEN attempt[t + 1, Resid(rw)] ELSE {o} :
                   o \in lhd_io(s, b, rw, c, resid)}
    IN  attempt[0, 1]
sfs_readblock(s, b) == sfs_rwblock(s, b, "read", Cleared)
sfs_writeblock(s, b, c) == sfs_rwblock(s, b, "write", c)

\* Mutant: the block is handed out as it is.
sfs_clearblock_Skip(s, b) == {Ok(s, 0)}
sfs_clearblock(s, b) == sfs_writeblock(s, b, Cleared)

\* bitmap_alloc takes the lowest clear bit.
sfs_balloc(s) ==
    IF s.freemap = Blocks THEN Fails(s, "ENOSPC")
    ELSE LET b == Min(Blocks \ s.freemap)
             t == [s EXCEPT !.freemap = @ \cup {b}, !.freemapdirty = TRUE]
         IN  UNION {IF o.err = "OK" THEN {Ok(o.s, b)}
                    ELSE Fails([o.s EXCEPT !.freemap = @ \ {b}], o.err) :
                    o \in sfs_clearblock(t, b)}

\* bitmap_unmark asserts that the bit is set.
sfs_bfree(s, b) ==
    [s EXCEPT !.freemap = @ \ {b}, !.freemapdirty = TRUE,
              !.panicked = IF b \in s.freemap THEN @ ELSE "assertion"]

-----------------------------------------------------------------------------
(* The blocks of a file                                                     *)

\* "Data block marked free"
Used(s, b) == IF b # 0 /\ b \notin s.freemap THEN Panic(s) ELSE {Ok(s, b)}

DirectBlock(s, ino, fb, doalloc) ==
    LET b == s.vn[ino].i.direct[fb + 1] IN
    IF b = 0 /\ doalloc
    THEN Then(sfs_balloc(s), LAMBDA t, new :
            Used([t EXCEPT !.vn[ino].i.direct[fb + 1] = new,
                           !.vn[ino].dirty = TRUE], new))
    ELSE Used(s, b)

\* The indirect block, allocated if need be.
IndirectBlock(s, ino) ==
    IF s.vn[ino].i.indirect = 0
    THEN Then(sfs_balloc(s), LAMBDA t, new :
            {Ok([t EXCEPT !.vn[ino].i.indirect = new, !.vn[ino].dirty = TRUE],
                Zeros(SFS_DBPERIDB))})
    ELSE Then(sfs_readblock(s, s.vn[ino].i.indirect), LAMBDA t, c : {Ok(t, AsMap(c))})

PutIndirect(s, ino, idbuf, idoff, b) ==
    sfs_writeblock(s, s.vn[ino].i.indirect,
                   Block("map", [idbuf EXCEPT ![idoff + 1] = b]))

sfs_bmap(s, ino, fb, doalloc) ==
    LET idoff == fb - SFS_NDIRECT IN
    IF fb < SFS_NDIRECT THEN DirectBlock(s, ino, fb, doalloc)
    ELSE IF idoff >= SFS_DBPERIDB THEN Fails(s, "EFBIG")
    ELSE IF s.vn[ino].i.indirect = 0 /\ ~doalloc THEN {Ok(s, 0)}
    ELSE Then(IndirectBlock(s, ino), LAMBDA t, idbuf :
            IF idbuf[idoff + 1] = 0 /\ doalloc
            THEN Then(sfs_balloc(t), LAMBDA u, new :
                    Then(PutIndirect(u, ino, idbuf, idoff, new),
                         LAMBDA w, z : Used(w, new)))
            ELSE Used(t, idbuf[idoff + 1]))

Freed(s, bs) == FoldSet(LAMBDA b, t : sfs_bfree(t, b), s, bs)

\* Mutant: the indirect block itself is kept when it becomes empty.
DropIndirect_Keep(s, ino) == [s EXCEPT !.vn[ino].i.indirect = 0, !.vn[ino].dirty = TRUE]
DropIndirect(s, ino) ==
    [sfs_bfree(s, s.vn[ino].i.indirect) EXCEPT
        !.vn[ino].i.indirect = 0, !.vn[ino].dirty = TRUE]

\* The comparison with blocklen in the indirect block is the code's.
sfs_itrunc(s, ino, len) ==
    LET blocklen == (len + SFS_BLOCKSIZE - 1) \div SFS_BLOCKSIZE
        i == s.vn[ino].i
        drop == {k \in 1..SFS_NDIRECT : k - 1 >= blocklen /\ i.direct[k] # 0}
        direct == [Freed(s, {i.direct[k] : k \in drop}) EXCEPT
                     !.vn[ino].i.direct = [k \in 1..SFS_NDIRECT |->
                                             IF k \in drop THEN 0 ELSE @[k]],
                     !.vn[ino].dirty = @ \/ drop # {}]
        Done(t) == {Ok([t EXCEPT !.vn[ino].i.size = len, !.vn[ino].dirty = TRUE], 0)}
    IN  IF ~(blocklen < SFS_NDIRECT + SFS_DBPERIDB - 1 /\ i.indirect # 0)
        THEN Done(direct)
        ELSE Then(sfs_readblock(direct, i.indirect), LAMBDA t, c :
                LET idbuf == AsMap(c)
                    past == {j \in 1..SFS_DBPERIDB :
                               blocklen < SFS_NDIRECT + j - 1 /\ idbuf[j] # 0}
                    rest == [j \in 1..SFS_DBPERIDB |-> IF j \in past THEN 0 ELSE idbuf[j]]
                    u == Freed(t, {idbuf[j] : j \in past})
                IN  IF rest = Zeros(SFS_DBPERIDB) THEN Done(DropIndirect(u, ino))
                    ELSE IF past = {} THEN Done(u)
                    ELSE Then(sfs_writeblock(u, i.indirect, Block("map", rest)),
                              LAMBDA w, z : Done(w)))

-----------------------------------------------------------------------------
(* Vnodes                                                                   *)

Loaded(s) == {b \in Blocks : s.vn[b] # NoVnode}

sfs_sync_inode(s, ino) ==
    IF ~s.vn[ino].dirty THEN {Ok(s, 0)}
    ELSE Then(sfs_writeblock(s, ino, Block("inode", s.vn[ino].i)), LAMBDA t, z :
            {Ok([t EXCEPT !.vn[ino].dirty = FALSE], 0)})

\* Erase a file that has no name, write the inode back, forget the vnode. On
\* an error the vnode stays in the table with the reference it was passed.
sfs_reclaim(s, ino) ==
    Then(IF s.vn[ino].i.linkcount = 0 THEN sfs_itrunc(s, ino, 0) ELSE {Ok(s, 0)},
         LAMBDA t, z : Then(sfs_sync_inode(t, ino), LAMBDA u, y :
            {Ok([IF u.vn[ino].i.linkcount = 0 THEN sfs_bfree(u, ino) ELSE u
                   EXCEPT !.vn[ino] = NoVnode], 0)}))

\* The result of VOP_RECLAIM is only printed.
vnode_decref(s, ino) ==
    IF s.vn[ino].ref > 1 THEN {Ok([s EXCEPT !.vn[ino].ref = @ - 1], 0)}
    ELSE {IF o.err = "panic" THEN o ELSE Ok(o.s, 0) : o \in sfs_reclaim(s, ino)}

vnode_incref(s, ino) == [s EXCEPT !.vn[ino].ref = @ + 1]

sfs_loadvnode(s, ino, forcetype) ==
    IF \E b \in Loaded(s) : b \notin s.freemap THEN Panic(s)
    ELSE IF ino \in Loaded(s)
    THEN IF forcetype = "INVAL" THEN {Ok(vnode_incref(s, ino), ino)} ELSE Panic(s)
    ELSE NoMemory(s) \cup
         IF ino \notin s.freemap THEN Panic(s)
         ELSE Then(sfs_readblock(s, ino), LAMBDA t, c :
                LET i == AsInode(c)
                    new == forcetype # "INVAL"
                    j == IF new THEN [i EXCEPT !.type = forcetype] ELSE i
                IN  IF j.type = "INVAL" \/ (new /\ i.type # "INVAL") THEN Panic(t)
                    ELSE {Ok([t EXCEPT !.vn[ino] = [ref |-> 1, i |-> j, dirty |-> new]],
                             ino)})

sfs_makeobj(s, type) ==
    Then(sfs_balloc(s), LAMBDA t, ino :
        {IF o.err \in {"OK", "panic"} THEN o ELSE [o EXCEPT !.s = sfs_bfree(@, ino)] :
            o \in sfs_loadvnode(t, ino, type)})

sfs_getroot(s) == sfs_loadvnode(s, SFS_ROOTDIR_INO, "INVAL")

-----------------------------------------------------------------------------
(* The directory. Its size is counted in entries.                           *)

root == SFS_ROOTDIR_INO
sfs_dir_nentries(s) == s.vn[root].i.size

sfs_readdir(s, slot) ==
    Then(sfs_bmap(s, root, slot \div PERBLOCK, FALSE), LAMBDA t, b :
        IF b = 0 THEN {Ok(t, NoEntry)}
        ELSE Then(sfs_readblock(t, b), LAMBDA u, c :
                {Ok(u, AsEntries(c)[(slot % PERBLOCK) + 1])}))

Grown(s, slot) ==
    IF slot < s.vn[root].i.size THEN s
    ELSE [s EXCEPT !.vn[root].i.size = slot + 1, !.vn[root].dirty = TRUE]
sfs_writedir(s, slot, entry) ==
    Then(sfs_bmap(s, root, slot \div PERBLOCK, TRUE), LAMBDA t, b :
        Then(sfs_readblock(t, b), LAMBDA u, c :
            Then(sfs_writeblock(u, b, Block("dir",
                    [AsEntries(c) EXCEPT ![(slot % PERBLOCK) + 1] = entry])),
                 LAMBDA w, z : {Ok(Grown(w, slot), slot)})))

\* The inode and slot of a name (NOINO if there is none) and the last free
\* slot (-1 if there is none). That a name appears twice is a panic.
sfs_dir_findname(s, name) ==
    LET Look(outs, slot) ==
            Then(outs, LAMBDA t, f : Then(sfs_readdir(t, slot), LAMBDA u, e :
                IF e.ino = SFS_NOINO THEN {Ok(u, [f EXCEPT !.empty = slot])}
                ELSE IF e.name # name THEN {Ok(u, f)}
                ELSE IF f.ino # SFS_NOINO THEN Panic(u)
                ELSE {Ok(u, [f EXCEPT !.ino = e.ino, !.slot = slot])}))
    IN  FoldLeft(Look, {Ok(s, [ino |-> SFS_NOINO, slot |-> -1, empty |-> -1])},
                 [k \in 1..sfs_dir_nentries(s) |-> k - 1])

\* Mutant: the entry is always added at the end.
FreeSlot_End(s, f) == sfs_dir_nentries(s)
FreeSlot(s, f) == IF f.empty < 0 THEN sfs_dir_nentries(s) ELSE f.empty

sfs_dir_link(s, name, ino) ==
    Then(sfs_dir_findname(s, name), LAMBDA t, f :
        IF f.ino # SFS_NOINO THEN Fails(t, "EEXIST")
        ELSE sfs_writedir(t, FreeSlot(t, f), [ino |-> ino, name |-> name]))
sfs_dir_unlink(s, slot) == sfs_writedir(s, slot, NoEntry)

\* The vnode of a name, with a reference; panics if its link count is 0.
sfs_lookonce(s, name) ==
    Then(sfs_dir_findname(s, name), LAMBDA t, f :
        IF f.ino = SFS_NOINO THEN Fails(t, "ENOENT")
        ELSE Then(sfs_loadvnode(t, f.ino, "INVAL"), LAMBDA u, ino :
                IF u.vn[ino].i.linkcount = 0 THEN Panic(u) ELSE {Ok(u, [f EXCEPT !.ino = ino])}))

AddLink(s, ino, d) ==
    [s EXCEPT !.vn[ino].i.linkcount = @ + d, !.vn[ino].dirty = TRUE]

sfs_creat(s, name, excl) ==
    Then(sfs_dir_findname(s, name), LAMBDA t, f :
        IF f.ino # SFS_NOINO
        THEN IF excl THEN Fails(t, "EEXIST") ELSE sfs_loadvnode(t, f.ino, "INVAL")
        ELSE Then(sfs_makeobj(t, "FILE"), LAMBDA u, ino :
                UNION {IF o.err = "OK" THEN {Ok(AddLink(o.s, ino, 1), ino)}
                       ELSE Finally({o}, LAMBDA w : vnode_decref(w, ino)) :
                       o \in sfs_dir_link(u, name, ino)}))

\* Mutant: the inode is not marked dirty.
sfs_link_Clean(s, name, ino) ==
    Then(sfs_dir_link(s, name, ino), LAMBDA t, z :
        {Ok([t EXCEPT !.vn[ino].i.linkcount = @ + 1], 0)})
sfs_link(s, name, ino) ==
    Then(sfs_dir_link(s, name, ino), LAMBDA t, z : {Ok(AddLink(t, ino, 1), 0)})

sfs_remove(s, name) ==
    Then(sfs_lookonce(s, name), LAMBDA t, f :
        Finally(Then(sfs_dir_unlink(t, f.slot), LAMBDA u, z : {Ok(AddLink(u, f.ino, -1), 0)}),
                LAMBDA u : vnode_decref(u, f.ino)))

\* puke_harder: take the new name away again, or panic. The link count goes
\* down without a mark of its own; the inode is still dirty.
RenameBack(s, ino, slot2, err) ==
    UNION {IF o.err # "OK" THEN Fails([o.s EXCEPT !.panicked = "cannot recover"], "panic")
           ELSE Fails([o.s EXCEPT !.vn[ino].i.linkcount = @ - 1], err) :
           o \in sfs_dir_unlink(s, slot2)}

Unlinked(s, ino, slot1, slot2) ==
    UNION {IF o.err = "OK" THEN {Ok(AddLink(o.s, ino, -1), 0)}
           ELSE RenameBack(o.s, ino, slot2, o.err) : o \in sfs_dir_unlink(s, slot1)}

sfs_rename(s, n1, n2) ==
    Then(sfs_lookonce(s, n1), LAMBDA t, f :
        Finally(Then(sfs_dir_link(t, n2, f.ino), LAMBDA u, slot2 :
                    Unlinked(AddLink(u, f.ino, 1), f.ino, f.slot, slot2)),
                LAMBDA u : vnode_decref(u, f.ino)))

-----------------------------------------------------------------------------
(* Writing. A transfer is cut at block boundaries: pos is the offset in the *)
(* file of a piece, len its length.                                         *)

Pieces(off, len) ==
    LET fbs == {fb \in off \div SFS_BLOCKSIZE..(off + len - 1) \div SFS_BLOCKSIZE : len > 0}
        lo(fb) == Max({off, fb * SFS_BLOCKSIZE})
        hi(fb) == Min({off + len, (fb + 1) * SFS_BLOCKSIZE})
    IN  [k \in 1..Cardinality(fbs) |->
            LET fb == Min(fbs) + k - 1 IN [pos |-> lo(fb), len |-> hi(fb) - lo(fb)]]

\* Read, change and write back, unless the whole block is replaced. v is the
\* byte that is written throughout.
\* Mutant: the rest of the block is not read first.
OldData_None(s, b, p) == {Ok(s, Zeros(SFS_BLOCKSIZE))}
OldData(s, b, p) ==
    IF p.len = SFS_BLOCKSIZE THEN {Ok(s, Zeros(SFS_BLOCKSIZE))}
    ELSE Then(sfs_readblock(s, b), LAMBDA t, c : {Ok(t, AsData(c))})

WritePiece(s, ino, p, v) ==
    LET skip == p.pos % SFS_BLOCKSIZE IN
    Then(sfs_bmap(s, ino, p.pos \div SFS_BLOCKSIZE, TRUE), LAMBDA t, b :
        Then(OldData(t, b, p), LAMBDA u, old :
            sfs_writeblock(u, b, Block("data",
                [k \in 1..SFS_BLOCKSIZE |->
                    IF k \in skip + 1..skip + p.len THEN v ELSE old[k]]))))

\* Stops at the first error; v carries the offset that was reached.
sfs_io(s, ino, off, len, v) ==
    LET Step(outs, p) ==
            UNION {IF o.err # "OK" THEN {o}
                   ELSE {[q EXCEPT !.v = IF q.err = "OK" THEN <<p.pos + p.len>> ELSE o.v] :
                            q \in WritePiece(o.s, ino, p, v)} : o \in outs}
    IN  {IF o.v[1] > off /\ o.v[1] > o.s.vn[ino].i.size
         THEN [o EXCEPT !.s.vn[ino].i.size = o.v[1], !.s.vn[ino].dirty = TRUE] ELSE o :
            o \in FoldLeft(Step, {Ok(s, off)}, Pieces(off, len))}

-----------------------------------------------------------------------------
(* Calls. Every path starts at the root of this file system, whose vnode is *)
(* held for as long as the call works in the directory.                     *)

InDirectory(s, F(_)) ==
    Then(sfs_getroot(s), LAMBDA t, z :
        Finally(F(t), LAMBDA u : vnode_decref(u, root)))
sfs_lookup(s, n) ==
    InDirectory(s, LAMBDA t :
        Then(sfs_lookonce(t, n), LAMBDA u, f : {Ok(u, f.ino)}))

Alive == sfs.panicked = "no"

Refs(ino) == held[ino] + (IF cwd /\ ino = root THEN 1 ELSE 0)
Room == FoldSet(LAMBDA b, k : Refs(b) + k, 0, Blocks) < MaxOpen

Idle(o) == /\ mounted /\ Alive
           /\ sfs' = o.s
           /\ UNCHANGED mounted

\* Mutant: the reference is kept when the file cannot be truncated.
OpenTruncated_Leak(s, ino, canwrite) ==
    Then(IF canwrite THEN sfs_itrunc(s, ino, 0) ELSE Fails(s, "EINVAL"),
         LAMBDA t, z : {Ok(t, ino)})
\* O_TRUNC on a file opened for reading is refused once the file is there.
OpenTruncated(s, ino, canwrite) ==
    LET outs == IF canwrite THEN sfs_itrunc(s, ino, 0) ELSE Fails(s, "EINVAL") IN
    UNION {IF o.err = "OK" THEN {Ok(o.s, ino)}
           ELSE Finally({o}, LAMBDA u : vnode_decref(u, ino)) : o \in outs}

vfs_open(n, flags) ==
    LET vn == IF "creat" \in flags
              THEN InDirectory(sfs, LAMBDA t : sfs_creat(t, n, "excl" \in flags))
              ELSE sfs_lookup(sfs, n)
        outs == IF "trunc" \in flags
                THEN Then(vn, LAMBDA t, ino : OpenTruncated(t, ino, "write" \in flags))
                ELSE vn
    IN  /\ Room
        /\ \E o \in outs :
              /\ Idle(o)
              /\ held' = IF o.err = "OK" THEN [held EXCEPT ![o.v[1]] = @ + 1] ELSE held
              /\ UNCHANGED cwd

vfs_close(ino) ==
    /\ held[ino] > 0
    /\ \E o \in vnode_decref(sfs, ino) : Idle(o)
    /\ held' = [held EXCEPT ![ino] = @ - 1]
    /\ UNCHANGED cwd

sfs_write(ino, off, len, v) ==
    /\ held[ino] > 0
    /\ \E o \in sfs_io(sfs, ino, off, len, v) : Idle(o)
    /\ UNCHANGED <<held, cwd>>

sfs_truncate(ino, len) ==
    /\ held[ino] > 0
    /\ \E o \in sfs_itrunc(sfs, ino, len) : Idle(o)
    /\ UNCHANGED <<held, cwd>>

vfs_remove(n) ==
    /\ \E o \in InDirectory(sfs, LAMBDA t : sfs_remove(t, n)) : Idle(o)
    /\ UNCHANGED <<held, cwd>>

vfs_rename(n1, n2) ==
    /\ \E o \in InDirectory(sfs, LAMBDA t :
                    InDirectory(t, LAMBDA u : sfs_rename(u, n1, n2))) : Idle(o)
    /\ UNCHANGED <<held, cwd>>

vfs_link(n1, n2) ==
    /\ \E o \in Then(sfs_lookup(sfs, n1), LAMBDA t, ino :
                    Finally(InDirectory(t, LAMBDA u : sfs_link(u, n2, ino)),
                            LAMBDA u : vnode_decref(u, ino))) : Idle(o)
    /\ UNCHANGED <<held, cwd>>

\* The vnode that vfs_lookup returns becomes the current directory.
vfs_chdir ==
    /\ ~cwd /\ Room
    /\ \E o \in sfs_getroot(sfs) : Idle(o) /\ cwd' = (o.err = "OK")
    /\ UNCHANGED held
vfs_clearcurdir ==
    /\ cwd
    /\ \E o \in vnode_decref(sfs, root) : Idle(o)
    /\ cwd' = FALSE
    /\ UNCHANGED held

\* Errors of single vnodes are ignored.
sfs_sync_vnodes(s) ==
    FoldSet(LAMBDA ino, outs : Then(outs, LAMBDA t, z :
                {Ok(o.s, 0) : o \in sfs_sync_inode(t, ino)}), {Ok(s, 0)}, Loaded(s))
sfs_sync_freemap(s) ==
    IF ~s.freemapdirty THEN {Ok(s, 0)}
    ELSE Then(sfs_writeblock(s, SFS_FREEMAP_START, Block("freemap", s.freemap)),
              LAMBDA t, z : {Ok([t EXCEPT !.freemapdirty = FALSE], 0)})
sfs_sync(s) == Then(sfs_sync_vnodes(s), LAMBDA t, z : sfs_sync_freemap(t))

vfs_sync ==
    /\ \E o \in sfs_sync(sfs) : Idle(o)
    /\ UNCHANGED <<held, cwd>>

\* Sync, then refuse if any vnode is loaded, then drop the file system.
sfs_unmount(s) == IF Loaded(s) # {} THEN Fails(s, "EBUSY")
                  ELSE IF s.freemapdirty THEN Panic(s) ELSE {Ok(s, 0)}
vfs_unmount ==
    /\ mounted /\ Alive
    /\ \E o \in Then(sfs_sync(sfs), LAMBDA t, z : sfs_unmount(t)) :
          sfs' = o.s /\ mounted' = (o.err # "OK")
    /\ UNCHANGED <<held, cwd>>

AsFreemap(b) == Read(b, "freemap", {})
sfs_domount(s) ==
    NoMemory(s) \cup
    Then(sfs_readblock(s, 0), LAMBDA t, sb :
        Then(sfs_readblock(t, SFS_FREEMAP_START), LAMBDA u, c :
            {Ok([u EXCEPT !.freemap = AsFreemap(c), !.freemapdirty = FALSE,
                          !.vn = [b \in Blocks |-> NoVnode]], 0)}))
sfs_mount ==
    /\ ~mounted /\ Alive
    /\ \E o \in sfs_domount(sfs) : sfs' = o.s /\ mounted' = (o.err = "OK")
    /\ UNCHANGED <<held, cwd>>

\* An empty file system as mksfs makes it.
mksfs ==
    [b \in Blocks |->
        CASE b = SFS_FREEMAP_START -> Block("freemap", {0, root, SFS_FREEMAP_START})
          [] b = root -> Block("inode", [BlankInode EXCEPT !.type = "DIR", !.linkcount = 1])
          [] OTHER -> Cleared]

Init ==
    /\ sfs = [freemap |-> {}, freemapdirty |-> FALSE, panicked |-> "no",
              vn |-> [b \in Blocks |-> NoVnode], disk |-> mksfs]
    /\ mounted = FALSE
    /\ held = [b \in Blocks |-> 0]
    /\ cwd = FALSE

Flags == {f \in SUBSET {"creat", "excl", "trunc", "write"} :
            /\ "excl" \in f => f = {"creat", "excl"}
            /\ "write" \in f => "trunc" \in f}   \* O_WRONLY matters to O_TRUNC only

Next ==
    \/ \E n \in Names, f \in Flags : vfs_open(n, f)
    \/ \E ino \in Blocks : vfs_close(ino)
    \/ \E ino \in Blocks, off \in 0..MaxSize, len \in 1..MaxWrite : sfs_write(ino, off, len, 1)
    \/ \E ino \in Blocks, len \in TruncLens : sfs_truncate(ino, len)
    \/ \E n \in Names : vfs_remove(n)
    \/ \E n1, n2 \in Names : vfs_rename(n1, n2)
    \/ \E n1, n2 \in Names : vfs_link(n1, n2)
    \/ vfs_chdir
    \/ vfs_clearcurdir
    \/ vfs_sync
    \/ sfs_mount
    \/ vfs_unmount

Spec == Init /\ [][Next]_vars

-----------------------------------------------------------------------------
(* Properties                                                               *)

Marked == IF mounted THEN sfs.freemap ELSE AsFreemap(sfs.disk[SFS_FREEMAP_START])
InodeOf(ino) == IF sfs.vn[ino] # NoVnode THEN sfs.vn[ino].i ELSE AsInode(sfs.disk[ino])

\* The disk block behind block k of a file, counting from 1; 0 is a hole.
BlockAt(ino, k) ==
    LET i == InodeOf(ino) IN
    IF k <= SFS_NDIRECT THEN i.direct[k]
    ELSE IF i.indirect = 0 THEN 0 ELSE AsMap(sfs.disk[i.indirect])[k - SFS_NDIRECT]
FileBlocks == 1..SFS_NDIRECT + SFS_DBPERIDB

Entry(slot) ==
    LET b == BlockAt(root, (slot \div PERBLOCK) + 1) IN
    IF b = 0 THEN NoEntry ELSE AsEntries(sfs.disk[b])[(slot % PERBLOCK) + 1]
\* The names in the directory, with their slots.
Links == {l \in {[slot |-> k, e |-> Entry(k)] : k \in 0..InodeOf(root).size - 1} :
             l.e.ino # SFS_NOINO}

\* All that refers to a block, as pairs of the block and the reference: the
\* layout of the disk, an inode that a name or a vnode leads to, and its
\* pointers.
References ==
    LET inodes == {root} \cup {l.e.ino : l \in Links} \cup Loaded(sfs)
    IN  {<<0, "superblock">>, <<SFS_FREEMAP_START, "freemap">>}
          \cup {<<ino, "inode">> : ino \in inodes}
          \cup {r \in {<<InodeOf(ino).indirect, <<ino, 0>>>> : ino \in inodes} : r[1] # 0}
          \cup {r \in {<<BlockAt(p[1], p[2]), p>> : p \in inodes \X FileBlocks} : r[1] # 0}
Referred == {r[1] : r \in References}

SfsTypeOK ==
    /\ mounted \in BOOLEAN /\ cwd \in BOOLEAN
    /\ held \in [Blocks -> 0..MaxOpen]
    /\ sfs.freemap \subseteq Blocks
    /\ sfs.freemapdirty \in BOOLEAN
    /\ \A b \in Loaded(sfs) :
          /\ sfs.vn[b].ref \in 1..MaxOpen + 2
          /\ sfs.vn[b].i.type = (IF b = root THEN "DIR" ELSE "FILE")
          /\ sfs.vn[b].i.size \in 0..MaxSize

\* The bitmap is exactly the blocks in use: no block is lost by a call that
\* fails halfway, none is free that a file, a name or an open file needs, and
\* none belongs to two files, or to a file twice, or is both inode and data.
FreemapExact ==
    /\ Marked = Referred
    /\ Cardinality(References) = Cardinality(Referred)

\* A link count is the number of names, also after a rename or a creation
\* that failed halfway, and for files that have lost their names while open.
LinkCountsExact ==
    LET links == Links IN
    \A ino \in ({l.e.ino : l \in links} \cup Loaded(sfs)) \ {root} :
        InodeOf(ino).linkcount = Cardinality({l \in links : l.e.ino = ino})

\* Every reference to a vnode is somebody's, so that it is reclaimed and the
\* file system can be unmounted. The exception is a file that could not be
\* erased: nobody can reach it any more, and unmounting is refused for good.
RefcountsExact ==
    Alive => \A ino \in Blocks :
        IF ino \in Loaded(sfs)
        THEN \/ sfs.vn[ino].ref = Refs(ino)
             \/ /\ Refs(ino) = 0 /\ sfs.vn[ino].ref = 1
                /\ sfs.vn[ino].i.linkcount = 0 /\ "read" \in Faults
        ELSE Refs(ino) = 0

\* Both counts, on disk and in memory, are what they count.
CountsExact == LinkCountsExact /\ RefcountsExact

\* A vnode or bitmap that is not marked dirty is on disk as it is in memory.
CleanIsOnDisk ==
    mounted =>
        /\ \A ino \in Loaded(sfs) :
              sfs.vn[ino].dirty \/ AsInode(sfs.disk[ino]) = sfs.vn[ino].i
        /\ sfs.freemapdirty \/ AsFreemap(sfs.disk[SFS_FREEMAP_START]) = sfs.freemap

\* None of the panics and assertions about free blocks, link counts, types,
\* duplicate names and dirty state at unmount is reached. (A rename that can
\* neither go on nor back panics on purpose.)
NeverPanics == sfs.panicked # "assertion"

-----------------------------------------------------------------------------
(* What the file system implements                                          *)

Byte(ino, k) ==
    LET b == BlockAt(ino, (k \div SFS_BLOCKSIZE) + 1) IN
    IF b = 0 THEN 0 ELSE AsData(sfs.disk[b])[(k % SFS_BLOCKSIZE) + 1]
Contents(ino) == [k \in 1..InodeOf(ino).size |-> Byte(ino, k - 1)]
=============================================================================
