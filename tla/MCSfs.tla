------------------------------- MODULE MCSfs -------------------------------
(* The small file system implements files as programs see them. The mapping *)
(* is kept in a history variable, so that TLC computes it once per state.   *)
EXTENDS Sfs, TLC

VARIABLE seen

FileIds == Blocks \ {0, root, SFS_FREEMAP_START}
Named(links, n) == {l.e.ino : l \in {l \in links : l.e.name = n}}
NameMap(links) ==
    [n \in Names |-> IF Named(links, n) = {} THEN SFS_NOINO
                     ELSE CHOOSE ino \in Named(links, n) : TRUE]

SeenInit ==
    /\ Init
    /\ seen = [name |-> [n \in Names |-> SFS_NOINO],
               file |-> [ino \in FileIds |-> <<>>], open |-> [ino \in FileIds |-> 0]]
SeenNext ==
    /\ Next
    /\ \E names \in {NameMap(links) : links \in {Links'}} :
          seen' = [name |-> names,
                   file |-> [ino \in FileIds |->
                               IF held'[ino] > 0 \/ \E n \in Names : names[n] = ino
                               THEN Contents(ino)' ELSE <<>>],
                   open |-> [ino \in FileIds |-> held'[ino]]]
SeenSpec == SeenInit /\ [][SeenNext]_<<vars, seen>>

Files == INSTANCE AbsFiles WITH
            Ids <- FileIds, NoFile <- SFS_NOINO, MaxLen <- MaxSize,
            name <- seen.name, file <- seen.file, open <- seen.open
\* Whatever fails on the way, names lead to the same files, and files keep
\* what was written to them for as long as they have a name or are open.
FilesSpec == Files!Spec

\* States are told apart by what may still be read from the disk: not by
\* blocks that are free, and cleared before they are used, nor by blocks whose
\* newer contents are in memory.
Stale(b) == \/ b \notin Marked
            \/ sfs.vn[b] # NoVnode /\ sfs.vn[b].dirty
            \/ b = SFS_FREEMAP_START /\ mounted /\ sfs.freemapdirty
Live == <<[sfs EXCEPT !.disk = [b \in Blocks |-> IF Stale(b) THEN Cleared ELSE @[b]]],
          mounted, held, cwd>>

NameSymmetry == Permutations(Names)
=============================================================================
