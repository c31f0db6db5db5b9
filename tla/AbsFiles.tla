------------------------------ MODULE AbsFiles ------------------------------
(* What a file system promises: names that lead to files, files that keep   *)
(* what is written to them for as long as they have a name or are open, and *)
(* calls that either happen or leave the names alone. A write may stop      *)
(* early, a truncation that fails may lose the beginning of the file.       *)
EXTENDS Integers, Sequences

CONSTANTS Names, Ids, NoFile, MaxLen

VARIABLES name, file, open

vars == <<name, file, open>>

InUse(f) == open[f] > 0 \/ \E n \in Names : name[n] = f

Init ==
    /\ name = [n \in Names |-> NoFile]
    /\ file = [f \in Ids |-> <<>>]
    /\ open = [f \in Ids |-> 0]

\* A file that nobody can reach is gone.
Kept(contents) ==
    file' = [f \in Ids |-> IF open'[f] > 0 \/ \E n \in Names : name'[n] = f
                           THEN contents[f] ELSE <<>>]

Create(n, f) ==
    /\ name[n] = NoFile /\ ~InUse(f)
    /\ name' = [name EXCEPT ![n] = f]
    /\ open' \in {open, [open EXCEPT ![f] = 1]}
    /\ Kept(file)

Open(n, trunc) ==
    /\ name[n] # NoFile
    /\ open' = [open EXCEPT ![name[n]] = @ + 1]
    /\ Kept(IF trunc THEN [file EXCEPT ![name[n]] = <<>>] ELSE file)
    /\ UNCHANGED name

Close(f) ==
    /\ open[f] > 0
    /\ open' = [open EXCEPT ![f] = @ - 1]
    /\ Kept(file)
    /\ UNCHANGED name

Link(n1, n2) ==
    /\ name[n1] # NoFile /\ name[n2] = NoFile
    /\ name' = [name EXCEPT ![n2] = name[n1]]
    /\ UNCHANGED <<file, open>>

Remove(n) ==
    /\ name[n] # NoFile
    /\ name' = [name EXCEPT ![n] = NoFile]
    /\ UNCHANGED open
    /\ Kept(file)

Rename(n1, n2) ==
    /\ name[n1] # NoFile /\ name[n2] = NoFile
    /\ name' = [name EXCEPT ![n1] = NoFile, ![n2] = name[n1]]
    /\ UNCHANGED <<file, open>>

\* Bytes between the old end and the new ones read as zeros.
Overwritten(s, off, len, v) ==
    [k \in 1..(IF off + len > Len(s) THEN off + len ELSE Len(s)) |->
        IF k > off /\ k <= off + len THEN v
        ELSE IF k <= Len(s) THEN s[k] ELSE 0]
Write(f, v) ==
    /\ open[f] > 0
    /\ \E off \in 0..MaxLen - 1 : \E len \in 1..MaxLen - off :
          file' = [file EXCEPT ![f] = Overwritten(@, off, len, v)]

Truncate(f, len) ==
    /\ InUse(f)
    /\ file' = [file EXCEPT ![f] =
                  [k \in 1..len |-> IF k <= Len(file[f]) THEN file[f][k] ELSE 0]]
TruncateFails(f) ==
    /\ InUse(f)
    /\ \E n \in 1..Len(file[f]) :
          file' = [file EXCEPT ![f] = [k \in 1..Len(@) |-> IF k <= n THEN 0 ELSE @[k]]]

\* Calls that change the contents of a file and nothing else.
Change ==
    /\ UNCHANGED <<name, open>>
    /\ file' # file
    /\ \E f \in Ids : \/ Write(f, 1)
                      \/ \E len \in 0..MaxLen : Truncate(f, len)
                      \/ TruncateFails(f)

Next ==
    \/ \E n \in Names, f \in Ids : Create(n, f)
    \/ \E n \in Names, t \in BOOLEAN : Open(n, t)
    \/ \E f \in Ids : Close(f)
    \/ \E n1, n2 \in Names : Link(n1, n2)
    \/ \E n \in Names : Remove(n)
    \/ \E n1, n2 \in Names : Rename(n1, n2)
    \/ Change

Spec == Init /\ [][Next]_vars
=============================================================================
