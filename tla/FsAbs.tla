--------------------------------- MODULE FsAbs ---------------------------------
(***************************************************************************)
(* What the file system promises: inodes that are files, sequences of      *)
(* bytes, or directories, sets of named entries; open files with an offset *)
(* that all who share the file move together; and inodes that go only when *)
(* nothing names them and nobody uses them.  Fs is shown to implement it.  *)
(***************************************************************************)
EXTENDS Naturals, Sequences

CONSTANTS
    Inum, File, Proc,
    Spill   \* the most a write that fails may change and not report

VARIABLES
    node,   \* [type, bytes, ents]
    open,   \* the inode, 0 if closed, and the offset
    cwd     \* current directories

abs == <<node, open, cwd>>

Free == [type |-> "free", bytes |-> <<>>, ents |-> {}]
Closed == [ip |-> 0, off |-> 0]
Dots == {<<".">>, <<".", ".">>}
InUse(k) == (\E f \in File : open[f].ip = k) \/ (\E p \in Proc : cwd[p] = k)

(* The actions say how the inodes change from old to new, and the open     *)
(* files with them.                                                        *)
Others(old, new, K) == \A k \in Inum \ K : new[k] = old[k]

(* A new file or directory k in directory d, opened or not. *)
NewNode(d, k, t) ==
    [Free EXCEPT !.type = t,
                 !.ents = IF t = "dir" THEN {<<k, <<".">>>>, <<d, <<".", ".">>>>} ELSE {}]

Create(old, new) ==
    \E d \in Inum : \E e \in new[d].ents \ old[d].ents :
        LET k == e[1]
        IN  /\ old[d].type = "dir" /\ old[k] = Free /\ new[k].type # "free"
            /\ \A x \in old[d].ents : x[2] # e[2]
            /\ new[k] = NewNode(d, k, new[k].type)
            /\ new[d] = [old[d] EXCEPT !.ents = @ \cup {e}]
            /\ Others(old, new, {d, k})
            /\ \/ UNCHANGED open
               \/ \E f \in File : /\ open[f] = Closed /\ new[k].type = "file"
                                  /\ open' = [open EXCEPT ![f] = [ip |-> k, off |-> 0]]

(* A file is emptied only when it is opened. *)
Open(old, new, f) ==
    LET k == open'[f].ip
    IN  /\ open[f] = Closed /\ k # 0
        /\ open' = [open EXCEPT ![f] = [ip |-> k, off |-> 0]]
        /\ old[k].type # "free"
        /\ new[k] \in {old[k], [old[k] EXCEPT !.bytes = <<>>]}
        /\ Others(old, new, {k})

(* The caller's next bytes, which are numbered, go where the offset is.    *)
(* When the copy of more of them fails, some may still replace old ones.   *)
Write(old, new, f) ==
    LET k == open[f].ip
        off == open[f].off
        end == open'[f].off
        was == old[k].bytes
        is == new[k].bytes
    IN  /\ k # 0 /\ end >= off
        /\ open' = [open EXCEPT ![f].off = end]
        /\ old[k].type = "file" /\ new[k] = [old[k] EXCEPT !.bytes = is]
        /\ off <= Len(was) /\ Len(is) = IF end > Len(was) THEN end ELSE Len(was)
        /\ \A j \in DOMAIN is :
            CASE j \in off + 2..end -> is[j] = is[j - 1] + 1
              [] j \in end + 1..end + Spill -> is[j] = was[j] \/ j = off + 1 \/ is[j] = is[j - 1] + 1
              [] j \notin off + 1..end + Spill -> is[j] = was[j]
              [] OTHER -> TRUE
        /\ Others(old, new, {k})

Read(f) ==
    /\ open[f].ip # 0
    /\ open'[f].off >= open[f].off
    /\ open' = [open EXCEPT ![f].off = open'[f].off]
    /\ node[open[f].ip].type = "file" => open'[f].off <= Len(node[open[f].ip].bytes)
    /\ UNCHANGED node

Close(f) ==
    /\ open[f] # Closed
    /\ open' = [open EXCEPT ![f] = Closed]
    /\ UNCHANGED node

(* A directory that is removed has no entries but its own two. *)
Unlink(old, new) ==
    \E d \in Inum : \E e \in old[d].ents \ new[d].ents :
        /\ e[2] \notin Dots
        /\ \A x \in old[e[1]].ents : x[2] \in Dots
        /\ new[d] = [old[d] EXCEPT !.ents = @ \ {e}]
        /\ Others(old, new, {d})

(* Inodes nobody uses, that no directory that stays names. *)
Release(old, new) ==
    LET K == {k \in Inum : new[k] # old[k]}
    IN  /\ \A k \in K : new[k] = Free /\ ~InUse(k)
        /\ \A d \in Inum \ K : \A e \in old[d].ents : e[1] \in K => e[2] \in Dots

Chdir(p) ==
    /\ cwd' = [cwd EXCEPT ![p] = cwd'[p]]
    /\ node[cwd'[p]].type = "dir"
    /\ UNCHANGED <<node, open>>

Next ==
    \/ \E old \in {node}, new \in {node'} :
        \/ /\ Create(old, new) \/ (\E f \in File : Open(old, new, f) \/ Write(old, new, f))
           /\ UNCHANGED cwd
        \/ /\ Unlink(old, new) \/ Release(old, new)
           /\ UNCHANGED <<open, cwd>>
    \/ (\E f \in File : Read(f) \/ Close(f)) /\ UNCHANGED cwd
    \/ \E p \in Proc : Chdir(p)

Spec == [][Next]_abs
================================================================================
