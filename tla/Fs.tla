---------------------------------- MODULE Fs ----------------------------------
(***************************************************************************)
(* The content of files and directories (kernel/fs.c: balloc, bmap, itrunc, *)
(* readi, writei, dirlookup, dirlink, namex; the calls of kernel/sysfile.c  *)
(* and kernel/file.c on paths and files), on the image mkfs/mkfs.c makes.   *)
(*                                                                         *)
(* The disk is a record that the functions take and return, with their     *)
(* result in its field r.  What a process does while it holds an inode's   *)
(* lock is one step: other processes share only the bitmap and the free    *)
(* inodes with it, and each allocation of those is atomic.  The iput of an *)
(* inode that was just unlocked waits for the process's next step: others  *)
(* come in between.  Log and Inode have the crashes.  A panic stops all.    *)
(*                                                                         *)
(* A unit stands for a byte of a file, an address of an indirect block or  *)
(* a directory entry: <<number, name>>, zero being <<0, <<>>>>.             *)
(***************************************************************************)
EXTENDS Integers, Sequences, FiniteSets, SequencesExt, FiniteSetsExt

CONSTANTS
    Proc, File,    \* processes, and the entries of ftable
    NInum,         \* sb.ninodes - 1
    NBlock,        \* data blocks on the disk
    BSIZE, NDIRECT, DIRSIZ, MAXOPBLOCKS,
    NINODE,        \* entries of itable
    Images,        \* the disks to boot from: the files mkfs is given, a sequence
                   \* of [name, data], and directories made since, each in the last
    Calls,         \* the system calls the processes make
    MaxCalls       \* bound on their number

ASSUME FsAssumption ==
    /\ {NInum, NBlock, BSIZE, NDIRECT, DIRSIZ, NINODE, MaxCalls} \subseteq Nat \ {0}
    /\ MAXOPBLOCKS \in 6..100

VARIABLES
    disk,    \* the disk and the inodes in memory
    file,    \* ftable: ip = 0 when free
    cwd,     \* p->cwd
    proc,    \* where each process is in its call
    calls

vars == <<disk, file, cwd, proc, calls>>

Block == 1..NBlock
Inum == 1..NInum
ROOTINO == 1
NINDIRECT == BSIZE
MAXFILE == NDIRECT + NINDIRECT
Zero == <<0, <<>>>>
Unit(n) == <<n, <<>>>>
ZeroBlock == [i \in 0..BSIZE - 1 |-> Zero]
Dot == <<".">>
DotDot == <<".", ".">>

(* The blocks a transaction may write: the bitmap, an inode's, a data block. *)
BBLOCK == 0
IBLOCK(k) == -k

NoInode == [type |-> "free", nlink |-> 0, size |-> 0, addrs |-> [i \in 0..NDIRECT |-> 0]]

(* The first panic is the one that counts. *)
Panic(D, why) == IF D.panic = "no" THEN [D EXCEPT !.panic = why] ELSE D

(* log_write: outside of a transaction it panics. *)
log_write(D, b) == IF D.trans THEN [D EXCEPT !.log = @ \cup {b}] ELSE Panic(D, "log_write outside of trans")
-----------------------------------------------------------------------------
(* balloc: the first free block, zeroed, or 0. *)
Take(D, b) ==
    [log_write(log_write(D, BBLOCK), b) EXCEPT
        !.used = @ \cup {b}, !.data[b] = ZeroBlock, !.r = b]

balloc(D) == IF D.used = Block THEN [D EXCEPT !.r = 0] ELSE Take(D, Min(Block \ D.used))

bfree(D, b) ==
    IF b \in D.used THEN [log_write(D, BBLOCK) EXCEPT !.used = @ \ {b}]
    ELSE Panic(D, "freeing free block")

RECURSIVE bfreeAll(_, _)
bfreeAll(D, s) == IF s = <<>> THEN D ELSE bfreeAll(bfree(D, Head(s)), Tail(s))

(* bmap: the block of inode k's bn-th block of content, allocated if need  *)
(* be: an address of the inode, or one of its indirect block a.            *)
SetAddr(D, k, i) == IF D.r = 0 THEN D ELSE [D EXCEPT !.ip[k].addrs[i] = D.r]
SetIndirect(D, a, j) ==
    IF D.r = 0 THEN D ELSE log_write([D EXCEPT !.data[a][j] = Unit(D.r)], a)

bmapAddr(D, k, i) ==
    IF D.ip[k].addrs[i] # 0 THEN [D EXCEPT !.r = D.ip[k].addrs[i]] ELSE SetAddr(balloc(D), k, i)

bmapIndirect(D, a, j) ==
    IF a = 0 \/ D.data[a][j] # Zero
    THEN [D EXCEPT !.r = IF a = 0 THEN 0 ELSE D.data[a][j][1]]
    ELSE SetIndirect(balloc(D), a, j)

bmapBeyond(D, j) == bmapIndirect(D, D.r, j)

bmap(D, k, bn) ==
    IF bn < NDIRECT THEN bmapAddr(D, k, bn)
    ELSE IF bn - NDIRECT < NINDIRECT THEN bmapBeyond(bmapAddr(D, k, NDIRECT), bn - NDIRECT)
    ELSE Panic([D EXCEPT !.r = 0], "bmap: out of range")

iupdate(D, k) == log_write([D EXCEPT !.din[k] = D.ip[k]], IBLOCK(k))

NonZero(s) == SelectSeq(s, LAMBDA x : x # 0)
Addrs(node) == NonZero([i \in 1..NDIRECT |-> node.addrs[i - 1]])
Indirect(D, node) ==
    LET a == node.addrs[NDIRECT]
    IN  IF a = 0 THEN <<>> ELSE NonZero([i \in 1..NINDIRECT |-> D.data[a][i - 1][1]]) \o <<a>>

Listed(D, node) == Addrs(node) \o Indirect(D, node)

itrunc(D, k) ==
    iupdate([bfreeAll(D, Listed(D, D.ip[k])) EXCEPT
                !.ip[k].addrs = NoInode.addrs, !.ip[k].size = 0], k)

At(off) == off % BSIZE
Piece(off, n) == Min({n, BSIZE - At(off)})

(* readi: r is what was read; cut short if bmap fails.  buf is what the    *)
(* pieces before off had.                                                  *)
RECURSIVE readiFrom(_, _, _, _, _)
readiPiece(D, k, off, n, m, buf) ==
    IF D.r = 0 THEN [D EXCEPT !.r = buf]
    ELSE readiFrom(D, k, off + m, n - m,
                   buf \o [i \in 1..m |-> D.data[D.r][At(off) + i - 1]])
readiFrom(D, k, off, n, buf) ==
    IF n = 0 THEN [D EXCEPT !.r = buf]
    ELSE readiPiece(bmap(D, k, off \div BSIZE), k, off, n, Piece(off, n), buf)

(* Seeded fault: the count is not cut at the end of the file. *)
readi_NoEnd(D, k, off, n) ==
    IF off > D.ip[k].size THEN [D EXCEPT !.r = <<>>] ELSE readiFrom(D, k, off, n, <<>>)

readi(D, k, off, n) ==
    IF off > D.ip[k].size THEN [D EXCEPT !.r = <<>>]
    ELSE readiFrom(D, k, off, Min({n, D.ip[k].size - off}), <<>>)

(* writei, of the sequence src; only its first ok units can be copied in.  *)
(* A piece whose copy fails is left half done, and not logged.             *)
Copy(block, off, src) ==
    [i \in 0..BSIZE - 1 |->
        IF i - At(off) \in 0..Len(src) - 1 THEN src[i - At(off) + 1] ELSE block[i]]

(* Seeded fault: the inode goes to the disk only when the file grew. *)
Written_IfGrown(D, k, off, tot) ==
    IF off > D.ip[k].size THEN iupdate([D EXCEPT !.ip[k].size = off, !.r = tot], k)
    ELSE [D EXCEPT !.r = tot]

Written(D, k, off, tot) ==
    iupdate([D EXCEPT !.ip[k].size = Max({@, off}), !.r = tot], k)

CopyIn(D, b, off, src) == [D EXCEPT !.data[b] = Copy(@, off, src)]

RECURSIVE writeiFrom(_, _, _, _, _, _)
writeiPiece(D, k, off, src, m, ok, tot) ==
    IF D.r = 0 THEN Written(D, k, off, tot)
    ELSE IF ok < m THEN Written(CopyIn(D, D.r, off, SubSeq(src, 1, ok)), k, off, tot)
    ELSE writeiFrom(log_write(CopyIn(D, D.r, off, SubSeq(src, 1, m)), D.r), k, off + m,
                    SubSeq(src, m + 1, Len(src)), ok - m, tot + m)
writeiFrom(D, k, off, src, ok, tot) ==
    IF src = <<>> THEN Written(D, k, off, tot)
    ELSE writeiPiece(bmap(D, k, off \div BSIZE), k, off, src, Piece(off, Len(src)), ok, tot)

(* Seeded fault: a write may start beyond the end of the file. *)
writei_NoOffTest(D, k, off, src, ok) ==
    IF off + Len(src) > MAXFILE * BSIZE THEN [D EXCEPT !.r = -1]
    ELSE writeiFrom(D, k, off, src, ok, 0)

writei(D, k, off, src, ok) ==
    IF off > D.ip[k].size \/ off + Len(src) > MAXFILE * BSIZE THEN [D EXCEPT !.r = -1]
    ELSE writeiFrom(D, k, off, src, ok, 0)
-----------------------------------------------------------------------------
(* iget: a reference, to an entry of the table that is found or recycled.  *)
iget(D, k) ==
    IF D.ref[k] = 0 /\ Cardinality({j \in Inum : D.ref[j] > 0}) >= NINODE
    THEN Panic(D, "iget: no inodes")
    ELSE [D EXCEPT !.ref[k] = @ + 1]

(* ilock: the first lock of an entry reads the inode. *)
ilock(D, k) ==
    CASE D.ref[k] < 1 -> Panic(D, "ilock")
      [] D.ref[k] >= 1 /\ k \in D.valid -> D
      [] D.ref[k] >= 1 /\ k \notin D.valid ->
           [(IF D.din[k].type = "free" THEN Panic(D, "ilock: no type") ELSE D) EXCEPT
               !.ip[k] = D.din[k], !.valid = @ \cup {k}]

(* The end of iput.  What an entry without references had is forgotten, as *)
(* the next iget would make it.                                            *)
Unref(D, k) ==
    IF D.ref[k] = 1 THEN [D EXCEPT !.ref[k] = 0, !.valid = @ \ {k}, !.ip[k] = NoInode]
    ELSE [D EXCEPT !.ref[k] = @ - 1]

iput(D, k) ==
    IF D.ref[k] = 1 /\ k \in D.valid /\ D.ip[k].nlink = 0
    THEN Unref(iupdate([itrunc(D, k) EXCEPT !.ip[k].type = "free"], k), k)
    ELSE Unref(D, k)

RECURSIVE iputAll(_, _)
iputAll(D, s) == IF s = <<>> THEN D ELSE iputAll(iput(D, Head(s)), Tail(s))

(* ialloc: the first free inode on the disk, and a reference to it, or 0. *)
iallocAt(D, k, type) ==
    [iget(log_write([D EXCEPT !.din[k] = [NoInode EXCEPT !.type = type]], IBLOCK(k)), k)
        EXCEPT !.r = k]

ialloc(D, type) ==
    IF \A k \in Inum : D.din[k].type # "free" THEN [D EXCEPT !.r = 0]
    ELSE iallocAt(D, Min({k \in Inum : D.din[k].type = "free"}), type)

(* The first entry from off on that is one of Wanted: r is its number and  *)
(* its offset, the number 0 and the end if there is none.                  *)
Entries(Numbers) == Numbers \X Seq(STRING)

RECURSIVE ScanDir(_, _, _, _)
ScanEntry(D, k, Wanted, off) ==
    IF Len(D.r) # 1 THEN Panic([D EXCEPT !.r = <<0, off>>], "dirlookup read")
    ELSE IF D.r[1] \in Wanted THEN [D EXCEPT !.r = <<D.r[1][1], off>>]
    ELSE ScanDir(D, k, Wanted, off + 1)
ScanDir(D, k, Wanted, off) ==
    IF off >= D.ip[k].size THEN [D EXCEPT !.r = <<0, off>>]
    ELSE ScanEntry(readi(D, k, off, 1), k, Wanted, off)

(* dirlookup: the inode with that name gets a reference. *)
Found(D) == IF D.r[1] = 0 THEN D ELSE iget(D, D.r[1])

dirlookup(D, k, name) ==
    Found(ScanDir(IF D.ip[k].type = "dir" THEN D ELSE Panic(D, "dirlookup not DIR"), k, Inum \X {name}, 0))

isdirempty(D, k) == ScanDir(D, k, Entries(Inum), 2)

(* dirlink: r is 1 if it was done.  The entry goes where one is free.      *)
Slot(D, k) == ScanDir(D, k, Entries({0}), 0)

WriteEntry(D, k, entry) == writei(D, k, D.r[2], <<entry>>, 1)

dirlinkIf(D, k, name, inum) ==
    IF D.r[1] # 0 THEN [iput(D, D.r[1]) EXCEPT !.r = -1]
    ELSE WriteEntry(Slot(D, k), k, <<inum, name>>)

dirlink(D, k, name, inum) == dirlinkIf(dirlookup(D, k, name), k, name, inum)

(* create, once its directory dp is locked and does not have the name: r is *)
(* the new inode, or 0.                                                     *)
Nlink(D, k, change) == iupdate([D EXCEPT !.ip[k].nlink = @ + change], k)

dirlinkThen(D, dp, name, k) == IF D.r = 1 THEN dirlink(D, dp, name, k) ELSE D

NewDir(D, k, dp) == dirlinkThen(dirlink(D, k, Dot, k), k, DotDot, dp)

Created(D, k, dp, type) ==
    CASE D.r # 1 -> [iput(Nlink(D, k, -1), k) EXCEPT !.r = 0]
      [] D.r = 1 /\ type = "dir" -> [Nlink(D, dp, 1) EXCEPT !.r = k]
      [] D.r = 1 /\ type = "file" -> [D EXCEPT !.r = k]

createAt(D, k, dp, name, type) ==
    IF k = 0 THEN D
    ELSE IF type = "dir"
    THEN Created(dirlinkThen(NewDir(Nlink(D, k, 1), k, dp), dp, name, k), k, dp, type)
    ELSE Created(dirlink(Nlink(D, k, 1), dp, name, k), k, dp, type)

createNew(D, dp, name, type) ==
    createAt(IF D.r = 0 THEN D ELSE ilock(D, D.r), D.r, dp, name, type)
create(D, dp, name, type) == createNew(ialloc(D, type), dp, name, type)

(* sys_unlink, once dp is locked: r is the inode the name was of, whose    *)
(* reference is still held, or 0.  A directory that is not empty stays.    *)
RemovedEntry(D, dp, k) ==
    [Nlink(IF D.ip[k].type = "dir" THEN Nlink(D, dp, -1) ELSE D, k, -1) EXCEPT !.r = k]

Wrote(D) == IF D.r = 1 THEN D ELSE Panic(D, "unlink: writei")

unlinkIf(D, dp, k, off) ==
    IF D.r[1] # 0 THEN [D EXCEPT !.r = k]
    ELSE RemovedEntry(Wrote(writei(D, dp, off, <<Zero>>, 1)), dp, k)

unlinkAt(D, dp, k, off) ==
    CASE k = 0 -> [D EXCEPT !.r = 0]
      [] k # 0 /\ D.ip[k].nlink < 1 -> Panic([D EXCEPT !.r = 0], "unlink: nlink < 1")
      [] k # 0 /\ D.ip[k].nlink >= 1 ->
           unlinkIf(IF D.ip[k].type = "dir" THEN isdirempty(D, k)
                    ELSE [D EXCEPT !.r = <<0, 0>>], dp, k, off)

unlinkFound(D, dp) ==
    unlinkAt(IF D.r[1] = 0 THEN D ELSE ilock(D, D.r[1]), dp, D.r[1], D.r[2])
unlink(D, dp, name) ==
    IF name \in {Dot, DotDot} THEN [D EXCEPT !.r = 0] ELSE unlinkFound(dirlookup(D, dp, name), dp)

(* skipelem: a path is a sequence of characters. *)
SlashAt(path) == {j \in DOMAIN path : path[j] = "/"}
From(path, j) == SubSeq(path, j, Len(path))
SkipSlashes(path) == From(path, Min((DOMAIN path \ SlashAt(path)) \cup {Len(path) + 1}))

skipelem(path) ==
    LET s == SkipSlashes(path)
        end == Min(SlashAt(s) \cup {Len(s) + 1})
    IN  [name |-> SubSeq(s, 1, Min({end - 1, DIRSIZ})), rest |-> SkipSlashes(From(s, end))]
-----------------------------------------------------------------------------
(* mkfs: blocks and inodes are handed out in order, the directory entries  *)
(* and the files appended, and the root's size rounded up.                 *)
mkTake(D, b) == [D EXCEPT !.used = @ \cup {b}, !.r = b]
mkBlock(D) == mkTake(D, Cardinality(D.used) + 1)

mkSetAddr(D, k, i) == [D EXCEPT !.din[k].addrs[i] = D.r]
mkSetIndirect(D, a, j) == [D EXCEPT !.data[a][j] = Unit(D.r)]

mkAddr(D, k, i) ==
    IF D.din[k].addrs[i] # 0 THEN [D EXCEPT !.r = D.din[k].addrs[i]]
    ELSE mkSetAddr(mkBlock(D), k, i)

mkIndirect(D, j) ==
    IF D.data[D.r][j] # Zero THEN [D EXCEPT !.r = D.data[D.r][j][1]]
    ELSE mkSetIndirect(mkBlock(D), D.r, j)

mkMap(D, k, fbn) ==
    IF fbn < NDIRECT THEN mkAddr(D, k, fbn) ELSE mkIndirect(mkAddr(D, k, NDIRECT), fbn - NDIRECT)

mkCopy(D, k, off, src) ==
    [CopyIn(D, D.r, off, src) EXCEPT !.din[k].size = off + Len(src)]

RECURSIVE iappend(_, _, _)
iappendAt(D, k, s, off, n1) ==
    iappend(mkCopy(mkMap(D, k, off \div BSIZE), k, off, SubSeq(s, 1, n1)), k, From(s, n1 + 1))
iappend(D, k, s) ==
    IF s = <<>> THEN D
    ELSE iappendAt(D, k, s, D.din[k].size, Piece(D.din[k].size, Len(s)))

mkInode(D, k, type) == [D EXCEPT !.din[k] = [NoInode EXCEPT !.type = type, !.nlink = 1]]

RECURSIVE mkFiles(_, _, _)
mkFiles(D, k, files) ==
    IF files = <<>> THEN D
    ELSE mkFiles(iappend(iappend(mkInode(D, k, "file"), ROOTINO, <<<<k, Head(files).name>>>>),
                         k, Head(files).data), k + 1, Tail(files))

EmptyDisk ==
    [used |-> {}, data |-> [b \in Block |-> ZeroBlock],
     din |-> [k \in Inum |-> NoInode], ip |-> [k \in Inum |-> NoInode],
     ref |-> [k \in Inum |-> 0], valid |-> {}, log |-> {}, trans |-> FALSE,
     panic |-> "no", r |-> 0]

RootDir ==
    iappend(mkInode(EmptyDisk, ROOTINO, "dir"), ROOTINO,
            <<<<ROOTINO, Dot>>, <<ROOTINO, DotDot>>>>)

mkfs(files) ==
    [mkFiles(RootDir, ROOTINO + 1, files) EXCEPT
        !.din[ROOTINO].size = (@ \div BSIZE + 1) * BSIZE, !.r = 0]

(* The directories that sys_mkdir made before this boot, in dp and in each other. *)
RECURSIVE Made(_, _, _)
MadeIn(D, dp, names) == Made(iput(iput(D, D.r), dp), D.r, Tail(names))
Made(D, dp, names) ==
    IF names = <<>> THEN D
    ELSE MadeIn(create(ilock(iget(D, dp), dp), dp, Head(names), "dir"), dp, names)
-----------------------------------------------------------------------------
Closed == [ip |-> 0, off |-> 0, r |-> FALSE, w |-> FALSE]

(* ip is the inode a call has a reference to, put those it unlocked last,  *)
(* path what is left to walk, i how much is written, log the blocks its    *)
(* transaction has written.                                                *)
Idle == [pc |-> "idle", call |-> [op |-> "none"], path |-> <<>>, name |-> <<>>,
         ip |-> 0, put |-> <<>>, f |-> 0, i |-> 0, log |-> {}]

(* The disk as p's step in its transaction finds it, and leaves it. *)
Enter(p) == iputAll([disk EXCEPT !.log = proc[p].log, !.trans = TRUE], proc[p].put)
Leave(D) == [D EXCEPT !.log = {}, !.trans = FALSE, !.r = 0]

Init ==
    /\ \E image \in Images :
        \E D \in {Leave(Made([mkfs(image.files) EXCEPT !.trans = TRUE], ROOTINO, image.dirs))} :
            disk = [D EXCEPT !.ref[ROOTINO] = Cardinality(Proc)]
    /\ file = [f \in File |-> Closed]
    /\ cwd = [p \in Proc |-> ROOTINO]
    /\ proc = [p \in Proc |-> Idle]
    /\ calls = 0

(* p's step leaves disk D; what a step did that ended in a panic is not seen. *)
Step(p, D, change) ==
    /\ disk' = IF D.panic = "no" THEN Leave(D) ELSE [disk EXCEPT !.panic = D.panic]
    /\ proc' = [proc EXCEPT ![p] = [change EXCEPT !.log = D.log]]

(* A call goes on at pc, with a reference to ip and the inodes of put to be put. *)
To(p, pc, ip, put) == [proc[p] EXCEPT !.pc = pc, !.ip = ip, !.put = put]

Parent(c) == c.op \in {"mkdir", "unlink"} \/ (c.op = "open" /\ c.create)

(* A call on a path: begin_op, and namex's start. *)
Begin(p, c) ==
    /\ proc[p].pc = "idle"
    /\ c.op \in {"open", "mkdir", "unlink", "chdir"}
    /\ calls < MaxCalls /\ calls' = calls + 1
    /\ LET k == IF c.path[1] = "/" THEN ROOTINO ELSE cwd[p]
       IN  /\ disk' = iget(disk, k)
           /\ proc' = [proc EXCEPT ![p] =
                [Idle EXCEPT !.pc = "walk", !.call = c, !.path = c.path, !.ip = k]]
    /\ UNCHANGED <<file, cwd>>

(* namex: one element of the path, under the lock of the inode so far. *)
Walk(p) ==
    LET me == proc[p]
        Fail == To(p, "end", 0, <<me.ip>>)
    IN  /\ me.pc = "walk"
        /\ \E e \in {skipelem(me.path)}, D \in {ilock(Enter(p), me.ip)} :
            LET isdir == D.ip[me.ip].type = "dir"
                last == Parent(me.call) /\ e.rest = <<>>
            IN  \/ /\ e.name = <<>>
                   /\ Step(p, Enter(p), IF Parent(me.call) THEN Fail ELSE To(p, "found", me.ip, <<>>))
                \/ /\ e.name # <<>> /\ ~isdir
                   /\ Step(p, D, Fail)
                \/ /\ e.name # <<>> /\ isdir /\ last
                   /\ Step(p, D, [To(p, "found", me.ip, <<>>) EXCEPT !.name = e.name])
                \/ /\ e.name # <<>> /\ isdir /\ ~last
                   /\ \E E \in {dirlookup(D, me.ip, e.name)} :
                        Step(p, E, IF E.r[1] = 0 THEN Fail
                                   ELSE [To(p, "walk", E.r[1], <<me.ip>>) EXCEPT !.path = e.rest])
        /\ UNCHANGED <<file, cwd, calls>>

(* sys_open's end: a file for inode k, or none is left. *)
OpenFile(p, D, k, dps) ==
    LET c == proc[p].call
        free == {f \in File : file[f].ip = 0}
    IN  IF free = {} \/ D.panic # "no"
        THEN Step(p, D, To(p, "end", 0, dps \o <<k>>)) /\ UNCHANGED file
        ELSE /\ file' = [file EXCEPT ![CHOOSE f \in free : TRUE] =
                            [ip |-> k, off |-> 0, r |-> c.r, w |-> c.w]]
             /\ Step(p, IF c.trunc /\ D.ip[k].type = "file" THEN itrunc(D, k) ELSE D,
                     To(p, "end", 0, dps))

(* sys_open of an inode that was found, by namei or by create. *)
Open(p) ==
    LET me == proc[p]
    IN  /\ me.pc = "found" /\ me.call.op = "open" /\ me.name = <<>>
        /\ \E D \in {ilock(Enter(p), me.ip)} :
            IF D.ip[me.ip].type = "dir" /\ (me.call.create \/ me.call.w \/ me.call.trunc)
            THEN Step(p, D, To(p, "end", 0, <<me.ip>>)) /\ UNCHANGED file
            ELSE OpenFile(p, D, me.ip, <<>>)
        /\ UNCHANGED <<cwd, calls>>

(* create's dirlookup finds the name. *)
CreateFound(p) ==
    LET me == proc[p]
    IN  /\ me.pc = "found" /\ me.call.op # "unlink" /\ me.name # <<>>
        /\ \E D \in {dirlookup(ilock(Enter(p), me.ip), me.ip, me.name)} :
            /\ D.r[1] # 0
            /\ Step(p, D, IF me.call.op = "mkdir" THEN To(p, "end", 0, <<me.ip, D.r[1]>>)
                          ELSE To(p, "exists", D.r[1], <<me.ip>>))
        /\ UNCHANGED <<file, cwd, calls>>

(* create's iunlockput of the directory that has the name. *)
PutDir(p) ==
    /\ proc[p].pc = "exists"
    /\ Step(p, Enter(p), [To(p, "found", proc[p].ip, <<>>) EXCEPT !.name = <<>>])
    /\ UNCHANGED <<file, cwd, calls>>

(* create makes the file that is opened, or the directory. *)
Create(p) ==
    LET me == proc[p]
        Type == IF me.call.op = "mkdir" THEN "dir" ELSE "file"
    IN  /\ me.pc = "found" /\ me.call.op # "unlink" /\ me.name # <<>>
        /\ \E A \in {dirlookup(ilock(Enter(p), me.ip), me.ip, me.name)} :
            /\ A.r[1] = 0
            /\ \E D \in {create(A, me.ip, me.name, Type)} :
                CASE D.r = 0 -> Step(p, D, To(p, "end", 0, <<me.ip>>)) /\ UNCHANGED file
                  [] D.r # 0 /\ Type = "dir" ->
                       Step(p, D, To(p, "end", 0, <<me.ip, D.r>>)) /\ UNCHANGED file
                  [] D.r # 0 /\ Type = "file" -> OpenFile(p, D, D.r, <<me.ip>>)
        /\ UNCHANGED <<cwd, calls>>

Unlink(p) ==
    LET me == proc[p]
    IN  /\ me.pc = "found" /\ me.call.op = "unlink"
        /\ \E D \in {unlink(ilock(Enter(p), me.ip), me.ip, me.name)} :
            Step(p, D, To(p, "end", 0, IF D.r = 0 THEN <<me.ip>> ELSE <<me.ip, D.r>>))
        /\ UNCHANGED <<file, cwd, calls>>

(* sys_chdir: the old directory is put, the new one kept. *)
Chdir(p) ==
    LET me == proc[p]
    IN  /\ me.pc = "found" /\ me.call.op = "chdir"
        /\ \E D \in {ilock(Enter(p), me.ip)} :
            IF D.ip[me.ip].type = "dir"
            THEN /\ Step(p, D, To(p, "end", 0, <<cwd[p]>>))
                 /\ cwd' = [cwd EXCEPT ![p] = me.ip]
            ELSE Step(p, D, To(p, "end", 0, <<me.ip>>)) /\ UNCHANGED cwd
        /\ UNCHANGED <<file, calls>>

(* The last iputs, and end_op. *)
End(p) ==
    /\ proc[p].pc = "end"
    /\ Step(p, Enter(p), Idle)
    /\ UNCHANGED <<file, cwd, calls>>

(* filewrite: at most max bytes in a transaction. *)
MaxChunk == ((MAXOPBLOCKS - 1 - 1 - 2) \div 2) * BSIZE

(* Seeded fault: the bytes are written in one transaction. *)
Chunk_All(n) == n

Chunk(n) == Min({n, MaxChunk})

BeginWrite(p, f, c) ==
    /\ proc[p].pc = "idle"
    /\ c.op = "write" /\ file[f].w
    /\ calls < MaxCalls /\ calls' = calls + 1
    /\ proc' = [proc EXCEPT ![p] = [Idle EXCEPT !.pc = "write", !.call = c, !.f = f]]
    /\ UNCHANGED <<disk, file, cwd>>

Write(p) ==
    LET me == proc[p]
        fl == file[me.f]
        n1 == Chunk(me.call.n - me.i)
        src == [j \in 1..n1 |-> Unit(me.i + j)]
    IN  /\ me.pc = "write"
        /\ \E D \in {writei(ilock([disk EXCEPT !.trans = TRUE], fl.ip), fl.ip, fl.off, src,
                            Max({0, me.call.ok - me.i}))} :
            /\ file' = [file EXCEPT ![me.f].off = IF D.r > 0 THEN @ + D.r ELSE @]
            /\ Step(p, D, IF D.r = n1 /\ me.i + n1 < me.call.n
                          THEN [me EXCEPT !.i = @ + n1] ELSE Idle)
        /\ UNCHANGED <<cwd, calls>>

(* fileread, in no transaction.  A copy to the user that fails moves nothing. *)
Read(p, f, c) ==
    /\ proc[p].pc = "idle"
    /\ c.op = "read" /\ file[f].r
    /\ calls < MaxCalls /\ calls' = calls + 1
    /\ \E D \in {readi(ilock(disk, file[f].ip), file[f].ip, file[f].off, c.n)} :
        /\ disk' = Leave(D)
        /\ file' = [file EXCEPT ![f].off = IF Len(D.r) <= c.ok THEN @ + Len(D.r) ELSE @]
    /\ UNCHANGED <<cwd, proc>>

(* fileclose, of the last descriptor; its transaction puts the inode then. *)
Close(p, f) ==
    /\ proc[p].pc = "idle"
    /\ file[f].ip # 0
    /\ \A q \in Proc : proc[q].pc = "write" => proc[q].f # f
    /\ calls < MaxCalls /\ calls' = calls + 1
    /\ file' = [file EXCEPT ![f] = Closed]
    /\ proc' = [proc EXCEPT ![p] = [Idle EXCEPT !.pc = "end", !.put = <<file[f].ip>>]]
    /\ UNCHANGED <<disk, cwd>>

Next ==
    /\ disk.panic = "no"
    /\ \E p \in Proc :
        \/ \E c \in Calls : Begin(p, c) \/ \E f \in File : BeginWrite(p, f, c) \/ Read(p, f, c)
        \/ Walk(p) \/ Open(p) \/ CreateFound(p) \/ PutDir(p) \/ Create(p) \/ Unlink(p)
        \/ Chdir(p) \/ End(p) \/ Write(p)
        \/ \E f \in File : Close(p, f)

Spec == Init /\ [][Next]_vars
-----------------------------------------------------------------------------
(* What an inode holds on the disk, a hole as -1. *)
AddrOf(node, bn) ==
    IF bn < NDIRECT THEN node.addrs[bn]
    ELSE IF node.addrs[NDIRECT] = 0 THEN 0
    ELSE disk.data[node.addrs[NDIRECT]][bn - NDIRECT][1]

Content(node) ==
    [i \in 1..node.size |->
        LET a == AddrOf(node, (i - 1) \div BSIZE)
        IN  IF a = 0 THEN Unit(-1) ELSE disk.data[a][At(i - 1)]]

Ents(node) == IF node.type = "dir" THEN {u \in Range(Content(node)) : u[1] # 0} ELSE {}

(* A directory that no directory names any more, but that somebody uses. *)
Removed(d) ==
    /\ disk.din[d].type = "dir" /\ disk.ref[d] > 0
    /\ \A k \in Inum : \A e \in Ents(disk.din[k]) : e[1] = d => e[2] \in {Dot, DotDot}

(* The panics the calls can reach are two: a table of inodes that is full, *)
(* and the .. of a removed directory whose parent is gone.  So no block is *)
(* freed twice, no address is out of range, no directory unreadable, no    *)
(* link count below what the entries need, nothing is logged outside of a  *)
(* transaction, which readi would do for a hole, and every other name of a *)
(* directory is that of an inode that is allocated.                        *)
NoPanic ==
    /\ disk.panic \in {"no", "iget: no inodes", "ilock: no type"}
    /\ \A d \in Inum : \A e \in Ents(disk.din[d]) :
        disk.din[e[1]].type = "free" => e[2] = DotDot /\ Removed(d)
    /\ disk.panic = "ilock: no type" =>
        \E d \in Inum : Removed(d) /\ \E e \in Ents(disk.din[d]) : disk.din[e[1]].type = "free"

(* The bitmap marks exactly the blocks that inodes on the disk list, each  *)
(* listed once; what memory has of an inode is what the disk has, so no    *)
(* change of a call missed its iupdate.                                    *)
BlocksExact ==
    LET lists == [k \in Inum |-> Addrs(disk.din[k]) \o Indirect(disk, disk.din[k])]
    IN  /\ disk.used = UNION {Range(lists[k]) : k \in Inum}
        /\ Cardinality(disk.used) = MapThenSumSet(LAMBDA k : Len(lists[k]), Inum)
        /\ \A k \in Inum : k \in disk.valid => disk.ip[k] = disk.din[k]

(* Every transaction writes fewer blocks than begin_op reserved for it:    *)
(* filewrite cuts its data for that, and log_write, which wants room even  *)
(* for a block that it has, needs one to spare.                            *)
TransFits == \A p \in Proc : Cardinality(proc[p].log) < MAXOPBLOCKS

(* The calls on files and directories do what FsAbs promises: bytes are    *)
(* where they were written and nothing else changes, writers that share a  *)
(* file do not overwrite each other, names are unique, and an inode is     *)
(* released only when nothing names it and nobody uses it.                 *)
Promise == INSTANCE FsAbs WITH
        Spill <- BSIZE,
        open <- [f \in File |-> [ip |-> file[f].ip, off |-> file[f].off]],
        node <- [k \in Inum |->
            LET d == disk.din[k]
            IN  [type |-> d.type,
                 bytes |-> IF d.type = "file" THEN [i \in 1..d.size |-> Content(d)[i][1]] ELSE <<>>,
                 ents |-> Ents(d)]]

ImplementsFiles == Promise!Spec
===============================================================================
