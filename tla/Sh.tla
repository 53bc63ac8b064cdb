---------------------------------- MODULE Sh ----------------------------------
(***************************************************************************)
(* The shell (user/sh.c: main, getcmd, runcmd; user/ulib.c: gets) on top    *)
(* of the kernel's fork, exec, wait, exit, pipe, dup, close and open (the   *)
(* atomic steps Proc, Pipe and Files make of them).  exit closes no         *)
(* descriptor, since that loop of kexit is commented out: what an exited    *)
(* process had open stays open, and its slot keeps it.  A command is known  *)
(* by its path in the tree of the line: "L" and "R" lead to the two sides   *)
(* of a pipe or a list, "C" to the command of a redirection or of "&".      *)
(*                                                                         *)
(* What a process does to its own descriptors between two calls that others*)
(* take part in is one step.  A program is one of: "r" reads its input to   *)
(* the end, "w" writes until nobody reads, any other ends by itself, and    *)
(* "x" cannot be executed.  A program may open a file, and may close its    *)
(* descriptors before it exits or leave that to exit.  Nobody is killed.    *)
(***************************************************************************)
EXTENDS ShGrammar

CONSTANTS
    Key,       \* characters typed at the first prompt
    MaxLine,   \* bound: their number
    RunLines,  \* bound: the lines that are ended and run
    MaxCmds,   \* bound on their number
    NBUF,      \* the size of the line's buffer
    NPROC, NOFILE

ASSUME ShAssumption ==
    {MaxLine, MaxCmds} \subseteq Nat /\ {NPROC, NBUF} \subseteq Nat \ {0} /\ NOFILE > 3

VARIABLES
    typed,   \* what gets has read of the line
    cmds,    \* the lines run, as parsecmd has parsed them
    proc,    \* the processes
    left,    \* the files and ends of pipes that exited processes had open
    failed   \* a fork found no process

vars == <<typed, cmds, proc, left, failed>>

Pid == 1..NPROC
Initproc == 0
Shell == 1

(* What a descriptor is of: nothing, the console, a file, an end of a pipe. *)
Nil == <<"nil", <<>>>>
Console == <<"console", <<>>>>
Opened(name) == <<"file", name>>
ReadEnd(id) == <<"read", id>>
WriteEnd(id) == <<"write", id>>

(* at is the number of the line and the path of the command; p is runcmd's  *)
(* array of the two descriptors of a pipe.                                  *)
Unused == [pc |-> "unused", at |-> <<>>, parent |-> Initproc, dir |-> <<>>, p |-> <<>>,
           fd |-> [i \in 0..NOFILE - 1 |-> Nil]]

(* The shell as init starts it. *)
Init ==
    /\ typed = <<>> /\ cmds = <<>> /\ left = {} /\ failed = FALSE
    /\ proc = [p \in Pid |->
         IF p = Shell
         THEN [Unused EXCEPT !.pc = "start", !.fd = [i \in DOMAIN @ |-> IF i < 3 THEN Console ELSE Nil]]
         ELSE Unused]

Is(p, pc) == proc[p].pc = pc
Live(p) == ~Is(p, "unused") /\ ~Is(p, "zombie")
Goto(p, pc) == [proc[p] EXCEPT !.pc = pc]

RECURSIVE Sub(_, _)
Sub(cmd, path) ==
    IF path = <<>> THEN cmd
    ELSE Sub(CASE Head(path) = "C" -> cmd.cmd
               [] Head(path) = "L" -> cmd.left
               [] Head(path) = "R" -> cmd.right, Tail(path))
Cmd(at) == Sub(cmds[Head(at)].cmd, Tail(at))
-----------------------------------------------------------------------------
(* The system calls on descriptors: a new one is the lowest that is free. *)
Free(fd) == {i \in DOMAIN fd : fd[i] = Nil}
close(fd, i) == [fd EXCEPT ![i] = Nil]
install(fd, obj) == [fd EXCEPT ![Min(Free(fd))] = obj]
dup(fd, i) == install(fd, fd[i])

(* wait, of the parent or of init: the slot is free, with its descriptors. *)
Reaped(me) == [Unused EXCEPT !.fd = me.fd]

(* exit of p as me: init gets the children, and reaps those that are done.  *)
exit(p, me) ==
    /\ proc' = [q \in Pid |->
        CASE q = p /\ me.parent = Initproc -> Reaped(me)
          [] q = p /\ me.parent # Initproc -> [me EXCEPT !.pc = "zombie", !.dir = <<>>, !.p = <<>>]
          [] q # p /\ proc[q].parent # p -> proc[q]
          [] q # p /\ proc[q].parent = p ->
               IF Is(q, "zombie") THEN Reaped(proc[q]) ELSE [proc[q] EXCEPT !.parent = Initproc]]
    /\ left' = left \cup ({me.fd[i] : i \in DOMAIN me.fd} \ {Nil, Console})

(* fork: the child has the descriptors of its parent over those of the slot. *)
Copied(fd, slot) == [i \in DOMAIN fd |-> IF fd[i] # Nil THEN fd[i] ELSE slot[i]]

(* fork1: the child starts at pc, with the command of path at; the parent   *)
(* becomes me, or panics when there is no process left.                     *)
fork1(p, me, pc, at) ==
    LET unused == {q \in Pid : Is(q, "unused")}
        child == [me EXCEPT !.pc = pc, !.at = at, !.parent = p, !.fd = Copied(@, proc[Min(unused)].fd)]
    IN  IF unused = {} THEN exit(p, me) /\ failed' = TRUE
        ELSE /\ proc' = [proc EXCEPT ![p] = me, ![Min(unused)] = child]
             /\ UNCHANGED <<left, failed>>

(* wait: for a child that is done.  Without children it would fail; here it *)
(* would block, which PromptReturns excludes.  It also fails for a process  *)
(* that was killed, which then exits: kills are left out.                   *)
wait(p, me) ==
    \E q \in Pid :
        /\ Is(q, "zombie") /\ proc[q].parent = p
        /\ proc' = [proc EXCEPT ![q] = Reaped(@), ![p] = me]
    /\ UNCHANGED left
-----------------------------------------------------------------------------
(* main: descriptors up to 2 are opened; the next one is closed again. *)
Start ==
    /\ Is(Shell, "start")
    /\ proc' = [proc EXCEPT ![Shell].pc = "prompt",
                 ![Shell].fd = [i \in DOMAIN @ |-> IF i < 3 /\ @[i] = Nil THEN Console ELSE @[i]]]
    /\ UNCHANGED <<typed, cmds, left, failed>>

(* gets reads a character, of a short line or of one that will be run. *)
Short == IF cmds = <<>> /\ Len(typed) < MaxLine THEN {Append(typed, c) : c \in Key} ELSE {}
Longer == {SubSeq(x, 1, Len(typed) + 1) : x \in {y \in RunLines : IsStrictPrefix(typed, y)}}

Type ==
    /\ Is(Shell, "prompt") /\ Len(cmds) < MaxCmds
    /\ Len(typed) + 1 < NBUF
    /\ typed' \in Short \cup Longer
    /\ UNCHANGED <<cmds, proc, left, failed>>

(* What gets returns: it stops after a newline, at the end of the input     *)
(* ("^D" ends a read, at any place of a line) and when the buffer is full.  *)
(* The console turns "\r" into a newline.                                   *)
gets == {typed} \cup (IF Len(typed) + 1 < NBUF THEN {Append(typed, "\n")} ELSE {})

(* The line without the blanks before it. *)
Stripped(line) == SubSeq(line, Until(line, 1, Chars(line) \ {" "}), Len(line))
IsBlank(cmd) == cmd # <<>> /\ Head(cmd) = "\n"
IsCd(cmd) == Len(cmd) >= 3 /\ SubSeq(cmd, 1, 3) = <<"c", "d", " ">>

BlankLine ==
    /\ Is(Shell, "prompt")
    /\ \E line \in gets : IsBlank(Stripped(line))
    /\ typed' = <<>>
    /\ UNCHANGED <<cmds, proc, left, failed>>

(* cd: the last character is chopped, whatever it is. *)
Chdir ==
    /\ Is(Shell, "prompt") /\ typed \in RunLines
    /\ \E line \in gets :
        LET cmd == Stripped(line)
        IN  /\ IsCd(cmd)
            /\ \/ proc' = [proc EXCEPT ![Shell].dir = SubSeq(cmd, 4, Len(cmd) - 1)]
               \/ UNCHANGED proc
    /\ typed' = <<>>
    /\ UNCHANGED <<cmds, left, failed>>

(* getcmd sees the end of the input. *)
Eof ==
    /\ Is(Shell, "prompt") /\ typed = <<>>
    /\ exit(Shell, proc[Shell])
    /\ UNCHANGED <<typed, cmds, failed>>

(* Any other line: a child is forked for it. *)
Enter ==
    /\ Is(Shell, "prompt") /\ typed \in RunLines
    /\ \E line \in gets :
        LET cmd == Stripped(line)
        IN  /\ ~IsBlank(cmd) /\ ~IsCd(cmd)
            /\ cmds' = Append(cmds, parsecmd(cmd))
    /\ fork1(Shell, Goto(Shell, "wait"), "parse", <<Len(cmds) + 1>>)
    /\ typed' = <<>>

ShellWait ==
    /\ Is(Shell, "wait")
    /\ wait(Shell, Goto(Shell, "prompt"))
    /\ UNCHANGED <<typed, cmds, failed>>
-----------------------------------------------------------------------------
(* runcmd, for a process whose command has type t. *)
Running(p, t) == Is(p, "run") /\ Cmd(proc[p].at).type = t
Child(p, side) == Append(proc[p].at, side)
Descend(p, side, fd) == [proc[p] EXCEPT !.pc = "run", !.at = Child(p, side), !.p = <<>>, !.fd = fd]

(* The child of main: runcmd(parsecmd(cmd)), unless that panics. *)
Parse(p) ==
    /\ Is(p, "parse")
    /\ IF cmds[proc[p].at[1]].ok
       THEN proc' = [proc EXCEPT ![p].pc = "run"] /\ UNCHANGED left
       ELSE exit(p, proc[p])
    /\ UNCHANGED failed

(* EXEC, which fails when there is no such program. *)
Exec1(p) ==
    LET argv == Cmd(proc[p].at).argv
    IN  /\ Running(p, "EXEC")
        /\ IF argv = <<>> \/ argv[1] = <<"x">>
           THEN exit(p, proc[p]) ELSE proc' = [proc EXCEPT ![p].pc = "prog"] /\ UNCHANGED left
        /\ UNCHANGED failed

(* REDIR, when the file can be opened. *)
RedirFd(mode) == IF mode = "<" THEN 0 ELSE 1
Redir1(p) ==
    /\ Running(p, "REDIR")
    /\ LET c == Cmd(proc[p].at)
           fd == close(proc[p].fd, RedirFd(c.mode))
       IN  \/ /\ proc' = [proc EXCEPT ![p] = Descend(p, "C", install(fd, Opened(c.file)))]
              /\ UNCHANGED left
           \/ exit(p, [proc[p] EXCEPT !.fd = fd])
    /\ UNCHANGED failed

List(p) ==
    /\ Running(p, "LIST")
    /\ fork1(p, Goto(p, "listwait"), "run", Child(p, "L"))

ListWait(p) ==
    /\ Is(p, "listwait")
    /\ wait(p, Descend(p, "R", proc[p].fd))
    /\ UNCHANGED failed

(* PIPE: pipe() puts the ends in the lowest free descriptors, or fails.      *)
MakePipe(me) ==
    LET p0 == Min(Free(me.fd))
        p1 == Min(Free(me.fd) \ {p0})
    IN  [me EXCEPT !.p = <<p0, p1>>, !.fd = [@ EXCEPT ![p0] = ReadEnd(me.at), ![p1] = WriteEnd(me.at)]]
ClosePipe(fd, p) == close(close(fd, p[1]), p[2])

PipeLeft(p) ==
    /\ Running(p, "PIPE")
    /\ \/ /\ Cardinality(Free(proc[p].fd)) >= 2
          /\ fork1(p, MakePipe(Goto(p, "pipe")), "left", proc[p].at)
       \/ exit(p, proc[p]) /\ UNCHANGED failed

PipeRight(p) ==
    /\ Is(p, "pipe")
    /\ fork1(p, Goto(p, "close"), "right", proc[p].at)

(* Seeded fault: the child keeps the ends of the pipe. *)
LeftFds_NoClose(fd, p) == dup(close(fd, 1), p[2])

LeftFds(fd, p) == ClosePipe(dup(close(fd, 1), p[2]), p)

RightFds(fd, p) == ClosePipe(dup(close(fd, 0), p[1]), p)

PipeChild(p) ==
    /\ \/ /\ Is(p, "left")
          /\ proc' = [proc EXCEPT ![p] = Descend(p, "L", LeftFds(proc[p].fd, proc[p].p))]
       \/ /\ Is(p, "right")
          /\ proc' = [proc EXCEPT ![p] = Descend(p, "R", RightFds(proc[p].fd, proc[p].p))]
    /\ UNCHANGED <<left, failed>>

(* Seeded fault: the parent keeps the write end. *)
ParentFds_KeepWrite(fd, p) == close(fd, p[1])

ParentFds(fd, p) == ClosePipe(fd, p)

PipeClose(p) ==
    /\ Is(p, "close")
    /\ proc' = [proc EXCEPT ![p] = [Goto(p, "wait1") EXCEPT !.fd = ParentFds(@, proc[p].p)]]
    /\ UNCHANGED <<left, failed>>

(* Seeded fault: only the first side to end is waited for. *)
PipeWait_Once(p) ==
    /\ Is(p, "wait1") /\ wait(p, Goto(p, "exit"))
    /\ UNCHANGED failed

PipeWait(p) ==
    /\ \/ Is(p, "wait1") /\ wait(p, Goto(p, "wait2"))
       \/ Is(p, "wait2") /\ wait(p, Goto(p, "exit"))
    /\ UNCHANGED failed

BackFork(p) ==
    /\ Running(p, "BACK")
    /\ fork1(p, Goto(p, "exit"), "run", Child(p, "C"))

ExitNow(p) ==
    /\ Is(p, "exit")
    /\ exit(p, proc[p])
    /\ UNCHANGED failed

(* The ends a program reads or writes a pipe until all of them are closed. *)
Awaited(p) ==
    LET name == Cmd(proc[p].at).argv[1]
        fd == proc[p].fd
    IN  CASE name = <<"r">> /\ fd[0][1] = "read" -> {WriteEnd(fd[0][2])}
          [] name = <<"w">> /\ fd[1][1] = "write" -> {ReadEnd(fd[1][2])}
          [] OTHER -> {}

Held(obj) == \E p \in Pid : Live(p) /\ \E i \in DOMAIN proc[p].fd : proc[p].fd[i] = obj

(* What a program has open when it exits: what it got, without the first    *)
(* three if it closes them, and with a file if it opens one.                *)
AtExit(fd) ==
    {fd, [i \in DOMAIN fd |-> IF i < 3 THEN Nil ELSE fd[i]]}
    \cup (IF Free(fd) # {} THEN {install(fd, Opened(<<"l">>))} ELSE {})

(* A program ends; one that reads or writes a pipe may have to wait. *)
Program(p) ==
    /\ Is(p, "prog")
    /\ \A end \in Awaited(p) : ~Held(end) /\ end \notin left
    /\ \E fd \in AtExit(proc[p].fd) : exit(p, [proc[p] EXCEPT !.fd = fd])
    /\ UNCHANGED failed

Step(p) ==
    /\ \/ Parse(p) \/ Exec1(p) \/ Redir1(p) \/ List(p) \/ ListWait(p) \/ PipeLeft(p)
       \/ PipeRight(p) \/ PipeChild(p) \/ PipeClose(p) \/ PipeWait(p) \/ BackFork(p)
       \/ ExitNow(p) \/ Program(p)
    /\ UNCHANGED <<typed, cmds>>

Next ==
    \/ Start \/ Type \/ BlankLine \/ Chdir \/ Eof \/ Enter \/ ShellWait
    \/ \E p \in Pid : Step(p)

Spec == Init /\ [][Next]_vars

(* Every process is scheduled (Proc's RunnableRuns). *)
LiveSpec == Spec /\ WF_vars(ShellWait) /\ \A p \in Pid : WF_vars(Step(p))
-----------------------------------------------------------------------------
(* The parser finds the one tree the grammar has for what is typed, and     *)
(* panics when it has none.                                                 *)
ParseRight == Parses(typed)

(* What the line says a command reads and writes: the pipe it is a side of  *)
(* and its redirections, the first of a kind being the one that counts.     *)
RECURSIVE Wiring(_, _, _)
Wiring(at, path, io) ==
    IF path = <<>> THEN io
    ELSE LET c == Cmd(at)
         IN  Wiring(Append(at, Head(path)), Tail(path),
                    CASE c.type = "REDIR" -> [io EXCEPT ![RedirFd(c.mode)] = Opened(c.file)]
                      [] c.type = "PIPE" ->
                           IF Head(path) = "L" THEN [io EXCEPT ![1] = WriteEnd(at)]
                           ELSE [io EXCEPT ![0] = ReadEnd(at)]
                      [] c.type \in {"LIST", "BACK"} -> io)

(* Every program runs with the input and output its line gives it and the   *)
(* console for its errors (runcmd), also when its slot still has what the   *)
(* process before left there; and such leavings of exited processes are the *)
(* only other descriptors it has: no process that goes on has given it an   *)
(* end of its pipes.                                                        *)
Wired ==
    \A p \in Pid : Is(p, "prog") =>
        LET at == proc[p].at
            io == Wiring(<<at[1]>>, Tail(at), [i \in 0..2 |-> Console])
        IN  \A i \in 0..NOFILE - 1 :
                IF i < 3 THEN proc[p].fd[i] = io[i] ELSE proc[p].fd[i] \in left \cup {Nil}

(* Something of a line that is not after an "&" inside the command above it *)
(* (of path n long) is still there.                                         *)
Foreground(p, n) ==
    /\ ~Is(p, "unused")
    /\ \A k \in n + 1..Len(proc[p].at) - 1 : Cmd(SubSeq(proc[p].at, 1, k)).type # "BACK"

Under(p, at) == Len(proc[p].at) >= Len(at) /\ SubSeq(proc[p].at, 1, Len(at)) = at

(* Unless a fork failed: at the prompt nothing of the lines before is left *)
(* but what was put in the background, and the right side of a ";" runs     *)
(* when the left side is as far.                                            *)
InOrder ==
    ~failed =>
        /\ Is(Shell, "prompt") => \A p \in Pid \ {Shell} : ~Foreground(p, 0)
        /\ \A p, q \in Pid :
            Live(p) /\ q # p => \A k \in 1..Len(proc[p].at) - 1 :
                LET n == SubSeq(proc[p].at, 1, k)
                IN  Cmd(n).type = "LIST" /\ proc[p].at[k + 1] = "R" /\ Under(q, Append(n, "L"))
                    => ~Foreground(q, k)

(* A program waits for the end of a pipe that only exited processes had. *)
Hung ==
    \E p \in Pid : Is(p, "prog") /\ \E end \in Awaited(p) : end \in left /\ ~Held(end)

(* The shell comes back to its prompt: no process that runs is left with an *)
(* end of a pipe that others wait to see closed (the closes of runcmd's     *)
(* PIPE), and no wait is for a child that is not there.  What exit leaves   *)
(* open is the only reason not to come back.                                *)
PromptReturns == Is(Shell, "wait") ~> ~Is(Shell, "wait") \/ Hung

(* proc.c:587: "Close all open files."  With that the prompt would always   *)
(* come back; the loop is commented out, and a pipeline whose writer leaves *)
(* its output open hangs.                                                   *)
PromptAlways == Is(Shell, "wait") ~> ~Is(Shell, "wait")
===============================================================================
