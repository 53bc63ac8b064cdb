------------------------------- MODULE ShParse -------------------------------
(***************************************************************************)
(* The shell's parser (user/sh.c: gettoken, peek, parsecmd to nulterminate) *)
(* and the grammar it is for.  A line is a sequence of characters; a        *)
(* pointer is an index, one beyond the last for the NUL.  A parse is a      *)
(* record of a command and the place reached, or Bad after a panic.  The    *)
(* words of a command are pairs of pointers until nulterminate makes        *)
(* strings of them.                                                         *)
(***************************************************************************)
EXTENDS Naturals, Sequences, FiniteSets, FiniteSetsExt

CONSTANT MAXARGS

whitespace == {" ", "\n"}
symbols == {"<", "|", ">", "&", ";", "(", ")"}

(* The first place from s on with one of C, or the end. *)
Until(l, s, C) == Min({j \in s..Len(l) : l[j] \in C} \cup {Len(l) + 1})
Char(l, s) == IF s <= Len(l) THEN l[s] ELSE "NUL"
Chars(l) == {l[j] : j \in DOMAIN l}
Skip(l, s) == Until(l, s, Chars(l) \ whitespace)

(* Seeded fault: ">>" is two tokens. *)
Width_One(l, q) == IF Char(l, q) \in symbols THEN 1 ELSE Until(l, q, whitespace \cup symbols) - q

(* gettoken: the token, and where it starts and ends. *)
Appends(l, q) == Char(l, q) = ">" /\ Char(l, q + 1) = ">"

Width(l, q) ==
    IF Char(l, q) \in symbols THEN IF Appends(l, q) THEN 2 ELSE 1
    ELSE Until(l, q, whitespace \cup symbols) - q

Kind(l, q) ==
    IF Char(l, q) \in symbols \cup {"NUL"} THEN IF Appends(l, q) THEN "+" ELSE Char(l, q) ELSE "a"

TokenAt(l, q) == [tok |-> Kind(l, q), q |-> q, eq |-> q + Width(l, q)]
gettoken(l, s) == TokenAt(l, Skip(l, s))

(* Where the token after that one is. *)
After(l, s) == Skip(l, gettoken(l, s).eq)

peek(l, s, toks) == Char(l, Skip(l, s)) \in toks
-----------------------------------------------------------------------------
Bad == [ok |-> FALSE]

execcmd(argv) == [type |-> "EXEC", argv |-> argv]
redircmd(cmd, file, mode) == [type |-> "REDIR", cmd |-> cmd, file |-> file, mode |-> mode]
pipecmd(left, right) == [type |-> "PIPE", left |-> left, right |-> right]
listcmd(left, right) == [type |-> "LIST", left |-> left, right |-> right]
backcmd(cmd) == [type |-> "BACK", cmd |-> cmd]

(* A command and its redirections, the first one innermost. *)
RECURSIVE Redirect(_, _)
Redirect(cmd, redirs) ==
    IF redirs = <<>> THEN cmd
    ELSE Redirect(redircmd(cmd, Head(redirs).file, Head(redirs).mode), Tail(redirs))

(* A parse under way: the words and redirections so far. *)
At(s) == [ok |-> TRUE, argv |-> <<>>, redirs |-> <<>>, s |-> s]
Done(r, cmd) == [ok |-> TRUE, cmd |-> cmd, s |-> r.s]

(* parseredirs: tok is the operator, f the token after it. *)
RECURSIVE parseredirs(_, _)
oneredir(l, r, tok, f, next) ==
    IF f.tok # "a" THEN Bad
    ELSE parseredirs(l, [r EXCEPT !.s = next,
                            !.redirs = Append(@, [file |-> <<f.q, f.eq>>, mode |-> tok])])
parseredirs(l, r) ==
    IF ~peek(l, r.s, {"<", ">"}) THEN r
    ELSE oneredir(l, r, gettoken(l, r.s).tok, gettoken(l, After(l, r.s)), After(l, After(l, r.s)))

RECURSIVE parseline(_, _)

Wrap(r, cmd) == IF r.ok THEN Done(r, Redirect(cmd, r.redirs)) ELSE Bad

blockEnd(l, r) ==
    IF r.ok /\ peek(l, r.s, {")"}) THEN Wrap(parseredirs(l, At(After(l, r.s))), r.cmd) ELSE Bad
parseblock(l, s) == blockEnd(l, parseline(l, After(l, s)))

(* parseexec: the next word, and the redirections after it. *)
RECURSIVE parseargs(_, _)
onearg(l, r, t) ==
    CASE t.tok = "NUL" -> Wrap(r, execcmd(r.argv))
      [] t.tok \notin {"NUL", "a"} \/ (t.tok = "a" /\ Len(r.argv) + 1 >= MAXARGS) -> Bad
      [] t.tok = "a" /\ Len(r.argv) + 1 < MAXARGS ->
           parseargs(l, parseredirs(l, [r EXCEPT !.s = After(l, r.s),
                                                 !.argv = Append(@, <<t.q, t.eq>>)]))
parseargs(l, r) ==
    IF ~r.ok THEN Bad
    ELSE IF peek(l, r.s, {"|", ")", "&", ";"}) THEN Wrap(r, execcmd(r.argv))
    ELSE onearg(l, r, gettoken(l, r.s))

parseexec(l, s) ==
    IF peek(l, s, {"("}) THEN parseblock(l, s) ELSE parseargs(l, parseredirs(l, At(s)))

RECURSIVE parsepipe(_, _)
pipeRight(left, r) == IF r.ok THEN Done(r, pipecmd(left, r.cmd)) ELSE Bad
pipeRest(l, r) ==
    IF r.ok /\ peek(l, r.s, {"|"}) THEN pipeRight(r.cmd, parsepipe(l, After(l, r.s))) ELSE r
parsepipe(l, s) == pipeRest(l, parseexec(l, s))

RECURSIVE lineRest(_, _)
lineRight(left, r) == IF r.ok THEN Done(r, listcmd(left, r.cmd)) ELSE Bad
lineRest(l, r) ==
    IF ~r.ok THEN Bad
    ELSE IF peek(l, r.s, {"&"})
    THEN lineRest(l, Done([r EXCEPT !.s = After(l, @)], backcmd(r.cmd)))
    ELSE IF peek(l, r.s, {";"}) THEN lineRight(r.cmd, parseline(l, After(l, r.s)))
    ELSE r
parseline(l, s) == lineRest(l, parsepipe(l, s))

(* nulterminate: the places that become NUL, and the strings that makes of *)
(* the words.                                                              *)
RECURSIVE Nuls(_)
Nuls(c) ==
    CASE c.type = "EXEC" -> {c.argv[i][2] : i \in DOMAIN c.argv}
      [] c.type = "REDIR" -> Nuls(c.cmd) \cup {c.file[2]}
      [] c.type = "BACK" -> Nuls(c.cmd)
      [] c.type \in {"PIPE", "LIST"} -> Nuls(c.left) \cup Nuls(c.right)

Text(l, nuls, q) == SubSeq(l, q, Min({j \in nuls : j >= q} \cup {Len(l) + 1}) - 1)

RECURSIVE Texts(_, _, _)
Texts(l, nuls, c) ==
    CASE c.type = "EXEC" -> execcmd([i \in DOMAIN c.argv |-> Text(l, nuls, c.argv[i][1])])
      [] c.type = "REDIR" -> redircmd(Texts(l, nuls, c.cmd), Text(l, nuls, c.file[1]), c.mode)
      [] c.type = "BACK" -> backcmd(Texts(l, nuls, c.cmd))
      [] c.type = "PIPE" -> pipecmd(Texts(l, nuls, c.left), Texts(l, nuls, c.right))
      [] c.type = "LIST" -> listcmd(Texts(l, nuls, c.left), Texts(l, nuls, c.right))

nulterminate(l, c) == Texts(l, Nuls(c), c)

(* parsecmd: the command, or Bad. *)
parsedAll(l, r) ==
    IF r.ok /\ Skip(l, r.s) = Len(l) + 1 THEN [ok |-> TRUE, cmd |-> nulterminate(l, r.cmd)] ELSE Bad
parsecmd(l) == parsedAll(l, parseline(l, 1))
=============================================================================
