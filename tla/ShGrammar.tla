------------------------------ MODULE ShGrammar ------------------------------
(***************************************************************************)
(* The grammar of the shell's lines, as sets of the trees that the tokens   *)
(* of a line can be derived to:                                             *)
(*    line ::= pipe &*  |  pipe &* ; line                                   *)
(*    pipe ::= exec  |  exec | pipe                                         *)
(*    exec ::= words and redirections, less than MAXARGS words              *)
(*          |  ( line ) redirections                                        *)
(***************************************************************************)
EXTENDS ShParse, SequencesExt

(* A word starts after a character that is not of a word; of a run of ">"  *)
(* the odd ones start a token.                                             *)
Breaks == whitespace \cup symbols

Starts(l) ==
    {j \in DOMAIN l :
        CASE l[j] \in whitespace -> FALSE
          [] l[j] = ">" -> (j - Max({i \in 0..j - 1 : i = 0 \/ l[i] # ">"})) % 2 = 1
          [] l[j] \in symbols \ {">"} -> TRUE
          [] l[j] \notin Breaks -> j = 1 \/ l[j - 1] \in Breaks}

Token(l, j) ==
    LET end == Min({i \in j..Len(l) : l[i] \in Breaks} \cup {Len(l) + 1})
    IN  IF l[j] \notin symbols THEN [kind |-> "a", text |-> SubSeq(l, j, end - 1)]
        ELSE [kind |-> IF l[j] = ">" /\ j < Len(l) /\ l[j + 1] = ">" THEN "+" ELSE l[j],
              text |-> <<>>]

Nth(S, n) == CHOOSE i \in S : Cardinality({k \in S : k <= i}) = n
Tokens(l) == [n \in 1..Cardinality(Starts(l)) |-> Token(l, Nth(Starts(l), n))]

Redir == {"<", ">", "+"}

(* The redirections of tokens, and the words that are not their files. *)
Redirs(ts) == {i \in DOMAIN ts : ts[i].kind \in Redir}
Words(ts) == {i \in DOMAIN ts : ts[i].kind = "a" /\ i - 1 \notin Redirs(ts)}
WellFormed(ts) ==
    /\ \A i \in DOMAIN ts : ts[i].kind \in Redir \cup {"a"}
    /\ \A i \in Redirs(ts) : i < Len(ts) /\ ts[i + 1].kind = "a"
RedirSeq(ts) ==
    [n \in 1..Cardinality(Redirs(ts)) |->
        LET i == Nth(Redirs(ts), n) IN [mode |-> ts[i].kind, file |-> ts[i + 1].text]]

Simple(ts) ==
    execcmd([n \in 1..Cardinality(Words(ts)) |-> ts[Nth(Words(ts), n)].text])

Upto(ts, i) == SubSeq(ts, 1, i)
Beyond(ts, i) == SubSeq(ts, i + 1, Len(ts))
Where(ts, kind) == {i \in DOMAIN ts : ts[i].kind = kind}

(* The redirections of a command, the last one outermost. *)
RECURSIVE Redirected(_, _)
Redirected(t, rs) ==
    IF rs = <<>> THEN t ELSE redircmd(Redirected(t, Front(rs)), Last(rs).file, Last(rs).mode)

RECURSIVE Line(_), Back(_), Pipe(_), Exec(_)
Exec(ts) ==
    (IF WellFormed(ts) /\ Cardinality(Words(ts)) < MAXARGS
     THEN {Redirected(Simple(ts), RedirSeq(ts))} ELSE {})
    \cup
    (IF ts # <<>> /\ ts[1].kind = "("
     THEN UNION {{Redirected(t, RedirSeq(Beyond(ts, i))) : t \in Line(SubSeq(ts, 2, i - 1))} :
                 i \in {j \in Where(ts, ")") : /\ WellFormed(Beyond(ts, j))
                                               /\ Words(Beyond(ts, j)) = {}}}
     ELSE {})

Pipe(ts) ==
    Exec(ts) \cup UNION {{pipecmd(x, y) : x \in Exec(Upto(ts, i - 1)), y \in Pipe(Beyond(ts, i))} :
                         i \in Where(ts, "|")}

Back(ts) ==
    Pipe(ts) \cup (IF ts # <<>> /\ Last(ts).kind = "&" THEN {backcmd(t) : t \in Back(Front(ts))} ELSE {})

Line(ts) ==
    Back(ts) \cup UNION {{listcmd(x, y) : x \in Back(Upto(ts, i - 1)), y \in Line(Beyond(ts, i))} :
                         i \in Where(ts, ";")}

(* The parser finds the one tree the grammar gives a line, and panics when  *)
(* it gives none.                                                           *)
Parses(l) == Line(Tokens(l)) = IF parsecmd(l).ok THEN {parsecmd(l).cmd} ELSE {}
==============================================================================
