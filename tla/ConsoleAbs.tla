----------------------------- MODULE ConsoleAbs -----------------------------
(***************************************************************************)
(* What the console promises its readers: a line that is being typed and   *)
(* can still be edited, and the input that has been entered, which the     *)
(* reads take in order.  A read ends after a newline; an end-of-file ends  *)
(* a read that has no byte yet, and is left to the next one otherwise.     *)
(***************************************************************************)
EXTENDS Naturals, Sequences

CONSTANTS
    Reader, Char, NL, EOT,
    Size         \* characters the terminal holds

VARIABLES line, input, got

vars == <<line, input, got>>

Init == line = <<>> /\ input = <<>> /\ got = [p \in Reader |-> 0]

(* A character is kept while there is room; a newline, an end-of-file or    *)
(* the last place enters the line.                                          *)
Type(c) ==
    LET new == Append(line, c) IN
    /\ Len(input) + Len(line) < Size
    /\ IF c \in {NL, EOT} \/ Len(input) + Len(new) = Size
       THEN input' = input \o new /\ line' = <<>>
       ELSE line' = new /\ UNCHANGED input
    /\ UNCHANGED got

Erase ==
    /\ line # <<>>
    /\ line' = SubSeq(line, 1, Len(line) - 1)
    /\ UNCHANGED <<input, got>>

KillLine == line' = <<>> /\ UNCHANGED <<input, got>>

(* A read takes a byte, or has one that it cannot deliver. *)
Take(p) ==
    /\ input # <<>> /\ Head(input) # EOT
    /\ input' = Tail(input)
    /\ got' \in {[got EXCEPT ![p] = @ + 1], got}
    /\ UNCHANGED line

EndOfFile(p) ==
    /\ input # <<>> /\ Head(input) = EOT /\ got[p] = 0
    /\ input' = Tail(input)
    /\ UNCHANGED <<line, got>>

(* The next read begins *)
Fresh(p) == got' = [got EXCEPT ![p] = 0] /\ UNCHANGED <<line, input>>

Next ==
    \/ \E c \in Char : Type(c)
    \/ Erase \/ KillLine
    \/ \E p \in Reader : Take(p) \/ EndOfFile(p) \/ Fresh(p)

Spec == Init /\ [][Next]_vars
=============================================================================
