--------------------------------- MODULE MCFs ---------------------------------
(* Fs for TLC. *)
EXTENDS Fs

MCImages ==
    { [files |-> <<[name |-> <<"i">>, data |-> [i \in 1..5 |-> <<9, <<>>>>]]>>, dirs |-> <<>>],
      [files |-> <<>>, dirs |-> <<<<"d">>, <<"e">>>>] }

Op(path, c, r, w, t) ==
    [op |-> "open", path |-> path, create |-> c, r |-> r, w |-> w, trunc |-> t]

Sym == Permutations(Proc)

MCCalls ==
    { Op(<<"/", "i">>, FALSE, TRUE, TRUE, FALSE),
      Op(<<"i">>, FALSE, FALSE, TRUE, TRUE),
      Op(<<"d">>, TRUE, TRUE, TRUE, FALSE),
      Op(<<"d", "/", "i", "j", "k">>, TRUE, TRUE, TRUE, FALSE),
      [op |-> "mkdir", path |-> <<"/", "/", "d", "/">>],
      [op |-> "unlink", path |-> <<"d">>],
      [op |-> "unlink", path |-> <<".", ".", "/", "i">>],
      [op |-> "chdir", path |-> <<"/", "d">>],
      [op |-> "chdir", path |-> <<"d", "/", "e">>],
      [op |-> "unlink", path |-> <<"/", "d", "/", "e">>],
      Op(<<".", ".">>, FALSE, TRUE, FALSE, FALSE),
      [op |-> "write", n |-> 7, ok |-> 7],
      [op |-> "write", n |-> 2, ok |-> 1],
      [op |-> "read", n |-> 2, ok |-> 2] }
===============================================================================
