--------------------------------- MODULE MCSh ---------------------------------
(* Sh for TLC: short lines of every kind are parsed, and some are run. *)
EXTENDS Sh

MCKey == {"e", " ", "<", ">", "|", "&", ";", "(", ")"}

MCRunLines ==
    { <<"e", "|", "r", " ", "|", "r">>,
      <<"w", "|", "e", ";", "e">>,
      <<"(", "e", "&", ";", "x", ")", "|", "r">>,
      <<"r", "<", "e", ">", "d", ">", ">", "e">>,
      <<"e", "&", "&">>,
      <<"|", "(">>,
      <<"e", " ", "e", " ", "e">>,
      <<" ">>,
      <<" ", "c", "d", " ", "e">> }
===============================================================================
