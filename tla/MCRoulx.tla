------------------------------ MODULE MCRoulx --------------------------------
(***************************************************************************)
(* Values for model checking Roulx: every text of up to four characters on *)
(* one or more lines, changed to an empty, a short and a long one.         *)
(***************************************************************************)
EXTENDS Roulx

MCTexts == UNION {[1 .. n -> {"a", "b", "nl"}] : n \in 0 .. 4}
MCEdits == {<<>>, <<"a">>, <<"b", "nl", "a", "a", "nl">>}
=============================================================================
