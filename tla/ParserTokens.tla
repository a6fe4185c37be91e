---------------------------- MODULE ParserTokens ----------------------------
(***************************************************************************)
(* Vocabulary for the properties of the parser: the tokens it holds.       *)
(***************************************************************************)
EXTENDS ParserMachine, FiniteSets

\* The tokens the parser holds: read and not given back.
IsPending(i) == \E j \in DOMAIN tokens.pending : tokens.pending[j].at = i
Held == {i \in DOMAIN tokens.read : ~IsPending(i)}
Type(i) == tokens.read[i].type

\* The parser has answered with a tree.
Answered == stack = <<>> /\ returned.outcome = "success"

\* Tokens are numbered as they are read, and what is pending was read.
TokensTyped ==
    /\ \A i \in DOMAIN tokens.read :
          tokens.read[i] \in [type : tokens.file.types \cup {"EOF"}, at : {i}]
    /\ \A i \in DOMAIN tokens.pending :
          tokens.pending[i] \in {tokens.read[j] : j \in DOMAIN tokens.read}
=============================================================================
