------------------------------ MODULE MCTokens ------------------------------
(* Small instances of Tokens.                                              *)
EXTENDS Tokens

CONSTANTS a, b

\* Two servers, one of them a second ahead.
OneAhead == [s \in {a, b} |-> IF s = b THEN 1 ELSE 0]

=============================================================================
