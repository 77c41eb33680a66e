-------------------------- MODULE MCTerminalStream --------------------------
EXTENDS TerminalStream

MCWidth == [k \in {"x", "e", "{", "}"} |-> IF k = "e" THEN 3 ELSE 1]
=============================================================================
