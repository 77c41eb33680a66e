--------------------------- MODULE MCTerminalPage ---------------------------
EXTENDS TerminalPage, TLC

\* One tab opens two of the connections: it is reloaded or loses the network.
CONSTANTS w1, w2, a, b
ReloadSid == [w \in Conns |-> IF w \in {w1, w2} THEN a ELSE b]

\* Every connection is another tab; they are interchangeable.
OwnSid == [w \in Conns |-> w]
ConnSymmetry == Permutations(Conns)

\* A connection that was lost, closed or has crashed stays so: once that is true of
\* all of them and their frames have arrived, nobody looks at a page any more, and
\* the rest is not explored.
SomebodyStays ==
    \E w \in Conns : w \notin closed \cup left \cup Crashed \/ down[w] # <<>>
=============================================================================
