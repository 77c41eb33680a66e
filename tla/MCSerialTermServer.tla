------------------------- MODULE MCSerialTermServer -------------------------
EXTENDS SerialTermServer, TLC

\* Every connection is another tab.
OwnSid == [w \in Conns |-> w]

\* One tab opens two of the connections: it is reloaded or loses the network.
CONSTANTS w1, w2, a, b
ReloadSid == [w \in Conns |-> IF w \in {w1, w2} THEN a ELSE b]

\* With OwnSid the connections, which are also the clients, are interchangeable.
ConnSymmetry == Permutations(Conns)
=============================================================================
