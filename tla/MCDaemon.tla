------------------------------ MODULE MCDaemon ------------------------------
EXTENDS Daemon

\* Every connection is another tab.
OwnSid == [w \in Conns |-> w]
=============================================================================
