----------------------------- MODULE ClientLine -----------------------------
(***************************************************************************)
(* What ClientManager promises, with nothing of how it keeps the promise:  *)
(* the clients that want the serial port form one line.  A client joins at *)
(* the back and leaves from wherever it stands; whoever is at the front    *)
(* holds the port.  That there is at most one holder, that the port is     *)
(* never idle while somebody waits, and that nobody is overtaken are not   *)
(* rules of this specification but the shape of its only variable.         *)
(***************************************************************************)
EXTENDS Sequences, SequencesExt

CONSTANT Clients            \* the session identifiers browsers present

VARIABLE line               \* holder first, then the waiting clients in order

LineInit == line = << >>

\* A client not in the line goes to its back (and holds the port if alone).
Join(c) ==
    /\ ~ Contains(line, c)
    /\ line' = Append(line, c)

\* A client gives up its place, be it the front or not; nobody else moves
\* relative to the others.
Leave(c) ==
    \E i \in 1 .. Len(line) :
        /\ line[i] = c
        /\ line' = RemoveAt(line, i)

LineNext == \E c \in Clients : Join(c) \/ Leave(c)

LineSpec == LineInit /\ [][LineNext]_line
=============================================================================
