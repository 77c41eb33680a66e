--------------------------- MODULE SerializedRelay ---------------------------
(***************************************************************************)
(* The relay under the use its docstrings have in mind: whoever calls      *)
(* start() or stop() waits for the call under way to return first.  Relay  *)
(* itself enforces nothing of the kind; SerialTermServer, which composes   *)
(* it with the handlers that really call it, shows when they overlap.      *)
(***************************************************************************)
EXTENDS Relay

vars == <<ioVars, relayVars, wsVars>>

Init ==
    /\ TargetInit
    /\ SerialInit
    /\ RelayInit
    /\ closed = {}
    /\ left = {}

\* start(w) has been called and has not returned.
Starting(w) == start[w] \notin {"idle", "done", "failed"}

\* No call is under way.
Idle ==
    /\ \A w \in Conns : ~ Starting(w)
    /\ \A k \in Calls : awaited[k] = None

-----------------------------------------------------------------------------
(* The callers *)

CallStart(w) == Idle /\ StartBegins(w) /\ UNCHANGED wsVars

CallStop(w) ==
    /\ Idle
    /\ StopsAtOnce \/ StopsLater(<<"stop", w>>)
    /\ UNCHANGED <<ioVars, start, fresh, shown, wsVars>>

StopReturns(w) ==
    /\ StopResumes(<<"stop", w>>)
    /\ UNCHANGED <<ioVars, start, fresh, shown, wsVars>>

CallLogout ==
    /\ Idle
    /\ LogsOut \/ LogoutRaises
    /\ UNCHANGED <<task, loop, start, awaited, shown, wsVars>>

\* A keystroke may arrive at any time; which client typed it does not matter to
\* the relay.
CallWrite(c) == Types(c) /\ UNCHANGED wsVars

StartStep(w) ==
    /\ \/ StartResumes(w)
       \/ KickSettled(w)
       \/ KickNewline(w)
       \/ StartReturns(w)
    /\ UNCHANGED wsVars

-----------------------------------------------------------------------------
(* The surroundings *)

WsCloses(w) ==
    /\ w \notin closed
    /\ closed' = closed \cup {w}
    /\ UNCHANGED <<ioVars, relayVars, left>>

BrowserLeaves(w) ==
    /\ w \notin left
    /\ left' = left \cup {w}
    /\ UNCHANGED <<ioVars, relayVars, closed>>

TargetPrints == Prints /\ UNCHANGED <<relayVars, wsVars>>
AdapterGoes  == Unplug /\ UNCHANGED <<relayVars, wsVars>>

Next ==
    \/ \E w \in Conns :
        \/ CallStart(w) \/ CallStop(w)
        \/ StartStep(w) \/ StopReturns(w)
        \/ LoopStep(w, {}) /\ UNCHANGED wsVars
        \/ WsCloses(w) \/ BrowserLeaves(w)
    \/ \E c \in Clients : CallWrite(c)
    \/ CallLogout
    \/ TargetPrints
    \/ AdapterGoes

\* The event loop resumes every task whose sleep is over or whose awaited task
\* has ended, and every loop in its turn.  Nobody is bound to call, to
\* leave or to type.
Fairness ==
    \A w \in Conns :
        /\ WF_vars(StartStep(w))
        /\ WF_vars(StopReturns(w))
        /\ WF_vars(LoopStep(w, {}) /\ UNCHANGED wsVars)

Spec == Init /\ [][Next]_vars /\ Fairness

-----------------------------------------------------------------------------
(* Properties *)

\* The state has the shape the code gives it.
TypeOK ==
    /\ shell \in Clients \cup {None}
    /\ output \in {"none", "printing", "buffered"}
    /\ port \in {"closed", "open", "broken"}
    /\ leaked \in BOOLEAN
    /\ task \in Conns \cup {None}
    /\ loop \in [Conns -> {"none", "run", "cancel", "done"}]
    /\ start \in [Conns -> {"idle", "stop", "settle", "newline", "fresh",
                            "echo", "done", "failed"}]
    /\ awaited \in [Calls -> Conns \cup {None}]
    /\ fresh \in BOOLEAN
    /\ shown \subseteq Conns
    /\ closed \subseteq Conns
    /\ left \subseteq Conns

\* start() replaces the reader: two loops never read the port at the same time,
\* so no chunk of output goes to a page whose turn is over.
OneReader == \A v, w \in Alive : v = w

\* A loop that is alive is the one stop() would cancel: none is orphaned by
\* _task being overwritten or cleared.
ReaderIsTask == \A w \in Alive : task = w

\* While a kick waits for the port to settle nobody reads from it: the loop of
\* the previous client is gone before the port is closed.
KickAlone ==
    \A w \in Conns : start[w] \in {"settle", "newline", "fresh", "echo"} =>
        task = None /\ Alive = {}

\* The kick closes the port before it opens it again, and what it opened is
\* still there when it writes the newline, unless the adapter is pulled.
PortHeldOnce ==
    /\ ~ leaked
    /\ \A w \in Conns :
        /\ start[w] = "settle" => port = "closed"
        /\ start[w] \in {"newline", "fresh", "echo"} => port # "closed"

\* Every call returns.  A kick does not hang, and stop() gets the end of its
\* task; where a cancellation can be lost, it needs the WebSocket to be closed.
CallsReturn ==
    /\ \A w \in Conns :
        start[w] \in {"settle", "newline", "fresh", "echo"} ~> ~ Starting(w)
    /\ \A k \in Calls, w \in Conns :
        awaited[k] = w /\ (LossyCancel => w \in closed) ~> awaited[k] # w
=============================================================================
