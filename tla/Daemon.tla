------------------------------- MODULE Daemon -------------------------------
(***************************************************************************)
(* The life of the process around the server: kvmd_serial_term/__main__.py *)
(* with SerialTermServer.stop().  Ctrl+C (SIGINT) cancels the main task,   *)
(* which closes the port, stops the relay and closes the WebSockets, while *)
(* handlers, promotions and kicks go on beside it.  Nothing handles        *)
(* SIGTERM, which systemd sends: it ends the process at once, as a crash   *)
(* does.  The daemon keeps nothing on disk; the shell on the target        *)
(* outlives it.                                                            *)
(***************************************************************************)
EXTENDS SerialTermServer

CONSTANT MaxRestarts    \* bound on the starts of the process after the first

ASSUME RestartsAssumption == MaxRestarts \in Nat

VARIABLES
    main,           \* where the main task is: "run" (in sleep), "stop" (in
                    \* relay.stop), "close" (in _close_ws_safe), "pause" (in
                    \* sleep(0.05)), "cleanup"; "off": there is no process
    main_awaits,    \* the loop task that its relay.stop awaits, or None
    to_close,       \* the WebSockets that stop() has still to close
    late,           \* history: the WebSockets accepted after stop() listed them
    restarts

serverVars == vars
daemonVars == <<main, main_awaits, to_close, late, restarts>>
allVars == <<serverVars, daemonVars>>

DaemonInit ==
    /\ Init
    /\ main = "run"
    /\ main_awaits = None
    /\ to_close = {}
    /\ late = {}
    /\ restarts = 0

-----------------------------------------------------------------------------
(* Shutdown after SIGINT *)

\* _active_ws: from the connection to the finally block of the input loop, which
\* a handler that raised before that loop never reaches.
active_ws ==
    {w \in Conns : \/ pc[w] \in {"greet", "enqueue", "starting", "input"}
                   \/ pc[w] = "crashed" /\ w \notin closed}

\* relay.stop() has returned: the WebSockets are listed once.
\* Mutant: only those that wait.
ListsQueued == to_close' = {w \in Conns : \E c \in Clients : queued_ws[c] = w}
Lists == to_close' = active_ws \cup {w \in Conns : \E c \in Clients : queued_ws[c] = w}

\* relay.stop() on behalf of the main task.
StopsRelay ==
    \/ /\ StopsAtOnce
       /\ Lists
       /\ main' = "close"
       /\ UNCHANGED main_awaits
    \/ /\ task \in Alive
       /\ loop' = [loop EXCEPT ![task] = "cancel"]
       /\ main_awaits' = task
       /\ main' = "stop"
       /\ UNCHANGED <<task, awaited, to_close>>

\* handler.close(), then server.stop().  Mutant: the port is left open.
InterruptedUnclosed ==
    /\ main = "run"
    /\ StopsRelay
    /\ UNCHANGED <<ioVars, start, fresh, shown, wsVars, managerVars, handlerVars,
                   late, restarts>>
Interrupted ==
    /\ main = "run"
    /\ Closes
    /\ StopsRelay
    /\ UNCHANGED <<start, fresh, shown, wsVars, managerVars, handlerVars,
                   late, restarts>>

RelayStopped ==
    /\ main = "stop"
    /\ main_awaits \notin Alive
    /\ task' = None
    /\ main_awaits' = None
    /\ Lists
    /\ main' = "close"
    /\ UNCHANGED <<ioVars, loop, start, awaited, fresh, shown, wsVars, managerVars,
                   handlerVars, late, restarts>>

\* _close_ws_safe: ws.closed from the first moment on; the page's answer is
\* awaited for a second.
ClosesOne ==
    /\ main = "close"
    /\ \E w \in to_close : closed' = closed \cup {w} /\ to_close' = to_close \ {w}
    /\ UNCHANGED <<ioVars, relayVars, left, managerVars, handlerVars,
                   main, main_awaits, late, restarts>>

ClosedAll ==
    /\ main = "close"
    /\ to_close = {}
    /\ queued_ws' = [c \in Clients |-> None]
    /\ main' = "pause"
    /\ UNCHANGED <<ioVars, relayVars, wsVars, managerVars, pc, was_active, promo,
                   main_awaits, to_close, late, restarts>>

\* runner.cleanup(): no connection is accepted any more.
CleansUp ==
    /\ main = "pause"
    /\ main' = "cleanup"
    /\ UNCHANGED <<serverVars, main_awaits, to_close, late, restarts>>

\* cleanup() cancels the handlers that have not ended after 60 s, when every kick
\* is long over: the finally block of the input loop runs.
CleanupCancels(w) ==
    /\ main = "cleanup"
    /\ pc[w] = "input"
    /\ Finishes(w)
    /\ UNCHANGED <<ioVars, relayVars, left, managerVars, was_active, queued_ws, promo,
                   daemonVars>>

-----------------------------------------------------------------------------
(* The process ends: at the end of cleanup(), or at any time by SIGTERM,   *)
(* SIGKILL or a crash.  The kernel closes the port and the connections.    *)

ProcessEnds ==
    /\ Closes
    /\ task' = None
    /\ loop' = [w \in Conns |-> "none"]
    /\ start' = [w \in Conns |-> IF Told(w) THEN "failed" ELSE "idle"]
    /\ awaited' = [k \in Calls |-> None]
    /\ fresh' = FALSE
    /\ UNCHANGED shown
    /\ LET open == {w \in Conns : pc[w] # "new"} IN
        /\ closed' = closed \cup open
        /\ left' = left \cup open
        /\ pc' = [w \in Conns |-> IF w \in open THEN "gone" ELSE "new"]
    /\ active' = None /\ queue' = <<>>
    /\ grace' = [c \in Clients |-> NoEntry]
    /\ was_active' = {}
    /\ queued_ws' = [c \in Clients |-> None]
    /\ promo' = [w \in Conns |-> "none"]
    /\ main' = "off" /\ main_awaits' = None /\ to_close' = {} /\ late' = {}
    /\ UNCHANGED restarts

Exits  == main = "cleanup" /\ ProcessEnds
Killed == main # "off" /\ ProcessEnds

\* systemd after a failure (Restart=on-failure), or somebody by hand.
Starts ==
    /\ main = "off"
    /\ restarts < MaxRestarts
    /\ main' = "run"
    /\ restarts' = restarts + 1
    /\ UNCHANGED <<serverVars, main_awaits, to_close, late>>

-----------------------------------------------------------------------------
\* A step of the server beside the main task.
Beside(A) ==
    /\ main # "off"
    /\ A
    /\ LET accepted == {w \in Conns : pc[w] = "new" /\ pc'[w] # "new"} IN
        /\ accepted # {} => main # "cleanup"
        /\ late' = IF main \in {"close", "pause"} THEN late \cup accepted ELSE late
    /\ UNCHANGED <<main, main_awaits, to_close, restarts>>

MainStep == RelayStopped \/ ClosesOne \/ ClosedAll \/ CleansUp \/ Exits

DaemonNext ==
    \/ Beside(Next)
    \/ Interrupted \/ MainStep
    \/ \E w \in Conns : CleanupCancels(w)
    \/ Killed \/ Starts

\* The main task is run like any other; cleanup() waits for a bounded time.
DaemonFairness ==
    /\ WF_allVars(MainStep)
    /\ \A w \in Conns :
        /\ WF_allVars(Beside(HandlerStep(w)))
        /\ WF_allVars(Beside(PromotionStep(w)))
        /\ WF_allVars(Beside(StartStep(w)))
        /\ WF_allVars(Beside(RelayLoop(w)))

DaemonSpec == DaemonInit /\ [][DaemonNext]_allVars /\ DaemonFairness

-----------------------------------------------------------------------------
(* Properties *)

\* When a turn ends in a running process, in its shutdown too, no session is left
\* open but by the handler of a client that had been promoted.  A process that ends
\* leaves the session to whoever is served next.
SessionsEndOrAreLeftBehind ==
    [][active \notin {None} \cup Overlap /\ active' # active =>
        \/ shell' = None
        \/ \E w \in Conns \ was_active :
               Sid[w] = active /\ pc[w] = "closing" /\ pc'[w] = "gone"
        \/ main' = "off"]_allVars

\* No page is left connected to a process that is about to end: whoever is still
\* connected when cleanup() begins came after stop() had listed the WebSockets.
EveryPageIsClosed ==
    main \in {"pause", "cleanup"} =>
        \A w \in Conns : ~ Ended(w) => w \in closed \cup late

\* Ctrl+C ends the process, although the main task waits for the relay's loop
\* without a timeout, a lost cancellation leaves that loop running and kicks that
\* are under way open the port again.
ShutdownEnds == main = "stop" ~> main = "off"
=============================================================================
