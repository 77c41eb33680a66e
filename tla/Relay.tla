------------------------------- MODULE Relay --------------------------------
(***************************************************************************)
(* kvmd_serial_term/relay.py: the task that forwards serial output to one  *)
(* WebSocket, and the serial kick that precedes it.                        *)
(*                                                                         *)
(* Concurrency.  asyncio runs one task at a time and switches only at an   *)
(* await that suspends, so an action is everything between two such        *)
(* points.  start(ws) suspends in stop() and in the sleeps of the kick;    *)
(* stop() suspends until the task it cancelled has ended.  Nothing locks   *)
(* the relay: another call may run whenever one is suspended.              *)
(*                                                                         *)
(* A call is <<"start", ws>> (made once for a WebSocket) or <<"stop", ws>> *)
(* (made by the handler of ws when it ends).  The loop task that start(ws) *)
(* creates is named ws.                                                    *)
(***************************************************************************)
EXTENDS SerialHandler, FiniteSets

CONSTANTS
    Conns,          \* the WebSocket connections
    LossyCancel     \* TRUE: Python before 3.12, see LoopMissesCancel

ASSUME ConnsAssumption == None \notin Conns
ASSUME CancelAssumption == LossyCancel \in BOOLEAN

VARIABLES
    task,           \* _task: the loop that stop() will cancel, or None
    loop,           \* per loop task: "none", "run", "cancel" (requested), "done"
    start,          \* per ws, where start(ws) is suspended or how it ended
    awaited,        \* per call, the task its stop() awaits, or None
    fresh,          \* _fresh_getty
    shown,          \* the WebSockets that output of the target was sent to
    closed,         \* the WebSockets with ws.closed; set by the server
    left            \* the WebSockets whose browser is gone

ioVars    == <<portVars, targetVars>>
relayVars == <<task, loop, start, awaited, fresh, shown>>
wsVars    == <<closed, left>>

Calls == {"start", "stop"} \X Conns

RelayInit ==
    /\ task = None
    /\ loop = [w \in Conns |-> "none"]
    /\ start = [w \in Conns |-> "idle"]
    /\ awaited = [k \in Calls |-> None]
    /\ fresh = FALSE
    /\ shown = {}

\* The loop tasks that are not done().
Alive == {w \in Conns : loop[w] \in {"run", "cancel"}}

-----------------------------------------------------------------------------
(* stop().  Its outcomes leave start, fresh, shown and the port alone; the *)
(* callers below say so.                                                   *)

\* Nothing to stop, or a task that has already ended: returns at once.
StopsAtOnce ==
    /\ task \notin Alive
    /\ task' = None
    /\ UNCHANGED <<loop, awaited>>

\* Mutant of StopsLater: _task cleared before the await.
StopsLaterForgets(k) ==
    /\ task \in Alive
    /\ loop' = [loop EXCEPT ![task] = "cancel"]
    /\ awaited' = [awaited EXCEPT ![k] = task]
    /\ task' = None

\* cancel(), then suspend until the task has ended.
StopsLater(k) ==
    /\ task \in Alive
    /\ loop' = [loop EXCEPT ![task] = "cancel"]
    /\ awaited' = [awaited EXCEPT ![k] = task]
    /\ UNCHANGED task

\* Mutant of StopResumes: stop() does not wait for the task it cancelled.
StopResumesEarly(k) ==
    /\ awaited[k] # None
    /\ task' = None
    /\ awaited' = [awaited EXCEPT ![k] = None]
    /\ UNCHANGED loop

\* The awaited task has ended: _task is None, whatever it had become meanwhile.
StopResumes(k) ==
    /\ awaited[k] # None
    /\ awaited[k] \notin Alive
    /\ task' = None
    /\ awaited' = [awaited EXCEPT ![k] = None]
    /\ UNCHANGED loop

-----------------------------------------------------------------------------
(* start(ws) with _kick(): "idle" before the call; "stop", "settle" (0.3 s *)
(* after closing), "newline" (0.5 s before it), "fresh" (1.0 s) or "echo"  *)
(* (0.5 s after the newline) while suspended; "done" or "failed" after it. *)

Reopens(w) ==
    \/ /\ Opens
       /\ start' = [start EXCEPT ![w] = IF fresh THEN "fresh" ELSE "newline"]
    \/ OpenRaises /\ start' = [start EXCEPT ![w] = "failed"]

\* Mutant of Kicks: the port is opened again without being closed.
KicksUnclosed(w) == Reopens(w) /\ UNCHANGED <<fresh, shown>>

Kicks(w) ==
    /\ \/ is_open /\ Closes /\ start' = [start EXCEPT ![w] = "settle"]
       \/ ~ is_open /\ Reopens(w)
    /\ UNCHANGED <<fresh, shown>>

\* Mutant of StartBegins: the old loop is left running.
StartBeginsUnstopped(w) ==
    /\ start[w] = "idle"
    /\ Kicks(w)
    /\ UNCHANGED <<task, loop, awaited>>

StartBegins(w) ==
    /\ start[w] = "idle"
    /\ \/ StopsAtOnce /\ Kicks(w)
       \/ /\ StopsLater(<<"start", w>>)
          /\ start' = [start EXCEPT ![w] = "stop"]
          /\ UNCHANGED <<ioVars, fresh, shown>>

StartResumes(w) ==
    /\ start[w] = "stop"
    /\ StopResumes(<<"start", w>>)
    /\ Kicks(w)

\* Mutants: open() is forgotten; so is the newline.
KickSettledUnopened(w) ==
    /\ start[w] = "settle"
    /\ start' = [start EXCEPT ![w] = "newline"]
    /\ UNCHANGED <<ioVars, task, loop, awaited, fresh, shown>>
KickNewlineUnsent(w) ==
    /\ start[w] = "newline"
    /\ start' = [start EXCEPT ![w] = "echo"]
    /\ UNCHANGED <<ioVars, task, loop, awaited, fresh, shown>>

KickSettled(w) ==
    /\ start[w] = "settle"
    /\ Reopens(w)
    /\ UNCHANGED <<task, loop, awaited, fresh, shown>>

KickNewline(w) ==
    /\ start[w] = "newline"
    /\ \/ Writes(Newline) /\ start' = [start EXCEPT ![w] = "echo"]
       \/ WriteRaises /\ start' = [start EXCEPT ![w] = "failed"]
    /\ UNCHANGED <<task, loop, awaited, fresh, shown>>

\* The kick is over: the loop task is created and start(ws) returns.
StartReturns(w) ==
    /\ start[w] \in {"fresh", "echo"}
    /\ start' = [start EXCEPT ![w] = "done"]
    /\ loop' = [loop EXCEPT ![w] = "run"]
    /\ task' = w
    /\ UNCHANGED <<ioVars, awaited, fresh, shown>>

-----------------------------------------------------------------------------
(* The loop task of ws.  cut is the set of WebSockets whose transport the  *)
(* server has closed without setting ws.closed: sending to them raises.    *)

\* What becomes of a chunk that was read: it is sent, or send_str raises and the
\* loop ends.  When the browser is gone either may happen.
Sends(w, cut) ==
    \/ /\ w \notin closed \cup cut
       /\ shown' = shown \cup {w}
       /\ loop' = [loop EXCEPT ![w] = "run"]
    \/ /\ w \in closed \cup cut \cup left
       /\ loop' = [loop EXCEPT ![w] = "done"]
       /\ UNCHANGED shown

LoopForwards(w, cut) ==
    /\ loop[w] = "run"
    /\ Reads
    /\ Sends(w, cut)
    /\ UNCHANGED <<task, start, awaited, fresh>>

\* Mutant of LoopEnds: "while True" in place of "while not ws.closed".
LoopEndsOnError(w) ==
    /\ loop[w] = "run"
    /\ port # "open" \/ Alive # {w}
    /\ loop' = [loop EXCEPT ![w] = "done"]
    /\ UNCHANGED <<ioVars, task, start, awaited, fresh, shown>>

\* The loop ends by itself: ws is closed, read() raises, or a second loop reads
\* from the same StreamReader, which refuses the later of two readers.
LoopEnds(w) ==
    /\ loop[w] = "run"
    /\ \/ w \in closed
       \/ port # "open"
       \/ Alive # {w}
    /\ loop' = [loop EXCEPT ![w] = "done"]
    /\ UNCHANGED <<ioVars, task, start, awaited, fresh, shown>>

\* CancelledError is thrown into the loop at the await where it is suspended.
LoopCancelled(w) ==
    /\ loop[w] = "cancel"
    /\ loop' = [loop EXCEPT ![w] = "done"]
    /\ UNCHANGED <<ioVars, task, start, awaited, fresh, shown>>

\* asyncio.wait_for before Python 3.12 drops a cancellation that arrives when
\* the read is already complete: the chunk is forwarded and the loop goes on.
LoopMissesCancel(w, cut) ==
    /\ LossyCancel
    /\ loop[w] = "cancel"
    /\ Reads
    /\ Sends(w, cut)
    /\ UNCHANGED <<task, start, awaited, fresh>>

LoopStep(w, cut) ==
    \/ LoopForwards(w, cut)
    \/ LoopEnds(w)
    \/ LoopCancelled(w)
    \/ LoopMissesCancel(w, cut)

-----------------------------------------------------------------------------
\* write(): keystrokes of client c.
Types(c) ==
    /\ \/ Writes(Keys(c))
       \/ WriteRaises
    /\ UNCHANGED relayVars

\* Mutants of LogsOut: the flag remembers whom it was set for; no Ctrl+D.
LogsOutWhom == Writes(EndOfSession) /\ fresh' = shell
LogsOutSilently == UNCHANGED ioVars /\ fresh' = TRUE

\* logout() up to the moment it returns; the caller continues without a switch.
LogsOut == Writes(EndOfSession) /\ fresh' = TRUE

LogoutRaises == WriteRaises /\ UNCHANGED fresh
=============================================================================
