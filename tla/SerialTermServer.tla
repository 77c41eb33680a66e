-------------------------- MODULE SerialTermServer --------------------------
(***************************************************************************)
(* kvmd_serial_term/server.py: the WebSocket handlers, composed with the   *)
(* ClientManager and the Relay they share.  Every connection has a handler *)
(* task; a promotion adds a task of its own.  An action runs from one      *)
(* await that may suspend to the next, with every call made in between.    *)
(*                                                                         *)
(* A connection carries the sid of the browser tab that opened it (Sid).   *)
(* A tab that reconnects is another connection with the same sid.          *)
(***************************************************************************)
EXTENDS Relay, ClientManager

CONSTANTS
    Sid,            \* [Conns -> Clients]: the ?sid= of each connection
    Overlap         \* the tabs that may connect while the handler of an earlier
                    \* connection with their sid still runs

ASSUME SidAssumption     == Sid \in [Conns -> Clients]
ASSUME OverlapAssumption == Overlap \subseteq Clients

VARIABLES
    pc,             \* per connection, where its handler is suspended
    was_active,     \* the handlers whose input loop began with was_active True
    queued_ws,      \* _queued_ws: sid -> connection, or None
    promo           \* per connection, the promote_and_relay task

managerVars == cmVars
handlerVars == <<pc, was_active, queued_ws, promo>>
vars == <<ioVars, relayVars, wsVars, managerVars, handlerVars>>

Init ==
    /\ TargetInit
    /\ SerialInit
    /\ RelayInit
    /\ closed = {}
    /\ left = {}
    /\ CMInit
    /\ pc = [w \in Conns |-> "new"]
    /\ was_active = {}
    /\ queued_ws = [c \in Clients |-> None]
    /\ promo = [w \in Conns |-> "none"]

\* pc: "new" before the connection, "greet" and "enqueue" in the send_str that
\* tells the page where it stands, "starting" in relay.start, "input" in the
\* input loop, "closing" in ws.close, "stopping" in relay.stop, "gone" at the
\* end, "crashed" if an exception left the handler before its last line.
Ended(w) == pc[w] \in {"new", "gone", "crashed"}

\* aiohttp closes the transport of a handler that raised, not its WebSocket.
Crashed == {w \in Conns : pc[w] = "crashed"}

Goes(w, place) == pc' = [pc EXCEPT ![w] = place]

-----------------------------------------------------------------------------
(* _handle_websocket *)

MayConnect(w) ==
    /\ pc[w] = "new"
    /\ Sid[w] \in Overlap \/ \A v \in Conns \ {w} : Sid[v] = Sid[w] => Ended(v)

\* reconnect() or, failing that, acquire() makes the client active.
ConnectActive(w) ==
    /\ MayConnect(w)
    /\ \/ ReconnectGranted(Sid[w])
       \/ /\ ~ MayReconnect(Sid[w])
          /\ AcquireHeld(Sid[w]) \/ AcquireFree(Sid[w])
    /\ Goes(w, "greet")
    /\ UNCHANGED <<ioVars, relayVars, wsVars, was_active, queued_ws, promo>>

\* acquire() when the port is taken: the place the client has, or a new one.
\* Mutants: a client that already waits is appended again; the latest comes first.
QueuesUpTwice(c) == active # None /\ queue' = Append(queue, c)
QueuesUpFront(c) == active # None /\ ~ Queued(c) /\ queue' = <<c>> \o queue
QueuesUp(c) ==
    \/ Queued(c) /\ UNCHANGED queue
    \/ active # None /\ ~ Queued(c) /\ queue' = Append(queue, c)

\* self._queued_ws[client_id] = ws.  Mutant: not registered.
RegistersNot(c, w) == UNCHANGED queued_ws
Registers(c, w) == queued_ws' = [queued_ws EXCEPT ![c] = w]

\* The input loop begins by noting whether the client holds the port.
\* Mutant: everybody is noted as active.
EntersAsActive(w) ==
    Goes(w, "input") /\ was_active' = was_active \cup {w}
EntersInput(w) ==
    /\ Goes(w, "input")
    /\ was_active' = was_active \cup (IF IsActive(Sid[w]) THEN {w} ELSE {})

\* Both refuse: the client waits.  An expired grace entry is gone.
ConnectQueued(w) ==
    LET c == Sid[w] IN
    /\ MayConnect(w)
    /\ ~ MayReconnect(c)
    /\ active # c
    /\ QueuesUp(c)
    /\ grace' = Pruned(c)
    /\ Registers(c, w)
    /\ Goes(w, "enqueue")
    /\ UNCHANGED <<ioVars, relayVars, wsVars, active, was_active, promo>>

\* {"type": "active"} is sent and relay.start begins.
Greeted(w) ==
    /\ pc[w] = "greet"
    /\ StartBegins(w)
    /\ Goes(w, IF start'[w] = "failed" THEN "crashed" ELSE "starting")
    /\ UNCHANGED <<wsVars, managerVars, was_active, queued_ws, promo>>

\* {"type": "queue"} is sent and the input loop begins.
Enqueued(w) ==
    /\ pc[w] = "enqueue"
    /\ EntersInput(w)
    /\ UNCHANGED <<ioVars, relayVars, wsVars, managerVars, queued_ws, promo>>

\* send_str raises: the handler ends here, with nothing undone.
GreetingRaises(w) ==
    /\ pc[w] \in {"greet", "enqueue"}
    /\ w \in left \cup closed
    /\ Goes(w, "crashed")
    /\ UNCHANGED <<ioVars, relayVars, wsVars, managerVars, was_active, queued_ws, promo>>

-----------------------------------------------------------------------------
(* _ws_input_loop *)

\* The server has sent {"type": "active"} to w: relay.start follows that message
\* without a pause.
Told(w) == start[w] # "idle"

\* web/index.html creates the terminal that sends keystrokes on the first
\* {"type": "active"} and keeps it when it connects again: the page of w can type
\* if any connection of its tab was told.
HasTerminal(w) == \E v \in Conns : Sid[v] = Sid[w] /\ Told(v)

\* To the finally block, which first of all closes the WebSocket.
\* Mutant: the WebSocket stays open.
FinishesUnclosed(w) == Goes(w, "closing") /\ UNCHANGED closed
Finishes(w) == Goes(w, "closing") /\ closed' = closed \cup {w}

\* A keystroke of the active client.  Those of the others are dropped.
KeyArrives(w) ==
    /\ pc[w] = "input"
    /\ w \notin closed
    /\ HasTerminal(w)
    /\ IsActive(Sid[w])
    /\ Types(Sid[w])
    /\ IF port = "open" THEN UNCHANGED <<pc, closed>> ELSE Finishes(w)
    /\ UNCHANGED <<left, managerVars, was_active, queued_ws, promo>>

\* The browser is gone, its close frame has arrived, or the server has closed
\* the WebSocket (Daemon).
InputEnds(w) ==
    /\ pc[w] = "input"
    /\ w \in left \cup closed
    /\ Finishes(w)
    /\ UNCHANGED <<ioVars, relayVars, left, managerVars, was_active, queued_ws, promo>>

\* _promote(p): the task is created for the WebSocket found under p, if any.
\* Mutant: nobody is told that it was promoted.
PromotesSilently(p) == UNCHANGED <<queued_ws, promo>>
Promotes(p) ==
    /\ queued_ws' = [queued_ws EXCEPT ![p] = None]
    /\ promo' = [v \in Conns |-> IF v = queued_ws[p] THEN "notify" ELSE promo[v]]

Releases(w) ==
    LET p == Promoted(Sid[w]) IN
    /\ Release(Sid[w])
    /\ IF p = None THEN UNCHANGED <<queued_ws, promo>> ELSE Promotes(p)
    /\ Goes(w, "gone")

\* The finally block of a handler whose client was active when it began.
LogoutAndStop(w) ==
    /\ pc[w] = "closing"
    /\ w \in was_active
    /\ LogsOut
    /\ \/ StopsAtOnce /\ Releases(w)
       \/ /\ StopsLater(<<"stop", w>>)
          /\ Goes(w, "stopping")
          /\ UNCHANGED <<managerVars, queued_ws, promo>>
    /\ UNCHANGED <<start, shown, wsVars, was_active>>

\* relay.logout() raises: relay.stop() and release() are skipped.
LogoutFails(w) ==
    /\ pc[w] = "closing"
    /\ w \in was_active
    /\ LogoutRaises
    /\ Goes(w, "crashed")
    /\ UNCHANGED <<task, loop, start, awaited, shown, wsVars, managerVars,
                   was_active, queued_ws, promo>>

StopReturns(w) ==
    /\ pc[w] = "stopping"
    /\ StopResumes(<<"stop", w>>)
    /\ Releases(w)
    /\ UNCHANGED <<ioVars, start, fresh, shown, wsVars, was_active>>

\* release() of a client that was not active; what it returns is ignored.
\* Mutants: the place is kept; the holder is released in place of the client.
KeepsPlace(c) == UNCHANGED managerVars
ReleasesHolder(c) == active # None /\ Release(active)
GivesUpPlace(c) == Release(c)

\* The finally block of the others.
LeaveQueue(w) ==
    /\ pc[w] = "closing"
    /\ w \notin was_active
    /\ queued_ws' = [queued_ws EXCEPT ![Sid[w]] = None]
    /\ GivesUpPlace(Sid[w])
    /\ Goes(w, "gone")
    /\ UNCHANGED <<ioVars, relayVars, wsVars, was_active, promo>>

-----------------------------------------------------------------------------
(* promote_and_relay, and relay.start on behalf of either task.  promo:    *)
(* "none", "notify" in send_str, "starting" in relay.start, then "done" or *)
(* "failed".                                                               *)

PromotionNotifies(w) ==
    /\ promo[w] = "notify"
    /\ w \notin closed \cup Crashed
    /\ StartBegins(w)
    /\ promo' = [promo EXCEPT ![w] = IF start'[w] = "failed" THEN "failed" ELSE "starting"]
    /\ UNCHANGED <<wsVars, managerVars, pc, was_active, queued_ws>>

\* send_str raises; the task returns.
PromotionFails(w) ==
    /\ promo[w] = "notify"
    /\ w \in closed \cup Crashed \cup left
    /\ promo' = [promo EXCEPT ![w] = "failed"]
    /\ UNCHANGED <<ioVars, relayVars, wsVars, managerVars, pc, was_active, queued_ws>>

\* relay.start(w) has just ended: its caller goes on in the same step.
HandlerAfterStart(w) ==
    /\ pc[w] = "starting"
    /\ IF start'[w] = "done"
          THEN EntersInput(w)
          ELSE Goes(w, "crashed") /\ UNCHANGED was_active
    /\ UNCHANGED promo

PromotionAfterStart(w) ==
    /\ promo[w] = "starting"
    /\ promo' = [promo EXCEPT ![w] = start'[w]]
    /\ UNCHANGED <<pc, was_active>>

StartStep(w) ==
    /\ StartResumes(w) \/ KickSettled(w) \/ KickNewline(w) \/ StartReturns(w)
    /\ IF start'[w] \in {"done", "failed"}
          THEN HandlerAfterStart(w) \/ PromotionAfterStart(w)
          ELSE UNCHANGED <<pc, was_active, promo>>
    /\ UNCHANGED <<wsVars, managerVars, queued_ws>>

-----------------------------------------------------------------------------
(* The surroundings: browsers, the target, the adapter, the clock. *)

BrowserLeaves(w) ==
    /\ ~ Ended(w)
    /\ w \notin left
    /\ left' = left \cup {w}
    /\ UNCHANGED <<ioVars, relayVars, closed, managerVars, handlerVars>>

TargetPrints == Prints /\ UNCHANGED <<relayVars, wsVars, managerVars, handlerVars>>
AdapterGoes  == Unplug /\ UNCHANGED <<relayVars, wsVars, managerVars, handlerVars>>
TimePasses   == Tick /\ UNCHANGED <<ioVars, relayVars, wsVars, handlerVars>>

RelayLoop(w) == LoopStep(w, Crashed) /\ UNCHANGED <<wsVars, managerVars, handlerVars>>

Connect(w) == ConnectActive(w) \/ ConnectQueued(w)

HandlerStep(w) ==
    \/ Greeted(w) \/ Enqueued(w) \/ GreetingRaises(w)
    \/ InputEnds(w)
    \/ LogoutAndStop(w) \/ LogoutFails(w) \/ StopReturns(w) \/ LeaveQueue(w)

PromotionStep(w) == PromotionNotifies(w) \/ PromotionFails(w)

Next ==
    \/ \E w \in Conns :
        \/ Connect(w) \/ HandlerStep(w) \/ KeyArrives(w)
        \/ PromotionStep(w) \/ StartStep(w) \/ RelayLoop(w)
        \/ BrowserLeaves(w)
    \/ TargetPrints \/ AdapterGoes \/ TimePasses

\* The event loop runs every task that is ready, and every sleep ends.  The
\* target prints what it has to print.  Nobody is bound to connect, type or leave.
Fairness ==
    /\ \A w \in Conns :
        /\ WF_vars(HandlerStep(w))
        /\ WF_vars(PromotionStep(w))
        /\ WF_vars(StartStep(w))
        /\ WF_vars(RelayLoop(w))
    /\ WF_vars(TargetPrints)

Spec == Init /\ [][Next]_vars /\ Fairness

-----------------------------------------------------------------------------
(* Properties *)

\* The state has the shape the code gives it.
TypeOK ==
    /\ CMTypeOK
    /\ shell \in Clients \cup {None}
    /\ output \in {"none", "printing", "buffered"}
    /\ port \in {"closed", "open", "broken"}
    /\ leaked \in BOOLEAN
    /\ task \in Conns \cup {None}
    /\ loop \in [Conns -> {"none", "run", "cancel", "done"}]
    /\ start \in [Conns -> {"idle", "stop", "settle", "newline", "fresh",
                            "echo", "done", "failed"}]
    /\ awaited \in [Calls -> Conns \cup {None}]
    /\ fresh \in BOOLEAN
    /\ shown \cup closed \cup left \cup was_active \subseteq Conns
    /\ pc \in [Conns -> {"new", "greet", "enqueue", "starting", "input", "closing",
                         "stopping", "gone", "crashed"}]
    /\ queued_ws \in [Clients -> Conns \cup {None}]
    /\ promo \in [Conns -> {"none", "notify", "starting", "done", "failed"}]

\* The connections of tabs that do not connect before their previous handler has ended.
\* Most of what the server promises it promises to these, whatever the others do.
Alone == {w \in Conns : Sid[w] \notin Overlap}

\* A page that was told it is active stays so until its own WebSocket closes or
\* its handler ends, whatever other handlers, promotions and reconnects do meanwhile.
KeepsTurn(w) == Told(w) /\ ~ Ended(w) /\ w \notin closed => active = Sid[w]
TurnsAreKept == \A w \in Alone : KeepsTurn(w)

\* So does the page of a tab that is refreshed before its previous handler has ended.
RefreshKeepsTurn == \A w \in Conns \ Alone : KeepsTurn(w)

\* Only the holder reads the port: a loop that could still send its output to
\* anybody belongs to the active client.
OutputOnlyToHolder ==
    \A w \in (Alive \cap Alone) \ (closed \cup left) : active = Sid[w]

\* Every waiting client can be promoted: _queued_ws has a WebSocket of its own
\* whose handler has not ended in order.
WaitersAreReachable ==
    \A i \in 1 .. Len(queue) : LET w == queued_ws[queue[i]] IN
        w # None /\ Sid[w] = queue[i] /\ pc[w] \notin {"new", "gone"}

\* When a turn ends, nobody's session is left open on the target, unless the
\* handler that ends it was a waiting one when its input loop began: the finally
\* block of such a handler sends no Ctrl+D, although its client may hold the port.
ShellsEndWithTurns ==
    [][active \notin {None} \cup Overlap /\ active' # active =>
        \/ shell' = None
        \/ \E w \in Conns \ was_active :
               Sid[w] = active /\ pc[w] = "closing" /\ pc'[w] = "gone"]_vars

\* A handler that has not ended serves the holder: its page was told that it is
\* active, is about to be told, or the handler is about to release the port.
Serves(w) ==
    /\ ~ Ended(w)
    /\ \/ pc[w] \in {"greet", "starting", "closing", "stopping"}
       \/ promo[w] # "none"
       \/ Told(w)
HolderIsServed ==
    \A w \in Conns : ~ Ended(w) /\ active = Sid[w] => Serves(w)

\* The holder's handlers have all ended, and one of them in an exception.
Deserted(c) ==
    /\ \A w \in Conns : Sid[w] = c => Ended(w)
    /\ \E w \in Conns : Sid[w] = c /\ pc[w] = "crashed"

\* w holds the port as it waits: it is still listed, for a promotion that
\* nobody makes.
Overlooked(w) == ~ Ended(w) /\ active = Sid[w] /\ queued_ws[active] = w

\* A promoted client has left.
PromotedLeft == \E w \in Conns : promo[w] # "none" /\ pc[w] = "gone"

\* A port that is held serves its holder, but for two cases: the handlers of the
\* holder ended in an exception, or a promoted client left and its successor was
\* overlooked.
UnservedOnlyAfterPromoted ==
    active # None =>
        \/ \E w \in Conns : Sid[w] = active /\ Serves(w)
        \/ Deserted(active)
        \/ PromotedLeft /\ \E w \in Conns : Overlooked(w)

\* Nobody's session is ended while the client still uses it: the Ctrl+D of one
\* handler never reaches the shell of a client whose page has the terminal.
LiveSessionsSurvive ==
    [][\A w \in Alone : shell = Sid[w] /\ Told(w) /\ ~ Ended(w) /\ w \notin closed
            => shell' = shell]_vars

\* Nor is its relay stopped by anybody else, although stop() cancels whatever loop
\* is in _task and kicks that overlap may store one of them over another: a page
\* that has the terminal loses its loop only to an error.
LiveRelaysSurvive ==
    \A w \in Alone : Told(w) /\ ~ Ended(w) /\ w \notin closed => loop[w] # "cancel"

\* What the handlers do to the manager is still a line: nobody joins twice and
\* nobody is overtaken, although reconnect() and acquire() run in one step.
PortIsALine == ImplementsLine

\* When its browser is gone, a handler ends: no lock-up in stop(), in a kick or
\* in the wait for a cancelled loop.
HandlersEnd ==
    \A w \in Conns : w \in left ~> Ended(w)

\* The port is freed when every page of its holder is gone, unless one of its
\* handlers ended in an exception: nobody releases the port for such a handler.
Abandoned(c) == active = c /\ \A w \in Conns : Sid[w] = c => pc[w] = "new" \/ w \in left
PortIsFreedUnlessCrash ==
    \A c \in Clients :
        Abandoned(c) ~> active # c \/ \E w \in Conns : Sid[w] = c /\ pc[w] = "crashed"

\* What is typed ends a handler only while a kick has the port closed, or when the
\* adapter is gone: a handler that leaves its input loop has lost its WebSocket.
TypingFailsOnlyInKick ==
    [][\A w \in Conns : pc[w] = "input" /\ pc'[w] = "closing" =>
        \/ w \in left \cup closed
        \/ port = "broken"
        \/ \E v \in Conns : start[v] = "settle"]_vars

\* A kick that sends its newline does bring its page something to display.
KickBringsPrompt ==
    \A w \in Conns : start[w] = "echo" ~> w \in shown \cup left \cup closed
=============================================================================
