---------------------------- MODULE DaemonProofs ----------------------------
(***************************************************************************)
(* Proofs about the process around the server: what the server keeps       *)
(* while it is shut down, killed and started again, and what the shutdown  *)
(* does to the pages and to the sessions on the target.                    *)
(***************************************************************************)
EXTENDS Daemon, ServerTurnProofs

\* What stop() has still to close are connections that were made.
ListedAreMade == to_close \subseteq {w \in Conns : pc[w] # "new"}

DaemonInv == BaseInv /\ ListedAreMade

\* Once stop() has listed the WebSockets, every handler that goes on has its own
\* closed or on the list, or came later; in the end the list is empty.
PagesAreListed ==
    /\ main \in {"close", "pause", "cleanup"} =>
            \A w \in Conns : ~ Ended(w) => w \in closed \cup late \cup to_close
    /\ main \in {"pause", "cleanup"} => to_close = {}

-----------------------------------------------------------------------------
(* What the main task and the end of the process do to the server *)

\* stop() lists connections that were made, and every handler whose WebSocket is open.
LEMMA ListsOK ==
    ASSUME BaseInv, Lists
    PROVE  /\ to_close' \subseteq {w \in Conns : pc[w] # "new"}
           /\ \A w \in Conns : ~ Ended(w) => w \in closed \cup to_close'
<1> USE DEF BaseInv
<1>1. \A c \in Clients : queued_ws[c] \in Conns => pc[queued_ws[c]] # "new"
  BY ConnsAssumption DEF RegisteredOwn
<1>2. to_close' \subseteq {w \in Conns : pc[w] # "new"}
  BY <1>1 DEF Lists, active_ws
<1>3. ASSUME NEW w \in Conns, ~ Ended(w) PROVE w \in closed \cup to_close'
  <2>1. CASE pc[w] \in {"closing", "stopping"}
    BY <2>1 DEF EndedIsCut
  <2>2. CASE pc[w] \in {"greet", "enqueue", "starting", "input"}
    BY <2>2 DEF Lists, active_ws
  <2> QED BY <1>3, <2>1, <2>2 DEF Ended, HandlersOK
<1> QED BY <1>2, <1>3

\* relay.stop() for the main task.
LEMMA StopsRelayOK ==
    ASSUME RelayOK, StopsRelay
    PROVE  /\ task' \in Conns \cup {None}
           /\ loop' \in [Conns -> {"none", "run", "cancel", "done"}]
           /\ Alive' = Alive /\ awaited' = awaited
           /\ \/ main' = "stop" /\ to_close' = to_close
              \/ main' = "close" /\ Lists
<1>1. CASE StopsAtOnce /\ Lists /\ main' = "close"
  BY <1>1 DEF StopsAtOnce, RelayOK, Alive
<1>2. CASE /\ task \in Alive /\ loop' = [loop EXCEPT ![task] = "cancel"]
           /\ main' = "stop" /\ UNCHANGED <<task, awaited, to_close>>
  BY <1>2 DEF RelayOK, Alive
<1> QED BY <1>1, <1>2 DEF StopsRelay

\* The steps of the main task but the last: the port and the relay's loop may be
\* stopped, WebSockets closed and registrations dropped, under handlers and promotions
\* that stay where they are.
MainMoves ==
    /\ RelayOK' /\ Alive' = Alive
    /\ UNCHANGED <<start, shell, left, managerVars, pc, was_active, promo>>
    /\ closed \subseteq closed' /\ closed' \subseteq closed \cup {w \in Conns : pc[w] # "new"}
    /\ \A c \in Clients : queued_ws'[c] \in {queued_ws[c], None}
    /\ queued_ws' \in [Clients -> Conns \cup {None}]

\* That is what these steps are.
LEMMA MainSteps ==
    ASSUME DaemonInv,
           \/ Interrupted \/ RelayStopped \/ ClosesOne \/ ClosedAll \/ CleansUp \/ Starts
           \/ UNCHANGED allVars
    PROVE  MainMoves /\ ListedAreMade'
<1> USE DEF DaemonInv, BaseInv
<1>1. CASE Interrupted
  <2>1. /\ port' = "closed" /\ output' \in {"none", output} /\ UNCHANGED <<leaked, shell>>
        /\ UNCHANGED <<start, fresh, shown, closed, left, managerVars>>
        /\ UNCHANGED <<pc, was_active, queued_ws, promo>>
    BY <1>1 DEF Interrupted, Closes, wsVars, handlerVars
  <2>2. /\ task' \in Conns \cup {None}
        /\ loop' \in [Conns -> {"none", "run", "cancel", "done"}]
        /\ Alive' = Alive /\ awaited' = awaited
        /\ to_close' = to_close \/ Lists
    BY <1>1, StopsRelayOK DEF Interrupted
  <2>3. RelayOK'
    BY <2>1, <2>2 DEF RelayOK, Calls
  <2>4. ListedAreMade'
    BY <2>1, <2>2, ListsOK DEF ListedAreMade
  <2>5. \A c \in Clients : queued_ws'[c] = queued_ws[c]
    BY <2>1
  <2> QED BY <2>1, <2>2, <2>3, <2>4, <2>5 DEF MainMoves, HandlersOK
<1>2. CASE RelayStopped
  <2>1. /\ UNCHANGED <<port, leaked, shell, output, loop, start, awaited, fresh, shown>>
        /\ UNCHANGED <<closed, left, managerVars>> /\ task' = None
        /\ UNCHANGED <<pc, was_active, queued_ws, promo>>
    BY <1>2 DEF RelayStopped, ioVars, portVars, targetVars, wsVars, handlerVars
  <2>2. RelayOK' /\ Alive' = Alive
    BY <2>1 DEF RelayOK, Alive, Calls
  <2>3. ListedAreMade'
    BY <1>2, <2>1, ListsOK DEF RelayStopped, ListedAreMade
  <2> QED BY <2>1, <2>2, <2>3 DEF MainMoves, HandlersOK
<1>3. CASE ClosesOne
  <2>1. /\ UNCHANGED <<left, managerVars, pc, was_active, queued_ws, promo>>
        /\ \E w \in to_close : closed' = closed \cup {w} /\ to_close' = to_close \ {w}
    BY <1>3 DEF ClosesOne, handlerVars
  <2>2. RelayOK' /\ Alive' = Alive /\ UNCHANGED <<start, shell>>
    BY <1>3, UnchangedRelay DEF ClosesOne
  <2> QED BY <2>1, <2>2 DEF MainMoves, HandlersOK, ListedAreMade
<1>4. CASE ClosedAll
  <2>1. /\ UNCHANGED <<closed, left, managerVars, pc, was_active, promo, to_close>>
        /\ queued_ws' = [c \in Clients |-> None]
    BY <1>4 DEF ClosedAll, wsVars
  <2>2. RelayOK' /\ Alive' = Alive /\ UNCHANGED <<start, shell>>
    BY <1>4, UnchangedRelay DEF ClosedAll
  <2> QED BY <2>1, <2>2 DEF MainMoves, HandlersOK, ListedAreMade
<1>5. CASE CleansUp \/ Starts \/ UNCHANGED allVars
  <2>1. UNCHANGED vars /\ UNCHANGED to_close
    BY <1>5 DEF CleansUp, Starts, allVars, serverVars, daemonVars
  <2>2. /\ UNCHANGED <<ioVars, relayVars, closed, left, managerVars>>
        /\ UNCHANGED <<pc, was_active, queued_ws, promo>>
    BY <2>1 DEF vars, wsVars, handlerVars
  <2>3. RelayOK' /\ Alive' = Alive /\ UNCHANGED <<start, shell>>
    BY <2>2, UnchangedRelay
  <2> QED BY <2>1, <2>2, <2>3 DEF MainMoves, HandlersOK, ListedAreMade
<1> QED BY <1>1, <1>2, <1>3, <1>4, <1>5

\* They preserve BaseInv.
LEMMA MainMovesBase ==
    ASSUME BaseInv, MainMoves
    PROVE  BaseInv'
<1> USE DEF BaseInv, MainMoves
<1>1. CMInv'
  BY QuietCM
<1>2. HandlersOK'
  BY DEF HandlersOK
<1>3. NewIsFresh' /\ LoopsAreStarted' /\ EndedIsCut'
  BY DEF NewIsFresh, LoopsAreStarted, EndedIsCut
<1>4. RegisteredOwn'
  BY DEF RegisteredOwn
<1> QED BY <1>1, <1>2, <1>3, <1>4

\* A handler that cleanup() cancels enters its finally block as any other.
LEMMA CleanupCancelsOK ==
    ASSUME BaseInv, NEW w \in Conns, CleanupCancels(w)
    PROVE  /\ BaseInv'
           /\ TurnInv => TurnInv'
           /\ LoggedOut => LoggedOut'
<1>1. /\ pc[w] = "input" /\ pc' = [pc EXCEPT ![w] = "closing"] /\ closed' = closed \cup {w}
      /\ UNCHANGED <<ioVars, relayVars, left, managerVars, was_active, queued_ws, promo>>
  BY DEF CleanupCancels, Finishes, Goes
<1>2. RelayOK' /\ Alive' = Alive /\ UNCHANGED <<start, shell>>
  BY <1>1, UnchangedRelay DEF BaseInv
<1>3. BaseInv'
  BY <1>1, <1>2, HandlerGoesOn
<1>4. ASSUME TurnInv PROVE TurnInv'
  <2>1. HasTurn(w)' => HasTurn(w)
    BY <1>1 DEF HasTurn, BaseInv, HandlersOK
  <2>2. w \in Alone => (HasTurn(w) => active = Sid[w]) /\ (Told(w)' => HasTurn(w)')
    BY <1>1, <1>2, <1>4 DEF TurnInv, TurnsHold, ToldHasTurn, Alone, HasTurn, Told, Ended, BaseInv, HandlersOK
  <2> QED BY <1>1, <1>2, <1>4, <2>1, <2>2, HandlerTurn DEF Ended, managerVars, cmVars
<1>5. ASSUME LoggedOut PROVE LoggedOut'
  BY <1>1, <1>2, <1>5 DEF LoggedOut, Alone, BaseInv, HandlersOK
<1> QED BY <1>3, <1>4, <1>5

\* A process that ends leaves nothing in the server, and the session on the target.
LEMMA ProcessEndsOK ==
    ASSUME BaseInv, ProcessEnds
    PROVE  /\ BaseInv' /\ TurnInv' /\ to_close' = {}
           /\ main' = "off" /\ LoggedOut'
<1> USE DEF BaseInv
<1>1. /\ port' = "closed" /\ output' \in {"none", output} /\ UNCHANGED <<leaked, shell, shown>>
      /\ task' = None /\ loop' = [w \in Conns |-> "none"]
      /\ start' = [w \in Conns |-> IF Told(w) THEN "failed" ELSE "idle"]
      /\ awaited' = [k \in Calls |-> None] /\ fresh' = FALSE
      /\ pc' = [w \in Conns |-> IF pc[w] # "new" THEN "gone" ELSE "new"]
      /\ closed' = closed \cup {w \in Conns : pc[w] # "new"}
      /\ left' = left \cup {w \in Conns : pc[w] # "new"}
      /\ active' = None /\ queue' = <<>> /\ grace' = [c \in Clients |-> NoEntry]
      /\ was_active' = {} /\ queued_ws' = [c \in Clients |-> None]
      /\ promo' = [w \in Conns |-> "none"]
      /\ main' = "off" /\ to_close' = {}
  BY DEF ProcessEnds, Closes
<1>2. RelayOK' /\ Alive' = {}
  BY <1>1 DEF RelayOK, Alive, Calls, Phases
<1>3. HandlersOK'
  BY <1>1 DEF HandlersOK
<1>4. CMInv'
  BY <1>1, NoneAssumption, GraceAssumption
     DEF CMInv, CMTypeOK, OnePlaceEach, NeverIdleWhileWaiting, HolderHasNoGraceEntry,
         NoEntry, Ages, Expired
<1>5. NewIsFresh' /\ LoopsAreStarted' /\ EndedIsCut' /\ RegisteredOwn'
  BY <1>1, <1>2 DEF NewIsFresh, LoopsAreStarted, EndedIsCut, RegisteredOwn, Told
<1>6. TurnInv'
  BY <1>1 DEF TurnInv, OneHandler, TurnsHold, ToldHasTurn, Alone, Ended
<1>7. LoggedOut'
  BY <1>1 DEF LoggedOut, Alone
<1> QED BY <1>1, <1>2, <1>3, <1>4, <1>5, <1>6, <1>7

-----------------------------------------------------------------------------
(* Each step of the daemon *)

\* Every step of the daemon is one of the server's, one of the main task's, or the end
\* of the process.
LEMMA DaemonSteps ==
    ASSUME DaemonInv, [DaemonNext]_allVars
    PROVE  \/ Beside(Next)
           \/ MainMoves /\ ListedAreMade'
           \/ \E w \in Conns : CleanupCancels(w)
           \/ ProcessEnds
BY MainSteps DEF DaemonNext, MainStep, Exits, Killed

\* The invariants of the server survive shutdown, death and restart.
LEMMA NextDaemon ==
    ASSUME DaemonInv, [DaemonNext]_allVars
    PROVE  DaemonInv' /\ (TurnInv => TurnInv')
<1> USE DEF DaemonInv
<1>1. CASE Beside(Next)
  <2>1. [Next]_vars /\ to_close' = to_close
    BY <1>1 DEF Beside
  <2>2. BaseInv' /\ \A v \in Conns : pc[v] # "new" => pc'[v] # "new"
    BY <2>1, NextBase, NothingUndone
  <2>3. ListedAreMade'
    BY <2>1, <2>2 DEF ListedAreMade
  <2>4. TurnInv => TurnInv'
    BY <2>1, NextTurn
  <2> QED BY <2>2, <2>3, <2>4
<1>2. CASE MainMoves /\ ListedAreMade'
  <2>1. TurnInv => TurnInv'
    BY <1>2, QuietTurn DEF MainMoves, managerVars, cmVars, Told
  <2> QED BY <1>2, <2>1, MainMovesBase
<1>3. ASSUME NEW w \in Conns, CleanupCancels(w)
      PROVE  DaemonInv' /\ (TurnInv => TurnInv')
  <2>1. ListedAreMade'
    BY <1>3 DEF CleanupCancels, daemonVars, Finishes, Goes, ListedAreMade, BaseInv, HandlersOK
  <2> QED BY <1>3, <2>1, CleanupCancelsOK
<1>4. CASE ProcessEnds
  BY <1>4, ProcessEndsOK DEF ListedAreMade
<1> QED BY <1>1, <1>2, <1>3, <1>4, DaemonSteps

\* Before the process starts to listen.
LEMMA InitDaemon ==
    ASSUME DaemonInit
    PROVE  DaemonInv /\ TurnInv
BY InitBase, InitTurn DEF DaemonInit, DaemonInv, ListedAreMade

\* The server's own invariants, which say nothing of main, hold under the daemon.
LEMMA DaemonBase == DaemonSpec => []DaemonInv
<1>1. DaemonInit => DaemonInv
  BY InitDaemon
<1>2. DaemonInv /\ [DaemonNext]_allVars => DaemonInv'
  BY NextDaemon
<1> QED BY <1>1, <1>2, PTL DEF DaemonSpec

\* So do those about turns.
LEMMA DaemonTurns == DaemonSpec => [](DaemonInv /\ TurnInv)
<1>1. DaemonInit => DaemonInv /\ TurnInv
  BY InitDaemon
<1>2. DaemonInv /\ TurnInv /\ [DaemonNext]_allVars => (DaemonInv /\ TurnInv)'
  BY NextDaemon
<1> QED BY <1>1, <1>2, PTL DEF DaemonSpec

-----------------------------------------------------------------------------
(* The pages at the end of the process *)

\* A handler of the server goes on, or a connection is accepted while the main task
\* closes the others.
LEMMA BesidePages ==
    ASSUME DaemonInv, PagesAreListed, Beside(Next)
    PROVE  PagesAreListed'
<1>1. /\ [Next]_vars /\ UNCHANGED <<main, to_close>>
      /\ late' = IF main \in {"close", "pause"}
                   THEN late \cup {w \in Conns : pc[w] = "new" /\ pc'[w] # "new"}
                   ELSE late
      /\ main = "cleanup" => \A w \in Conns : pc[w] = "new" => pc'[w] = "new"
  BY DEF Beside
<1>2. /\ closed \subseteq closed'
      /\ \A w \in Conns : pc[w] \in {"gone", "crashed"} => pc'[w] = pc[w]
  BY <1>1, NothingUndone DEF DaemonInv
<1>3. ASSUME main \in {"close", "pause", "cleanup"}, NEW w \in Conns, ~ Ended(w)'
      PROVE  w \in closed' \cup late' \cup to_close'
  <2>1. CASE ~ Ended(w)
    BY <1>1, <1>2, <1>3, <2>1 DEF PagesAreListed
  <2>2. CASE Ended(w)
    <3>1. pc[w] = "new" /\ pc'[w] # "new"
      BY <1>2, <1>3, <2>2 DEF Ended
    <3> QED BY <1>1, <1>3, <3>1
  <2> QED BY <2>1, <2>2
<1> QED BY <1>1, <1>3 DEF PagesAreListed

\* What the main task does to the pages.
LEMMA MainPages ==
    ASSUME DaemonInv, PagesAreListed,
           \/ Interrupted \/ RelayStopped \/ ClosesOne \/ ClosedAll \/ CleansUp \/ Starts
           \/ UNCHANGED allVars
    PROVE  PagesAreListed'
<1> USE DEF DaemonInv, PagesAreListed
<1>1. CASE Interrupted
  <2>1. /\ UNCHANGED <<pc, closed, late>>
        /\ main' = "stop" \/ (main' = "close" /\ Lists)
    BY <1>1, StopsRelayOK DEF Interrupted, wsVars, handlerVars, BaseInv
  <2> QED BY <2>1, ListsOK DEF Ended
<1>2. CASE RelayStopped
  <2>1. UNCHANGED <<pc, closed, late>> /\ main' = "close" /\ Lists
    BY <1>2 DEF RelayStopped, wsVars, handlerVars
  <2> QED BY <2>1, ListsOK DEF Ended
<1>3. CASE ClosesOne
  BY <1>3 DEF ClosesOne, handlerVars, Ended
<1>4. CASE ClosedAll
  BY <1>4 DEF ClosedAll, wsVars, Ended
<1>5. CASE CleansUp
  BY <1>5 DEF CleansUp, serverVars, vars, wsVars, handlerVars, Ended
<1>6. CASE Starts
  BY <1>6 DEF Starts
<1>7. CASE UNCHANGED allVars
  BY <1>7 DEF allVars, serverVars, daemonVars, vars, wsVars, handlerVars, Ended
<1> QED BY <1>1, <1>2, <1>3, <1>4, <1>5, <1>6, <1>7

\* No page stays connected to a process that is about to end, but those that stop()
\* could not have listed (server.py:65): the list and the handlers' own closing of
\* their WebSockets leave none out.  Tabs may even overlap.
THEOREM DaemonEveryPageIsClosed == DaemonSpec => []EveryPageIsClosed
<1>1. DaemonInit => PagesAreListed
  BY DEF DaemonInit, PagesAreListed
<1>2. DaemonInv /\ PagesAreListed /\ [DaemonNext]_allVars => PagesAreListed'
  <2> SUFFICES ASSUME DaemonInv, PagesAreListed, [DaemonNext]_allVars
               PROVE  PagesAreListed'
    OBVIOUS
  <2>1. ASSUME NEW w \in Conns, CleanupCancels(w) PROVE PagesAreListed'
    <3>1. /\ pc' = [pc EXCEPT ![w] = "closing"] /\ closed' = closed \cup {w}
          /\ UNCHANGED <<main, late, to_close>>
      BY <2>1 DEF CleanupCancels, Finishes, Goes, daemonVars
    <3> QED BY <3>1 DEF PagesAreListed, Ended, DaemonInv, BaseInv, HandlersOK
  <2>2. CASE ProcessEnds
    BY <2>2 DEF ProcessEnds, PagesAreListed
  <2> QED BY <2>1, <2>2, BesidePages, MainPages DEF DaemonNext, MainStep, Exits, Killed
<1>3. PagesAreListed => EveryPageIsClosed
  BY DEF PagesAreListed, EveryPageIsClosed
<1> QED BY <1>1, <1>2, <1>3, DaemonBase, PTL DEF DaemonSpec

-----------------------------------------------------------------------------
(* The sessions, across processes *)

\* A handler that has logged out finds no session when relay.stop() returns, whatever
\* the main task does meanwhile.
LEMMA NextDaemonLoggedOut ==
    ASSUME DaemonInv, TurnInv, LoggedOut, [DaemonNext]_allVars
    PROVE  LoggedOut'
<1> USE DEF DaemonInv
<1>1. CASE Beside(Next)
  BY <1>1, NextLoggedOut DEF Beside
<1>2. CASE MainMoves
  BY <1>2 DEF MainMoves, LoggedOut, Alone
<1>3. ASSUME NEW w \in Conns, CleanupCancels(w) PROVE LoggedOut'
  BY <1>3, CleanupCancelsOK
<1>4. CASE ProcessEnds
  BY <1>4, ProcessEndsOK
<1> QED BY <1>1, <1>2, <1>3, <1>4, DaemonSteps

\* No step of the main task ends a turn but the last.
LEMMA DaemonTurnEnds ==
    ASSUME DaemonInv, TurnInv, LoggedOut, [DaemonNext]_allVars,
           active \notin {None} \cup Overlap, active' # active
    PROVE  \/ shell' = None
           \/ \E w \in Conns \ was_active :
                  Sid[w] = active /\ pc[w] = "closing" /\ pc'[w] = "gone"
           \/ main' = "off"
<1> USE DEF DaemonInv
<1>1. CASE Beside(Next)
  BY <1>1, TurnEnds DEF Beside
<1>2. CASE MainMoves
  BY <1>2 DEF MainMoves, managerVars, cmVars
<1>3. ASSUME NEW w \in Conns, CleanupCancels(w) PROVE FALSE
  BY <1>3 DEF CleanupCancels, managerVars, cmVars
<1>4. CASE ProcessEnds
  BY <1>4, ProcessEndsOK
<1> QED BY <1>1, <1>2, <1>3, <1>4, DaemonSteps

\* Beside the shutdown, in which the port is closed before the handlers could log out
\* (__main__.py:47) and the main task and a kick may be anywhere, a turn still ends
\* as the server promises; or else the process ends under it.
THEOREM DaemonSessionsEnd == DaemonSpec => SessionsEndOrAreLeftBehind
<1>1. DaemonInit => LoggedOut
  BY DEF DaemonInit, Init, LoggedOut, Alone
<1>2. DaemonInv /\ TurnInv /\ LoggedOut /\ [DaemonNext]_allVars => LoggedOut'
  BY NextDaemonLoggedOut
<1>3. DaemonInv /\ TurnInv /\ LoggedOut /\ [DaemonNext]_allVars =>
        (active \notin {None} \cup Overlap /\ active' # active =>
            \/ shell' = None
            \/ \E w \in Conns \ was_active :
                   Sid[w] = active /\ pc[w] = "closing" /\ pc'[w] = "gone"
            \/ main' = "off")
  BY DaemonTurnEnds
<1> QED BY <1>1, <1>2, <1>3, DaemonTurns, PTL DEF DaemonSpec, SessionsEndOrAreLeftBehind

\* What the server promises its clients while it runs it keeps while it is shut down
\* and after it was started again: turns last, and output goes to the holder only.
THEOREM DaemonKeepsTurns == DaemonSpec => [](TurnsAreKept /\ OutputOnlyToHolder)
<1>1. DaemonInv /\ TurnInv => TurnsAreKept /\ OutputOnlyToHolder
  BY TurnsFollow, OutputFollows DEF DaemonInv
<1> QED BY <1>1, DaemonTurns, PTL
=============================================================================
