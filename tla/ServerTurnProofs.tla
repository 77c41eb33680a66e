------------------------- MODULE ServerTurnProofs --------------------------
(***************************************************************************)
(* Turns and sessions: whom the composed server serves, and for how long.  *)
(* A turn is a tab's own affair: the first part is about the tabs that do  *)
(* not connect while an earlier handler of theirs is still ending (Alone), *)
(* whatever the others do.  The second part, who is served, and that       *)
(* nobody's session is ended, need that no tab does so (Overlap = {}; see  *)
(* README).                                                                *)
(***************************************************************************)
EXTENDS SerialTermServerProofs

\* At most one handler of a tab has not ended.
OneHandler ==
    \A v, w \in Alone : v # w /\ Sid[v] = Sid[w] => Ended(v) \/ Ended(w)

\* What makes a handler's client the holder: it was so when the handler began, or
\* the handler's connection has been promoted since.
HasTurn(w) ==
    pc[w] \in {"greet", "starting", "stopping"} \/ w \in was_active \/ promo[w] # "none"

\* The turn lasts until the handler ends.
TurnsHold == \A w \in Alone : ~ Ended(w) /\ HasTurn(w) => active = Sid[w]

ToldHasTurn == \A w \in Alone : Told(w) /\ ~ Ended(w) => HasTurn(w)

TurnInv == OneHandler /\ TurnsHold /\ ToldHasTurn

\* A connection, whether it gets the port or waits.
LEMMA ConnectTurn ==
    ASSUME BaseInv, TurnInv, NEW w \in Conns, Connect(w)
    PROVE  TurnInv'
<1> USE DEF BaseInv, TurnInv, Alone
<1>1. /\ pc[w] = "new"
      /\ \A v \in Alone \ {w} : Sid[v] = Sid[w] => Ended(v)
      /\ \E place \in {"greet", "enqueue"} : /\ pc' = [pc EXCEPT ![w] = place]
                                             /\ place = "greet" <=> ConnectActive(w)
      /\ UNCHANGED <<start, was_active, promo>>
      /\ promo[w] = "none" /\ w \notin was_active /\ start[w] = "idle"
  BY DEF Connect, ConnectActive, ConnectQueued, MayConnect, Goes, NewIsFresh, HandlersOK, relayVars
<1>2. OneHandler' /\ ToldHasTurn'
  BY <1>1 DEF OneHandler, ToldHasTurn, Told, Ended, HasTurn, HandlersOK
<1>3. CASE ConnectActive(w)
  <2>1. active' = Sid[w] /\ active \in {None, Sid[w]}
    BY <1>3, ConnectActiveBase
       DEF ConnectActive, ReconnectGranted, MayReconnect, AcquireHeld, AcquireFree
  <2>2. ASSUME NEW v \in Alone \ {w}, ~ Ended(v)', HasTurn(v)' PROVE active' = Sid[v]
    <3>1. ~ Ended(v) /\ HasTurn(v)
      BY <1>1, <2>2 DEF HasTurn, Ended, HandlersOK
    <3>2. active = Sid[v] /\ Sid[v] # Sid[w]
      BY <1>1, <3>1 DEF TurnsHold
    <3> QED BY <2>1, <3>2, SidAssumption, NoneAssumption
  <2> QED BY <1>2, <2>1, <2>2 DEF TurnsHold
<1>4. CASE ConnectQueued(w)
  BY <1>1, <1>2, <1>4 DEF ConnectQueued, Goes, TurnsHold, HasTurn, Ended, HandlersOK
<1> QED BY <1>3, <1>4 DEF Connect

\* A handler goes on within its turn, or ends without releasing.
LEMMA HandlerTurn ==
    ASSUME BaseInv, TurnInv, NEW w \in Conns, ~ Ended(w),
           NEW place, place \in {"starting", "input", "closing", "stopping", "crashed"},
           pc' = [pc EXCEPT ![w] = place],
           was_active \subseteq was_active', was_active' \subseteq was_active \cup {w},
           \A v \in Conns \ {w} : start'[v] = start[v],
           w \in Alone /\ place # "crashed" /\ Told(w)' => HasTurn(w)',
           w \in Alone /\ place # "crashed" /\ HasTurn(w)' => active = Sid[w],
           UNCHANGED <<active, promo>>
    PROVE  TurnInv'
<1> USE DEF BaseInv, TurnInv, Alone
<1>1. OneHandler' /\ TurnsHold'
  BY DEF OneHandler, TurnsHold, Ended, HasTurn, HandlersOK
<1>2. ToldHasTurn'
  BY DEF ToldHasTurn, Told, Ended, HasTurn, HandlersOK
<1> QED BY <1>1, <1>2

\* A handler releases: only its own client's turn ends, and the turn of the client
\* that is promoted begins.
LEMMA ReleasesTurn ==
    ASSUME BaseInv, TurnInv, NEW w \in Conns, ~ Ended(w), Releases(w),
           UNCHANGED <<start, was_active>>
    PROVE  TurnInv'
<1> USE DEF BaseInv, TurnInv, Alone
<1>1. pc' = [pc EXCEPT ![w] = "gone"]
  BY ReleasesOK
<1>2. \A v \in Conns : promo'[v] # promo[v] => Sid[v] = active' /\ promo'[v] # "none"
  <2>1. CASE active = Sid[w] /\ active' # None
    BY <2>1, ReleasesOK DEF HandlersOK
  <2>2. CASE active # Sid[w] \/ active' = None
    BY <2>2, ReleasesOK
  <2> QED BY <2>1, <2>2
<1>3. active # Sid[w] => active' = active
  BY ReleasesOK
<1>4. OneHandler'
  BY <1>1 DEF OneHandler, Ended, HandlersOK
<1>5. TurnsHold'
  <2> SUFFICES ASSUME NEW v \in Alone, ~ Ended(v)', HasTurn(v)' PROVE active' = Sid[v]
    BY DEF TurnsHold
  <2>1. v # w /\ ~ Ended(v) /\ Sid[v] # Sid[w]
    BY <1>1 DEF Ended, HandlersOK, OneHandler
  <2>2. CASE HasTurn(v)
    BY <1>3, <2>1, <2>2 DEF TurnsHold
  <2>3. CASE ~ HasTurn(v)
    BY <1>1, <1>2, <2>1, <2>3 DEF HasTurn, HandlersOK
  <2> QED BY <2>2, <2>3
<1>6. ToldHasTurn'
  BY <1>1, <1>2 DEF ToldHasTurn, Told, Ended, HasTurn, HandlersOK
<1> QED BY <1>4, <1>5, <1>6

\* The steps of a handler up to and including its finally block.
LEMMA HandlerStepTurn ==
    ASSUME BaseInv, TurnInv, NEW w \in Conns, HandlerStep(w)
    PROVE  TurnInv'
<1> USE DEF BaseInv, Alone
<1>1. CASE Greeted(w)
  <2>1. /\ StartMoves(w, {"stop", "settle", "fresh", "newline", "failed"})
        /\ UNCHANGED <<active, was_active, promo>> /\ pc[w] = "greet"
        /\ \E place \in {"starting", "crashed"} : pc' = [pc EXCEPT ![w] = place]
    BY <1>1, StartBeginsOK DEF Greeted, Goes, managerVars, cmVars
  <2>2. (w \in Alone => active = Sid[w]) /\ ~ Ended(w)
    BY <2>1 DEF TurnInv, TurnsHold, HasTurn, Ended
  <2>3. shell' = shell /\ \A v \in Conns \ {w} : start'[v] = start[v]
    BY <2>1 DEF StartMoves, RelayOK
  <2>4. PICK place \in {"starting", "crashed"} : pc' = [pc EXCEPT ![w] = place]
    BY <2>1
  <2>5. place # "crashed" => HasTurn(w)'
    BY <2>4 DEF HasTurn, HandlersOK
  <2> QED BY <2>1, <2>2, <2>3, <2>4, <2>5, HandlerTurn
<1>2. CASE Enqueued(w)
  <2>1. /\ EntersInput(w) /\ pc[w] = "enqueue"
        /\ UNCHANGED <<active, promo>> /\ UNCHANGED <<start, shell>>
    BY <1>2, UnchangedRelay DEF Enqueued, managerVars, cmVars
  <2>2. w \in Alone /\ HasTurn(w) => active = Sid[w]
    BY <2>1 DEF TurnInv, TurnsHold, Ended
  <2>3. w \in Alone /\ Told(w)' => HasTurn(w)
    BY <2>1 DEF TurnInv, ToldHasTurn, Told, Ended
  <2> QED BY <2>1, <2>2, <2>3, HandlerTurn, EntersInputOK DEF HasTurn, Ended, HandlersOK
<1>3. CASE GreetingRaises(w)
  BY <1>3, HandlerTurn, UnchangedRelay DEF GreetingRaises, Goes, managerVars, cmVars, Ended
<1>4. CASE InputEnds(w)
  <2>1. /\ pc[w] = "input" /\ pc' = [pc EXCEPT ![w] = "closing"]
        /\ UNCHANGED <<active, was_active, promo>> /\ UNCHANGED <<start, shell>>
    BY <1>4, UnchangedRelay DEF InputEnds, Finishes, Goes, managerVars, cmVars
  <2>2. HasTurn(w)' => HasTurn(w)
    BY <2>1 DEF HasTurn, HandlersOK
  <2>3. w \in Alone => (HasTurn(w) => active = Sid[w]) /\ (Told(w)' => HasTurn(w)')
    BY <2>1 DEF TurnInv, TurnsHold, ToldHasTurn, HasTurn, Told, Ended, HandlersOK
  <2> QED BY <2>1, <2>2, <2>3, HandlerTurn DEF Ended
<1>5. CASE LogoutAndStop(w)
  <2>1. /\ pc[w] = "closing" /\ w \in was_active /\ shell' = None
        /\ UNCHANGED <<start, was_active>> /\ ~ Ended(w)
    BY <1>5, LogsOutOK DEF LogoutAndStop, Ended
  <2>2. CASE Releases(w)
    BY <2>1, <2>2, ReleasesTurn
  <2>3. CASE Goes(w, "stopping") /\ UNCHANGED <<managerVars, queued_ws, promo>>
    <3>1. (w \in Alone => active = Sid[w]) /\ active' = active
      BY <2>1, <2>3 DEF TurnInv, TurnsHold, HasTurn, managerVars, cmVars
    <3> QED BY <2>1, <2>3, <3>1, HandlerTurn DEF Goes, HasTurn, HandlersOK
  <2> QED BY <1>5, <2>2, <2>3 DEF LogoutAndStop
<1>6. CASE LogoutFails(w)
  BY <1>6, HandlerTurn
     DEF LogoutFails, LogoutRaises, WriteRaises, targetVars, Goes, managerVars, cmVars, Ended
<1>7. CASE StopReturns(w)
  BY <1>7, ReleasesTurn DEF StopReturns, ioVars, targetVars, Ended
<1>8. CASE LeaveQueue(w)
  <2>1. /\ pc[w] = "closing" /\ w \notin was_active /\ pc' = [pc EXCEPT ![w] = "gone"]
        /\ UNCHANGED <<was_active, promo>> /\ UNCHANGED <<start, shell>>
    BY <1>8, UnchangedRelay DEF LeaveQueue, Goes
  <2>2. active # Sid[w] => active' = active
    BY <1>8, SidAssumption, ReleaseEffects DEF LeaveQueue, GivesUpPlace
  <2>3. OneHandler' /\ ToldHasTurn'
    BY <2>1 DEF TurnInv, OneHandler, ToldHasTurn, Told, Ended, HasTurn, HandlersOK
  <2>4. ASSUME NEW v \in Alone, ~ Ended(v)', HasTurn(v)' PROVE active' = Sid[v]
    <3>1. v # w /\ ~ Ended(v) /\ HasTurn(v)
      BY <2>1, <2>4 DEF Ended, HasTurn, HandlersOK
    <3>2. active = Sid[v] /\ Sid[v] # Sid[w]
      BY <2>1, <3>1 DEF TurnInv, TurnsHold, OneHandler, Ended
    <3> QED BY <2>2, <3>2
  <2> QED BY <2>3, <2>4 DEF TurnInv, TurnsHold
<1> QED BY <1>1, <1>2, <1>3, <1>4, <1>5, <1>6, <1>7, <1>8 DEF HandlerStep

\* Nobody's handler moves: a start begins or goes on for a client that has the
\* turn, or a promotion goes on.
LEMMA QuietTurn ==
    ASSUME TurnInv, UNCHANGED <<active, pc, was_active>>,
           \A v \in Conns : promo'[v] # "none" <=> promo[v] # "none",
           \A v \in Conns : Told(v)' => Told(v) \/ HasTurn(v)
    PROVE  TurnInv'
BY DEF TurnInv, OneHandler, TurnsHold, ToldHasTurn, Ended, HasTurn, Alone

\* Typing opens sessions for the holder only.  The page may have its terminal from
\* an earlier connection.
LEMMA KeyArrivesTurn ==
    ASSUME BaseInv, TurnInv, NEW w \in Conns, KeyArrives(w)
    PROVE  TurnInv'
<1>1. /\ pc[w] = "input" /\ active = Sid[w] /\ ~ Ended(w)
      /\ UNCHANGED <<active, was_active, promo, start>>
      /\ shell' \in {shell, None, Sid[w]}
  BY TypesOK, SidAssumption
     DEF KeyArrives, IsActive, BaseInv, Ended, managerVars, cmVars
<1>2. w \in Alone /\ Told(w) => HasTurn(w)
  BY <1>1 DEF TurnInv, ToldHasTurn
<1>3. CASE port = "open"
  BY <1>1, <1>2, <1>3, QuietTurn DEF KeyArrives, Told
<1>4. CASE port # "open"
  <2>1. shell' = shell /\ pc' = [pc EXCEPT ![w] = "closing"]
    BY <1>4 DEF KeyArrives, Types, Writes, WriteRaises, targetVars, Finishes, Goes
  <2>2. w \in Alone /\ Told(w)' => HasTurn(w)'
    BY <1>1, <1>2, <2>1 DEF HasTurn, Told
  <2> QED BY <1>1, <2>1, <2>2, HandlerTurn
<1> QED BY <1>3, <1>4

\* The promotion task.
LEMMA PromotionStepTurn ==
    ASSUME BaseInv, TurnInv, NEW w \in Conns, PromotionStep(w)
    PROVE  TurnInv'
<1> USE DEF BaseInv
<1>1. CASE PromotionNotifies(w)
  <2>1. /\ StartMoves(w, {"stop", "settle", "fresh", "newline", "failed"})
        /\ UNCHANGED <<active, pc, was_active>> /\ promo[w] = "notify"
        /\ \E q \in {"starting", "failed"} : promo' = [promo EXCEPT ![w] = q]
    BY <1>1, StartBeginsOK DEF PromotionNotifies, managerVars, cmVars
  <2>2. \A v \in Conns : promo'[v] # "none" <=> promo[v] # "none"
    BY <2>1 DEF HandlersOK
  <2>3. \A v \in Conns : Told(v)' => Told(v) \/ HasTurn(v)
    BY <2>1 DEF StartMoves, RelayOK, Told, HasTurn
  <2> QED BY <2>1, <2>2, <2>3, QuietTurn DEF StartMoves
<1>2. CASE PromotionFails(w)
  <2>1. /\ UNCHANGED <<active, pc, was_active>> /\ UNCHANGED <<start, shell>>
        /\ promo[w] = "notify" /\ promo' = [promo EXCEPT ![w] = "failed"]
    BY <1>2, UnchangedRelay DEF PromotionFails, managerVars, cmVars
  <2>2. \A v \in Conns : promo'[v] # "none" <=> promo[v] # "none"
    BY <2>1 DEF HandlersOK
  <2> QED BY <2>1, <2>2, QuietTurn DEF Told
<1> QED BY <1>1, <1>2 DEF PromotionStep

\* A suspended start() goes on.
LEMMA StartStepTurn ==
    ASSUME BaseInv, TurnInv, NEW w \in Conns, StartStep(w)
    PROVE  TurnInv'
<1> USE DEF BaseInv
<1>1. /\ start[w] # "idle" /\ shell' = shell /\ active' = active
      /\ \A v \in Conns \ {w} : start'[v] = start[v]
  BY StartStepOK DEF StartMoves, RelayOK, managerVars, cmVars
<1>2. Told(w) /\ \A v \in Conns : Told(v)' => Told(v)
  BY <1>1 DEF Told
<1>3. CASE UNCHANGED <<pc, was_active, promo>>
  BY <1>1, <1>2, <1>3, QuietTurn
<1>4. CASE pc[w] = "starting" /\ EntersInput(w) /\ promo' = promo
  <2>1. (w \in Alone => active = Sid[w]) /\ ~ Ended(w)
    BY <1>4 DEF TurnInv, TurnsHold, HasTurn, Ended
  <2>2. /\ pc' = [pc EXCEPT ![w] = "input"] /\ (w \in Alone => w \in was_active')
        /\ was_active \subseteq was_active' /\ was_active' \subseteq was_active \cup {w}
    BY <1>4, <2>1, EntersInputOK
  <2>3. w \in Alone => HasTurn(w)'
    BY <2>2 DEF HasTurn
  <2> QED BY <1>1, <1>4, <2>1, <2>2, <2>3, HandlerTurn
<1>5. CASE /\ pc[w] = "starting" /\ pc' = [pc EXCEPT ![w] = "crashed"]
           /\ UNCHANGED <<was_active, promo>>
  BY <1>1, <1>5, HandlerTurn DEF Ended
<1>6. CASE /\ promo[w] = "starting"
           /\ \E q \in {"done", "failed"} : promo' = [promo EXCEPT ![w] = q]
           /\ UNCHANGED <<pc, was_active>>
  <2>1. \A v \in Conns : promo'[v] # "none" <=> promo[v] # "none"
    BY <1>6 DEF HandlersOK
  <2> QED BY <1>1, <1>2, <1>6, <2>1, QuietTurn
<1> QED BY <1>3, <1>4, <1>5, <1>6, StartStepOK

\* Every step of the server preserves TurnInv.
LEMMA NextTurn ==
    ASSUME BaseInv, TurnInv, [Next]_vars
    PROVE  TurnInv'
<1>1. ASSUME NEW w \in Conns, Connect(w) \/ HandlerStep(w) \/ KeyArrives(w)
      PROVE  TurnInv'
  BY <1>1, ConnectTurn, HandlerStepTurn, KeyArrivesTurn
<1>2. ASSUME NEW w \in Conns, PromotionStep(w) \/ StartStep(w)
      PROVE  TurnInv'
  BY <1>2, PromotionStepTurn, StartStepTurn
<1>3. CASE Surroundings
  BY <1>3, SurroundingsEffects, QuietTurn DEF handlerVars, Told
<1>4. CASE UNCHANGED vars
  BY <1>4, QuietTurn
     DEF vars, ioVars, targetVars, relayVars, managerVars, cmVars, handlerVars, Told
<1> QED BY <1>1, <1>2, <1>3, <1>4 DEF Next, Surroundings

\* Before the first connection.
LEMMA InitTurn ==
    ASSUME Init
    PROVE  TurnInv
BY DEF Init, RelayInit, TurnInv, OneHandler, TurnsHold, ToldHasTurn, Ended, HasTurn, Told, Alone

\* The turns of the clients and what the handlers know of them agree: a client's
\* handler that was active when its loop began holds the port until its finally block
\* has released it (server.py:122, 151-157).
THEOREM ServerTurns == Spec => [](BaseInv /\ TurnInv)
<1>1. Init => BaseInv /\ TurnInv
  BY InitBase, InitTurn
<1>2. BaseInv /\ TurnInv /\ [Next]_vars => (BaseInv /\ TurnInv)'
  BY NextBase, NextTurn
<1> QED BY <1>1, <1>2, PTL DEF Spec

\* A client that was told holds the port: by ToldHasTurn and TurnsHold.
LEMMA TurnsFollow ==
    ASSUME TurnInv
    PROVE  TurnsAreKept
BY DEF TurnInv, ToldHasTurn, TurnsHold, TurnsAreKept, KeepsTurn

\* A page that was told it is active stays so until its WebSocket closes or its
\* handler ends.
THEOREM ServerTurnsAreKept == Spec => []TurnsAreKept
<1>1. TurnInv => TurnsAreKept
  BY TurnsFollow
<1> QED BY <1>1, ServerTurns, PTL

\* A loop that is alive was started, so its page was told; its handler has not ended,
\* or the page is cut off.
LEMMA OutputFollows ==
    ASSUME BaseInv, TurnInv
    PROVE  OutputOnlyToHolder
<1> SUFFICES ASSUME NEW w \in Alive, w \in Alone, w \notin closed \cup left
             PROVE  active = Sid[w]
  BY DEF OutputOnlyToHolder
<1>1. w \in Conns /\ start[w] = "done"
  BY DEF Alive, BaseInv, LoopsAreStarted
<1>2. Told(w) /\ ~ Ended(w)
  BY <1>1 DEF Told, Ended, BaseInv, NewIsFresh, EndedIsCut
<1> QED BY <1>1, <1>2 DEF TurnInv, ToldHasTurn, TurnsHold

\* Only the holder's page is sent what the target prints.
THEOREM ServerOutputOnlyToHolder == Spec => []OutputOnlyToHolder
<1>1. BaseInv /\ TurnInv => OutputOnlyToHolder
  BY OutputFollows
<1> QED BY <1>1, ServerTurns, PTL

\* The steps that end or open a session: a keystroke, which opens one where there
\* is none, and a logout.
LEMMA SessionSteps ==
    ASSUME BaseInv, [Next]_vars
    PROVE  \/ shell' = shell
           \/ \E v \in Conns : KeyArrives(v) /\ shell = None
           \/ \E v \in Conns : LogoutAndStop(v)
<1> USE DEF BaseInv
<1>1. ASSUME NEW v \in Conns, Connect(v) PROVE shell' = shell
  BY <1>1, UnchangedRelay DEF Connect, ConnectActive, ConnectQueued
<1>2. ASSUME NEW v \in Conns, Greeted(v) PROVE shell' = shell
  BY <1>2, StartBeginsOK DEF Greeted, StartMoves
<1>3. ASSUME NEW v \in Conns, Enqueued(v) \/ GreetingRaises(v) \/ InputEnds(v) \/ LeaveQueue(v)
      PROVE  shell' = shell
  BY <1>3, UnchangedRelay DEF Enqueued, GreetingRaises, InputEnds, LeaveQueue
<1>4. ASSUME NEW v \in Conns, LogoutFails(v) \/ StopReturns(v) PROVE shell' = shell
  BY <1>4 DEF LogoutFails, LogoutRaises, WriteRaises, StopReturns, ioVars, targetVars
<1>5. ASSUME NEW v \in Conns, KeyArrives(v), shell # None PROVE shell' = shell
  BY <1>5, TypesOK, SidAssumption DEF KeyArrives
<1>6. ASSUME NEW v \in Conns, PromotionStep(v) PROVE shell' = shell
  BY <1>6, StartBeginsOK, UnchangedRelay
     DEF PromotionStep, PromotionNotifies, PromotionFails, StartMoves
<1>7. ASSUME NEW v \in Conns, StartStep(v) PROVE shell' = shell
  BY <1>7, StartStepOK DEF StartMoves
<1>8. CASE Surroundings
  BY <1>8, SurroundingsEffects
<1>9. CASE UNCHANGED vars
  BY <1>9 DEF vars, ioVars, targetVars
<1> QED
  BY <1>1, <1>2, <1>3, <1>4, <1>5, <1>6, <1>7, <1>8, <1>9 DEF Next, HandlerStep, Surroundings

-----------------------------------------------------------------------------
(* Sessions at the end of a turn                                           *)

\* A handler that has logged out finds no session when relay.stop() returns: nobody
\* else can type as long as its client holds the port.
LoggedOut == \A w \in Alone : pc[w] = "stopping" => shell = None

\* Only its logout takes a handler to relay.stop().
LEMMA WhoStops ==
    ASSUME BaseInv, [Next]_vars, NEW w \in Conns, pc[w] # "stopping", pc'[w] = "stopping"
    PROVE  LogoutAndStop(w)
<1> USE DEF BaseInv, HandlersOK
<1>1. ASSUME NEW v \in Conns, Connect(v) PROVE FALSE
  BY <1>1 DEF Connect, ConnectActive, ConnectQueued, Goes
<1>2. ASSUME NEW v \in Conns, Greeted(v) \/ GreetingRaises(v) \/ Enqueued(v) PROVE FALSE
  BY <1>2 DEF Greeted, GreetingRaises, Enqueued, EntersInput, Goes
<1>3. ASSUME NEW v \in Conns, InputEnds(v) \/ KeyArrives(v) PROVE FALSE
  BY <1>3 DEF InputEnds, KeyArrives, Finishes, Goes
<1>4. ASSUME NEW v \in Conns, LogoutFails(v) \/ StopReturns(v) \/ LeaveQueue(v) PROVE FALSE
  BY <1>4 DEF LogoutFails, StopReturns, LeaveQueue, Releases, Goes
<1>5. ASSUME NEW v \in Conns, LogoutAndStop(v) PROVE v = w
  BY <1>5 DEF LogoutAndStop, Releases, Goes
<1>6. ASSUME NEW v \in Conns, PromotionStep(v) PROVE FALSE
  BY <1>6 DEF PromotionStep, PromotionNotifies, PromotionFails
<1>7. ASSUME NEW v \in Conns, StartStep(v) PROVE FALSE
  BY <1>7, StartStepOK, EntersInputOK
<1>8. CASE Surroundings
  BY <1>8, SurroundingsEffects DEF handlerVars
<1>9. CASE UNCHANGED vars
  BY <1>9 DEF vars, handlerVars
<1> QED
  BY <1>1, <1>2, <1>3, <1>4, <1>5, <1>6, <1>7, <1>8, <1>9 DEF Next, HandlerStep, Surroundings

\* Every step of the server preserves LoggedOut.
LEMMA NextLoggedOut ==
    ASSUME BaseInv, TurnInv, LoggedOut, [Next]_vars
    PROVE  LoggedOut'
<1> USE DEF BaseInv
<1> SUFFICES ASSUME NEW w \in Alone, pc'[w] = "stopping"
             PROVE  shell' = None
  BY DEF LoggedOut, Alone
<1>1. ASSUME NEW v \in Conns, LogoutAndStop(v) PROVE shell' = None
  BY <1>1, LogsOutOK DEF LogoutAndStop
<1>2. CASE pc[w] # "stopping"
  BY <1>1, <1>2, WhoStops DEF Alone
<1>3. CASE pc[w] = "stopping"
  <2>1. shell = None /\ active = Sid[w]
    BY <1>3 DEF LoggedOut, TurnInv, TurnsHold, HasTurn, Ended
  <2>2. ASSUME NEW v \in Conns, KeyArrives(v) PROVE FALSE
    <3>1. pc[v] = "input" /\ Sid[v] = Sid[w]
      BY <2>1, <2>2 DEF KeyArrives, IsActive
    <3> QED BY <1>3, <3>1 DEF TurnInv, OneHandler, Ended, Alone
  <2> QED BY <1>1, <2>1, <2>2, SessionSteps
<1> QED BY <1>2, <1>3

\* The steps that end a turn: a handler that was active when it began has logged out,
\* in this step or before relay.stop(); one that was not leaves as it came.
LEMMA TurnEnds ==
    ASSUME BaseInv, TurnInv, LoggedOut, [Next]_vars,
           active \notin {None} \cup Overlap, active' # active
    PROVE  \/ shell' = None
           \/ \E w \in Conns \ was_active :
                  Sid[w] = active /\ pc[w] = "closing" /\ pc'[w] = "gone"
<1> USE DEF BaseInv
<1>1. ASSUME NEW w \in Conns, Connect(w) PROVE FALSE
  BY <1>1, ConnectActiveBase, SidAssumption, NoneAssumption
     DEF Connect, ConnectActive, ConnectQueued, ReconnectGranted, MayReconnect,
         AcquireHeld, AcquireFree
<1>2. ASSUME NEW w \in Conns, LogoutAndStop(w) PROVE shell' = None
  BY <1>2, LogsOutOK DEF LogoutAndStop
<1>3. ASSUME NEW w \in Conns, StopReturns(w) PROVE shell' = None
  <2>1. /\ pc[w] = "stopping" /\ Releases(w) /\ shell' = shell
    BY <1>3 DEF StopReturns, ioVars, targetVars
  <2>2. Sid[w] = active
    BY <2>1, ReleasesOK
  <2> QED BY <2>1, <2>2 DEF LoggedOut, Alone
<1>4. ASSUME NEW w \in Conns, LeaveQueue(w)
      PROVE  w \notin was_active /\ Sid[w] = active /\ pc[w] = "closing" /\ pc'[w] = "gone"
  <2>1. w \notin was_active /\ pc[w] = "closing" /\ pc'[w] = "gone"
    BY <1>4 DEF LeaveQueue, Goes, HandlersOK
  <2>2. Sid[w] = active
    BY <1>4, SidAssumption, ReleaseEffects DEF LeaveQueue, GivesUpPlace
  <2> QED BY <2>1, <2>2
<1>5. ASSUME NEW w \in Conns, \/ Greeted(w) \/ Enqueued(w) \/ GreetingRaises(w)
                               \/ InputEnds(w) \/ LogoutFails(w) \/ KeyArrives(w)
      PROVE  FALSE
  BY <1>5 DEF Greeted, Enqueued, GreetingRaises, InputEnds, LogoutFails, KeyArrives,
              managerVars, cmVars
<1>6. ASSUME NEW w \in Conns, PromotionStep(w) PROVE FALSE
  BY <1>6 DEF PromotionStep, PromotionNotifies, PromotionFails, managerVars, cmVars
<1>7. ASSUME NEW w \in Conns, StartStep(w) PROVE FALSE
  BY <1>7, StartStepOK DEF managerVars, cmVars
<1>8. CASE Surroundings
  BY <1>8, SurroundingsEffects
<1>9. CASE UNCHANGED vars
  BY <1>9 DEF vars, managerVars, cmVars
<1> QED
  BY <1>1, <1>2, <1>3, <1>4, <1>5, <1>6, <1>7, <1>8, <1>9 DEF Next, HandlerStep, Surroundings

\* When a turn ends no session is open, whosever it was, but for the turns that end
\* with a handler that was waiting when its loop began (server.py:152-162).
THEOREM ServerShellsEndWithTurns == Spec => ShellsEndWithTurns
<1>1. Init => LoggedOut
  BY DEF Init, LoggedOut, Alone
<1>2. BaseInv /\ TurnInv /\ LoggedOut /\ [Next]_vars => LoggedOut'
  BY NextLoggedOut
<1>3. BaseInv /\ TurnInv /\ LoggedOut /\ [Next]_vars =>
        (active \notin {None} \cup Overlap /\ active' # active =>
            \/ shell' = None
            \/ \E w \in Conns \ was_active :
                   Sid[w] = active /\ pc[w] = "closing" /\ pc'[w] = "gone")
  BY TurnEnds
<1> QED BY <1>1, <1>2, <1>3, ServerTurns, PTL DEF Spec, ShellsEndWithTurns

\* Nobody's session is ended while the client still uses it: the handler that logs
\* out has the turn of its own client, who has no other handler.
THEOREM ServerLiveSessionsSurvive == ASSUME Overlap = {} PROVE Spec => LiveSessionsSurvive
<1>1. BaseInv /\ TurnInv /\ [Next]_vars =>
        \A w \in Alone : shell = Sid[w] /\ Told(w) /\ ~ Ended(w) /\ w \notin closed
            => shell' = shell
  <2> SUFFICES ASSUME BaseInv, TurnInv, [Next]_vars, NEW w \in Conns,
                      shell = Sid[w], Told(w), ~ Ended(w), w \notin closed,
                      NEW v \in Conns, LogoutAndStop(v)
               PROVE  FALSE
    BY SessionSteps, SidAssumption, NoneAssumption DEF Alone
  <2>1. pc[v] = "closing" /\ v \in was_active
    BY DEF LogoutAndStop
  <2>2. Sid[v] = Sid[w]
    BY <2>1 DEF TurnInv, TurnsHold, ToldHasTurn, HasTurn, Ended, Alone
  <2>3. v = w
    BY <2>1, <2>2 DEF TurnInv, OneHandler, Ended, Alone
  <2> QED BY <2>1, <2>3 DEF BaseInv, EndedIsCut
<1> QED BY <1>1, ServerTurns, PTL DEF Spec, LiveSessionsSurvive

\* stop() is called by the start() of a client that was just told of its turn, and
\* by the handler of one that has left.
LEMMA WhoCancels ==
    ASSUME BaseInv, [Next]_vars,
           NEW w \in Conns, loop[w] # "cancel", loop'[w] = "cancel"
    PROVE  /\ loop[w] = "run"
           /\ \E v \in Conns : \/ Greeted(v) /\ StartBegins(v)
                               \/ PromotionNotifies(v) /\ StartBegins(v)
                               \/ LogoutAndStop(v)
<1> USE DEF BaseInv, RelayOK
<1>1. ASSUME NEW v \in Conns, Connect(v) PROVE FALSE
  BY <1>1 DEF Connect, ConnectActive, ConnectQueued, relayVars
<1>2. ASSUME NEW v \in Conns, Greeted(v) \/ PromotionNotifies(v) 
      PROVE  StartBegins(v) /\ loop[w] = "run"
  <2>1. StartBegins(v)
    BY <1>2 DEF Greeted, PromotionNotifies
  <2>2. \E k \in Calls : StopsLater(k)
    BY <2>1 DEF StartBegins, StopsAtOnce, Calls
  <2> QED BY <2>1, <2>2 DEF StopsLater, Alive
<1>3. ASSUME NEW v \in Conns, GreetingRaises(v) \/ Enqueued(v) \/ InputEnds(v) \/ LeaveQueue(v)
      PROVE  FALSE
  BY <1>3 DEF GreetingRaises, Enqueued, InputEnds, LeaveQueue, relayVars
<1>4. ASSUME NEW v \in Conns, LogoutFails(v) \/ StopReturns(v) PROVE FALSE
  BY <1>4 DEF LogoutFails, StopReturns, StopResumes
<1>5. ASSUME NEW v \in Conns, KeyArrives(v) PROVE FALSE
  BY <1>5, TypesOK, SidAssumption DEF KeyArrives
<1>6. ASSUME NEW v \in Conns, PromotionFails(v) PROVE FALSE
  BY <1>6 DEF PromotionFails, relayVars
<1>7. ASSUME NEW v \in Conns, StartStep(v) PROVE FALSE
  BY <1>7 DEF StartStep, StartResumes, StopResumes, KickSettled, KickNewline, StartReturns
<1>8. ASSUME NEW v \in Conns, RelayLoop(v) PROVE FALSE
  BY <1>8 DEF RelayLoop, LoopStep, LoopForwards, LoopEnds, LoopCancelled, LoopMissesCancel, Sends
<1>9. CASE \/ \E v \in Conns : BrowserLeaves(v)
           \/ TargetPrints \/ AdapterGoes \/ TimePasses \/ UNCHANGED vars
  BY <1>9 DEF BrowserLeaves, TargetPrints, AdapterGoes, TimePasses, vars, relayVars
<1>10. ASSUME NEW v \in Conns, LogoutAndStop(v) PROVE loop[w] = "run"
  <2>1. \E k \in Calls : StopsLater(k)
    BY <1>10 DEF LogoutAndStop, StopsAtOnce, Calls
  <2> QED BY <2>1 DEF StopsLater, Alive
<1> QED
  BY <1>1, <1>2, <1>3, <1>4, <1>5, <1>6, <1>7, <1>8, <1>9, <1>10
     DEF Next, HandlerStep, PromotionStep

\* Whoever calls stop() has the turn, so the loop of another page that has its
\* terminal would be a second turn.
LEMMA NextLiveRelay ==
    ASSUME BaseInv, TurnInv, Overlap = {}, LiveRelaysSurvive, [Next]_vars
    PROVE  LiveRelaysSurvive'
<1> USE DEF BaseInv, LiveRelaysSurvive, Alone
<1>1. SUFFICES ASSUME NEW w \in Conns, Told(w)', ~ Ended(w)', w \notin closed', loop'[w] = "cancel"
               PROVE  FALSE
  OBVIOUS
<1>2. start[w] = "done"
  BY <1>1, WhoCancels DEF Alive, LoopsAreStarted
<1>3. Told(w) /\ pc[w] # "new"
  BY <1>2 DEF Told, NewIsFresh
<1>4. ~ Ended(w) /\ w \notin closed
  BY <1>1, <1>3, NothingUndone DEF Ended
<1>5. HasTurn(w) /\ active = Sid[w] /\ loop[w] # "cancel"
  BY <1>3, <1>4 DEF TurnInv, ToldHasTurn, TurnsHold
<1>6. PICK v \in Conns : \/ Greeted(v) /\ StartBegins(v)
                         \/ PromotionNotifies(v) /\ StartBegins(v)
                         \/ LogoutAndStop(v)
  BY <1>1, <1>5, WhoCancels
<1>7. ~ Ended(v) /\ HasTurn(v)
  <2>1. CASE Greeted(v)
    BY <2>1 DEF Greeted, Ended, HasTurn
  <2>2. CASE PromotionNotifies(v)
    BY <2>2 DEF PromotionNotifies, Ended, HasTurn, NewIsFresh, EndedIsCut, Crashed
  <2>3. CASE LogoutAndStop(v)
    BY <2>3 DEF LogoutAndStop, Ended, HasTurn
  <2> QED BY <1>6, <2>1, <2>2, <2>3
<1>8. v = w
  BY <1>4, <1>5, <1>7 DEF TurnInv, TurnsHold, OneHandler
<1>9. CASE StartBegins(v)
  BY <1>2, <1>8, <1>9, StartBeginsOK
<1>10. CASE LogoutAndStop(v)
  BY <1>4, <1>8, <1>10 DEF LogoutAndStop, EndedIsCut
<1> QED BY <1>6, <1>9, <1>10

\* A page that has the terminal keeps its loop, whatever stop() finds in _task:
\* nobody else is in a position to call it.
THEOREM ServerLiveRelaysSurvive == ASSUME Overlap = {} PROVE Spec => []LiveRelaysSurvive
<1>1. Init => LiveRelaysSurvive
  BY DEF Init, RelayInit, LiveRelaysSurvive, Alone
<1>2. BaseInv /\ TurnInv /\ LiveRelaysSurvive /\ [Next]_vars => LiveRelaysSurvive'
  BY NextLiveRelay
<1> QED BY <1>1, <1>2, ServerTurns, PTL DEF Spec

-----------------------------------------------------------------------------
(* Nobody holds the port unserved, except by the one way the code has      *)

\* While a client waits, the registered WebSocket is that of its handler: the
\* promotion will find it.
RegisteredWaits ==
    \A w \in Conns : ~ Ended(w) /\ Queued(Sid[w]) => queued_ws[Sid[w]] = w

\* The handler of the holder has the turn: it will log out and release.  If not, it
\* was overlooked.
HolderKnows ==
    \A w \in Conns : ~ Ended(w) /\ active = Sid[w] =>
        HasTurn(w) \/ (Overlooked(w) /\ PromotedLeft)

\* The holder has a handler, which goes on or has ended in an exception.
HolderIsHere ==
    active # None => \E w \in Conns : Sid[w] = active /\ pc[w] \notin {"new", "gone"}

HolderInv == RegisteredWaits /\ HolderKnows /\ HolderIsHere

\* The holder does not wait.
LEMMA HolderWaitsNot ==
    ASSUME CMInv, NEW x \in Clients, Queued(x)
    PROVE  active # x
BY DEF CMInv, CMTypeOK, OnePlaceEach, Queued, Contains

\* A holder that is released hands on the port to a client that waits, if any.
LEMMA ReleaseHandsOn ==
    ASSUME CMInv, NEW c \in Clients, Release(c)
    PROVE  /\ \A x \in Clients : Queued(x)' => Queued(x) /\ x # c
           /\ active # c => active' = active
           /\ active = c => \/ active' = None
                            \/ active' \in Clients \ {c} /\ Queued(active')
<1>1. CASE active = c /\ Promoted(c) # None
  BY <1>1, ReleaseEffects, HolderWaitsNot
<1>2. CASE ~ (active = c /\ Promoted(c) # None)
  BY <1>2, ReleaseEffects
<1> QED BY <1>1, <1>2

\* Who left stays away.
LEMMA PromotedLeftStays ==
    ASSUME PromotedLeft,
           \A v \in Conns : promo[v] # "none" => promo'[v] # "none",
           \A v \in Conns : pc[v] = "gone" => pc'[v] = "gone"
    PROVE  PromotedLeft'
BY DEF PromotedLeft

\* The steps that leave the port with its holder and change neither the queue nor
\* its registrations: who has the turn keeps it.
LEMMA QuietHolder ==
    ASSUME HolderInv, UNCHANGED <<active, queued_ws>>,
           \A x \in Clients : Queued(x)' => Queued(x),
           \A v \in Conns : ~ Ended(v)' => ~ Ended(v),
           \A v \in Conns : promo[v] # "none" => promo'[v] # "none",
           \A v \in Conns : pc[v] = "gone" => pc'[v] = "gone",
           \A v \in Conns : pc[v] \notin {"new", "gone"} => pc'[v] \notin {"new", "gone"},
           \A v \in Conns : ~ Ended(v)' /\ active = Sid[v] /\ HasTurn(v) => HasTurn(v)'
    PROVE  HolderInv'
<1> USE SidAssumption DEF HolderInv
<1>1. RegisteredWaits'
  BY DEF RegisteredWaits
<1>2. PromotedLeft => PromotedLeft'
  BY PromotedLeftStays
<1>3. HolderKnows'
  BY <1>2 DEF HolderKnows, Overlooked
<1>4. HolderIsHere'
  BY DEF HolderIsHere
<1> QED BY <1>1, <1>3, <1>4

\* A connection makes a holder only of a client that is then told.
LEMMA ConnectHolder ==
    ASSUME BaseInv, TurnInv, HolderInv, Overlap = {}, NEW w \in Conns, Connect(w)
    PROVE  HolderInv'
<1> USE DEF BaseInv, HolderInv
<1>1. /\ pc[w] = "new"
      /\ \A v \in Conns \ {w} : Sid[v] = Sid[w] => Ended(v)
      /\ \E place \in {"greet", "enqueue"} : /\ pc' = [pc EXCEPT ![w] = place]
                                             /\ place = "greet" <=> ConnectActive(w)
      /\ UNCHANGED <<was_active, promo, start>>
      /\ promo[w] = "none" /\ w \notin was_active /\ start[w] = "idle"
  BY DEF Connect, ConnectActive, ConnectQueued, MayConnect, Goes, NewIsFresh, HandlersOK, relayVars
<1>2. /\ \A v \in Conns \ {w} : Ended(v)' <=> Ended(v)
      /\ \A v \in Conns \ {w} : (HasTurn(v)' <=> HasTurn(v)) /\ pc'[v] = pc[v]
      /\ PromotedLeft => PromotedLeft'
  BY <1>1 DEF Ended, HasTurn, PromotedLeft, HandlersOK
<1>3. CASE ConnectActive(w)
  <2>1. /\ active' = Sid[w] /\ CMInv' /\ UNCHANGED <<queue, queued_ws>>
        /\ pc' = [pc EXCEPT ![w] = "greet"]
    BY <1>1, <1>3, ConnectActiveBase
       DEF ConnectActive, ReconnectGranted, AcquireHeld, AcquireFree, cmVars
  <2>2. \A x \in Clients : Queued(x)' <=> Queued(x)
    BY <2>1 DEF Queued
  <2>3. ~ Queued(Sid[w])'
    BY <2>1 DEF CMInv, OnePlaceEach, Queued, Contains
  <2>4. RegisteredWaits'
    BY <1>2, <2>1, <2>2, <2>3, SidAssumption DEF RegisteredWaits
  <2>5. HasTurn(w)' /\ pc'[w] = "greet"
    BY <2>1 DEF HasTurn, HandlersOK
  <2>6. HolderKnows'
    BY <1>1, <1>2, <2>1, <2>5 DEF HolderKnows
  <2> QED BY <2>1, <2>4, <2>5, <2>6 DEF HolderIsHere
<1>4. CASE ConnectQueued(w)
  <2>1. /\ active' = active /\ active # Sid[w]
        /\ \A x \in Clients : Queued(x)' <=> Queued(x) \/ x = Sid[w]
        /\ queued_ws' = [queued_ws EXCEPT ![Sid[w]] = w]
    BY <1>4, ConnectQueuedBase DEF ConnectQueued, Registers
  <2>2. RegisteredWaits'
    BY <1>1, <1>2, <2>1, SidAssumption DEF RegisteredWaits, HandlersOK
  <2>3. HolderKnows'
    BY <1>2, <2>1, SidAssumption DEF HolderKnows, Overlooked
  <2> QED BY <1>1, <1>2, <2>1, <2>2, <2>3 DEF HolderIsHere
<1> QED BY <1>3, <1>4 DEF Connect

\* A handler with the turn releases: the one connection that waits for the client
\* that is promoted is told.
LEMMA PromotionHolder ==
    ASSUME BaseInv, WaitersRegistered, TurnInv, HolderInv, Overlap = {},
           NEW w \in Conns, ~ Ended(w), HasTurn(w), Releases(w),
           UNCHANGED <<start, was_active>>
    PROVE  HolderInv'
<1> USE DEF BaseInv, HolderInv
<1>1. active = Sid[w]
  BY DEF TurnInv, TurnsHold, Alone
<1>2. /\ pc' = [pc EXCEPT ![w] = "gone"]
      /\ \A x \in Clients : Queued(x)' => Queued(x) /\ queued_ws'[x] = queued_ws[x]
  BY ReleasesOK
<1>3. \A v \in Conns : ~ Ended(v)' => ~ Ended(v)
  BY <1>2 DEF Ended, HandlersOK
<1>4. RegisteredWaits'
  BY <1>2, <1>3, SidAssumption DEF RegisteredWaits
<1>5. CASE active' = None
  BY <1>4, <1>5, SidAssumption, NoneAssumption DEF HolderIsHere, HolderKnows
<1>6. CASE active' # None
  <2>1. Queued(active')
    BY <1>1, <1>6, ReleasesOK
  <2>2. active' \in Clients /\ active' # Sid[w]
    BY <1>1, <1>6, <2>1, ReleasesOK, HolderWaitsNot DEF CMInv, CMTypeOK
  <2>3. queued_ws[active'] # None /\ pc[queued_ws[active']] \notin {"new", "gone"}
    BY <2>1, <2>2 DEF WaitersRegistered, RegisteredOwn
  <2>4. PICK u \in Conns : /\ u = queued_ws[active'] /\ Sid[u] = active'
                           /\ promo' = [promo EXCEPT ![u] = "notify"]
    BY <1>1, <1>6, <2>3, ReleasesOK
  <2>5. promo'[u] = "notify" /\ pc'[u] \notin {"new", "gone"}
    BY <1>2, <2>2, <2>3, <2>4 DEF HandlersOK
  <2>6. HolderKnows'
    BY <1>3, <2>1, <2>4, <2>5 DEF HolderKnows, RegisteredWaits, HasTurn
  <2> QED BY <1>4, <2>4, <2>5, <2>6 DEF HolderIsHere
<1> QED BY <1>5, <1>6

\* The finally block of a handler that did not begin with the turn.  If its client
\* holds the port now, the connection was promoted meanwhile, and its successor is
\* overlooked.
LEMMA LeaveQueueHolder ==
    ASSUME BaseInv, WaitersRegistered, TurnInv, HolderInv, Overlap = {},
           NEW w \in Conns, LeaveQueue(w)
    PROVE  HolderInv'
<1> USE DEF BaseInv, HolderInv
<1>1. /\ pc[w] = "closing" /\ w \notin was_active /\ pc' = [pc EXCEPT ![w] = "gone"]
      /\ queued_ws' = [queued_ws EXCEPT ![Sid[w]] = None]
      /\ UNCHANGED <<was_active, promo, start>> /\ Sid[w] \in Clients
  BY SidAssumption DEF LeaveQueue, Goes, relayVars
<1>2. /\ \A x \in Clients : Queued(x)' => Queued(x) /\ x # Sid[w]
      /\ active # Sid[w] => active' = active
      /\ active = Sid[w] => \/ active' = None
                            \/ active' \in Clients \ {Sid[w]} /\ Queued(active')
  BY <1>1, ReleaseHandsOn DEF LeaveQueue, GivesUpPlace
<1>3. /\ \A v \in Conns : ~ Ended(v)' => ~ Ended(v) /\ v # w
      /\ \A v \in Conns \ {w} : (HasTurn(v)' <=> HasTurn(v)) /\ pc'[v] = pc[v]
      /\ PromotedLeft => PromotedLeft'
  BY <1>1 DEF Ended, PromotedLeft, HasTurn, HandlersOK
<1>4. RegisteredWaits'
  BY <1>1, <1>2, <1>3, SidAssumption DEF RegisteredWaits, HandlersOK
<1>5. CASE active = Sid[w] /\ active' = None
  BY <1>4, <1>5, SidAssumption, NoneAssumption DEF HolderIsHere, HolderKnows
<1>6. CASE active = Sid[w] /\ active' # None
  <2>1. active' \in Clients \ {Sid[w]} /\ Queued(active')
    BY <1>2, <1>6
  <2>2. PromotedLeft'
    BY <1>1, <1>3, <1>6 DEF HolderKnows, HasTurn, PromotedLeft, Ended, HandlersOK
  <2>3. HolderKnows'
    BY <1>1, <1>3, <2>1, <2>2 DEF HolderKnows, RegisteredWaits, Overlooked, HandlersOK
  <2>4. /\ queued_ws[active'] \in Conns /\ Sid[queued_ws[active']] = active'
        /\ pc[queued_ws[active']] \notin {"new", "gone"}
    BY <2>1 DEF WaitersRegistered, RegisteredOwn, HandlersOK
  <2>5. HolderIsHere'
    BY <1>3, <2>1, <2>4 DEF HolderIsHere
  <2> QED BY <1>4, <2>3, <2>5
<1>7. CASE active # Sid[w]
  <2>1. active' = active
    BY <1>2, <1>7
  <2>2. HolderKnows'
    BY <1>1, <1>3, <1>7, <2>1, SidAssumption DEF HolderKnows, Overlooked, HandlersOK
  <2>3. HolderIsHere'
    BY <1>3, <1>7, <2>1 DEF HolderIsHere
  <2> QED BY <1>4, <2>2, <2>3
<1> QED BY <1>5, <1>6, <1>7

\* A handler goes on to another place, and the port and the queue stay as they are.
LEMMA HandlerHolder ==
    ASSUME BaseInv, HolderInv, UNCHANGED <<managerVars, queued_ws, promo>>,
           NEW w \in Conns, ~ Ended(w),
           NEW place, place \in {"starting", "input", "closing", "stopping", "crashed"},
           pc' = [pc EXCEPT ![w] = place],
           was_active \subseteq was_active',
           place # "crashed" /\ active = Sid[w] /\ HasTurn(w) => HasTurn(w)'
    PROVE  HolderInv'
<1>1. \A x \in Clients : Queued(x)' => Queued(x)
  BY QuietCM DEF BaseInv
<1>2. \A v \in Conns : ~ Ended(v)' => ~ Ended(v)
  BY DEF Ended, BaseInv, HandlersOK
<1>3. \A v \in Conns : ~ Ended(v)' /\ active = Sid[v] /\ HasTurn(v) => HasTurn(v)'
  BY DEF Ended, HasTurn, BaseInv, HandlersOK
<1>4. \A v \in Conns : pc[v] = "gone" => pc'[v] = "gone"
  BY DEF Ended, BaseInv, HandlersOK
<1>5. \A v \in Conns : pc[v] \notin {"new", "gone"} => pc'[v] \notin {"new", "gone"}
  BY DEF BaseInv, HandlersOK
<1>6. \A v \in Conns : promo[v] # "none" => promo'[v] # "none"
  OBVIOUS
<1>7. UNCHANGED <<active, queued_ws>>
  BY DEF managerVars, cmVars
<1> QED BY <1>1, <1>2, <1>3, <1>4, <1>5, <1>6, <1>7, QuietHolder

\* The steps of a handler up to and including its finally block.
LEMMA HandlerStepHolder ==
    ASSUME BaseInv, WaitersRegistered, TurnInv, HolderInv, Overlap = {},
           NEW w \in Conns, HandlerStep(w)
    PROVE  HolderInv'
<1> USE DEF BaseInv
<1>1. CASE Greeted(w)
  <2>1. /\ pc[w] = "greet" /\ UNCHANGED <<managerVars, queued_ws, was_active, promo>>
        /\ StartMoves(w, {"stop", "settle", "fresh", "newline", "failed"})
    BY <1>1, StartBeginsOK DEF Greeted
  <2>2. PICK place \in {"starting", "crashed"} : pc' = [pc EXCEPT ![w] = place]
    BY <1>1 DEF Greeted, Goes
  <2>3. place # "crashed" => HasTurn(w)'
    BY <2>2 DEF HasTurn, HandlersOK
  <2> QED BY <2>1, <2>2, <2>3, HandlerHolder DEF Ended
<1>2. CASE Enqueued(w)
  <2>1. /\ pc[w] = "enqueue" /\ EntersInput(w)
        /\ UNCHANGED <<managerVars, queued_ws, promo, start>>
    BY <1>2 DEF Enqueued, relayVars
  <2>2. HasTurn(w) => HasTurn(w)'
    BY <2>1, EntersInputOK DEF HasTurn
  <2> QED BY <2>1, <2>2, EntersInputOK, HandlerHolder DEF Ended
<1>3. CASE GreetingRaises(w)
  BY <1>3, HandlerHolder DEF GreetingRaises, Goes, relayVars, Ended
<1>4. CASE InputEnds(w)
  <2>1. /\ pc[w] = "input" /\ pc' = [pc EXCEPT ![w] = "closing"]
        /\ UNCHANGED <<managerVars, queued_ws, was_active, promo, start>>
    BY <1>4 DEF InputEnds, Finishes, Goes, relayVars
  <2>2. HasTurn(w) => HasTurn(w)'
    BY <2>1 DEF HasTurn
  <2> QED BY <2>1, <2>2, HandlerHolder DEF Ended
<1>5. CASE LogoutAndStop(w)
  <2>1. /\ pc[w] = "closing" /\ ~ Ended(w) /\ HasTurn(w)
        /\ UNCHANGED <<start, was_active>>
    BY <1>5 DEF LogoutAndStop, Ended, HasTurn
  <2>2. CASE Releases(w)
    BY <2>1, <2>2, PromotionHolder
  <2>3. CASE Goes(w, "stopping") /\ UNCHANGED <<managerVars, queued_ws, promo>>
    <3>1. HasTurn(w)'
      BY <2>3 DEF Goes, HasTurn, HandlersOK
    <3> QED BY <2>1, <2>3, <3>1, HandlerHolder DEF Goes
  <2> QED BY <1>5, <2>2, <2>3 DEF LogoutAndStop
<1>6. CASE LogoutFails(w)
  BY <1>6, HandlerHolder DEF LogoutFails, Goes, Ended
<1>7. CASE StopReturns(w)
  BY <1>7, PromotionHolder DEF StopReturns, Ended, HasTurn
<1>8. CASE LeaveQueue(w)
  BY <1>8, LeaveQueueHolder
<1> QED BY <1>1, <1>2, <1>3, <1>4, <1>5, <1>6, <1>7, <1>8 DEF HandlerStep

\* Typing.
LEMMA KeyArrivesHolder ==
    ASSUME BaseInv, TurnInv, HolderInv, NEW w \in Conns, KeyArrives(w)
    PROVE  HolderInv'
<1>1. /\ pc[w] = "input" /\ UNCHANGED <<managerVars, queued_ws, was_active, promo, start>>
      /\ ~ Ended(w)
  BY DEF KeyArrives, Types, relayVars, Ended
<1>2. CASE port = "open"
  <2>1. \E place \in {"input"} : pc' = [pc EXCEPT ![w] = place]
    BY <1>1, <1>2 DEF KeyArrives, BaseInv, HandlersOK
  <2>2. HasTurn(w) => HasTurn(w)'
    BY <1>1, <2>1 DEF HasTurn
  <2> QED BY <1>1, <2>1, <2>2, HandlerHolder
<1>3. CASE port # "open"
  <2>1. pc' = [pc EXCEPT ![w] = "closing"]
    BY <1>3 DEF KeyArrives, Finishes, Goes
  <2>2. HasTurn(w) => HasTurn(w)'
    BY <1>1, <2>1 DEF HasTurn
  <2> QED BY <1>1, <2>1, <2>2, HandlerHolder
<1> QED BY <1>2, <1>3

\* The tasks that are not handlers, and the surroundings.
LEMMA OthersHolder ==
    ASSUME BaseInv, HolderInv, UNCHANGED <<active, queue, pc, was_active, queued_ws>>,
           \A v \in Conns : promo[v] # "none" => promo'[v] # "none"
    PROVE  HolderInv'
<1>1. \A x \in Clients : Queued(x)' => Queued(x)
  BY DEF Queued
<1> QED BY <1>1, QuietHolder DEF Ended, HasTurn

\* The promotion task.
LEMMA PromotionStepHolder ==
    ASSUME BaseInv, HolderInv, NEW w \in Conns, PromotionStep(w)
    PROVE  HolderInv'
<1>1. /\ UNCHANGED <<active, queue, pc, was_active, queued_ws>>
      /\ \E q \in {"starting", "failed"} : promo' = [promo EXCEPT ![w] = q]
  BY DEF PromotionStep, PromotionNotifies, PromotionFails, managerVars, cmVars
<1>2. \A v \in Conns : promo[v] # "none" => promo'[v] # "none"
  BY <1>1 DEF BaseInv, HandlersOK
<1> QED BY <1>1, <1>2, OthersHolder

\* A suspended start() goes on.
LEMMA StartStepHolder ==
    ASSUME BaseInv, TurnInv, HolderInv, NEW w \in Conns, StartStep(w)
    PROVE  HolderInv'
<1> USE DEF BaseInv
<1>1. UNCHANGED <<managerVars, queued_ws>> /\ UNCHANGED <<active, queue>>
  BY StartStepOK DEF managerVars, cmVars
<1>2. CASE UNCHANGED <<pc, was_active, promo>>
  BY <1>1, <1>2, OthersHolder
<1>3. CASE pc[w] = "starting" /\ EntersInput(w) /\ promo' = promo
  <2>1. active = Sid[w] => HasTurn(w)'
    BY <1>3, EntersInputOK DEF HasTurn
  <2> QED BY <1>1, <1>3, <2>1, EntersInputOK, HandlerHolder DEF Ended
<1>4. CASE /\ pc[w] = "starting" /\ pc' = [pc EXCEPT ![w] = "crashed"]
           /\ UNCHANGED <<was_active, promo>>
  BY <1>1, <1>4, HandlerHolder DEF Ended
<1>5. CASE /\ promo[w] = "starting"
           /\ \E q \in {"done", "failed"} : promo' = [promo EXCEPT ![w] = q]
           /\ UNCHANGED <<pc, was_active>>
  <2>1. \A v \in Conns : promo[v] # "none" => promo'[v] # "none"
    BY <1>5 DEF HandlersOK
  <2> QED BY <1>1, <1>5, <2>1, OthersHolder
<1> QED BY <1>2, <1>3, <1>4, <1>5, StartStepOK

\* Every step of the server preserves HolderInv.
LEMMA NextHolder ==
    ASSUME BaseInv, WaitersRegistered, TurnInv, HolderInv, Overlap = {}, [Next]_vars
    PROVE  HolderInv'
<1>1. ASSUME NEW w \in Conns, Connect(w) \/ HandlerStep(w) \/ KeyArrives(w)
      PROVE  HolderInv'
  BY <1>1, ConnectHolder, HandlerStepHolder, KeyArrivesHolder
<1>2. ASSUME NEW w \in Conns, PromotionStep(w) \/ StartStep(w)
      PROVE  HolderInv'
  BY <1>2, PromotionStepHolder, StartStepHolder
<1>3. CASE Surroundings
  BY <1>3, SurroundingsEffects, OthersHolder DEF handlerVars
<1>4. CASE UNCHANGED vars
  BY <1>4, OthersHolder DEF vars, relayVars, managerVars, cmVars, handlerVars
<1> QED BY <1>1, <1>2, <1>3, <1>4 DEF Next, Surroundings

\* Before the first connection.
LEMMA InitHolder ==
    ASSUME Init
    PROVE  HolderInv
BY DEF Init, CMInit, HolderInv, RegisteredWaits, HolderKnows, HolderIsHere, Ended

-----------------------------------------------------------------------------
(* What a handler that goes on knows of its client's place                 *)

\* Its client has a place, at the port or in the queue.
HasPlace == \A w \in Conns : ~ Ended(w) => active = Sid[w] \/ Queued(Sid[w])

\* Its client was noted as active because its page was told, or was promoted, or
\* is overlooked.
NotedWasTold ==
    \A w \in was_active :
        ~ Ended(w) => Told(w) \/ promo[w] # "none" \/ (Overlooked(w) /\ PromotedLeft)

\* A promotion that is past its message has told the page, or could not.
PromotionTold ==
    \A w \in Conns :
        /\ promo[w] \in {"starting", "done"} => Told(w)
        /\ promo[w] = "failed" => Told(w) \/ w \in left \cup closed \cup Crashed

\* A handler that is in relay.start has told its page.
StartingTold == \A w \in Conns : pc[w] = "starting" => Told(w)

PlaceInv == HasPlace /\ NotedWasTold /\ PromotionTold /\ StartingTold

\* A registration is dropped by the client's own handler, or with its place.
LEMMA RegistrationStays ==
    ASSUME BaseInv, TurnInv, Overlap = {}, [Next]_vars,
           NEW w \in Conns, queued_ws[Sid[w]] = w, active = Sid[w], active' = active,
           ~ Ended(w), ~ Ended(w)'
    PROVE  queued_ws'[Sid[w]] = w
<1> USE DEF BaseInv
<1>1. ASSUME NEW v \in Conns, Connect(v) PROVE queued_ws'[Sid[w]] = w
  BY <1>1, SidAssumption DEF Connect, ConnectActive, ConnectQueued, Registers, HandlersOK
<1>2. ASSUME NEW v \in Conns, Releases(v) PROVE queued_ws'[Sid[w]] = w
  <2>1. CASE active # Sid[v]
    BY <1>2, <2>1, ReleasesOK
  <2>2. CASE active = Sid[v]
    <3>1. Release(Sid[v]) /\ active' = Sid[v] /\ Sid[v] \in Clients
      BY <1>2, <2>2, SidAssumption DEF Releases
    <3> QED BY <2>2, <3>1, ReleaseHandsOn, NoneAssumption
  <2> QED BY <2>1, <2>2
<1>3. ASSUME NEW v \in Conns, LeaveQueue(v) PROVE queued_ws'[Sid[w]] = w
  <2>1. Sid[v] # Sid[w]
    BY <1>3 DEF LeaveQueue, Goes, HandlersOK, TurnInv, OneHandler, Ended, Alone
  <2> QED BY <1>3, <2>1, SidAssumption DEF LeaveQueue, HandlersOK
<1>4. ASSUME NEW v \in Conns, HandlerStep(v)
      PROVE  Releases(v) \/ LeaveQueue(v) \/ UNCHANGED queued_ws
  BY <1>4 DEF HandlerStep, Greeted, Enqueued, GreetingRaises, InputEnds, LogoutAndStop,
              LogoutFails, StopReturns
<1>5. ASSUME NEW v \in Conns, KeyArrives(v) \/ PromotionStep(v) PROVE UNCHANGED queued_ws
  BY <1>5 DEF KeyArrives, PromotionStep, PromotionNotifies, PromotionFails
<1>6. ASSUME NEW v \in Conns, StartStep(v) PROVE UNCHANGED queued_ws
  BY <1>6, StartStepOK
<1>7. ASSUME Surroundings \/ UNCHANGED vars PROVE UNCHANGED queued_ws
  BY <1>7, SurroundingsEffects DEF handlerVars, vars
<1> QED BY <1>1, <1>2, <1>3, <1>4, <1>5, <1>6, <1>7 DEF Next, Surroundings

\* A place is lost only by one's own handler.
LEMMA NextHasPlace ==
    ASSUME BaseInv, TurnInv, HasPlace, Overlap = {}, [Next]_vars
    PROVE  HasPlace'
<1> USE DEF BaseInv
<1>1. ASSUME NEW w \in Conns, Connect(w) PROVE HasPlace'
  <2>1. /\ \A v \in Conns \ {w} : Ended(v)' => Ended(v)
        /\ \A v \in Conns \ {w} : Ended(v) => Ended(v)'
    BY <1>1 DEF Connect, ConnectActive, ConnectQueued, MayConnect, Goes, Ended, HandlersOK
  <2>2. CASE ConnectActive(w)
    <3>1. active' = Sid[w] /\ active \in {None, Sid[w]} /\ queue' = queue
      BY <2>2, ConnectActiveBase
         DEF ConnectActive, ReconnectGranted, MayReconnect, AcquireHeld, AcquireFree, cmVars
    <3> QED BY <2>1, <3>1, SidAssumption, NoneAssumption DEF HasPlace, Queued
  <2>3. CASE ConnectQueued(w)
    BY <2>1, <2>3, ConnectQueuedBase, SidAssumption DEF HasPlace
  <2> QED BY <1>1, <2>2, <2>3 DEF Connect
<1>2. ASSUME NEW w \in Conns, Release(Sid[w]), pc' = [pc EXCEPT ![w] = "gone"], ~ Ended(w)
      PROVE  HasPlace'
  <2> SUFFICES ASSUME NEW v \in Conns, ~ Ended(v)'
               PROVE  active' = Sid[v] \/ Queued(Sid[v])'
    BY DEF HasPlace
  <2>1. v # w /\ ~ Ended(v)
    BY <1>2 DEF Ended, HandlersOK
  <2>2. Sid[v] # Sid[w]
    BY <1>2, <2>1 DEF TurnInv, OneHandler, Alone
  <2> QED BY <1>2, <2>1, <2>2, ReleaseKeepsOthers, SidAssumption DEF HasPlace
<1>3. ASSUME UNCHANGED <<active, queue>>, \A v \in Conns : ~ Ended(v)' => ~ Ended(v)
      PROVE  HasPlace'
  BY <1>3 DEF HasPlace, Queued
<1>4. ASSUME NEW w \in Conns, HandlerStep(w) PROVE HasPlace'
  <2>1. pc[w] \notin {"new", "gone", "crashed"}
    BY <1>4 DEF HandlerStep, Greeted, Enqueued, GreetingRaises, InputEnds, LogoutAndStop,
                LogoutFails, StopReturns, LeaveQueue
  <2>2. CASE \/ Greeted(w) \/ Enqueued(w) \/ GreetingRaises(w) \/ InputEnds(w) \/ LogoutFails(w)
    <3>1. /\ UNCHANGED <<active, queue>>
          /\ \E place \in {"starting", "input", "closing", "crashed"} : pc' = [pc EXCEPT ![w] = place]
      BY <2>2 DEF Greeted, Enqueued, EntersInput, GreetingRaises, InputEnds, Finishes,
                  LogoutFails, Goes, managerVars, cmVars
    <3> QED BY <1>3, <2>1, <3>1 DEF Ended, HandlersOK
  <2>3. CASE LogoutAndStop(w)
    <3>1. CASE Releases(w)
      BY <1>2, <2>1, <3>1 DEF Releases, Goes, Ended
    <3>2. CASE Goes(w, "stopping") /\ UNCHANGED managerVars
      BY <1>3, <2>1, <3>2 DEF Goes, Ended, HandlersOK, managerVars, cmVars
    <3> QED BY <2>3, <3>1, <3>2 DEF LogoutAndStop
  <2>4. CASE StopReturns(w) \/ LeaveQueue(w)
    BY <1>2, <2>1, <2>4 DEF StopReturns, LeaveQueue, GivesUpPlace, Releases, Goes, Ended
  <2> QED BY <1>4, <2>2, <2>3, <2>4 DEF HandlerStep
<1>5. ASSUME NEW w \in Conns, KeyArrives(w) PROVE HasPlace'
  BY <1>3, <1>5 DEF KeyArrives, Finishes, Goes, Ended, HandlersOK, managerVars, cmVars
<1>6. ASSUME NEW w \in Conns, PromotionStep(w) PROVE HasPlace'
  BY <1>3, <1>6 DEF PromotionStep, PromotionNotifies, PromotionFails, Ended, managerVars, cmVars
<1>7. ASSUME NEW w \in Conns, StartStep(w) PROVE HasPlace'
  BY <1>3, <1>7, StartStepOK, EntersInputOK DEF Ended, HandlersOK, managerVars, cmVars
<1>8. CASE Surroundings
  BY <1>3, <1>8, SurroundingsEffects DEF handlerVars, Ended
<1>9. CASE UNCHANGED vars
  BY <1>3, <1>9 DEF vars, managerVars, cmVars, handlerVars, Ended
<1> QED BY <1>1, <1>4, <1>5, <1>6, <1>7, <1>8, <1>9 DEF Next, Surroundings

\* Who was noted and overlooked remains so until its handler ends.
LEMMA OverlookedStays ==
    ASSUME BaseInv, TurnInv, TurnInv', Overlap = {}, [Next]_vars, PromotedLeft,
           NEW w \in was_active, Overlooked(w), ~ Ended(w)', w \in was_active'
    PROVE  (Overlooked(w) /\ PromotedLeft)'
<1>1. w \in Conns /\ active' = Sid[w]
  BY DEF BaseInv, HandlersOK, TurnInv, TurnsHold, HasTurn, Alone
<1>2. queued_ws'[Sid[w]] = w
  BY <1>1, RegistrationStays DEF Overlooked
<1>3. PromotedLeft'
  BY NothingUndone, PromotedLeftStays
<1> QED BY <1>1, <1>2, <1>3 DEF Overlooked

\* Who is noted in a step was told before, or is told in it, or is overlooked.
LEMMA NextNoted ==
    ASSUME BaseInv, TurnInv, TurnInv', HolderInv, PlaceInv, Overlap = {}, [Next]_vars
    PROVE  NotedWasTold'
<1> USE DEF BaseInv
<1> SUFFICES ASSUME NEW w \in was_active', ~ Ended(w)'
             PROVE  Told(w)' \/ promo'[w] # "none" \/ (Overlooked(w) /\ PromotedLeft)'
  BY DEF NotedWasTold
<1>1. CASE w \in was_active
  <2>1. w \in Conns /\ ~ Ended(w)
    BY <1>1, NothingUndone DEF HandlersOK, Ended, NewIsFresh
  <2> QED BY <1>1, <2>1, NothingUndone, OverlookedStays DEF PlaceInv, NotedWasTold
<1>2. ASSUME NEW v \in Conns, Enqueued(v), w \notin was_active
      PROVE  promo'[w] # "none" \/ (Overlooked(w) /\ PromotedLeft)'
  <2>1. pc[v] = "enqueue" /\ EntersInput(v) /\ UNCHANGED <<promo, active, queued_ws>>
    BY <1>2 DEF Enqueued, managerVars, cmVars
  <2>2. v = w /\ active = Sid[w]
    BY <1>2, <2>1, EntersInputOK
  <2>3. promo[w] # "none" \/ (Overlooked(w) /\ PromotedLeft)
    BY <1>2, <2>1, <2>2 DEF HolderInv, HolderKnows, HasTurn, Ended
  <2>4. PromotedLeft => PromotedLeft'
    BY NothingUndone, PromotedLeftStays
  <2> QED BY <2>1, <2>3, <2>4 DEF Overlooked
<1>3. ASSUME NEW v \in Conns, StartStep(v), w \notin was_active PROVE Told(w)'
  <2>1. v = w /\ start[v] # "idle"
    BY <1>3, StartStepOK, EntersInputOK
  <2> QED BY <2>1, NothingUndone DEF Told
<1>4. ASSUME NEW v \in Conns,
             \/ Connect(v) \/ KeyArrives(v) \/ PromotionStep(v)
             \/ Greeted(v) \/ GreetingRaises(v) \/ InputEnds(v)
             \/ LogoutAndStop(v) \/ LogoutFails(v) \/ StopReturns(v) \/ LeaveQueue(v)
      PROVE  UNCHANGED was_active
  BY <1>4 DEF Connect, ConnectActive, ConnectQueued, KeyArrives, PromotionStep,
              PromotionNotifies, PromotionFails, Greeted, GreetingRaises, InputEnds,
              LogoutAndStop, LogoutFails, StopReturns, LeaveQueue
<1>5. ASSUME Surroundings \/ UNCHANGED vars PROVE UNCHANGED was_active
  BY <1>5, SurroundingsEffects DEF handlerVars, vars
<1> QED BY <1>1, <1>2, <1>3, <1>4, <1>5 DEF Next, HandlerStep, Surroundings

\* Every step of the server preserves PromotionTold.
LEMMA NextPromotionTold ==
    ASSUME BaseInv, PlaceInv, [Next]_vars
    PROVE  PromotionTold'
<1> USE DEF BaseInv
<1>1. ASSUME \A v \in Conns : promo'[v] \in {promo[v], "notify"} \/ Told(v)'
                \/ (promo'[v] = "failed" /\ v \in left' \cup closed' \cup Crashed')
      PROVE  PromotionTold'
  BY <1>1, NothingUndone DEF PlaceInv, PromotionTold
<1>2. ASSUME NEW w \in Conns, PromotionNotifies(w) PROVE PromotionTold'
  <2>1. Told(w)'
    BY <1>2, StartBeginsOK DEF PromotionNotifies, StartMoves, RelayOK, Told
  <2> QED BY <1>1, <1>2, <2>1 DEF PromotionNotifies, HandlersOK
<1>3. ASSUME NEW w \in Conns, PromotionFails(w) PROVE PromotionTold'
  BY <1>1, <1>3, NothingUndone DEF PromotionFails, HandlersOK
<1>4. ASSUME NEW w \in Conns, StartStep(w) PROVE PromotionTold'
  <2>1. Told(w)'
    BY <1>4, StartStepOK, NothingUndone DEF Told
  <2> QED BY <1>1, <1>4, <2>1, StartStepOK DEF HandlersOK
<1>5. ASSUME NEW w \in Conns, Releases(w) PROVE PromotionTold'
  BY <1>1, <1>5, ReleasesOK DEF HandlersOK
<1>6. ASSUME UNCHANGED promo PROVE PromotionTold'
  BY <1>1, <1>6
<1>7. ASSUME NEW w \in Conns, HandlerStep(w) PROVE Releases(w) \/ UNCHANGED promo
  BY <1>7 DEF HandlerStep, Greeted, Enqueued, GreetingRaises, InputEnds, LogoutAndStop,
              LogoutFails, StopReturns, LeaveQueue
<1>8. ASSUME NEW w \in Conns, Connect(w) \/ KeyArrives(w) PROVE UNCHANGED promo
  BY <1>8 DEF Connect, ConnectActive, ConnectQueued, KeyArrives
<1>9. ASSUME Surroundings \/ UNCHANGED vars PROVE UNCHANGED promo
  BY <1>9, SurroundingsEffects DEF handlerVars, vars
<1> QED
  BY <1>2, <1>3, <1>4, <1>5, <1>6, <1>7, <1>8, <1>9 DEF Next, PromotionStep, Surroundings

\* Every step of the server preserves StartingTold.
LEMMA NextStartingTold ==
    ASSUME BaseInv, PlaceInv, [Next]_vars
    PROVE  StartingTold'
<1> USE DEF BaseInv
<1>1. ASSUME \A v \in Conns : pc'[v] \in {pc[v]} \cup {"greet", "enqueue", "input", "closing",
                                            "stopping", "gone", "crashed"} \/ Told(v)'
      PROVE  StartingTold'
  BY <1>1, NothingUndone DEF PlaceInv, StartingTold
<1>2. ASSUME NEW w \in Conns, Greeted(w) PROVE StartingTold'
  <2>1. Told(w)'
    BY <1>2, StartBeginsOK DEF Greeted, StartMoves, RelayOK, Told
  <2> QED BY <1>1, <1>2, <2>1 DEF Greeted, Goes, HandlersOK
<1>3. ASSUME NEW w \in Conns, NEW place \in {"greet", "enqueue", "input", "closing",
                                            "stopping", "gone", "crashed"}, Goes(w, place)
      PROVE  StartingTold'
  BY <1>1, <1>3 DEF Goes, HandlersOK
<1>4. ASSUME UNCHANGED pc PROVE StartingTold'
  BY <1>1, <1>4
<1>5. ASSUME NEW w \in Conns, Connect(w) PROVE StartingTold'
  BY <1>3, <1>5 DEF Connect, ConnectActive, ConnectQueued
<1>6. ASSUME NEW w \in Conns, HandlerStep(w) PROVE StartingTold'
  BY <1>2, <1>3, <1>6
     DEF HandlerStep, Enqueued, EntersInput, GreetingRaises, InputEnds, Finishes,
         LogoutAndStop, LogoutFails, StopReturns, LeaveQueue, Releases
<1>7. ASSUME NEW w \in Conns, KeyArrives(w) PROVE StartingTold'
  BY <1>3, <1>4, <1>7 DEF KeyArrives, Finishes
<1>8. ASSUME NEW w \in Conns, PromotionStep(w) PROVE StartingTold'
  BY <1>4, <1>8 DEF PromotionStep, PromotionNotifies, PromotionFails
<1>9. ASSUME NEW w \in Conns, StartStep(w) PROVE StartingTold'
  BY <1>3, <1>4, <1>9
     DEF StartStep, HandlerAfterStart, PromotionAfterStart, EntersInput
<1>10. ASSUME Surroundings \/ UNCHANGED vars PROVE UNCHANGED pc
  BY <1>10, SurroundingsEffects DEF handlerVars, vars
<1> QED BY <1>4, <1>5, <1>6, <1>7, <1>8, <1>9, <1>10 DEF Next, Surroundings

\* All of it: what the proofs about the pages rest on.
ServerInv == BaseInv /\ WaitersRegistered /\ TurnInv /\ HolderInv /\ PlaceInv

\* Before the first connection.
LEMMA InitServer ==
    ASSUME Init
    PROVE  ServerInv
<1>1. PlaceInv
  BY DEF Init, PlaceInv, HasPlace, NotedWasTold, PromotionTold,
         StartingTold, Ended
<1> QED BY <1>1, InitBase, InitWaiters, InitTurn, InitHolder DEF ServerInv

\* Every step of the server preserves ServerInv.
LEMMA NextServer ==
    ASSUME ServerInv, Overlap = {}, [Next]_vars
    PROVE  ServerInv'
BY NextBase, NextWaiters, NextTurn, NextHolder, NextHasPlace, NextNoted,
   NextPromotionTold, NextStartingTold
   DEF ServerInv, PlaceInv

\* A handler of the holder serves it, or is overlooked.
LEMMA HolderServed ==
    ASSUME ServerInv, NEW w \in Conns, ~ Ended(w), active = Sid[w]
    PROVE  Serves(w) \/ (Overlooked(w) /\ PromotedLeft)
BY DEF ServerInv, HolderInv, HolderKnows, HasTurn, PlaceInv, NotedWasTold, Serves

\* The holder is served by a handler that has not ended: its page was told or is
\* about to be, or the port is about to be released; unless all its handlers have
\* ended, one in an exception, or a promoted client left before it (server.py:160).
THEOREM ServerUnservedOnlyAfterPromoted ==
    ASSUME Overlap = {} PROVE Spec => []UnservedOnlyAfterPromoted
<1>1. Init => ServerInv
  BY InitServer
<1>2. ServerInv /\ [Next]_vars => ServerInv'
  BY NextServer
<1>3. ServerInv => UnservedOnlyAfterPromoted
  <2> SUFFICES ASSUME ServerInv, active # None,
                      ~ \E w \in Conns : Sid[w] = active /\ Serves(w)
               PROVE  Deserted(active) \/ ((\E w \in Conns : Overlooked(w)) /\ PromotedLeft)
    BY DEF UnservedOnlyAfterPromoted
  <2>1. PICK u \in Conns : Sid[u] = active /\ pc[u] \notin {"new", "gone"}
    BY DEF ServerInv, HolderInv, HolderIsHere
  <2>2. CASE \E w \in Conns : Sid[w] = active /\ ~ Ended(w)
    BY <2>2, HolderServed
  <2>3. CASE \A w \in Conns : Sid[w] = active => Ended(w)
    BY <2>1, <2>3 DEF Deserted, Ended
  <2> QED BY <2>2, <2>3
<1> QED BY <1>1, <1>2, <1>3, PTL DEF Spec
=============================================================================
