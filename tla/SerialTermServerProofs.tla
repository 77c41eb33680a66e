----------------------- MODULE SerialTermServerProofs -----------------------
(***************************************************************************)
(* Proofs about the composed server, for every set of tabs and             *)
(* connections, every assignment of connections to tabs, faults and lost   *)
(* cancellations.                                                          *)
(***************************************************************************)
EXTENDS SerialTermServer, ClientManagerProofs

Phases == {"idle", "stop", "settle", "newline", "fresh", "echo", "done", "failed"}

\* The part of TypeOK that is about the relay and the port.
RelayOK ==
    /\ shell \in Clients \cup {None}
    /\ output \in {"none", "printing", "buffered"}
    /\ port \in {"closed", "open", "broken"}
    /\ leaked \in BOOLEAN
    /\ task \in Conns \cup {None}
    /\ loop \in [Conns -> {"none", "run", "cancel", "done"}]
    /\ start \in [Conns -> Phases]
    /\ awaited \in [Calls -> Conns \cup {None}]
    /\ fresh \in BOOLEAN
    /\ shown \subseteq Conns

\* The part that is about the handlers.
HandlersOK ==
    /\ closed \cup left \cup was_active \subseteq Conns
    /\ pc \in [Conns -> {"new", "greet", "enqueue", "starting", "input", "closing",
                         "stopping", "gone", "crashed"}]
    /\ queued_ws \in [Clients -> Conns \cup {None}]
    /\ promo \in [Conns -> {"none", "notify", "starting", "done", "failed"}]

\* The server's TypeOK is that of its parts.
LEMMA TypeParts == TypeOK <=> CMTypeOK /\ RelayOK /\ HandlersOK
BY DEF TypeOK, RelayOK, HandlersOK, Phases

-----------------------------------------------------------------------------
(* What the steps of the relay do, whoever takes them *)

\* start(w) moves on by itself, from one phase to another.
StartMoves(w, S) ==
    /\ \E s \in S : start' = [start EXCEPT ![w] = s]
    /\ shell' = shell

\* serial.open() within the kick, whether it succeeds or raises.
LEMMA ReopensOK ==
    ASSUME RelayOK, NEW w \in Conns, Reopens(w)
    PROVE  /\ StartMoves(w, {"fresh", "newline", "failed"})
           /\ port' \in {"closed", "open", "broken"} /\ leaked' \in BOOLEAN
           /\ output' = output
<1>1. CASE Opens /\ start' = [start EXCEPT ![w] = IF fresh THEN "fresh" ELSE "newline"]
  <2>1. start' = [start EXCEPT ![w] = "fresh"] \/ start' = [start EXCEPT ![w] = "newline"]
    BY <1>1
  <2> QED BY <1>1, <2>1 DEF Opens, targetVars, RelayOK, StartMoves
<1>2. CASE OpenRaises /\ start' = [start EXCEPT ![w] = "failed"]
  BY <1>2 DEF OpenRaises, portVars, targetVars, RelayOK, StartMoves
<1> QED BY <1>1, <1>2 DEF Reopens

\* The beginning of _kick, up to its first suspension.
LEMMA KicksOK ==
    ASSUME RelayOK, NEW w \in Conns, Kicks(w)
    PROVE  /\ StartMoves(w, {"settle", "fresh", "newline", "failed"})
           /\ port' \in {"closed", "open", "broken"} /\ leaked' \in BOOLEAN
           /\ output' \in {"none", "printing", "buffered"}
           /\ UNCHANGED <<fresh, shown>>
<1>1. CASE is_open /\ Closes /\ start' = [start EXCEPT ![w] = "settle"]
  BY <1>1 DEF Kicks, Closes, RelayOK, StartMoves
<1>2. CASE ~ is_open /\ Reopens(w)
  BY <1>2, ReopensOK DEF Kicks, RelayOK, StartMoves
<1> QED BY <1>1, <1>2 DEF Kicks

\* The loops that change are alive, and are asked to end.
LEMMA StopsLaterOK ==
    ASSUME RelayOK, NEW k \in Calls, StopsLater(k)
    PROVE  /\ loop' \in [Conns -> {"none", "run", "cancel", "done"}]
           /\ Alive' = Alive
           /\ awaited' \in [Calls -> Conns \cup {None}]
           /\ task' = task
BY DEF StopsLater, RelayOK, Alive

\* start(w) up to its first suspension: no loop comes into being.
LEMMA StartBeginsOK ==
    ASSUME RelayOK, NEW w \in Conns, StartBegins(w)
    PROVE  /\ start[w] = "idle"
           /\ StartMoves(w, {"stop", "settle", "fresh", "newline", "failed"})
           /\ RelayOK' /\ Alive' = Alive
<1>1. CASE StopsAtOnce /\ Kicks(w)
  BY <1>1, KicksOK DEF StartBegins, StopsAtOnce, RelayOK, StartMoves, Alive, Phases
<1>2. CASE StopsLater(<<"start", w>>) /\ start' = [start EXCEPT ![w] = "stop"]
           /\ UNCHANGED <<ioVars, fresh, shown>>
  <2>1. <<"start", w>> \in Calls
    BY DEF Calls
  <2>2. /\ UNCHANGED <<port, leaked, shell, output, fresh, shown>>
        /\ start' = [start EXCEPT ![w] = "stop"]
    BY <1>2 DEF ioVars, portVars, targetVars
  <2>3. /\ loop' \in [Conns -> {"none", "run", "cancel", "done"}]
        /\ Alive' = Alive
        /\ awaited' \in [Calls -> Conns \cup {None}]
        /\ task' = task
    BY <1>2, <2>1, StopsLaterOK
  <2>4. start' \in [Conns -> Phases] /\ Calls' = Calls
    BY <2>2 DEF RelayOK, Phases, Calls
  <2> QED BY <2>2, <2>3, <2>4 DEF StartBegins, RelayOK, StartMoves
<1> QED BY <1>1, <1>2 DEF StartBegins

\* The steps of a start(w) that has begun; only the last creates a loop.
StartGoesOn(w) == StartResumes(w) \/ KickSettled(w) \/ KickNewline(w) \/ StartReturns(w)

\* What the later steps of start(w) may do to the relay.
LEMMA StartGoesOnOK ==
    ASSUME RelayOK, NEW w \in Conns, StartGoesOn(w)
    PROVE  /\ start[w] \in {"stop", "settle", "newline", "fresh", "echo"}
           /\ StartMoves(w, {"settle", "fresh", "newline", "echo", "done", "failed"})
           /\ RelayOK'
           /\ Alive' \subseteq Alive \cup {w}
           /\ w \in Alive' \ Alive => start'[w] = "done"
<1>1. CASE StartResumes(w)
  <2>1. <<"start", w>> \in Calls
    BY DEF Calls
  <2>2. /\ task' = None /\ awaited' \in [Calls -> Conns \cup {None}]
        /\ loop' = loop
    BY <1>1, <2>1 DEF StartResumes, StopResumes, RelayOK
  <2> QED
    BY <1>1, <2>2, KicksOK DEF StartResumes, RelayOK, StartMoves, Alive, Phases
<1>2. CASE KickSettled(w)
  BY <1>2, ReopensOK DEF KickSettled, RelayOK, StartMoves, Alive, Phases
<1>3. CASE KickNewline(w)
  BY <1>3 DEF KickNewline, Writes, WriteRaises, Newline, Answers, portVars, targetVars,
              RelayOK, StartMoves, Alive, Phases
<1>4. CASE StartReturns(w)
  BY <1>4 DEF StartReturns, ioVars, portVars, targetVars, RelayOK, StartMoves, Alive, Phases
<1> QED BY <1>1, <1>2, <1>3, <1>4 DEF StartGoesOn

\* A loop that goes on may end, and none comes into being.
LEMMA LoopStepOK ==
    ASSUME RelayOK, NEW w \in Conns, NEW cut, LoopStep(w, cut)
    PROVE  /\ RelayOK' /\ Alive' \subseteq Alive
           /\ UNCHANGED <<start, shell>>
<1>1. CASE LoopForwards(w, cut)
  BY <1>1 DEF LoopForwards, Reads, Sends, portVars, RelayOK, Alive
<1>2. CASE LoopEnds(w)
  BY <1>2 DEF LoopEnds, ioVars, portVars, targetVars, RelayOK, Alive
<1>3. CASE LoopCancelled(w)
  BY <1>3 DEF LoopCancelled, ioVars, portVars, targetVars, RelayOK, Alive
<1>4. CASE LoopMissesCancel(w, cut)
  BY <1>4 DEF LoopMissesCancel, Reads, Sends, portVars, RelayOK, Alive
<1> QED BY <1>1, <1>2, <1>3, <1>4 DEF LoopStep

\* Only typing opens a session, and only for the client that types.
LEMMA TypesOK ==
    ASSUME RelayOK, NEW c \in Clients, Types(c)
    PROVE  /\ RelayOK' /\ UNCHANGED <<start, loop>>
           /\ shell' \in {shell, None, c}
           /\ shell # None => shell' = shell
           /\ port' = port
BY DEF Types, Writes, WriteRaises, Keys, Answers, portVars, targetVars, relayVars, RelayOK

\* logout() closes the session, whoever's it is.
LEMMA LogsOutOK ==
    ASSUME RelayOK, LogsOut
    PROVE  /\ shell' = None /\ fresh' \in BOOLEAN
           /\ output' \in {"none", "printing", "buffered"}
           /\ UNCHANGED <<port, leaked>>
BY DEF LogsOut, Writes, EndOfSession, Answers, portVars

\* The target printing and the adapter being pulled.
LEMMA SurroundingsOK ==
    ASSUME RelayOK, Prints \/ Unplug, UNCHANGED relayVars
    PROVE  /\ RelayOK' /\ UNCHANGED <<start, loop, shell>>
BY DEF Prints, Unplug, portVars, targetVars, relayVars, RelayOK

-----------------------------------------------------------------------------
(* The handlers and the manager *)

\* A connection that was not made yet has left no trace.
NewIsFresh ==
    \A w \in Conns : pc[w] = "new" =>
        /\ promo[w] = "none" /\ start[w] = "idle"
        /\ w \notin closed \cup left \cup was_active

\* A registration is made by the client's own connection.
RegisteredOwn ==
    \A c \in Clients : LET w == queued_ws[c] IN
        w # None => Sid[w] = c /\ pc[w] # "new"

\* WaitersAreReachable, by client.
WaitersRegistered ==
    \A c \in Clients : Queued(c) =>
        queued_ws[c] # None /\ pc[queued_ws[c]] # "gone"

\* A loop exists when the start that creates it has returned.
LoopsAreStarted == \A w \in Alive : start[w] = "done"

\* The finally block begins with closing the WebSocket; a handler that ended in an
\* exception had lost its browser or has no loop.
EndedIsCut ==
    \A w \in Conns :
        /\ pc[w] \in {"closing", "stopping", "gone"} => w \in closed
        /\ pc[w] = "crashed" => w \in closed \cup left \/ start[w] = "failed"

BaseInv ==
    /\ CMInv /\ RelayOK /\ HandlersOK
    /\ NewIsFresh /\ RegisteredOwn
    /\ LoopsAreStarted /\ EndedIsCut

\* The property by places in the queue and the invariant by clients are the same.
LEMMA WaitersEquivalent ==
    ASSUME CMTypeOK, HandlersOK, RegisteredOwn
    PROVE  WaitersAreReachable <=> WaitersRegistered
BY DEF CMTypeOK, HandlersOK, RegisteredOwn, WaitersAreReachable, WaitersRegistered,
       Queued, Contains

-----------------------------------------------------------------------------
(* Each step preserves BaseInv *)

\* A connection that gets the port.
LEMMA ConnectActiveBase ==
    ASSUME BaseInv, NEW w \in Conns, ConnectActive(w)
    PROVE  BaseInv' /\ active' = Sid[w]
<1> USE DEF BaseInv
<1>1. Sid[w] \in Clients
  BY SidAssumption
<1>2. /\ pc[w] = "new" /\ pc' = [pc EXCEPT ![w] = "greet"]
      /\ UNCHANGED <<ioVars, relayVars, wsVars, was_active, queued_ws, promo>>
  BY DEF ConnectActive, MayConnect, Goes
<1>3. Acquire(Sid[w]) \/ Reconnect(Sid[w])
  BY DEF ConnectActive, Acquire, Reconnect
<1>4. CMInv'
  BY <1>1, <1>3, AcquireInv, ReconnectInv
<1>5. active' = Sid[w] /\ queue' = queue
  BY DEF ConnectActive, ReconnectGranted, AcquireHeld, AcquireFree, cmVars
<1>6. RelayOK' /\ HandlersOK'
  BY <1>2 DEF RelayOK, HandlersOK, ioVars, portVars, targetVars, relayVars, wsVars, Calls
<1>7. NewIsFresh' /\ LoopsAreStarted' /\ EndedIsCut'
  BY <1>2 DEF NewIsFresh, LoopsAreStarted, EndedIsCut, Alive, HandlersOK, relayVars, wsVars
<1>8. RegisteredOwn'
  BY <1>2, <1>5 DEF RegisteredOwn, HandlersOK, Queued
<1> QED BY <1>4, <1>5, <1>6, <1>7, <1>8

\* A connection that has to wait, be it new in the queue or there already.
LEMMA ConnectQueuedBase ==
    ASSUME BaseInv, NEW w \in Conns, ConnectQueued(w)
    PROVE  /\ BaseInv' /\ active' = active /\ active # Sid[w]
           /\ \A x \in Clients : Queued(x)' <=> Queued(x) \/ x = Sid[w]
<1> USE DEF BaseInv
<1> DEFINE c == Sid[w]
<1>1. c \in Clients
  BY SidAssumption
<1>2. /\ pc[w] = "new" /\ pc' = [pc EXCEPT ![w] = "enqueue"]
      /\ queued_ws' = [queued_ws EXCEPT ![c] = w]
      /\ UNCHANGED <<ioVars, relayVars, wsVars, was_active, promo>>
      /\ active' = active /\ active # c /\ grace' = Pruned(c)
  BY DEF ConnectQueued, MayConnect, Goes, Registers
<1> HIDE DEF c
<1>3. /\ queue' \in Seq(Clients) /\ OnePlaceEach' /\ NeverIdleWhileWaiting'
      /\ \A x \in Clients : Queued(x)' <=> Queued(x) \/ x = c
  <2>1. CASE Queued(c) /\ UNCHANGED queue
    BY <1>2, <2>1 DEF CMInv, CMTypeOK, OnePlaceEach, NeverIdleWhileWaiting, Queued
  <2>2. CASE active # None /\ ~ Queued(c) /\ queue' = Append(queue, c)
    BY <1>1, <1>2, <2>2, GoesToTheBack DEF CMInv
  <2> QED BY <2>1, <2>2 DEF ConnectQueued, QueuesUp, c
<1>4. CMInv'
  BY <1>1, <1>2, <1>3, GraceAssumption, NoneAssumption
     DEF CMInv, CMTypeOK, HolderHasNoGraceEntry, Pruned, NoEntry, Expired, Ages
<1>5. RelayOK' /\ HandlersOK'
  BY <1>1, <1>2 DEF RelayOK, HandlersOK, ioVars, portVars, targetVars, relayVars, wsVars, Calls
<1>6. NewIsFresh' /\ LoopsAreStarted' /\ EndedIsCut'
  BY <1>2 DEF NewIsFresh, LoopsAreStarted, EndedIsCut, Alive, HandlersOK, relayVars, wsVars
<1>7. RegisteredOwn'
  BY <1>1, <1>2, <1>3, ConnsAssumption DEF RegisteredOwn, HandlersOK, c
<1> QED BY <1>2, <1>3, <1>4, <1>5, <1>6, <1>7 DEF c

\* The steps of the handlers and of the surroundings that leave the manager alone.
LEMMA QuietCM ==
    ASSUME CMInv, UNCHANGED managerVars
    PROVE  CMInv' /\ \A x \in Clients : Queued(x)' <=> Queued(x)
BY DEF managerVars, cmVars, CMInv, CMTypeOK, OnePlaceEach, NeverIdleWhileWaiting,
       HolderHasNoGraceEntry, Queued

\* The active frame was sent; start() begins, or raises.
LEMMA GreetedBase ==
    ASSUME BaseInv, NEW w \in Conns, Greeted(w)
    PROVE  BaseInv'
<1> USE DEF BaseInv
<1>1. /\ start[w] = "idle"
      /\ StartMoves(w, {"stop", "settle", "fresh", "newline", "failed"})
      /\ RelayOK' /\ Alive' = Alive
  BY StartBeginsOK DEF Greeted
<1>2. /\ pc[w] = "greet" /\ pc' = [pc EXCEPT ![w] = IF start'[w] = "failed" THEN "crashed" ELSE "starting"]
      /\ UNCHANGED <<closed, left, was_active, queued_ws, promo>>
  BY DEF Greeted, Goes, wsVars, HandlersOK
<1>3. /\ CMInv' /\ \A x \in Clients : Queued(x)' <=> Queued(x)
  BY QuietCM DEF Greeted
<1>4. HandlersOK'
  BY <1>2 DEF HandlersOK
<1>5. NewIsFresh' /\ LoopsAreStarted' /\ EndedIsCut'
  BY <1>1, <1>2 DEF NewIsFresh, LoopsAreStarted, EndedIsCut, HandlersOK, RelayOK, StartMoves, Alive
<1>6. RegisteredOwn'
  BY <1>2, <1>3 DEF RegisteredOwn, HandlersOK
<1> QED BY <1>1, <1>3, <1>4, <1>5, <1>6

\* Where was_active is read.
LEMMA EntersInputOK ==
    ASSUME HandlersOK, NEW w \in Conns, EntersInput(w)
    PROVE  /\ pc' = [pc EXCEPT ![w] = "input"]
           /\ was_active \subseteq was_active' /\ was_active' \subseteq was_active \cup {w}
           /\ active = Sid[w] => w \in was_active'
           /\ w \in was_active' => w \in was_active \/ active = Sid[w]
BY DEF EntersInput, Goes, IsActive

\* A handler goes on, and nothing but its place, its flag, and the two sets of
\* WebSockets changes.
LEMMA HandlerGoesOn ==
    ASSUME BaseInv, NEW w \in Conns, pc[w] # "new", NEW place,
           place \in {"input", "closing", "stopping", "crashed"},
           pc' = [pc EXCEPT ![w] = place],
           was_active' \subseteq was_active \cup {w},
           closed' \subseteq closed \cup {w}, closed \subseteq closed',
           UNCHANGED <<left, start, managerVars, queued_ws, promo>>,
           Alive' \subseteq Alive, RelayOK',
           place \in {"closing", "stopping"} => w \in closed',
           place = "crashed" => w \in closed \cup left \/ start[w] = "failed"
    PROVE  BaseInv'
<1> USE DEF BaseInv
<1>1. CMInv' /\ \A x \in Clients : Queued(x)' <=> Queued(x)
  BY QuietCM
<1>2. HandlersOK'
  BY DEF HandlersOK
<1>3. NewIsFresh' /\ LoopsAreStarted' /\ EndedIsCut'
  BY DEF NewIsFresh, LoopsAreStarted, EndedIsCut, HandlersOK
<1>4. RegisteredOwn'
  BY <1>1 DEF RegisteredOwn, HandlersOK
<1> QED BY <1>1, <1>2, <1>3, <1>4

\* Steps that leave the relay alone.
LEMMA UnchangedRelay ==
    ASSUME RelayOK, UNCHANGED <<ioVars, relayVars>>
    PROVE  RelayOK' /\ Alive' = Alive /\ UNCHANGED <<start, shell>>
BY DEF RelayOK, ioVars, portVars, targetVars, relayVars, Alive, Calls

\* The queued frame was sent.
LEMMA EnqueuedBase ==
    ASSUME BaseInv, NEW w \in Conns, Enqueued(w)
    PROVE  BaseInv'
BY HandlerGoesOn, EntersInputOK, UnchangedRelay DEF Enqueued, BaseInv, wsVars

\* The first frame could not be sent: no finally block undoes the connection.
LEMMA GreetingRaisesBase ==
    ASSUME BaseInv, NEW w \in Conns, GreetingRaises(w)
    PROVE  BaseInv'
BY HandlerGoesOn, UnchangedRelay DEF GreetingRaises, Goes, BaseInv, wsVars

\* The input loop ends; the WebSocket is closed.
LEMMA InputEndsBase ==
    ASSUME BaseInv, NEW w \in Conns, InputEnds(w)
    PROVE  BaseInv'
BY HandlerGoesOn, UnchangedRelay DEF InputEnds, Finishes, Goes, BaseInv

\* logout() raises in the finally block, and what follows it is skipped.
LEMMA LogoutFailsBase ==
    ASSUME BaseInv, NEW w \in Conns, LogoutFails(w)
    PROVE  BaseInv'
<1>1. RelayOK' /\ Alive' = Alive /\ start' = start
  BY DEF LogoutFails, LogoutRaises, WriteRaises, portVars, targetVars, RelayOK, Alive, BaseInv
<1> QED BY <1>1, HandlerGoesOn DEF LogoutFails, Goes, wsVars, BaseInv, EndedIsCut

\* Typing, with and without the port, and when it raises.
LEMMA KeyArrivesBase ==
    ASSUME BaseInv, NEW w \in Conns, KeyArrives(w)
    PROVE  BaseInv'
<1>1. Sid[w] \in Clients
  BY SidAssumption
<1>2. RelayOK' /\ Alive' = Alive /\ start' = start
  BY <1>1, TypesOK DEF KeyArrives, BaseInv, Alive
<1>3. CASE port = "open"
  BY <1>2, <1>3, HandlerGoesOn DEF KeyArrives, BaseInv, HandlersOK
<1>4. CASE port # "open"
  BY <1>2, <1>4, HandlerGoesOn DEF KeyArrives, Finishes, Goes, BaseInv
<1> QED BY <1>3, <1>4

\* Whom a handler tells when it releases: the one connection that waits for the
\* client that is promoted.  Everybody else's promotion is as it was.
LEMMA ReleasesOK ==
    ASSUME BaseInv, NEW w \in Conns, Releases(w)
    PROVE  /\ CMInv' /\ queued_ws' \in [Clients -> Conns \cup {None}]
           /\ promo' \in [Conns -> {"none", "notify", "starting", "done", "failed"}]
           /\ pc' = [pc EXCEPT ![w] = "gone"]
           /\ \A x \in Clients : Queued(x)' =>
                Queued(x) /\ x # Sid[w] /\ queued_ws'[x] = queued_ws[x]
           /\ \A x \in Clients : queued_ws'[x] \in {queued_ws[x], None}
           /\ active # Sid[w] => active' = active /\ UNCHANGED <<queued_ws, promo>>
           /\ active = Sid[w] /\ active' = None => UNCHANGED <<queued_ws, promo>>
           /\ active = Sid[w] /\ active' # None =>
                /\ Queued(active')
                /\ \/ queued_ws[active'] = None /\ promo' = promo
                   \/ \E v \in Conns : /\ v = queued_ws[active']
                                       /\ Sid[v] = active' /\ pc[v] # "new"
                                       /\ promo' = [promo EXCEPT ![v] = "notify"]
<1> USE DEF BaseInv
<1> DEFINE c == Sid[w]
           p == Promoted(c)
<1>1. c \in Clients
  BY SidAssumption
<1>2. Release(c) /\ pc' = [pc EXCEPT ![w] = "gone"]
  BY DEF Releases, Goes
<1>3. /\ \A x \in Clients : Queued(x)' => Queued(x) /\ x # c /\ x # active'
      /\ active = c => active' = p
      /\ active # c => active' = active /\ p = None
      /\ p # None => p \in Clients /\ Queued(p)
  BY <1>1, <1>2, ReleaseEffects
<1>4. CMInv'
  BY <1>1, <1>2, ReleaseInv
<1>5. CASE p = None
  <2>1. UNCHANGED <<queued_ws, promo>>
    BY <1>5 DEF Releases
  <2> HIDE DEF c, p
  <2>2. active = c => active' = None
    BY <1>3, <1>5
  <2> QED BY <1>2, <1>3, <1>4, <2>1, <2>2 DEF HandlersOK, c
<1>6. CASE p # None
  <2>1. /\ queued_ws' = [queued_ws EXCEPT ![p] = None]
        /\ promo' = [v \in Conns |-> IF v = queued_ws[p] THEN "notify" ELSE promo[v]]
    BY <1>6 DEF Releases, Promotes
  <2> HIDE DEF c, p
  <2>2. active = c /\ active' = p /\ p \in Clients /\ Queued(p)
    BY <1>3, <1>6
  <2>3. \/ queued_ws[p] = None /\ promo' = promo
        \/ \E v \in Conns : /\ v = queued_ws[p] /\ Sid[v] = p /\ pc[v] # "new"
                            /\ promo' = [promo EXCEPT ![v] = "notify"]
    <3>1. CASE queued_ws[p] = None
      BY <2>1, <3>1, ConnsAssumption DEF HandlersOK
    <3>2. CASE queued_ws[p] # None
      <4>1. PICK v \in Conns : v = queued_ws[p] /\ Sid[v] = p /\ pc[v] # "new"
        BY <2>2, <3>2 DEF RegisteredOwn, HandlersOK
      <4>2. promo' = [promo EXCEPT ![v] = "notify"]
        BY <2>1, <4>1 DEF HandlersOK
      <4> QED BY <4>1, <4>2
    <3> QED BY <3>1, <3>2
  <2>4. promo' \in [Conns -> {"none", "notify", "starting", "done", "failed"}]
    BY <2>3 DEF HandlersOK
  <2>5. active = Sid[w] /\ active' = p /\ active' # None /\ Queued(active')
    BY <2>2, NoneAssumption DEF c
  <2>6. /\ queued_ws' \in [Clients -> Conns \cup {None}]
        /\ \A x \in Clients : queued_ws'[x] \in {queued_ws[x], None}
        /\ \A x \in Clients : x # active' => queued_ws'[x] = queued_ws[x]
    BY <2>1, <2>2 DEF HandlersOK
  <2>7. \A x \in Clients : Queued(x)' =>
          Queued(x) /\ x # Sid[w] /\ queued_ws'[x] = queued_ws[x]
    BY <1>3, <2>6 DEF c
  <2> HIDE DEF BaseInv
  <2> QED BY <1>2, <1>4, <2>3, <2>4, <2>5, <2>6, <2>7
<1> QED BY <1>5, <1>6

\* The handler of a holder releases the port and may promote its successor.
LEMMA ReleasesBase ==
    ASSUME BaseInv, NEW w \in Conns, pc[w] \in {"closing", "stopping"}, Releases(w),
           UNCHANGED <<closed, left, start, was_active>>,
           Alive' \subseteq Alive, RelayOK'
    PROVE  BaseInv'
<1> USE DEF BaseInv
<1>1. /\ CMInv' /\ queued_ws' \in [Clients -> Conns \cup {None}]
      /\ promo' \in [Conns -> {"none", "notify", "starting", "done", "failed"}]
      /\ pc' = [pc EXCEPT ![w] = "gone"]
      /\ \A x \in Clients : Queued(x)' =>
           Queued(x) /\ x # Sid[w] /\ queued_ws'[x] = queued_ws[x]
      /\ \A x \in Clients : queued_ws'[x] \in {queued_ws[x], None}
  BY ReleasesOK
<1>2. \A v \in Conns : pc[v] = "new" => promo'[v] = promo[v]
  BY ReleasesOK DEF HandlersOK
<1>3. HandlersOK'
  BY <1>1 DEF HandlersOK
<1>4. NewIsFresh' /\ LoopsAreStarted' /\ EndedIsCut'
  BY <1>1, <1>2 DEF NewIsFresh, LoopsAreStarted, EndedIsCut, HandlersOK
<1>5. RegisteredOwn'
  BY <1>1 DEF RegisteredOwn, HandlersOK
<1> QED BY <1>1, <1>3, <1>4, <1>5

\* The finally block of a holder's handler, from logout() to the await in stop().
LEMMA LogoutAndStopBase ==
    ASSUME BaseInv, NEW w \in Conns, LogoutAndStop(w)
    PROVE  BaseInv' /\ shell' = None
<1> USE DEF BaseInv
<1>1. /\ pc[w] = "closing" /\ w \in was_active
      /\ UNCHANGED <<start, shown, closed, left, was_active>>
      /\ shell' = None /\ fresh' \in BOOLEAN
      /\ output' \in {"none", "printing", "buffered"} /\ UNCHANGED <<port, leaked>>
  BY LogsOutOK DEF LogoutAndStop, wsVars
<1>2. CASE StopsAtOnce /\ Releases(w)
  <2>1. RelayOK' /\ Alive' = Alive
    BY <1>1, <1>2 DEF StopsAtOnce, RelayOK, Alive, Calls
  <2> QED BY <1>1, <1>2, <2>1, ReleasesBase
<1>3. CASE StopsLater(<<"stop", w>>) /\ Goes(w, "stopping") /\ UNCHANGED <<managerVars, queued_ws, promo>>
  <2>1. <<"stop", w>> \in Calls
    BY DEF Calls
  <2>2. /\ loop' \in [Conns -> {"none", "run", "cancel", "done"}]
        /\ Alive' = Alive /\ task' = task
        /\ awaited' \in [Calls -> Conns \cup {None}]
    BY <1>3, <2>1, StopsLaterOK
  <2>3. RelayOK'
    BY <1>1, <2>2 DEF RelayOK, Calls
  <2> QED BY <1>1, <1>3, <2>2, <2>3, HandlerGoesOn DEF Goes, EndedIsCut
<1> QED BY <1>1, <1>2, <1>3 DEF LogoutAndStop

\* The await in stop() returns, and the port is released.
LEMMA StopReturnsBase ==
    ASSUME BaseInv, NEW w \in Conns, StopReturns(w)
    PROVE  BaseInv'
<1> USE DEF BaseInv
<1>1. <<"stop", w>> \in Calls
  BY DEF Calls
<1>2. RelayOK' /\ Alive' = Alive
  BY <1>1 DEF StopReturns, StopResumes, RelayOK, Alive, ioVars, portVars, targetVars, Calls
<1> QED BY <1>2, ReleasesBase DEF StopReturns, wsVars

\* The finally block of a handler that was not active when its input loop began.
LEMMA LeaveQueueBase ==
    ASSUME BaseInv, NEW w \in Conns, LeaveQueue(w)
    PROVE  BaseInv'
<1> USE DEF BaseInv
<1>1. Sid[w] \in Clients
  BY SidAssumption
<1>2. /\ pc[w] = "closing" /\ pc' = [pc EXCEPT ![w] = "gone"]
      /\ queued_ws' = [queued_ws EXCEPT ![Sid[w]] = None]
      /\ UNCHANGED <<closed, left, was_active, promo>>
      /\ Release(Sid[w])
  BY DEF LeaveQueue, Goes, GivesUpPlace, wsVars
<1>3. RelayOK' /\ Alive' = Alive /\ start' = start
  BY UnchangedRelay DEF LeaveQueue
<1>4. CMInv' /\ \A x \in Clients : Queued(x)' => Queued(x) /\ x # Sid[w]
  BY <1>1, <1>2, ReleaseInv, ReleaseEffects
<1>5. HandlersOK'
  BY <1>1, <1>2 DEF HandlersOK
<1>6. NewIsFresh' /\ LoopsAreStarted' /\ EndedIsCut'
  BY <1>2, <1>3 DEF NewIsFresh, LoopsAreStarted, EndedIsCut, HandlersOK
<1>7. RegisteredOwn'
  BY <1>1, <1>2, <1>4 DEF RegisteredOwn, HandlersOK
<1> QED BY <1>3, <1>4, <1>5, <1>6, <1>7

\* The promotion's frame was sent; start() begins, or raises.
LEMMA PromotionNotifiesBase ==
    ASSUME BaseInv, NEW w \in Conns, PromotionNotifies(w)
    PROVE  BaseInv'
<1> USE DEF BaseInv
<1>1. /\ start[w] = "idle"
      /\ StartMoves(w, {"stop", "settle", "fresh", "newline", "failed"})
      /\ RelayOK' /\ Alive' = Alive
  BY StartBeginsOK DEF PromotionNotifies
<1>2. /\ promo[w] = "notify"
      /\ \E q \in {"starting", "failed"} : promo' = [promo EXCEPT ![w] = q]
      /\ UNCHANGED <<closed, left, pc, was_active, queued_ws>>
  BY DEF PromotionNotifies, wsVars
<1>3. CMInv' /\ \A x \in Clients : Queued(x)' <=> Queued(x)
  BY QuietCM DEF PromotionNotifies
<1>4. HandlersOK'
  BY <1>2 DEF HandlersOK
<1>5. NewIsFresh' /\ LoopsAreStarted' /\ EndedIsCut'
  BY <1>1, <1>2 DEF NewIsFresh, LoopsAreStarted, EndedIsCut, HandlersOK, RelayOK, StartMoves, Alive
<1>6. RegisteredOwn'
  BY <1>2, <1>3 DEF RegisteredOwn, HandlersOK
<1> QED BY <1>1, <1>3, <1>4, <1>5, <1>6

\* The promotion's frame could not be sent.
LEMMA PromotionFailsBase ==
    ASSUME BaseInv, NEW w \in Conns, PromotionFails(w)
    PROVE  BaseInv'
<1> USE DEF BaseInv
<1>1. RelayOK' /\ Alive' = Alive /\ start' = start
  BY UnchangedRelay DEF PromotionFails
<1>2. /\ promo[w] = "notify" /\ promo' = [promo EXCEPT ![w] = "failed"]
      /\ UNCHANGED <<closed, left, pc, was_active, queued_ws>>
  BY DEF PromotionFails, wsVars
<1>3. CMInv' /\ \A x \in Clients : Queued(x)' <=> Queued(x)
  BY QuietCM DEF PromotionFails
<1>4. HandlersOK'
  BY <1>2 DEF HandlersOK
<1>5. NewIsFresh' /\ LoopsAreStarted' /\ EndedIsCut'
  BY <1>1, <1>2 DEF NewIsFresh, LoopsAreStarted, EndedIsCut, HandlersOK
<1>6. RegisteredOwn'
  BY <1>2, <1>3 DEF RegisteredOwn, HandlersOK
<1> QED BY <1>1, <1>3, <1>4, <1>5, <1>6

\* Where a step of relay.start leaves its caller.
LEMMA StartStepOK ==
    ASSUME BaseInv, NEW w \in Conns, StartStep(w)
    PROVE  /\ start[w] \in {"stop", "settle", "newline", "fresh", "echo"}
           /\ StartMoves(w, {"settle", "fresh", "newline", "echo", "done", "failed"})
           /\ RelayOK' /\ Alive' \subseteq Alive \cup {w}
           /\ w \in Alive' \ Alive => start'[w] = "done"
           /\ UNCHANGED <<closed, left, managerVars, queued_ws>>
           /\ \/ UNCHANGED <<pc, was_active, promo>>
              \/ /\ pc[w] = "starting" /\ EntersInput(w) /\ promo' = promo
              \/ /\ pc[w] = "starting" /\ pc' = [pc EXCEPT ![w] = "crashed"]
                 /\ start'[w] = "failed"
                 /\ UNCHANGED <<was_active, promo>>
              \/ /\ promo[w] = "starting"
                 /\ \E q \in {"done", "failed"} : promo' = [promo EXCEPT ![w] = q]
                 /\ UNCHANGED <<pc, was_active>>
<1>1. StartGoesOn(w)
  BY DEF StartStep, StartGoesOn
<1>2. /\ start[w] \in {"stop", "settle", "newline", "fresh", "echo"}
      /\ StartMoves(w, {"settle", "fresh", "newline", "echo", "done", "failed"})
      /\ RelayOK' /\ Alive' \subseteq Alive \cup {w}
      /\ w \in Alive' \ Alive => start'[w] = "done"
  BY <1>1, StartGoesOnOK DEF BaseInv
<1>3. CASE start'[w] \notin {"done", "failed"}
  BY <1>2, <1>3 DEF StartStep, wsVars
<1>4. CASE start'[w] \in {"done", "failed"} /\ HandlerAfterStart(w)
  <2>1. CASE start'[w] = "done"
    BY <1>2, <1>4, <2>1 DEF StartStep, HandlerAfterStart, wsVars
  <2>2. CASE start'[w] = "failed"
    BY <1>2, <1>4, <2>2 DEF StartStep, HandlerAfterStart, Goes, wsVars
  <2> QED BY <1>4, <2>1, <2>2
<1>5. CASE start'[w] \in {"done", "failed"} /\ PromotionAfterStart(w)
  BY <1>2, <1>5 DEF StartStep, PromotionAfterStart, wsVars
<1> QED BY <1>3, <1>4, <1>5 DEF StartStep

\* A suspended start() goes on, and its caller with it when it returns or raises.
LEMMA StartStepBase ==
    ASSUME BaseInv, NEW w \in Conns, StartStep(w)
    PROVE  BaseInv'
<1> USE DEF BaseInv
<1>1. /\ start[w] \in {"stop", "settle", "newline", "fresh", "echo"}
      /\ StartMoves(w, {"settle", "fresh", "newline", "echo", "done", "failed"})
      /\ RelayOK' /\ Alive' \subseteq Alive \cup {w}
      /\ w \in Alive' \ Alive => start'[w] = "done"
      /\ UNCHANGED <<closed, left, managerVars, queued_ws>>
  BY StartStepOK
<1>2. /\ \E place \in {pc[w], "input", "crashed"} :
            pc' = [pc EXCEPT ![w] = place] /\ (place = "crashed" =>
                pc[w] = "crashed" \/ start'[w] = "failed")
      /\ \E q \in {promo[w], "done", "failed"} : promo' = [promo EXCEPT ![w] = q]
      /\ was_active' \subseteq was_active \cup {w}
  BY StartStepOK, EntersInputOK DEF HandlersOK
<1>3. pc[w] # "new"
  BY <1>1 DEF NewIsFresh
<1>4. CMInv' /\ \A x \in Clients : Queued(x)' <=> Queued(x)
  BY <1>1, QuietCM
<1>5. HandlersOK'
  BY <1>1, <1>2 DEF HandlersOK
<1>6. NewIsFresh' /\ EndedIsCut'
  BY <1>1, <1>2, <1>3 DEF NewIsFresh, EndedIsCut, HandlersOK, RelayOK, StartMoves
<1>7. LoopsAreStarted'
  BY <1>1 DEF LoopsAreStarted, RelayOK, StartMoves, Alive
<1>8. RegisteredOwn'
  BY <1>1, <1>2, <1>3, <1>4 DEF RegisteredOwn, HandlersOK
<1> QED BY <1>1, <1>4, <1>5, <1>6, <1>7, <1>8

\* The steps that change neither the place of a handler or a promotion nor the queue.
Surroundings ==
    \/ \E w \in Conns : RelayLoop(w) \/ BrowserLeaves(w)
    \/ TargetPrints \/ AdapterGoes \/ TimePasses

\* The loops, the target, the adapter and the browsers leave the handlers alone.
LEMMA SurroundingsEffects ==
    ASSUME BaseInv, Surroundings
    PROVE  /\ RelayOK' /\ Alive' \subseteq Alive /\ UNCHANGED <<start, shell>>
           /\ UNCHANGED <<closed, handlerVars, active, queue>>
           /\ \A w \in Conns : w \in left' \ left => ~ Ended(w)
           /\ left \subseteq left' /\ left' \subseteq Conns
           /\ CMInv'
<1> USE DEF BaseInv
<1>1. ASSUME NEW w \in Conns, RelayLoop(w) PROVE
           /\ RelayOK' /\ Alive' \subseteq Alive /\ UNCHANGED <<start, shell>>
           /\ UNCHANGED <<closed, left, handlerVars, managerVars>>
  BY <1>1, LoopStepOK DEF RelayLoop, wsVars
<1>2. ASSUME NEW w \in Conns, BrowserLeaves(w) PROVE
           /\ RelayOK' /\ Alive' \subseteq Alive /\ UNCHANGED <<start, shell>>
           /\ UNCHANGED <<closed, handlerVars, managerVars>>
           /\ ~ Ended(w) /\ left' = left \cup {w}
  BY <1>2, UnchangedRelay DEF BrowserLeaves
<1>3. ASSUME TargetPrints \/ AdapterGoes PROVE
           /\ RelayOK' /\ Alive' \subseteq Alive /\ UNCHANGED <<start, shell>>
           /\ UNCHANGED <<closed, left, handlerVars, managerVars>>
  BY <1>3, SurroundingsOK DEF TargetPrints, AdapterGoes, wsVars, Alive
<1>4. ASSUME TimePasses PROVE
           /\ RelayOK' /\ Alive' \subseteq Alive /\ UNCHANGED <<start, shell>>
           /\ UNCHANGED <<closed, left, handlerVars, active, queue>>
           /\ CMInv'
  BY <1>4, UnchangedRelay, TickInv DEF TimePasses, Tick, wsVars
<1>5. UNCHANGED managerVars => CMInv' /\ UNCHANGED <<active, queue>>
  BY QuietCM DEF managerVars, cmVars
<1> QED BY <1>1, <1>2, <1>3, <1>4, <1>5 DEF Surroundings, HandlersOK

\* Hence they preserve BaseInv.
LEMMA SurroundingsBase ==
    ASSUME BaseInv, Surroundings
    PROVE  BaseInv'
<1> USE DEF BaseInv
<1>1. /\ RelayOK' /\ Alive' \subseteq Alive /\ UNCHANGED <<start, shell>>
      /\ UNCHANGED <<closed, pc, was_active, queued_ws, promo, queue>>
      /\ \A w \in Conns : w \in left' \ left => ~ Ended(w)
      /\ left \subseteq left' /\ left' \subseteq Conns
      /\ CMInv'
  BY SurroundingsEffects DEF handlerVars
<1>2. HandlersOK'
  BY <1>1 DEF HandlersOK
<1>3. NewIsFresh' /\ LoopsAreStarted' /\ EndedIsCut'
  BY <1>1 DEF NewIsFresh, LoopsAreStarted, EndedIsCut, HandlersOK, Ended
<1>4. RegisteredOwn'
  BY <1>1 DEF RegisteredOwn, Queued
<1> QED BY <1>1, <1>2, <1>3, <1>4

\* Before the first connection.
LEMMA InitBase ==
    ASSUME Init
    PROVE  BaseInv
<1>1. CMInv
  BY NoneAssumption, GraceAssumption
     DEF Init, CMInit, CMInv, CMTypeOK, OnePlaceEach, NeverIdleWhileWaiting,
         HolderHasNoGraceEntry, NoEntry, Ages, Expired
<1>2. RelayOK /\ HandlersOK
  BY DEF Init, TargetInit, SerialInit, RelayInit, RelayOK, HandlersOK, Phases, Calls
<1>3. \A c \in Clients : ~ Queued(c)
  <2>1. queue = << >>
    BY DEF Init, CMInit
  <2>2. \A c \in Clients : ~ Contains(<< >>, c)
    BY DEF Contains
  <2> QED BY <2>1, <2>2 DEF Queued
<1>4. NewIsFresh /\ LoopsAreStarted /\ EndedIsCut /\ RegisteredOwn
  BY <1>3 DEF Init, RelayInit, NewIsFresh, LoopsAreStarted, EndedIsCut, RegisteredOwn,
              Alive
<1> QED BY <1>1, <1>2, <1>4 DEF BaseInv

\* A stuttering step.
LEMMA StutterBase ==
    ASSUME BaseInv, UNCHANGED vars
    PROVE  BaseInv'
<1> USE DEF BaseInv
<1>1. /\ UNCHANGED <<ioVars, relayVars, closed, left, managerVars>>
      /\ UNCHANGED <<pc, was_active, queued_ws, promo>>
  BY DEF vars, wsVars, handlerVars
<1>2. RelayOK' /\ Alive' = Alive /\ start' = start
  BY <1>1, UnchangedRelay
<1>3. CMInv' /\ \A x \in Clients : Queued(x)' <=> Queued(x)
  BY <1>1, QuietCM
<1>4. HandlersOK' /\ NewIsFresh' /\ LoopsAreStarted' /\ EndedIsCut'
  BY <1>1, <1>2 DEF HandlersOK, NewIsFresh, LoopsAreStarted, EndedIsCut
<1>5. RegisteredOwn'
  BY <1>1, <1>3 DEF RegisteredOwn
<1> QED BY <1>2, <1>3, <1>4, <1>5

\* Every step of the server preserves BaseInv.
LEMMA NextBase ==
    ASSUME BaseInv, [Next]_vars
    PROVE  BaseInv'
<1>1. ASSUME NEW w \in Conns, Connect(w) \/ HandlerStep(w) \/ KeyArrives(w)
      PROVE  BaseInv'
  BY <1>1, ConnectActiveBase, ConnectQueuedBase, GreetedBase, EnqueuedBase,
     GreetingRaisesBase, InputEndsBase, LogoutAndStopBase, LogoutFailsBase,
     StopReturnsBase, LeaveQueueBase, KeyArrivesBase DEF Connect, HandlerStep
<1>2. ASSUME NEW w \in Conns, PromotionStep(w) \/ StartStep(w)
      PROVE  BaseInv'
  BY <1>2, PromotionNotifiesBase, PromotionFailsBase, StartStepBase DEF PromotionStep
<1>3. CASE Surroundings
  BY <1>3, SurroundingsBase
<1>4. CASE UNCHANGED vars
  BY <1>4, StutterBase
<1> QED BY <1>1, <1>2, <1>3, <1>4 DEF Next, Surroundings

\* What no step undoes, whoever takes it.
LEMMA NothingUndone ==
    ASSUME BaseInv, [Next]_vars
    PROVE  /\ closed \subseteq closed' /\ left \subseteq left' /\ Crashed \subseteq Crashed'
           /\ \A v \in Conns :
                /\ Told(v) => Told(v)'
                /\ promo[v] # "none" => promo'[v] # "none"
                /\ pc[v] # "new" => pc'[v] # "new"
                /\ pc[v] \in {"gone", "crashed"} => pc'[v] = pc[v]
<1> USE DEF BaseInv
<1> DEFINE Kept == /\ closed \subseteq closed' /\ left \subseteq left'
                   /\ \A v \in Conns :
                        /\ start[v] # "idle" => start'[v] # "idle"
                        /\ promo[v] # "none" => promo'[v] # "none"
                        /\ pc[v] # "new" => pc'[v] # "new"
                        /\ pc[v] \in {"gone", "crashed"} => pc'[v] = pc[v]
<1>1. ASSUME NEW w \in Conns, Connect(w) PROVE Kept
  BY <1>1 DEF Connect, ConnectActive, ConnectQueued, MayConnect, Goes, HandlersOK, relayVars, wsVars
<1>2. ASSUME NEW w \in Conns, Greeted(w) PROVE Kept
  BY <1>2, StartBeginsOK DEF Greeted, Goes, StartMoves, RelayOK, HandlersOK, wsVars
<1>3. ASSUME NEW w \in Conns, Enqueued(w) \/ GreetingRaises(w) \/ InputEnds(w)
      PROVE  Kept
  BY <1>3 DEF Enqueued, EntersInput, GreetingRaises, InputEnds, Finishes, Goes, HandlersOK,
              relayVars, wsVars
<1>4. ASSUME NEW w \in Conns, Releases(w), pc[w] \in {"closing", "stopping"},
             UNCHANGED <<start, closed, left>>
      PROVE  Kept
  <2>1. \A v \in Conns : promo[v] # "none" => promo'[v] # "none"
    BY <1>4, ReleasesOK DEF HandlersOK
  <2> QED BY <1>4, <2>1, ReleasesOK DEF HandlersOK
<1>5. ASSUME NEW w \in Conns, LogoutAndStop(w) \/ LogoutFails(w) \/ StopReturns(w)
      PROVE  Kept
  BY <1>4, <1>5 DEF LogoutAndStop, LogoutFails, StopReturns, Goes, HandlersOK, wsVars
<1>6. ASSUME NEW w \in Conns, LeaveQueue(w) PROVE Kept
  BY <1>6 DEF LeaveQueue, Goes, HandlersOK, relayVars, wsVars
<1>7. ASSUME NEW w \in Conns, KeyArrives(w) PROVE Kept
  BY <1>7 DEF KeyArrives, Types, Finishes, Goes, HandlersOK, relayVars
<1>8. ASSUME NEW w \in Conns, PromotionStep(w) PROVE Kept
  BY <1>8, StartBeginsOK
     DEF PromotionStep, PromotionNotifies, PromotionFails, StartMoves, RelayOK, HandlersOK,
         relayVars, wsVars
<1>9. ASSUME NEW w \in Conns, StartStep(w) PROVE Kept
  <2>1. /\ UNCHANGED <<closed, left>>
        /\ \A v \in Conns : start[v] # "idle" => start'[v] # "idle"
    BY <1>9, StartStepOK DEF StartMoves, RelayOK
  <2> QED BY <1>9, <2>1, StartStepOK, EntersInputOK DEF HandlersOK
<1>10. ASSUME Surroundings PROVE Kept
  BY <1>10, SurroundingsEffects DEF handlerVars
<1>11. ASSUME UNCHANGED vars PROVE Kept
  BY <1>11 DEF vars, relayVars, wsVars, handlerVars
<1>12. Kept
  BY <1>1, <1>2, <1>3, <1>5, <1>6, <1>7, <1>8, <1>9, <1>10, <1>11
     DEF Next, HandlerStep, Surroundings
<1> QED BY <1>12 DEF Told, Crashed

-----------------------------------------------------------------------------
(* Waiting clients stay registered, as long as nobody but a handler or a   *)
(* promotion clears _queued_ws.                                            *)

\* The queue gains nobody, registrations of those who wait stay, and the registered
\* handlers do not end.
LEMMA QuietWaiters ==
    ASSUME BaseInv, WaitersRegistered,
           \A x \in Clients : Queued(x)' => Queued(x) /\ queued_ws'[x] = queued_ws[x],
           \A v \in Conns : pc'[v] = "gone" => pc[v] = "gone" \/ ~ Queued(Sid[v])'
    PROVE  WaitersRegistered'
<1> SUFFICES ASSUME NEW x \in Clients, Queued(x)'
             PROVE  queued_ws'[x] # None /\ pc'[queued_ws'[x]] # "gone"
  BY DEF WaitersRegistered
<1>1. /\ queued_ws'[x] = queued_ws[x] /\ queued_ws[x] # None
      /\ pc[queued_ws[x]] # "gone"
  BY DEF WaitersRegistered
<1>2. queued_ws[x] \in Conns /\ Sid[queued_ws[x]] = x
  BY <1>1 DEF BaseInv, RegisteredOwn, HandlersOK
<1> QED BY <1>1, <1>2

\* The steps that leave the manager and the registrations alone.
LEMMA UnregisteringNobody ==
    ASSUME BaseInv, WaitersRegistered, UNCHANGED <<managerVars, queued_ws>>,
           \A v \in Conns : pc'[v] = "gone" => pc[v] = "gone"
    PROVE  WaitersRegistered'
BY QuietCM, QuietWaiters DEF BaseInv

\* A handler releases: its own client no longer waits.
LEMMA ReleasesWaiters ==
    ASSUME BaseInv, WaitersRegistered, NEW w \in Conns, Releases(w)
    PROVE  WaitersRegistered'
<1>1. \A v \in Conns : pc'[v] = "gone" => pc[v] = "gone" \/ v = w
  BY ReleasesOK DEF BaseInv, HandlersOK
<1> QED BY <1>1, ReleasesOK, QuietWaiters, SidAssumption

\* Every step of the server keeps waiting clients registered.
LEMMA NextWaiters ==
    ASSUME BaseInv, WaitersRegistered, [Next]_vars
    PROVE  WaitersRegistered'
<1> USE DEF BaseInv
<1>1. ASSUME NEW w \in Conns, ConnectActive(w) PROVE WaitersRegistered'
  <2>1. /\ UNCHANGED <<queue, queued_ws>> /\ pc' = [pc EXCEPT ![w] = "greet"]
    BY <1>1 DEF ConnectActive, Goes, ReconnectGranted, AcquireHeld, AcquireFree, cmVars
  <2> QED BY <2>1, QuietWaiters DEF Queued, HandlersOK
<1>2. ASSUME NEW w \in Conns, ConnectQueued(w) PROVE WaitersRegistered'
  <2>1. /\ pc' = [pc EXCEPT ![w] = "enqueue"]
        /\ queued_ws' = [queued_ws EXCEPT ![Sid[w]] = w]
        /\ \A x \in Clients : Queued(x)' <=> Queued(x) \/ x = Sid[w]
    BY <1>2, ConnectQueuedBase DEF ConnectQueued, Goes, Registers
  <2> QED BY <2>1, ConnsAssumption, SidAssumption DEF WaitersRegistered, RegisteredOwn, HandlersOK
<1>3. ASSUME NEW w \in Conns, Greeted(w) \/ Enqueued(w) \/ GreetingRaises(w) \/ InputEnds(w)
      PROVE  WaitersRegistered'
  BY <1>3, UnregisteringNobody
     DEF Greeted, Enqueued, EntersInput, GreetingRaises, InputEnds, Finishes, Goes, HandlersOK
<1>4. ASSUME NEW w \in Conns, LogoutAndStop(w) PROVE WaitersRegistered'
  BY <1>4, ReleasesWaiters, UnregisteringNobody DEF LogoutAndStop, Goes, HandlersOK
<1>5. ASSUME NEW w \in Conns, LogoutFails(w) PROVE WaitersRegistered'
  BY <1>5, UnregisteringNobody DEF LogoutFails, Goes, HandlersOK
<1>6. ASSUME NEW w \in Conns, StopReturns(w) PROVE WaitersRegistered'
  BY <1>6, ReleasesWaiters DEF StopReturns
<1>7. ASSUME NEW w \in Conns, LeaveQueue(w) PROVE WaitersRegistered'
  <2>1. /\ queued_ws' = [queued_ws EXCEPT ![Sid[w]] = None]
        /\ pc' = [pc EXCEPT ![w] = "gone"] /\ Sid[w] \in Clients
    BY <1>7, SidAssumption DEF LeaveQueue, Goes
  <2>2. \A x \in Clients : Queued(x)' => Queued(x) /\ x # Sid[w]
    BY <1>7, <2>1, ReleaseEffects DEF LeaveQueue, GivesUpPlace
  <2> QED BY <2>1, <2>2, QuietWaiters DEF HandlersOK
<1>8. ASSUME NEW w \in Conns, KeyArrives(w) PROVE WaitersRegistered'
  BY <1>8, UnregisteringNobody DEF KeyArrives, Finishes, Goes, HandlersOK
<1>9. ASSUME NEW w \in Conns, PromotionStep(w) PROVE WaitersRegistered'
  BY <1>9, UnregisteringNobody DEF PromotionStep, PromotionNotifies, PromotionFails
<1>10. ASSUME NEW w \in Conns, StartStep(w) PROVE WaitersRegistered'
  BY <1>10, StartStepOK, EntersInputOK, UnregisteringNobody DEF HandlersOK
<1>11. CASE Surroundings
  <2>1. UNCHANGED <<queue, queued_ws, pc>>
    BY <1>11, SurroundingsEffects DEF handlerVars
  <2> QED BY <2>1, QuietWaiters DEF Queued
<1>12. CASE UNCHANGED vars
  BY <1>12, UnregisteringNobody DEF vars, handlerVars
<1> QED
  BY <1>1, <1>2, <1>3, <1>4, <1>5, <1>6, <1>7, <1>8, <1>9, <1>10, <1>11, <1>12
     DEF Next, Connect, HandlerStep, Surroundings

\* Nobody waits yet.
LEMMA InitWaiters ==
    ASSUME Init
    PROVE  WaitersRegistered
<1>1. queue = << >>
  BY DEF Init, CMInit
<1>2. \A c \in Clients : ~ Contains(<< >>, c)
  BY DEF Contains
<1> QED BY <1>1, <1>2 DEF Queued, WaitersRegistered

\* In every reachable state of the server the manager's invariants hold under its real
\* callers, what a handler, a promotion and the relay have recorded about one
\* connection agrees (_queued_ws, _task, ws.closed), and no waiting client is unreachable.
THEOREM ServerBase == Spec => [](BaseInv /\ WaitersRegistered)
<1>1. Init => BaseInv /\ WaitersRegistered
  BY InitBase, InitWaiters
<1>2. BaseInv /\ WaitersRegistered /\ [Next]_vars => (BaseInv /\ WaitersRegistered)'
  BY NextBase, NextWaiters
<1> QED BY <1>1, <1>2, PTL DEF Spec

\* Type correctness.
THEOREM ServerTypeOK == Spec => []TypeOK
<1>1. BaseInv => TypeOK
  BY TypeParts DEF BaseInv, CMInv
<1> QED BY <1>1, ServerBase, PTL

\* Every waiting client can be promoted.
THEOREM ServerWaitersAreReachable == Spec => []WaitersAreReachable
<1>1. BaseInv /\ WaitersRegistered => WaitersAreReachable
  BY WaitersEquivalent DEF BaseInv, CMInv
<1> QED BY <1>1, ServerBase, PTL

-----------------------------------------------------------------------------
(* What the handlers do to the manager is what ClientLine allows.          *)

\* A handler calls the manager for its own client, so each step of the server is one
\* of the line of clients.
LEMMA StepIsInLine ==
    ASSUME BaseInv, [Next]_vars
    PROVE  [Line!LineNext]_PortLine
<1> USE DEF BaseInv
<1> SUFFICES Line!LineNext \/ UNCHANGED PortLine
  OBVIOUS
<1>1. ASSUME UNCHANGED managerVars \/ UNCHANGED <<active, queue>> PROVE UNCHANGED PortLine
  BY <1>1 DEF managerVars, cmVars, PortLine
<1>2. ASSUME NEW w \in Conns, ConnectActive(w) PROVE Line!LineNext \/ UNCHANGED PortLine
  <2>1. Sid[w] \in Clients
    BY SidAssumption
  <2>2. Acquire(Sid[w])
    BY <1>2, <2>1, ReconnectIsAcquire DEF ConnectActive, Acquire
  <2> QED BY <2>1, <2>2, AcquireIsJoin DEF Line!LineNext
<1>3. ASSUME NEW w \in Conns, ConnectQueued(w) PROVE Line!LineNext \/ UNCHANGED PortLine
  <2>1. Sid[w] \in Clients /\ active' = active /\ active # Sid[w]
    BY <1>3, SidAssumption DEF ConnectQueued
  <2>2. CASE UNCHANGED queue
    BY <1>1, <2>1, <2>2
  <2>3. CASE active # None /\ ~ Queued(Sid[w]) /\ queue' = Append(queue, Sid[w])
    BY <2>1, <2>3, WaitIsJoin DEF Line!LineNext
  <2> QED BY <1>3, <2>2, <2>3 DEF ConnectQueued, QueuesUp
<1>4. ASSUME NEW c \in Clients, Release(c) PROVE Line!LineNext \/ UNCHANGED PortLine
  BY <1>4, ReleaseIsLeave DEF Line!LineNext
<1>5. ASSUME NEW w \in Conns, LogoutAndStop(w) \/ StopReturns(w) \/ LeaveQueue(w)
      PROVE  Line!LineNext \/ UNCHANGED PortLine
  <2>1. Release(Sid[w]) \/ UNCHANGED managerVars
    BY <1>5 DEF LogoutAndStop, StopReturns, LeaveQueue, Releases, GivesUpPlace
  <2> QED BY <1>1, <1>4, <2>1, SidAssumption
<1>6. ASSUME NEW w \in Conns,
             \/ Greeted(w) \/ Enqueued(w) \/ GreetingRaises(w) \/ InputEnds(w)
             \/ LogoutFails(w) \/ KeyArrives(w) \/ PromotionStep(w) \/ StartStep(w)
      PROVE  UNCHANGED managerVars
  BY <1>6 DEF Greeted, Enqueued, GreetingRaises, InputEnds, LogoutFails, KeyArrives,
              PromotionStep, PromotionNotifies, PromotionFails, StartStep
<1>7. CASE Surroundings
  BY <1>1, <1>7, SurroundingsEffects
<1>8. CASE UNCHANGED vars
  BY <1>1, <1>8 DEF vars
<1> QED
  BY <1>1, <1>2, <1>3, <1>5, <1>6, <1>7, <1>8 DEF Next, Connect, HandlerStep, Surroundings

(* Whatever the handlers, the promotions and their failures do in between, *)
(* the clients form one line: nobody joins it twice, nobody is overtaken.  *)
THEOREM ServerPortIsALine == Spec => PortIsALine
<1>1. Init => Line!LineInit
  BY DEF Init, CMInit, Line!LineInit, PortLine
<1>2. BaseInv /\ [Next]_vars => [Line!LineNext]_PortLine
  BY StepIsInLine
<1> QED BY <1>1, <1>2, ServerBase, PTL DEF Spec, PortIsALine, ImplementsLine, Line!LineSpec

-----------------------------------------------------------------------------
(* Who waits moves up                                                      *)

\* In this step no place of c becomes one further behind, or a new one.
MovesUp(c) ==
    \A j \in 1 .. Len(queue') : queue'[j] = c =>
        \E i \in 1 .. Len(queue) : i >= j /\ queue[i] = c

\* While the queue stays, so does everybody in it.
LEMMA QueueStays ==
    ASSUME CMInv, UNCHANGED queue, NEW c
    PROVE  MovesUp(c)
BY DEF MovesUp, CMInv, CMTypeOK

\* A connection moves nobody back but its own client.
LEMMA ConnectMovesUp ==
    ASSUME BaseInv, NEW v \in Conns, Connect(v), NEW c \in Clients, c # Sid[v]
    PROVE  MovesUp(c)
<1>1. CMInv
  BY DEF BaseInv
<1>2. CASE UNCHANGED queue
  BY <1>1, <1>2, QueueStays
<1>3. CASE queue' = Append(queue, Sid[v])
  <2>1. queue \in Seq(Clients) /\ Sid[v] \in Clients /\ Len(queue) \in Nat
    BY <1>1, SidAssumption DEF CMInv, CMTypeOK
  <2>2. /\ Len(queue') = Len(queue) + 1 /\ queue'[Len(queue) + 1] = Sid[v]
        /\ \A j \in 1 .. Len(queue) : queue'[j] = queue[j]
    BY <1>3, <2>1
  <2> QED BY <2>1, <2>2 DEF MovesUp
<1> QED BY <1>2, <1>3
        DEF Connect, ConnectActive, ConnectQueued, QueuesUp, ReconnectGranted, AcquireHeld,
            AcquireFree, cmVars

\* A release moves nobody back.
LEMMA ReleaseMoves ==
    ASSUME CMInv, NEW d \in Clients, Release(d), NEW c \in Clients
    PROVE  MovesUp(c)
<1> SUFFICES ASSUME NEW j \in 1 .. Len(queue'), queue'[j] = c
             PROVE  \E i \in 1 .. Len(queue) : i >= j /\ queue[i] = c
  BY DEF MovesUp
<1>1. CMInv'
  BY ReleaseInv
<1>2. Queued(c) /\ c # d /\ c # active'
  BY ReleaseEffects DEF Queued, Contains
<1>3. PICK i \in 1 .. Len(queue) : queue[i] = c
  BY <1>2 DEF Queued, Contains
<1>4. PICK k \in 1 .. Len(queue') : k <= i /\ queue'[k] = c
  BY <1>2, <1>3, ReleaseMovesUp
<1>5. k = j
  BY <1>1, <1>4 DEF CMInv, OnePlaceEach
<1> QED BY <1>3, <1>4, <1>5

\* The steps of the server other than connections.
BesidesConnect ==
    \/ \E w \in Conns : HandlerStep(w) \/ KeyArrives(w) \/ PromotionStep(w) \/ StartStep(w)
    \/ Surroundings
    \/ UNCHANGED vars

\* They move nobody back.
LEMMA OthersMoveUp ==
    ASSUME BaseInv, BesidesConnect, NEW c \in Clients
    PROVE  MovesUp(c)
<1>1. CMInv
  BY DEF BaseInv
<1>2. ASSUME UNCHANGED managerVars PROVE MovesUp(c)
  BY <1>1, <1>2, QueueStays DEF managerVars, cmVars
<1>3. ASSUME NEW w \in Conns, HandlerStep(w) PROVE Release(Sid[w]) \/ UNCHANGED managerVars
  BY <1>3 DEF HandlerStep, Greeted, Enqueued, GreetingRaises, InputEnds, LogoutAndStop,
              LogoutFails, StopReturns, LeaveQueue, Releases, GivesUpPlace
<1>4. ASSUME NEW w \in Conns, KeyArrives(w) \/ PromotionStep(w) \/ StartStep(w)
      PROVE  UNCHANGED managerVars
  BY <1>4 DEF KeyArrives, PromotionStep, PromotionNotifies, PromotionFails, StartStep
<1>5. ASSUME NEW w \in Conns, HandlerStep(w) PROVE MovesUp(c)
  BY <1>1, <1>2, <1>3, <1>5, ReleaseMoves, SidAssumption
<1>6. CASE Surroundings
  BY <1>1, <1>6, SurroundingsEffects, QueueStays
<1>7. CASE UNCHANGED vars
  BY <1>2, <1>7 DEF vars
<1> QED BY <1>2, <1>4, <1>5, <1>6, <1>7 DEF BesidesConnect

-----------------------------------------------------------------------------
(* The port, when the adapter stays plugged in and opens when asked        *)

\* Before the first start() the port is closed; afterwards only a kick closes it,
\* and for as long as it lets the target settle.
PortInv ==
    /\ port # "broken"
    /\ port = "closed" =>
        (\A v \in Conns : start[v] = "idle") \/ \E v \in Conns : start[v] = "settle"

\* What a step of any task may do to the port.
PortMoves ==
    \/ port' = "open"
    \/ port' = "closed" /\ \E v \in Conns : start'[v] = "settle"
    \/ UNCHANGED <<port, start>>

\* PortInv, when one start() moves on to a phase that does not need the port.
LEMMA PortMovesInv ==
    ASSUME PortInv, PortMoves
    PROVE  PortInv'
BY DEF PortInv, PortMoves

\* The beginning of the kick leaves the port as PortInv wants it.
LEMMA KicksPort ==
    ASSUME RelayOK, ~ Faults, NEW w \in Conns, Kicks(w)
    PROVE  PortMoves
BY DEF Kicks, Closes, Reopens, Opens, OpenRaises, RelayOK, PortMoves

\* A start that goes on while another one lets the target settle.
LEMMA OthersSettle ==
    ASSUME RelayOK, PortInv, NEW w \in Conns, start[w] # "settle",
           \E v \in Conns : start[v] # "idle",
           NEW s \in Phases, start' = [start EXCEPT ![w] = s],
           port' = port
    PROVE  PortMoves
BY DEF RelayOK, PortInv, PortMoves

\* start() begins.
LEMMA StartBeginsPort ==
    ASSUME RelayOK, LoopsAreStarted, PortInv, ~ Faults, NEW w \in Conns, StartBegins(w)
    PROVE  PortMoves
<1>1. CASE Kicks(w)
  BY <1>1, KicksPort
<1>2. CASE StopsLater(<<"start", w>>) /\ start' = [start EXCEPT ![w] = "stop"]
           /\ UNCHANGED ioVars
  <2>1. \E v \in Conns : start[v] # "idle"
    BY <1>2 DEF StopsLater, LoopsAreStarted, Alive
  <2>2. start[w] = "idle"
    BY DEF StartBegins
  <2> QED BY <1>2, <2>1, <2>2, OthersSettle DEF ioVars, portVars, Phases
<1> QED BY <1>1, <1>2 DEF StartBegins

\* start() goes on.
LEMMA StartGoesOnPort ==
    ASSUME RelayOK, PortInv, ~ Faults, NEW w \in Conns, StartGoesOn(w)
    PROVE  PortMoves
<1>1. CASE StartResumes(w)
  BY <1>1, KicksPort DEF StartResumes
<1>2. CASE KickSettled(w)
  BY <1>2 DEF KickSettled, Reopens, Opens, OpenRaises, PortMoves
<1>3. CASE KickNewline(w)
  BY <1>3, OthersSettle DEF KickNewline, Writes, WriteRaises, portVars, Phases
<1>4. CASE StartReturns(w)
  BY <1>4, OthersSettle DEF StartReturns, ioVars, portVars, Phases
<1> QED BY <1>1, <1>2, <1>3, <1>4 DEF StartGoesOn

\* Without faults every step preserves PortInv.
LEMMA NextPort ==
    ASSUME BaseInv, PortInv, ~ Faults, [Next]_vars
    PROVE  PortInv'
<1> USE DEF BaseInv
<1> SUFFICES PortMoves
  BY PortMovesInv
<1>1. ASSUME NEW w \in Conns, Connect(w) PROVE PortMoves
  BY <1>1 DEF Connect, ConnectActive, ConnectQueued, ioVars, portVars, relayVars, PortMoves
<1>2. ASSUME NEW w \in Conns, Greeted(w) PROVE PortMoves
  BY <1>2, StartBeginsPort DEF Greeted
<1>3. ASSUME NEW w \in Conns, Enqueued(w) \/ GreetingRaises(w) \/ InputEnds(w) \/ LeaveQueue(w)
      PROVE  PortMoves
  BY <1>3 DEF Enqueued, GreetingRaises, InputEnds, LeaveQueue, ioVars, portVars, relayVars,
              PortMoves
<1>4. ASSUME NEW w \in Conns, LogoutAndStop(w) \/ LogoutFails(w) \/ StopReturns(w)
      PROVE  PortMoves
  BY <1>4 DEF LogoutAndStop, LogsOut, Writes, LogoutFails, LogoutRaises, WriteRaises,
              StopReturns, ioVars, portVars, PortMoves
<1>5. ASSUME NEW w \in Conns, KeyArrives(w) PROVE PortMoves
  BY <1>5 DEF KeyArrives, Types, Writes, WriteRaises, portVars, relayVars, PortMoves
<1>6. ASSUME NEW w \in Conns, PromotionStep(w) PROVE PortMoves
  <2>1. CASE PromotionNotifies(w)
    BY <2>1, StartBeginsPort DEF PromotionNotifies
  <2>2. CASE PromotionFails(w)
    BY <2>2 DEF PromotionFails, ioVars, portVars, relayVars, PortMoves
  <2> QED BY <1>6, <2>1, <2>2 DEF PromotionStep
<1>7. ASSUME NEW w \in Conns, StartStep(w) PROVE PortMoves
  BY <1>7, StartGoesOnPort DEF StartStep, StartGoesOn
<1>8. ASSUME NEW w \in Conns, RelayLoop(w) PROVE PortMoves
  BY <1>8 DEF RelayLoop, LoopStep, LoopForwards, LoopEnds, LoopCancelled, LoopMissesCancel,
              Reads, ioVars, portVars, PortMoves
<1>9. ASSUME NEW w \in Conns, BrowserLeaves(w) PROVE PortMoves
  BY <1>9 DEF BrowserLeaves, ioVars, portVars, relayVars, PortMoves
<1>10. CASE TargetPrints \/ AdapterGoes \/ TimePasses
  BY <1>10 DEF TargetPrints, Prints, AdapterGoes, Unplug, TimePasses, ioVars, portVars,
               relayVars, PortMoves
<1>11. CASE UNCHANGED vars
  BY <1>11 DEF vars, ioVars, portVars, relayVars, PortMoves
<1> QED
  BY <1>1, <1>2, <1>3, <1>4, <1>5, <1>6, <1>7, <1>8, <1>9, <1>10, <1>11
     DEF Next, HandlerStep

\* Before the first connection.
LEMMA InitPort ==
    ASSUME Init
    PROVE  PortInv
BY DEF Init, SerialInit, RelayInit, PortInv

\* The handlers that leave their input loop in a step: that of a lost WebSocket, or
\* of a keystroke that the port did not take.
LEMMA WhoFinishes ==
    ASSUME BaseInv, [Next]_vars, NEW w \in Conns, pc[w] = "input", pc'[w] = "closing"
    PROVE  InputEnds(w) \/ (KeyArrives(w) /\ port # "open")
<1> USE DEF BaseInv, HandlersOK
<1>1. ASSUME NEW v \in Conns, Connect(v) PROVE FALSE
  BY <1>1 DEF Connect, ConnectActive, ConnectQueued, MayConnect, Goes
<1>2. ASSUME NEW v \in Conns, Greeted(v) \/ GreetingRaises(v) \/ Enqueued(v) PROVE FALSE
  BY <1>2 DEF Greeted, GreetingRaises, Enqueued, EntersInput, Goes
<1>3. ASSUME NEW v \in Conns, LogoutAndStop(v) \/ LogoutFails(v) \/ StopReturns(v) \/ LeaveQueue(v)
      PROVE  FALSE
  BY <1>3 DEF LogoutAndStop, LogoutFails, StopReturns, LeaveQueue, Releases, Goes
<1>4. ASSUME NEW v \in Conns, InputEnds(v) PROVE v = w
  BY <1>4 DEF InputEnds, Finishes, Goes
<1>5. ASSUME NEW v \in Conns, KeyArrives(v) PROVE v = w /\ port # "open"
  BY <1>5 DEF KeyArrives, Finishes, Goes
<1>6. ASSUME NEW v \in Conns, PromotionStep(v) PROVE FALSE
  BY <1>6 DEF PromotionStep, PromotionNotifies, PromotionFails
<1>7. ASSUME NEW v \in Conns, StartStep(v) PROVE FALSE
  BY <1>7, StartStepOK, EntersInputOK
<1>8. CASE Surroundings
  BY <1>8, SurroundingsEffects DEF handlerVars
<1>9. CASE UNCHANGED vars
  BY <1>9 DEF vars, handlerVars
<1> QED
  BY <1>1, <1>2, <1>3, <1>4, <1>5, <1>6, <1>7, <1>8, <1>9 DEF Next, HandlerStep, Surroundings

\* What is typed ends a handler only while a kick has the port closed.
THEOREM ServerTypingFailsOnlyInKick ==
    ASSUME ~ Faults PROVE Spec => TypingFailsOnlyInKick
<1>1. Init => PortInv
  BY InitPort
<1>2. BaseInv /\ PortInv /\ [Next]_vars => PortInv'
  BY NextPort
<1>3. BaseInv /\ PortInv /\ [Next]_vars =>
        \A w \in Conns : pc[w] = "input" /\ pc'[w] = "closing" =>
            \/ w \in left \cup closed
            \/ port = "broken"
            \/ \E v \in Conns : start[v] = "settle"
  <2> SUFFICES ASSUME BaseInv, PortInv, [Next]_vars, NEW w \in Conns,
                      pc[w] = "input", pc'[w] = "closing"
               PROVE  w \in left \cup closed \/ \E v \in Conns : start[v] = "settle"
    OBVIOUS
  <2>1. CASE InputEnds(w)
    BY <2>1 DEF InputEnds
  <2>2. CASE KeyArrives(w) /\ port # "open"
    BY <2>2 DEF KeyArrives, HasTerminal, Told, PortInv, BaseInv, RelayOK
  <2> QED BY <2>1, <2>2, WhoFinishes
<1> QED BY <1>1, <1>2, <1>3, ServerBase, PTL DEF Spec, TypingFailsOnlyInKick
=============================================================================
