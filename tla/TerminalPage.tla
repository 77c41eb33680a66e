---------------------------- MODULE TerminalPage ----------------------------
(***************************************************************************)
(* web/index.html in every tab, composed with the server: what a page      *)
(* shows follows from the frames that reach it, in order, on a WebSocket   *)
(* that may be lost at any moment.  The page keeps its terminal across     *)
(* reconnections; only loading the document again forgets it.              *)
(***************************************************************************)
EXTENDS SerialTermServer

CONSTANTS
    PrintedPlaces,  \* the places that a JSON object printed by the target may name
    MaxDown         \* bound: no such object joins this many frames on their way

ASSUME PrintedAssumption == PrintedPlaces \subseteq Nat

VARIABLES
    down,   \* per connection, the frames on their way to the page
    ws,     \* per tab, its WebSocket; None: a retry or a load is pending
    term,   \* the tabs whose terminal exists
    view    \* per tab, what it shows

pageVars == <<down, ws, term, view>>
endToEndVars == <<vars, pageVars>>

\* Frames.  Successive frames of output count as one.
Active     == [type |-> "active"]
Output     == [type |-> "output"]
InQueue(p) == [type |-> "queue", position |-> p]

\* Views.  Place 0: the overlay says "Connection lost" and names no place.
Blank      == [shows |-> "nothing"]
Terminal   == [shows |-> "terminal"]
Waiting(p) == [shows |-> "waiting", place |-> p]

Places == 1 .. Cardinality(Clients)

PageInit ==
    /\ Init
    /\ down = [w \in Conns |-> <<>>]
    /\ ws = [t \in Clients |-> None]
    /\ term = {}
    /\ view = [t \in Clients |-> Blank]

-----------------------------------------------------------------------------
(* The server's steps that send a frame *)

\* What is sent to a browser that is gone goes nowhere.
SendsFrame(w, frame) ==
    down' = IF w \in left \/ (frame = Output /\ down[w] # <<>> /\ Last(down[w]) = Output)
            THEN down
            ELSE [down EXCEPT ![w] = Append(@, frame)]

\* connect(): a new WebSocket for a tab that has none.
OpensWs(w) ==
    /\ ws[Sid[w]] = None
    /\ ws' = [ws EXCEPT ![Sid[w]] = w]
    /\ UNCHANGED <<term, view>>

OpensActive(w) == ConnectActive(w) /\ OpensWs(w) /\ SendsFrame(w, Active)

\* json.dumps(result): the place that acquire() has given.  Mutant: counted
\* from the client ahead.
PlaceAhead(c) == Position(c)' - 1
PlaceGiven(c) == Position(c)'
OpensQueued(w) ==
    ConnectQueued(w) /\ OpensWs(w) /\ SendsFrame(w, InQueue(PlaceGiven(Sid[w])))

\* Mutant: the relay starts for a page that is not told.
TellsNobody(w) == UNCHANGED down
TellsPromoted(w) == SendsFrame(w, Active)
Promotion(w) ==
    /\ PromotionNotifies(w)
    /\ TellsPromoted(w)
    /\ UNCHANGED <<ws, term, view>>

\* A chunk of output, as the page will read it: nothing tells the JSON object that
\* a program on the target has printed from a message of the server.
Chunks(w) ==
    {Output} \cup IF Len(down[w]) < MaxDown
                    THEN {Active} \cup {InQueue(p) : p \in PrintedPlaces}
                    ELSE {}

\* A chunk that was read goes out unless the loop ended in sending it.
ForwardsOutput(w) ==
    /\ RelayLoop(w)
    /\ IF output = "buffered" /\ output' = "none" /\ loop'[w] = "run"
          THEN \E chunk \in Chunks(w) : SendsFrame(w, chunk)
          ELSE UNCHANGED down
    /\ UNCHANGED <<ws, term, view>>

\* A keystroke comes from a terminal, be it hidden, and needs an open WebSocket.
PageTypes(w) ==
    /\ ws[Sid[w]] = w
    /\ Sid[w] \in term
    /\ KeyArrives(w)
    /\ UNCHANGED pageVars

ServerAlone ==
    /\ \/ \E w \in Conns : HandlerStep(w) \/ PromotionFails(w) \/ StartStep(w)
       \/ TargetPrints \/ AdapterGoes \/ TimePasses
    /\ UNCHANGED pageVars

-----------------------------------------------------------------------------
(* The page *)

\* showTerminal, showWaiting.  Mutant: the overlay does not hide a terminal.
OverlaysBeneath(t, place) ==
    view' = IF t \in term THEN view ELSE [view EXCEPT ![t] = Waiting(place)]
Overlays(t, place) == view' = [view EXCEPT ![t] = Waiting(place)]
ShowsTerminal(t) == view' = [view EXCEPT ![t] = Terminal] /\ term' = term \cup {t}

\* onmessage.  Output goes to the terminal, if there is one.
Receives(t) ==
    LET w == ws[t] IN
    /\ w # None /\ w \notin left
    /\ down[w] # <<>>
    /\ LET frame == Head(down[w]) IN
        \/ frame = Active /\ ShowsTerminal(t)
        \/ frame = Output /\ UNCHANGED <<term, view>>
        \/ frame.type = "queue" /\ Overlays(t, frame.position) /\ UNCHANGED term
    /\ down' = [down EXCEPT ![w] = Tail(@)]
    /\ UNCHANGED <<vars, ws>>

\* onclose: the network has failed, or the server has closed and all that it had
\* sent has arrived.  A retry is armed; a terminal stays as it is.
WsCloses(t) ==
    LET w == ws[t] IN
    /\ \/ w \in left
       \/ w \in closed \cup Crashed /\ down[w] = <<>>
    /\ ws' = [ws EXCEPT ![t] = None]
    /\ IF t \in term THEN UNCHANGED view ELSE Overlays(t, 0)
    /\ UNCHANGED <<vars, down, term>>

\* The network fails: what was on its way is lost, and the two ends notice some day.
NetworkFails(w) ==
    /\ BrowserLeaves(w)
    /\ down' = [down EXCEPT ![w] = <<>>]
    /\ UNCHANGED <<ws, term, view>>

\* The document is loaded again, or the tab is closed: sessionStorage keeps the
\* sid, and nothing else of the page is left.
Reloads(t) ==
    LET w == ws[t] IN
    /\ w # None
    /\ left' = left \cup {w}
    /\ ws' = [ws EXCEPT ![t] = None]
    /\ term' = term \ {t}
    /\ view' = [view EXCEPT ![t] = Blank]
    /\ down' = [down EXCEPT ![w] = <<>>]
    /\ UNCHANGED <<ioVars, relayVars, closed, managerVars, handlerVars>>

EndToEndNext ==
    \/ \E w \in Conns :
        \/ OpensActive(w) \/ OpensQueued(w) \/ Promotion(w)
        \/ ForwardsOutput(w) \/ PageTypes(w) \/ NetworkFails(w)
    \/ ServerAlone
    \/ \E t \in Clients : Receives(t) \/ WsCloses(t) \/ Reloads(t)

EndToEndSpec == PageInit /\ [][EndToEndNext]_endToEndVars

-----------------------------------------------------------------------------
(* Properties *)

PageTypeOK ==
    /\ TypeOK
    /\ \A w \in Conns :
          down[w] \in Seq({Active, Output} \cup {InQueue(p) : p \in Places \cup PrintedPlaces})
    /\ ws \in [Clients -> Conns \cup {None}]
    /\ term \subseteq Clients
    /\ view \in [Clients ->
          {Blank, Terminal} \cup {Waiting(p) : p \in Places \cup PrintedPlaces \cup {0}}]

\* A tab's WebSocket whose frames have all arrived, with nobody gone.
Settled(t) ==
    LET w == ws[t] IN
    w # None /\ w \notin closed \cup left \cup Crashed /\ down[w] = <<>>

\* No output is dropped for want of a terminal: whenever a chunk arrives, the
\* page has one.
OutputFindsATerminal ==
    \A t \in Clients : LET w == ws[t] IN
        w # None /\ w \notin left /\ down[w] # <<>> /\ Head(down[w]) = Output => t \in term

\* A page that shows a terminal on a live connection has the port.
TerminalMeansPort ==
    \A t \in Clients \ Overlap : Settled(t) /\ view[t] = Terminal => active = t

\* A page that says it is in the queue is, or has the port and is about to be told.
\* The exceptions have the port, too: the page of a client that nobody promotes
\* (UnservedOnlyAfterPromoted), and one that was sent output, for that may have
\* read as the message which raises the overlay.
OverlayIsTrue ==
    \A t \in Clients : LET w == ws[t] IN
        Settled(t) /\ view[t].shows = "waiting" =>
            \/ Queued(t)
            \/ /\ active = t
               /\ promo[w] = "notify" \/ (Overlooked(w) /\ PromotedLeft) \/ w \in shown

\* The overlay never promises too much: the place it shows is not ahead of the
\* client's place in the queue, although it is sent once and never updated.
PlaceNeverFlatters ==
    \A t \in Clients : Settled(t) /\ view[t].shows = "waiting" /\ Queued(t)
        => view[t].place >= Position(t)
=============================================================================
