------------------------ MODULE TerminalPageProofs -------------------------
(***************************************************************************)
(* Proofs about the page composed with the server: what is displayed is    *)
(* true.  Like those about the server they hold for every set of tabs and  *)
(* connections, with the network failing and documents being loaded again  *)
(* at any moment.                                                          *)
(***************************************************************************)
EXTENDS TerminalPage, ServerTurnProofs, FiniteSetTheorems

\* The kinds of frames are told apart by their type field.
LEMMA FrameTypes ==
    /\ Active.type = "active" /\ Output.type = "output" /\ Active # Output
    /\ \A p : InQueue(p).type = "queue" /\ InQueue(p).position = p
                /\ InQueue(p) # Active /\ InQueue(p) # Output
<1>1. Active.type = "active" /\ Output.type = "output"
  BY DEF Active, Output
<1>2. \A p : InQueue(p).type = "queue" /\ InQueue(p).position = p
  BY DEF InQueue
<1> QED BY <1>1, <1>2

\* The views of a page are told apart by their fields.
LEMMA ViewKinds ==
    /\ Terminal.shows = "terminal" /\ Blank.shows = "nothing"
    /\ \A p : Waiting(p).shows = "waiting" /\ Waiting(p).place = p
BY DEF Terminal, Blank, Waiting

\* What travels and what is shown, with places from P.
Frames(P) == {Active, Output} \cup {InQueue(p) : p \in P}
Views(P)  == {Blank, Terminal} \cup {Waiting(p) : p \in P \cup {0}}
Shape(P) ==
    /\ down \in [Conns -> Seq(Frames(P))]
    /\ ws \in [Clients -> Conns \cup {None}]
    /\ term \subseteq Clients
    /\ view \in [Clients -> Views(P)]

\* Nothing will reach the page by this connection any more than has been sent.
Cut(w) == w \in left \cup closed \cup Crashed

\* The server is about to start the relay for the page, or has begun to.
Announced(w) == pc[w] = "greet" \/ Told(w)

HasActive(w) == \E i \in 1 .. Len(down[w]) : down[w][i] = Active
NoQueueFrame(w) == down[w] = <<>> \/ down[w][1].type # "queue"

\* The page has its terminal, and shows it, with no frame on its way that will hide
\* it, unless output of the target has read as such a frame.
Ready(w) ==
    /\ ws[Sid[w]] = w /\ Sid[w] \in term
    /\ w \in shown \/ (view[Sid[w]] = Terminal /\ NoQueueFrame(w))

\* A tab's WebSocket is one that it opened.
Own == \A t \in Clients : ws[t] # None => Sid[ws[t]] = t /\ pc[ws[t]] # "new"

\* A WebSocket that its tab has given up carries nothing.
Detached ==
    \A w \in Conns : ws[Sid[w]] # w => down[w] = <<>> /\ (pc[w] = "new" \/ Cut(w))
NothingToTheGone == \A w \in left : down[w] = <<>>

\* The {"type": "queue"} of the server is the first frame of a connection; those
\* that the target has printed go to a page that was told of the relay.
QueueFirst ==
    \A w \in Conns : \A i \in 1 .. Len(down[w]) :
        i > 1 /\ down[w][i].type = "queue" => w \in shown

\* Output follows the message that creates the terminal.
OutputFollowsActive ==
    \A w \in Conns : \A i \in 1 .. Len(down[w]) : down[w][i] = Output =>
        Ready(w) \/ \E j \in 1 .. Len(down[w]) : j < i /\ down[w][j] = Active

\* The page knows of the relay, or the message is on its way; and it knows of it
\* from nowhere else.
AnnouncedIsSent == \A w \in Conns : ~ Cut(w) /\ Announced(w) => HasActive(w) \/ Ready(w)
SentIsAnnounced == \A w \in Conns : ~ Cut(w) /\ HasActive(w) => Announced(w)
TerminalIsAnnounced ==
    \A w \in Conns : ws[Sid[w]] = w /\ ~ Cut(w) /\ view[Sid[w]] = Terminal
        => Announced(w) \/ ~ NoQueueFrame(w)

PageInv ==
    /\ Shape(Nat)
    /\ Own /\ Detached /\ NothingToTheGone
    /\ QueueFirst /\ OutputFollowsActive
    /\ AnnouncedIsSent /\ SentIsAnnounced /\ TerminalIsAnnounced

-----------------------------------------------------------------------------
(* What the steps do to the server *)

\* Of the page's own doings, the server notices that a browser is gone.
LEMMA ServerOrReload ==
    ASSUME [EndToEndNext]_endToEndVars
    PROVE  [Next]_vars \/ \E t \in Clients : Reloads(t)
BY DEF EndToEndNext, endToEndVars, OpensActive, OpensQueued, Promotion, ForwardsOutput,
       PageTypes, NetworkFails, ServerAlone, Receives, WsCloses, Next, Connect, PromotionStep

\* A reload is no step of the server's own, but all it does there is that a browser leaves.
LEMMA ReloadsServer ==
    ASSUME BaseInv, PageInv, NEW t \in Clients, Reloads(t)
    PROVE  /\ BaseInv' /\ Crashed' = Crashed
           /\ TurnInv => TurnInv'
           /\ ServerInv => ServerInv'
<1> USE DEF BaseInv
<1>1. /\ ws[t] \in Conns /\ pc[ws[t]] # "new" /\ left' = left \cup {ws[t]}
      /\ UNCHANGED <<ioVars, relayVars, closed, managerVars, pc, was_active, queued_ws, promo>>
  BY DEF Reloads, PageInv, Shape, Own, handlerVars
<1>2. RelayOK' /\ Alive' = Alive /\ UNCHANGED <<start, shell>>
  BY <1>1, UnchangedRelay
<1>3. CMInv' /\ \A x \in Clients : Queued(x)' <=> Queued(x)
  BY <1>1, QuietCM
<1>4. UNCHANGED <<active, queue>>
  BY <1>1 DEF managerVars, cmVars
<1>5. HandlersOK' /\ NewIsFresh' /\ LoopsAreStarted' /\ EndedIsCut'
  BY <1>1, <1>2 DEF HandlersOK, NewIsFresh, LoopsAreStarted, EndedIsCut
<1>6. RegisteredOwn' /\ (WaitersRegistered => WaitersRegistered')
  BY <1>1, <1>3 DEF RegisteredOwn, WaitersRegistered
<1>7. Crashed' = Crashed
  BY <1>1 DEF Crashed
<1>8. TurnInv => TurnInv'
  BY <1>1, <1>2, <1>4, QuietTurn DEF Told
<1>9. ASSUME ServerInv PROVE ServerInv'
  <2>1. TurnInv'
    BY <1>9, <1>8 DEF ServerInv
  <2>2. HolderInv'
    BY <1>1, <1>2, <1>4, <1>9, OthersHolder DEF ServerInv
  <2>3. PlaceInv'
    <3>1. HasPlace'
      BY <1>1, <1>4, <1>9 DEF ServerInv, PlaceInv, HasPlace, Queued, Ended
    <3>2. /\ PromotedLeft' <=> PromotedLeft
          /\ \A w \in Conns : /\ Ended(w)' <=> Ended(w)
                              /\ Told(w)' <=> Told(w)
                              /\ Overlooked(w)' <=> Overlooked(w)
      BY <1>1, <1>2, <1>4 DEF PromotedLeft, Overlooked, Ended, Told
    <3>3. NotedWasTold'
      BY <1>1, <1>9, <3>2 DEF ServerInv, PlaceInv, NotedWasTold, HandlersOK
    <3>4. PromotionTold' /\ StartingTold'
      BY <1>1, <1>7, <1>9, <3>2 DEF ServerInv, PlaceInv, PromotionTold, StartingTold
    <3> QED BY <3>1, <3>3, <3>4 DEF PlaceInv
  <2> QED BY <1>9, <1>2, <1>3, <1>5, <1>6, <2>1, <2>2, <2>3 DEF ServerInv
<1> QED BY <1>2, <1>3, <1>5, <1>6, <1>7, <1>8, <1>9

\* Only a loop adds to those who were sent output.
LEMMA ShownChanges ==
    ASSUME [EndToEndNext]_endToEndVars
    PROVE  shown' = shown \/ \E w \in Conns : RelayLoop(w)
<1>1. ASSUME NEW w \in Conns, StartBegins(w) \/ StartStep(w)
      PROVE  shown' = shown
  BY <1>1 DEF StartBegins, StartStep, StartResumes, KickSettled, KickNewline, StartReturns, Kicks
<1>2. ASSUME NEW w \in Conns, HandlerStep(w) \/ PromotionStep(w)
      PROVE  shown' = shown
  BY <1>1, <1>2
     DEF HandlerStep, Greeted, Enqueued, GreetingRaises, InputEnds, LogoutAndStop, LogoutFails,
         StopReturns, LeaveQueue, PromotionStep, PromotionNotifies, PromotionFails, relayVars
<1>3. ASSUME NEW w \in Conns, Connect(w) \/ KeyArrives(w) \/ BrowserLeaves(w)
      PROVE  shown' = shown
  BY <1>3 DEF Connect, ConnectActive, ConnectQueued, KeyArrives, Types, BrowserLeaves, relayVars
<1>4. ASSUME TargetPrints \/ AdapterGoes \/ TimePasses \/ UNCHANGED vars
      PROVE  shown' = shown
  BY <1>4 DEF TargetPrints, AdapterGoes, TimePasses, vars, relayVars
<1>5. ASSUME NEW t \in Clients, Reloads(t)
      PROVE  shown' = shown
  BY <1>5 DEF Reloads, relayVars
<1> QED BY <1>1, <1>2, <1>3, <1>4, <1>5, ServerOrReload DEF Next

\* Whoever was sent output stays so.
LEMMA ShownGrows ==
    ASSUME [EndToEndNext]_endToEndVars
    PROVE  shown \subseteq shown'
<1>1. ASSUME NEW w \in Conns, RelayLoop(w)
      PROVE  shown \subseteq shown'
  BY <1>1 DEF RelayLoop, LoopStep, LoopForwards, LoopEnds, LoopCancelled, LoopMissesCancel, Sends
<1> QED BY <1>1, ShownChanges

\* The server's steps that the page does not notice at once.
LEMMA QuietServer ==
    ASSUME BaseInv, ServerAlone \/ \E w \in Conns : KeyArrives(w)
    PROVE  /\ left' = left /\ closed \subseteq closed' /\ Crashed \subseteq Crashed'
           /\ \A v \in Conns :
                /\ pc'[v] = "new" <=> pc[v] = "new"
                /\ Announced(v)' => Announced(v)
                /\ Announced(v) => Announced(v)' \/ Cut(v)'
<1> USE DEF BaseInv
<1>0. [Next]_vars
  BY DEF ServerAlone, Next, PromotionStep
<1>1. \A v \in Conns : Told(v) => Told(v)'
  BY <1>0, NothingUndone
<1> DEFINE Quiet == /\ left' = left
                    /\ \A v \in Conns :
                        /\ pc'[v] = "new" <=> pc[v] = "new"
                        /\ pc'[v] = "greet" => pc[v] = "greet"
                        /\ start'[v] # "idle" => Announced(v)
                        /\ pc[v] = "greet" => Announced(v)' \/ Cut(v)'
<1>2. ASSUME NEW w \in Conns, Greeted(w) PROVE Quiet
  BY <1>2, StartBeginsOK
     DEF Greeted, Goes, StartMoves, RelayOK, HandlersOK, Announced, Told, wsVars
<1>3. ASSUME NEW w \in Conns, GreetingRaises(w) PROVE Quiet
  BY <1>0, <1>3, NothingUndone
     DEF GreetingRaises, Goes, HandlersOK, Announced, Told, Cut, relayVars, wsVars
<1>4. ASSUME NEW w \in Conns, pc[w] \notin {"new", "greet"},
             NEW place, place \notin {"new", "greet"},
             pc' = [pc EXCEPT ![w] = place], UNCHANGED <<left, start>>
      PROVE  Quiet
  BY <1>4 DEF HandlersOK, Announced, Told
<1>5. ASSUME NEW w \in Conns,
             \/ Enqueued(w) \/ InputEnds(w) \/ LogoutAndStop(w) \/ LogoutFails(w)
             \/ StopReturns(w) \/ LeaveQueue(w)
      PROVE  Quiet
  <2>1. UNCHANGED <<left, start>>
    BY <1>5 DEF Enqueued, InputEnds, LogoutAndStop, LogoutFails, StopReturns, LeaveQueue,
                relayVars, wsVars
  <2>2. pc[w] \notin {"new", "greet"}
    BY <1>5 DEF Enqueued, InputEnds, LogoutAndStop, LogoutFails, StopReturns, LeaveQueue
  <2>3. \E place \in {"input", "closing", "stopping", "gone", "crashed"} : pc' = [pc EXCEPT ![w] = place]
    BY <1>5 DEF Enqueued, EntersInput, InputEnds, Finishes, LogoutAndStop, LogoutFails,
                StopReturns, LeaveQueue, Releases, Goes
  <2> QED BY <1>4, <2>1, <2>2, <2>3
<1>6. ASSUME NEW w \in Conns, KeyArrives(w) PROVE Quiet
  <2>1. UNCHANGED <<left, start>> /\ pc[w] = "input"
    BY <1>6 DEF KeyArrives, Types, relayVars
  <2>2. CASE pc' = pc
    BY <2>1, <2>2 DEF Announced, Told
  <2>3. CASE Finishes(w)
    BY <1>4, <2>1, <2>3 DEF Finishes, Goes
  <2> QED BY <1>6, <2>2, <2>3 DEF KeyArrives
<1>7. ASSUME NEW w \in Conns, StartStep(w) PROVE Quiet
  <2>1. /\ left' = left /\ start[w] # "idle"
        /\ \A v \in Conns : start'[v] # "idle" => start[v] # "idle"
    BY <1>7, StartStepOK DEF StartMoves, RelayOK
  <2>2. \A v \in Conns : /\ pc'[v] = "new" <=> pc[v] = "new"
                         /\ pc'[v] = "greet" <=> pc[v] = "greet"
    BY <1>7, StartStepOK, EntersInputOK DEF HandlersOK
  <2> QED BY <2>1, <2>2 DEF Announced, Told
<1>8. ASSUME UNCHANGED <<left, start, pc>> PROVE Quiet
  BY <1>8 DEF Announced, Told
<1>9. ASSUME \/ \E w \in Conns : PromotionFails(w)
             \/ TargetPrints \/ AdapterGoes \/ TimePasses
      PROVE  UNCHANGED <<left, start, pc>>
  BY <1>9 DEF PromotionFails, TargetPrints, AdapterGoes, TimePasses, relayVars, wsVars, handlerVars
<1>10. Quiet
  BY <1>2, <1>3, <1>5, <1>6, <1>7, <1>8, <1>9 DEF ServerAlone, HandlerStep
<1> QED BY <1>0, <1>1, <1>10, NothingUndone DEF Announced, Told

-----------------------------------------------------------------------------
(* Each step preserves PageInv *)

\* Nobody's frames move, and nobody is told.
LEMMA QuietPage ==
    ASSUME BaseInv, PageInv, UNCHANGED pageVars,
           left' = left, closed \subseteq closed', Crashed \subseteq Crashed',
           shown \subseteq shown',
           \A v \in Conns : /\ pc'[v] = "new" <=> pc[v] = "new"
                            /\ Announced(v)' => Announced(v)
                            /\ Announced(v) => Announced(v)' \/ Cut(v)'
    PROVE  PageInv'
<1>1. UNCHANGED <<down, ws, term, view>>
  BY DEF pageVars
<1>2. Shape(Nat)' /\ Own' /\ NothingToTheGone' /\ QueueFirst'
  BY <1>1 DEF PageInv, Shape, Own, NothingToTheGone, QueueFirst
<1>3. \A v \in Conns : /\ Cut(v) => Cut(v)'
                       /\ HasActive(v)' <=> HasActive(v)
                       /\ NoQueueFrame(v)' <=> NoQueueFrame(v)
                       /\ Ready(v) => Ready(v)'
  BY <1>1 DEF Cut, HasActive, NoQueueFrame, Ready
<1>4. Detached' /\ OutputFollowsActive'
  BY <1>1, <1>3 DEF PageInv, Detached, OutputFollowsActive
<1>5. AnnouncedIsSent' /\ SentIsAnnounced' /\ TerminalIsAnnounced'
  BY <1>1, <1>3 DEF PageInv, AnnouncedIsSent, SentIsAnnounced, TerminalIsAnnounced
<1> QED BY <1>2, <1>4, <1>5 DEF PageInv

\* What is on its way to w once a frame was sent there.
LEMMA SendsFrameOK ==
    ASSUME NEW P, Shape(P), NEW w \in Conns, NEW frame \in Frames(P), SendsFrame(w, frame)
    PROVE  /\ down' \in [Conns -> Seq(Frames(P))]
           /\ \A v \in Conns \ {w} : down'[v] = down[v]
           /\ w \in left => down' = down
           /\ \A i \in 1 .. Len(down[w]) : down'[w][i] = down[w][i]
           /\ Len(down[w]) \in Nat /\ Len(down'[w]) \in {Len(down[w]), Len(down[w]) + 1}
           /\ Len(down'[w]) = Len(down[w]) + 1 => down'[w][Len(down'[w])] = frame
           /\ frame # Output /\ w \notin left => Len(down'[w]) = Len(down[w]) + 1
<1>1. down[w] \in Seq(Frames(P))
  BY DEF Shape
<1>2. CASE down' = down
  BY <1>1, <1>2 DEF Shape, SendsFrame
<1>3. CASE down' = [down EXCEPT ![w] = Append(@, frame)] /\ w \notin left
  <2>1. down'[w] = Append(down[w], frame)
    BY <1>3 DEF Shape
  <2> QED BY <1>1, <1>3, <2>1 DEF Shape
<1>4. CASE w \in left
  BY <1>2, <1>4 DEF SendsFrame
<1> QED BY <1>2, <1>3, <1>4 DEF SendsFrame

\* A frame that can follow what was sent before: the message {"type": "active"}
\* to a page that is told in this step, or output to one that was, whatever it
\* reads as.
LEMMA SendsPage ==
    ASSUME BaseInv, PageInv, NEW w \in Conns, NEW frame \in Frames(Nat),
           SendsFrame(w, frame), UNCHANGED <<ws, term, view>>,
           shown \subseteq shown', frame.type = "queue" => w \in shown',
           UNCHANGED <<left, closed, pc>>, ~ (w \in closed \cup Crashed), pc[w] # "new",
           \A v \in Conns \ {w} : Told(v)' <=> Told(v),
           Told(w)', frame # Active => Told(w)
    PROVE  PageInv'
<1> USE DEF PageInv
<1>1. /\ down' \in [Conns -> Seq(Frames(Nat))]
      /\ \A v \in Conns \ {w} : down'[v] = down[v]
      /\ w \in left => down' = down
      /\ \A i \in 1 .. Len(down[w]) : down'[w][i] = down[w][i]
      /\ Len(down[w]) \in Nat /\ Len(down'[w]) \in {Len(down[w]), Len(down[w]) + 1}
      /\ Len(down'[w]) = Len(down[w]) + 1 => down'[w][Len(down'[w])] = frame
      /\ frame # Output /\ w \notin left => Len(down'[w]) = Len(down[w]) + 1
  BY SendsFrameOK DEF Frames
<1>2. Crashed' = Crashed /\ \A v \in Conns : Cut(v)' <=> Cut(v)
  BY DEF Crashed, Cut
<1>4. \A v \in Conns \ {w} : /\ HasActive(v)' <=> HasActive(v)
                             /\ NoQueueFrame(v)' <=> NoQueueFrame(v)
                             /\ Ready(v) => Ready(v)'
                             /\ Announced(v)' <=> Announced(v)
  BY <1>1 DEF HasActive, NoQueueFrame, Ready, Announced
<1>5. /\ Announced(w)' /\ (HasActive(w) => HasActive(w)')
      /\ w \in shown' \/ (NoQueueFrame(w) => NoQueueFrame(w)')
  <2>1. down[w] = <<>> <=> Len(down[w]) = 0
    BY EmptySeq DEF Shape
  <2>2. down'[w] = <<>> <=> Len(down'[w]) = 0
    BY <1>1, EmptySeq
  <2>3. ASSUME frame.type # "queue" PROVE NoQueueFrame(w) => NoQueueFrame(w)'
    BY <1>1, <2>1, <2>2, <2>3 DEF NoQueueFrame
  <2>4. Announced(w)' /\ (HasActive(w) => HasActive(w)')
    BY <1>1 DEF Announced, HasActive
  <2> QED BY <2>3, <2>4
<1>6. Ready(w) => Ready(w)'
  BY <1>5 DEF Ready
<1>7. Shape(Nat)' /\ Own' /\ NothingToTheGone'
  <2>1. Shape(Nat)'
    BY <1>1 DEF Shape, Frames, Views
  <2>2. Own'
    BY DEF Own
  <2>3. NothingToTheGone'
    BY <1>1 DEF NothingToTheGone, BaseInv, HandlersOK
  <2> QED BY <2>1, <2>2, <2>3
<1>8. QueueFirst'
  <2>1. \A i \in 1 .. Len(down'[w]) : i > 1 /\ down'[w][i].type = "queue" => w \in shown'
    BY <1>1 DEF QueueFirst
  <2> QED BY <1>1, <2>1 DEF QueueFirst
<1>9. Detached'
  BY <1>1, <1>2 DEF Detached, Cut
<1>10. w \notin left => HasActive(w)' \/ Ready(w)
  <2>1. CASE frame = Active
    BY <1>1, <2>1, FrameTypes DEF HasActive
  <2>2. CASE frame # Active
    BY <1>5, <2>2 DEF AnnouncedIsSent, Cut, Announced
  <2> QED BY <2>1, <2>2
<1>11. OutputFollowsActive'
  <2>1. ASSUME NEW i \in 1 .. Len(down'[w]), down'[w][i] = Output
        PROVE  Ready(w)' \/ \E j \in 1 .. Len(down'[w]) : j < i /\ down'[w][j] = Active
    <3>1. CASE i \in 1 .. Len(down[w])
      BY <1>1, <1>6, <2>1, <3>1 DEF OutputFollowsActive
    <3>2. CASE i = Len(down[w]) + 1 /\ Len(down'[w]) = Len(down[w]) + 1
      <4>1. frame = Output /\ w \notin left
        BY <1>1, <2>1, <3>2, FrameTypes
      <4>2. HasActive(w) \/ Ready(w)
        BY <4>1, FrameTypes DEF AnnouncedIsSent, Cut, Announced
      <4> QED BY <1>1, <1>6, <3>2, <4>2 DEF HasActive
    <3> QED BY <1>1, <3>1, <3>2
  <2> QED BY <1>1, <1>4, <2>1 DEF OutputFollowsActive
<1>12. AnnouncedIsSent' /\ SentIsAnnounced' /\ TerminalIsAnnounced'
  BY <1>2, <1>4, <1>5, <1>6, <1>10
     DEF AnnouncedIsSent, SentIsAnnounced, TerminalIsAnnounced, Cut
<1> QED BY <1>7, <1>8, <1>9, <1>11, <1>12

\* A tab opens a WebSocket, and the answer of the manager is the first frame: the
\* page's earlier connections carry nothing any more.
LEMMA OpensPage ==
    ASSUME BaseInv, PageInv, NEW w \in Conns, NEW frame, OpensWs(w), SendsFrame(w, frame),
           pc[w] = "new", UNCHANGED <<left, closed, start, shown>>,
           \/ frame = Active /\ pc' = [pc EXCEPT ![w] = "greet"]
           \/ /\ \E p \in Nat : frame = InQueue(p)
              /\ pc' = [pc EXCEPT ![w] = "enqueue"]
    PROVE  PageInv'
<1> USE DEF PageInv
<1>1. /\ ws[Sid[w]] = None /\ ws' = [ws EXCEPT ![Sid[w]] = w] /\ UNCHANGED <<term, view>>
      /\ Sid[w] \in Clients
  BY SidAssumption DEF OpensWs
<1>2. frame \in Frames(Nat) /\ frame # Output
  BY FrameTypes DEF Frames
<1>3. down[w] = <<>> /\ w \notin left \cup closed /\ ~ Told(w)
  BY <1>1, ConnsAssumption DEF Detached, BaseInv, NewIsFresh, Told
<1>4. down' = [down EXCEPT ![w] = <<frame>>]
  <2>1. down' = [down EXCEPT ![w] = Append(@, frame)]
    BY <1>2, <1>3 DEF SendsFrame
  <2>2. Append(down[w], frame) = <<frame>>
    BY <1>2, <1>3
  <2> QED BY <2>1, <2>2 DEF Shape
<1>5. /\ down' \in [Conns -> Seq(Frames(Nat))]
      /\ down'[w] = <<frame>> /\ \A v \in Conns \ {w} : down'[v] = down[v]
  BY <1>2, <1>4 DEF Shape
<1>6. /\ Crashed' = Crashed /\ pc'[w] # "new"
      /\ \A v \in Conns : /\ Cut(v)' <=> Cut(v)
                          /\ Told(v)' <=> Told(v)
      /\ \A v \in Conns \ {w} : pc'[v] = pc[v] /\ (Announced(v)' <=> Announced(v))
  BY DEF Crashed, Cut, Told, Announced, BaseInv, HandlersOK
<1>7. /\ ws'[Sid[w]] = w
      /\ \A v \in Conns \ {w} : ws'[Sid[v]] = v <=> ws[Sid[v]] = v
  BY <1>1, SidAssumption, ConnsAssumption DEF Shape
<1>8. \A v \in Conns \ {w} : /\ HasActive(v)' <=> HasActive(v)
                             /\ NoQueueFrame(v)' <=> NoQueueFrame(v)
                             /\ Ready(v)' <=> Ready(v)
  BY <1>1, <1>5, <1>7 DEF HasActive, NoQueueFrame, Ready
<1>9. /\ Len(down'[w]) = 1 /\ down'[w][1] = frame /\ down'[w] # <<>>
      /\ HasActive(w)' <=> frame = Active
      /\ NoQueueFrame(w)' <=> frame = Active
      /\ Announced(w)' <=> frame = Active
  <2>1. Len(down'[w]) = 1 /\ down'[w][1] = frame /\ down'[w] # <<>>
    BY <1>5
  <2> QED BY <1>3, <1>6, <2>1, FrameTypes DEF HasActive, NoQueueFrame, Announced, BaseInv, HandlersOK
<1>10. Shape(Nat)' /\ Own' /\ NothingToTheGone'
  <2>1. Shape(Nat)'
    BY <1>1, <1>5 DEF Shape, Frames, Views
  <2>2. Own'
    BY <1>1, <1>6 DEF Own, Shape
  <2>3. NothingToTheGone'
    BY <1>3, <1>5 DEF NothingToTheGone, BaseInv, HandlersOK
  <2> QED BY <2>1, <2>2, <2>3
<1>11. Detached'
  BY <1>5, <1>6, <1>7 DEF Detached
<1>12. QueueFirst' /\ OutputFollowsActive'
  <2>1. \A i \in 1 .. Len(down'[w]) : i = 1 /\ down'[w][i] # Output
    BY <1>2, <1>9
  <2>2. QueueFirst'
    BY <1>5, <2>1 DEF QueueFirst
  <2>3. OutputFollowsActive'
    BY <1>5, <1>8, <2>1 DEF OutputFollowsActive
  <2> QED BY <2>2, <2>3
<1>13. AnnouncedIsSent' /\ SentIsAnnounced' /\ TerminalIsAnnounced'
  BY <1>1, <1>6, <1>7, <1>8, <1>9, SidAssumption
     DEF AnnouncedIsSent, SentIsAnnounced, TerminalIsAnnounced
<1> QED BY <1>10, <1>11, <1>12, <1>13

\* The place that a client is given is one of the queue.
LEMMA PlaceGivenOK ==
    ASSUME BaseInv, NEW w \in Conns, ConnectQueued(w)
    PROVE  PlaceGiven(Sid[w]) \in 1 .. Len(queue') /\ queue'[PlaceGiven(Sid[w])] = Sid[w]
<1>1. CMTypeOK' /\ Queued(Sid[w])' /\ Sid[w] \in Clients
  BY ConnectQueuedBase, SidAssumption DEF BaseInv, CMInv
<1>2. Contains(queue', Sid[w])
  BY <1>1 DEF Queued
<1> QED BY <1>2 DEF PlaceGiven, Position, Contains

\* A page connects: to its terminal's frame, or to the overlay's.
LEMMA ConnectPage ==
    ASSUME BaseInv, PageInv, NEW w \in Conns, OpensActive(w) \/ OpensQueued(w)
    PROVE  PageInv'
<1>1. CASE OpensActive(w)
  <2>1. /\ OpensWs(w) /\ SendsFrame(w, Active) /\ pc[w] = "new"
        /\ pc' = [pc EXCEPT ![w] = "greet"] /\ UNCHANGED <<left, closed, start, shown>>
    BY <1>1 DEF OpensActive, ConnectActive, MayConnect, Goes, relayVars, wsVars
  <2> QED BY <2>1, OpensPage
<1>2. CASE OpensQueued(w)
  <2>1. /\ OpensWs(w) /\ SendsFrame(w, InQueue(PlaceGiven(Sid[w]))) /\ pc[w] = "new"
        /\ pc' = [pc EXCEPT ![w] = "enqueue"] /\ UNCHANGED <<left, closed, start, shown>>
        /\ ConnectQueued(w)
    BY <1>2 DEF OpensQueued, ConnectQueued, MayConnect, Goes, relayVars, wsVars
  <2>2. PlaceGiven(Sid[w]) \in Nat
    <3>1. Len(queue') \in Nat
      BY <2>1, ConnectQueuedBase DEF BaseInv, CMInv, CMTypeOK
    <3> QED BY <2>1, <3>1, PlaceGivenOK
  <2> QED BY <2>1, <2>2, OpensPage
<1> QED BY <1>1, <1>2

\* A promotion tells its page, or fails to.
LEMMA PromotionPage ==
    ASSUME BaseInv, PageInv, NEW w \in Conns, Promotion(w)
    PROVE  PageInv'
<1>1. /\ promo[w] = "notify" /\ w \notin closed \cup Crashed
      /\ UNCHANGED <<left, closed, pc>> /\ SendsFrame(w, Active)
      /\ UNCHANGED <<ws, term, view>> /\ StartBegins(w)
  BY DEF Promotion, PromotionNotifies, TellsPromoted, wsVars
<1>2. Told(w)' /\ \A v \in Conns \ {w} : Told(v)' <=> Told(v)
  BY <1>1, StartBeginsOK DEF StartMoves, BaseInv, RelayOK, Told
<1>3. pc[w] # "new"
  BY <1>1 DEF BaseInv, NewIsFresh
<1>4. Active \in Frames(Nat) /\ shown \subseteq shown'
  BY ShownGrows DEF Frames, EndToEndNext
<1> QED BY <1>1, <1>2, <1>3, <1>4, SendsPage, FrameTypes

\* The relay's loop sends output to the page of its WebSocket.
LEMMA ForwardsPage ==
    ASSUME BaseInv, PageInv, NEW w \in Conns, ForwardsOutput(w)
    PROVE  PageInv'
<1>0. shown \subseteq shown'
  BY ShownGrows DEF EndToEndNext
<1>1. /\ UNCHANGED <<left, closed, pc, start>> /\ UNCHANGED <<ws, term, view>>
      /\ LoopStep(w, Crashed)
  BY LoopStepOK DEF ForwardsOutput, RelayLoop, wsVars, handlerVars, BaseInv
<1>2. w \in Alive
  BY <1>1 DEF LoopStep, LoopForwards, LoopEnds, LoopCancelled, LoopMissesCancel, Alive
<1>3. Told(w) /\ pc[w] # "new" /\ \A v \in Conns : Told(v)' <=> Told(v)
  BY <1>1, <1>2 DEF BaseInv, LoopsAreStarted, NewIsFresh, Told
<1>4. CASE output = "buffered" /\ output' = "none" /\ loop'[w] = "run"
  <2>1. Sends(w, Crashed)
    BY <1>1, <1>4 DEF LoopStep, LoopForwards, LoopEnds, LoopCancelled, LoopMissesCancel,
                      ioVars, targetVars
  <2>2. w \notin closed \cup Crashed /\ w \in shown'
    BY <1>4, <2>1 DEF Sends, BaseInv, RelayOK
  <2>3. PICK chunk \in Chunks(w) : SendsFrame(w, chunk)
    BY <1>4 DEF ForwardsOutput
  <2>4. chunk \in Frames(Nat)
    BY PrintedAssumption DEF Chunks, Frames
  <2> QED BY <1>0, <1>1, <1>3, <2>2, <2>3, <2>4, SendsPage
<1>5. CASE UNCHANGED down
  <2>1. Crashed' = Crashed /\ \A v \in Conns : Announced(v)' <=> Announced(v)
    BY <1>1, <1>3 DEF Crashed, Announced
  <2> QED BY <1>0, <1>1, <1>5, <2>1, QuietPage DEF pageVars
<1> QED BY <1>4, <1>5 DEF ForwardsOutput

\* The page takes the first frame on its way.
LEMMA FirstFrame ==
    ASSUME NEW S, NEW s \in Seq(S), s # <<>>
    PROVE  /\ Len(s) \in Nat /\ Len(s) >= 1 /\ Head(s) = s[1] /\ s[1] \in S
           /\ Tail(s) \in Seq(S) /\ Len(Tail(s)) = Len(s) - 1
           /\ \A i \in 1 .. Len(s) - 1 : Tail(s)[i] = s[i + 1]
           /\ \A i \in 1 .. Len(s) : i = 1 \/ (i - 1 \in 1 .. Len(s) - 1 /\ Tail(s)[i - 1] = s[i])
<1>1. Len(s) \in Nat /\ Len(s) >= 1
  BY EmptySeq
<1>2. Tail(s) \in Seq(S) /\ Len(Tail(s)) = Len(s) - 1
  BY <1>1
<1>3. \A i \in 1 .. Len(s) - 1 : Tail(s)[i] = s[i + 1]
  BY <1>1
<1>4. \A i \in 1 .. Len(s) : i = 1 \/ (i - 1 \in 1 .. Len(s) - 1 /\ Tail(s)[i - 1] = s[i])
  BY <1>1, <1>3
<1> QED BY <1>1, <1>2, <1>3, <1>4

\* The page takes in a frame.
LEMMA ReceivesPage ==
    ASSUME BaseInv, PageInv, NEW t \in Clients, Receives(t)
    PROVE  PageInv'
<1> USE DEF PageInv
<1>5. PICK w \in Conns : ws[t] = w
  BY DEF Receives, Shape
<1> DEFINE frame == Head(down[w])
<1>1. /\ w \notin left /\ down[w] # <<>>
      /\ \/ frame = Active /\ ShowsTerminal(t)
         \/ frame = Output /\ UNCHANGED <<term, view>>
         \/ frame.type = "queue" /\ Overlays(t, frame.position) /\ UNCHANGED term
      /\ down' = [down EXCEPT ![w] = Tail(@)]
      /\ UNCHANGED <<vars, ws>>
  BY <1>5 DEF Receives
<1>2. Sid[w] = t
  BY <1>5, ConnsAssumption DEF Own
<1> HIDE DEF frame
<1>3. UNCHANGED <<pc, start, shown, left, closed, ws>>
  BY <1>1 DEF vars, relayVars, wsVars, handlerVars
<1>4. /\ \A v \in Conns : /\ Cut(v)' <=> Cut(v)
                          /\ Announced(v)' <=> Announced(v)
  BY <1>3 DEF Cut, Crashed, Announced, Told
<1>6. down[w] \in Seq(Frames(Nat))
  BY <1>1 DEF Shape
<1>7. /\ Len(down[w]) \in Nat /\ Len(down[w]) >= 1
      /\ frame = down[w][1] /\ frame \in Frames(Nat)
      /\ Tail(down[w]) \in Seq(Frames(Nat)) /\ Len(Tail(down[w])) = Len(down[w]) - 1
      /\ \A i \in 1 .. Len(down[w]) - 1 : Tail(down[w])[i] = down[w][i + 1]
      /\ \A i \in 1 .. Len(down[w]) :
            i = 1 \/ (i - 1 \in 1 .. Len(down[w]) - 1 /\ Tail(down[w])[i - 1] = down[w][i])
  BY <1>1, <1>6, FirstFrame DEF frame
<1>8. /\ down' \in [Conns -> Seq(Frames(Nat))]
      /\ down'[w] = Tail(down[w]) /\ \A v \in Conns \ {w} : down'[v] = down[v]
  BY <1>1, <1>7 DEF Shape
<1>9. /\ view' \in [Clients -> Views(Nat)] /\ term' \subseteq Clients
      /\ \A x \in Clients \ {t} : view'[x] = view[x] /\ (x \in term' <=> x \in term)
  <2>1. frame.type = "queue" => frame.position \in Nat
    BY <1>7, FrameTypes DEF Frames
  <2> QED BY <1>1, <2>1 DEF Shape, Views, ShowsTerminal, Overlays
<1>10. \A v \in Conns \ {w} : /\ HasActive(v)' <=> HasActive(v)
                              /\ NoQueueFrame(v)' <=> NoQueueFrame(v)
                              /\ Ready(v)' <=> Ready(v)
  BY <1>2, <1>3, <1>5, <1>8, <1>9, SidAssumption DEF HasActive, NoQueueFrame, Ready
<1>11. NoQueueFrame(w)' \/ w \in shown
  BY <1>1, <1>7, <1>8, EmptySeq DEF NoQueueFrame, QueueFirst
<1>12. HasActive(w)' => HasActive(w)
  BY <1>7, <1>8 DEF HasActive
<1>13. Shape(Nat)' /\ Own' /\ NothingToTheGone' /\ QueueFirst' /\ Detached'
  <2>1. Shape(Nat)'
    BY <1>3, <1>8, <1>9 DEF Shape, Frames, Views
  <2>2. Own' /\ NothingToTheGone' /\ Detached'
    BY <1>1, <1>2, <1>3, <1>4, <1>5, <1>8 DEF Own, NothingToTheGone, Detached, BaseInv, HandlersOK
  <2>3. QueueFirst'
    <3>1. ASSUME NEW i \in 1 .. Len(down'[w]), down'[w][i].type = "queue" PROVE w \in shown
      <4>1. i + 1 \in 1 .. Len(down[w]) /\ i + 1 > 1 /\ down'[w][i] = down[w][i + 1]
        BY <1>7, <1>8
      <4> QED BY <3>1, <4>1 DEF QueueFirst
    <3> QED BY <1>3, <1>8, <3>1 DEF QueueFirst
  <2> QED BY <2>1, <2>2, <2>3
<1>14. SentIsAnnounced'
  BY <1>4, <1>10, <1>12 DEF SentIsAnnounced
<1> DEFINE Rest == /\ \A i \in 1 .. Len(down'[w]) : down'[w][i] = Output =>
                        Ready(w)' \/ \E j \in 1 .. Len(down'[w]) : j < i /\ down'[w][j] = Active
                   /\ ~ Cut(w) /\ Announced(w) => HasActive(w)' \/ Ready(w)'
                   /\ ~ Cut(w) /\ view'[t] = Terminal => Announced(w)
<1>15. ASSUME frame = Active PROVE Rest
  <2>1. Ready(w)'
    BY <1>1, <1>2, <1>3, <1>5, <1>11, <1>15, FrameTypes DEF Ready, ShowsTerminal, Shape
  <2>2. HasActive(w)
    <3>1. 1 \in 1 .. Len(down[w]) /\ down[w][1] = Active
      BY <1>7, <1>15
    <3> QED BY <3>1 DEF HasActive
  <2> QED BY <1>1, <2>1, <2>2 DEF SentIsAnnounced
<1>16. ASSUME frame = Output PROVE Rest
  <2>1. Ready(w) /\ UNCHANGED <<term, view>>
    <3>1. 1 \in 1 .. Len(down[w]) /\ down[w][1] = Output
      BY <1>7, <1>16
    <3>2. Ready(w) \/ \E j \in 1 .. Len(down[w]) : j < 1
      BY <3>1 DEF OutputFollowsActive
    <3>3. UNCHANGED <<term, view>>
      BY <1>1, <1>16, FrameTypes
    <3> QED BY <3>2, <3>3
  <2>2. Ready(w)'
    BY <1>3, <1>11, <2>1 DEF Ready
  <2>3. NoQueueFrame(w)
    BY <1>7, <1>16, FrameTypes DEF NoQueueFrame
  <2> QED BY <1>2, <1>5, <2>1, <2>2, <2>3 DEF TerminalIsAnnounced
<1>17. ASSUME frame.type = "queue" PROVE Rest
  <2>1. frame # Active /\ frame # Output /\ ~ NoQueueFrame(w)
    BY <1>1, <1>7, <1>17, FrameTypes DEF NoQueueFrame
  <2>2. view'[t] # Terminal /\ term' = term
    BY <1>1, <2>1, ViewKinds DEF Overlays, Shape
  <2>3. CASE Ready(w)
    <3>1. Ready(w)'
      BY <1>3, <2>1, <2>2, <2>3 DEF Ready
    <3> QED BY <2>2, <3>1
  <2>4. CASE ~ Ready(w)
    <3>1. ASSUME HasActive(w) PROVE HasActive(w)'
      <4>1. PICK i \in 1 .. Len(down[w]) : down[w][i] = Active
        BY <3>1 DEF HasActive
      <4>2. i - 1 \in 1 .. Len(down'[w]) /\ down'[w][i - 1] = Active
        BY <1>7, <1>8, <2>1, <4>1
      <4> QED BY <4>2 DEF HasActive
    <3>2. ASSUME NEW i \in 1 .. Len(down'[w]), down'[w][i] = Output
          PROVE  \E j \in 1 .. Len(down'[w]) : j < i /\ down'[w][j] = Active
      <4>1. PICK j \in 1 .. Len(down[w]) : j < i + 1 /\ down[w][j] = Active
        BY <1>1, <1>7, <1>8, <2>4, <3>2 DEF OutputFollowsActive
      <4>2. j - 1 \in 1 .. Len(down'[w]) /\ j - 1 < i /\ down'[w][j - 1] = Active
        BY <1>7, <1>8, <2>1, <4>1
      <4> QED BY <4>2
    <3> QED BY <2>2, <2>4, <3>1, <3>2 DEF AnnouncedIsSent
  <2> QED BY <2>3, <2>4
<1>18. Rest
  BY <1>1, <1>15, <1>16, <1>17
<1>19. OutputFollowsActive' /\ AnnouncedIsSent'
  <2>1. ASSUME NEW v \in Conns, NEW i \in 1 .. Len(down'[v]), down'[v][i] = Output
        PROVE  Ready(v)' \/ \E j \in 1 .. Len(down'[v]) : j < i /\ down'[v][j] = Active
    <3>1. CASE v = w
      BY <1>18, <2>1, <3>1
    <3>2. CASE v # w
      <4>1. down'[v] = down[v] /\ (Ready(v)' <=> Ready(v))
        BY <1>8, <1>10, <3>2
      <4> QED BY <2>1, <4>1 DEF OutputFollowsActive
    <3> QED BY <3>1, <3>2
  <2>2. ASSUME NEW v \in Conns, ~ Cut(v), Announced(v) PROVE HasActive(v)' \/ Ready(v)'
    BY <1>10, <1>18, <2>2 DEF AnnouncedIsSent
  <2>3. OutputFollowsActive'
    BY <2>1 DEF OutputFollowsActive
  <2>4. AnnouncedIsSent'
    BY <1>4, <2>2 DEF AnnouncedIsSent
  <2> QED BY <2>3, <2>4
<1>20. TerminalIsAnnounced'
  <2> SUFFICES ASSUME NEW v \in Conns, (ws[Sid[v]] = v)', ~ Cut(v)', (view[Sid[v]] = Terminal)'
               PROVE  Announced(v)' \/ ~ NoQueueFrame(v)'
    BY DEF TerminalIsAnnounced
  <2>1. CASE v = w
    BY <1>2, <1>4, <1>18, <2>1
  <2>2. CASE v # w
    <3>1. Sid[v] \in Clients \ {t} /\ ws[Sid[v]] = v
      BY <1>3, <1>5, <2>2, SidAssumption
    <3> QED BY <1>4, <1>9, <1>10, <2>2, <3>1 DEF TerminalIsAnnounced
  <2> QED BY <2>1, <2>2
<1> QED BY <1>13, <1>14, <1>19, <1>20

\* One end of a connection gives it up: what was on its way is lost, or had arrived.
LEMMA LosesPage ==
    ASSUME BaseInv, PageInv, NEW w \in Conns, pc[w] # "new",
           UNCHANGED <<pc, start, shown, closed>>,
           left \subseteq left', left' \subseteq left \cup {w}, Cut(w)',
           down' \in [Conns -> Seq(Frames(Nat))],
           down'[w] = <<>>, \A v \in Conns \ {w} : down'[v] = down[v],
           \/ UNCHANGED <<ws, term, view>>
           \/ /\ ws[Sid[w]] = w /\ ws' = [ws EXCEPT ![Sid[w]] = None]
              /\ view' \in [Clients -> Views(Nat)] /\ term' \subseteq Clients
              /\ \A x \in Clients \ {Sid[w]} : view'[x] = view[x] /\ (x \in term' <=> x \in term)
    PROVE  PageInv'
<1> USE DEF PageInv
<1>1. /\ \A v \in Conns \ {w} : /\ Cut(v)' <=> Cut(v)
                                /\ left' \subseteq Conns
                                /\ ws'[Sid[v]] = v <=> ws[Sid[v]] = v
                                /\ ws[Sid[v]] = v => view'[Sid[v]] = view[Sid[v]]
                                                     /\ (Sid[v] \in term' <=> Sid[v] \in term)
      /\ \A v \in Conns : Announced(v)' <=> Announced(v)
  BY SidAssumption, ConnsAssumption
     DEF Cut, Crashed, Announced, Told, Shape, BaseInv, HandlersOK
<1>2. \A v \in Conns \ {w} : /\ HasActive(v)' <=> HasActive(v)
                             /\ NoQueueFrame(v)' <=> NoQueueFrame(v)
                             /\ Ready(v)' <=> Ready(v)
  BY <1>1 DEF HasActive, NoQueueFrame, Ready
<1>3. Shape(Nat)'
  BY SidAssumption DEF Shape, Frames, Views
<1>4. Own'
  BY SidAssumption DEF Own, Shape
<1>5. Detached' /\ NothingToTheGone' /\ QueueFirst'
  <2>1. Detached'
    BY <1>1 DEF Detached
  <2>2. NothingToTheGone'
    <3>1. left \subseteq Conns
      BY DEF BaseInv, HandlersOK
    <3> QED BY <3>1 DEF NothingToTheGone
  <2>3. Len(down'[w]) = 0
    BY EmptySeq
  <2>4. QueueFirst'
    BY <2>3 DEF QueueFirst
  <2> QED BY <2>1, <2>2, <2>4
<1>6. OutputFollowsActive'
  <2>1. Len(down'[w]) = 0
    BY EmptySeq
  <2> QED BY <1>2, <2>1 DEF OutputFollowsActive
<1>7. AnnouncedIsSent' /\ SentIsAnnounced'
  BY <1>1, <1>2 DEF AnnouncedIsSent, SentIsAnnounced
<1>8. TerminalIsAnnounced'
  BY <1>1, <1>2 DEF TerminalIsAnnounced
<1> QED BY <1>3, <1>4, <1>5, <1>6, <1>7, <1>8

\* The page notices that its connection is gone.
LEMMA WsClosesPage ==
    ASSUME BaseInv, PageInv, NEW t \in Clients, WsCloses(t)
    PROVE  PageInv'
<1>1. PICK w \in Conns : ws[t] = w
  BY DEF WsCloses, PageInv, Shape, BaseInv, HandlersOK, Crashed
<1>2. Sid[w] = t /\ pc[w] # "new"
  BY <1>1, ConnsAssumption DEF PageInv, Own
<1>3. /\ w \in left \/ (w \in closed \cup Crashed /\ down[w] = <<>>)
      /\ ws' = [ws EXCEPT ![t] = None]
      /\ (UNCHANGED view \/ Overlays(t, 0))
      /\ UNCHANGED <<vars, down, term>>
  BY <1>1 DEF WsCloses
<1>4. /\ UNCHANGED <<pc, start, shown, closed, left, down, term>>
      /\ Cut(w)' /\ down[w] = <<>>
  BY <1>3 DEF vars, relayVars, wsVars, handlerVars, Cut, Crashed, PageInv, NothingToTheGone
<1>5. /\ view' \in [Clients -> Views(Nat)]
      /\ \A x \in Clients \ {t} : view'[x] = view[x]
  BY <1>3 DEF PageInv, Shape, Views, Overlays
<1> QED BY <1>1, <1>2, <1>3, <1>4, <1>5, LosesPage DEF PageInv, Shape

\* The network drops what is on its way.
LEMMA NetworkFailsPage ==
    ASSUME BaseInv, PageInv, NEW w \in Conns, NetworkFails(w)
    PROVE  PageInv'
<1>1. /\ pc[w] # "new" /\ UNCHANGED <<pc, start, shown, closed, ws, term, view>>
      /\ left' = left \cup {w} /\ down' = [down EXCEPT ![w] = <<>>]
  BY DEF NetworkFails, BrowserLeaves, Ended, relayVars, handlerVars
<1>2. /\ down' \in [Conns -> Seq(Frames(Nat))]
      /\ down'[w] = <<>> /\ \A v \in Conns \ {w} : down'[v] = down[v]
  BY <1>1 DEF PageInv, Shape
<1>3. Cut(w)'
  BY <1>1 DEF Cut
<1> QED BY <1>1, <1>2, <1>3, LosesPage

\* The page is reloaded and forgets its terminal.
LEMMA ReloadsPage ==
    ASSUME BaseInv, PageInv, NEW t \in Clients, Reloads(t)
    PROVE  PageInv'
<1>1. PICK w \in Conns : ws[t] = w
  BY DEF Reloads, PageInv, Shape
<1>2. Sid[w] = t /\ pc[w] # "new"
  BY <1>1, ConnsAssumption DEF PageInv, Own
<1>3. /\ UNCHANGED <<pc, start, shown, closed>>
      /\ left' = left \cup {w} /\ ws' = [ws EXCEPT ![t] = None]
      /\ term' = term \ {t} /\ view' = [view EXCEPT ![t] = Blank]
      /\ down' = [down EXCEPT ![w] = <<>>]
  BY <1>1 DEF Reloads, relayVars, handlerVars
<1>4. /\ down' \in [Conns -> Seq(Frames(Nat))]
      /\ down'[w] = <<>> /\ \A v \in Conns \ {w} : down'[v] = down[v]
      /\ view' \in [Clients -> Views(Nat)] /\ term' \subseteq Clients
      /\ \A x \in Clients \ {t} : view'[x] = view[x] /\ (x \in term' <=> x \in term)
  BY <1>3 DEF PageInv, Shape, Views
<1>5. Cut(w)'
  BY <1>3 DEF Cut
<1> QED BY <1>1, <1>2, <1>3, <1>4, <1>5, LosesPage

\* Every step of pages and server preserves PageInv.
LEMMA NextPage ==
    ASSUME BaseInv, PageInv, [EndToEndNext]_endToEndVars
    PROVE  PageInv'
<1>1. ASSUME NEW w \in Conns,
             \/ OpensActive(w) \/ OpensQueued(w) \/ Promotion(w) \/ ForwardsOutput(w)
             \/ NetworkFails(w)
      PROVE  PageInv'
  BY <1>1, ConnectPage, PromotionPage, ForwardsPage, NetworkFailsPage
<1>2. ASSUME NEW t \in Clients, Receives(t) \/ WsCloses(t) \/ Reloads(t)
      PROVE  PageInv'
  BY <1>2, ReceivesPage, WsClosesPage, ReloadsPage
<1>3. CASE ServerAlone \/ \E w \in Conns : PageTypes(w)
  <2>1. UNCHANGED pageVars /\ (ServerAlone \/ \E w \in Conns : KeyArrives(w))
    BY <1>3 DEF ServerAlone, PageTypes
  <2> QED BY <2>1, ShownGrows, QuietServer, QuietPage
<1>4. CASE UNCHANGED endToEndVars
  <2>1. UNCHANGED pageVars /\ UNCHANGED <<left, closed, pc, start, shown>>
    BY <1>4 DEF endToEndVars, vars, relayVars, wsVars, handlerVars
  <2>2. Crashed' = Crashed /\ \A v \in Conns : Announced(v)' <=> Announced(v)
    BY <2>1 DEF Crashed, Announced, Told
  <2> QED BY <2>1, <2>2, QuietPage
<1> QED BY <1>1, <1>2, <1>3, <1>4 DEF EndToEndNext

\* Pages that have not connected yet.
LEMMA InitPage ==
    ASSUME PageInit
    PROVE  PageInv
<1>1. /\ down = [w \in Conns |-> <<>>] /\ ws = [t \in Clients |-> None]
      /\ term = {} /\ view = [t \in Clients |-> Blank]
      /\ pc = [w \in Conns |-> "new"] /\ start = [w \in Conns |-> "idle"] /\ left = {}
  BY DEF PageInit, Init, RelayInit
<1>2. Shape(Nat)
  BY <1>1 DEF Shape, Views
<1>3. \A w \in Conns : Len(down[w]) = 0 /\ NoQueueFrame(w) /\ ~ HasActive(w) /\ ~ Announced(w)
  BY <1>1 DEF NoQueueFrame, HasActive, Announced, Told
<1>4. Own /\ Detached /\ NothingToTheGone /\ QueueFirst /\ OutputFollowsActive
  BY <1>1, <1>3 DEF Own, Detached, NothingToTheGone, QueueFirst, OutputFollowsActive
<1>5. AnnouncedIsSent /\ SentIsAnnounced /\ TerminalIsAnnounced
  BY <1>1, <1>3, SidAssumption, ConnsAssumption DEF AnnouncedIsSent, SentIsAnnounced, TerminalIsAnnounced
<1> QED BY <1>2, <1>4, <1>5 DEF PageInv

\* In every reachable state of pages, network and server a page that the relay may
\* serve has its terminal or the message that creates it on its way (server.py:99,
\* 173), a message that hides it comes first or from a target that printed it
\* (index.html:127-135), and turns are what they are without pages that reload.
THEOREM EndToEndInv == EndToEndSpec => [](BaseInv /\ PageInv /\ TurnInv)
<1>1. PageInit => BaseInv /\ PageInv /\ TurnInv
  BY InitBase, InitPage, InitTurn DEF PageInit
<1>2. BaseInv /\ PageInv /\ TurnInv /\ [EndToEndNext]_endToEndVars
        => (BaseInv /\ PageInv /\ TurnInv)'
  BY NextBase, NextPage, NextTurn, ServerOrReload, ReloadsServer
<1> QED BY <1>1, <1>2, PTL DEF EndToEndSpec

\* No output is dropped by a page for want of a terminal (index.html:139): the active
\* frame comes first on every path that starts a relay. Tabs may even overlap.
THEOREM PageOutputFindsATerminal == EndToEndSpec => []OutputFindsATerminal
<1>1. BaseInv /\ PageInv => OutputFindsATerminal
  <2> SUFFICES ASSUME BaseInv, PageInv, NEW t \in Clients, NEW w, w = ws[t],
                      w # None, w \notin left, down[w] # <<>>, Head(down[w]) = Output
               PROVE  t \in term
    BY DEF OutputFindsATerminal
  <2>1. w \in Conns /\ Sid[w] = t
    BY DEF PageInv, Shape, Own
  <2>2. 1 \in 1 .. Len(down[w]) /\ down[w][1] = Output
    BY <2>1, FirstFrame DEF PageInv, Shape
  <2>3. Ready(w) \/ \E j \in 1 .. Len(down[w]) : j < 1
    BY <2>1, <2>2 DEF PageInv, OutputFollowsActive
  <2> QED BY <2>1, <2>3 DEF Ready
<1> QED BY <1>1, EndToEndInv, PTL

\* The invariants of the server and of the pages, together.
LEMMA EndToEndServer ==
    ASSUME Overlap = {}
    PROVE  EndToEndSpec => [](ServerInv /\ PageInv)
<1>1. PageInit => ServerInv /\ PageInv
  BY InitServer, InitPage DEF PageInit
<1>2. ServerInv /\ PageInv /\ [EndToEndNext]_endToEndVars => (ServerInv /\ PageInv)'
  BY NextServer, NextPage, ServerOrReload, ReloadsServer DEF ServerInv
<1> QED BY <1>1, <1>2, PTL DEF EndToEndSpec

\* A page that shows its terminal has the port, unless its connection is about to be
\* found lost (index.html:104-117).
THEOREM PageTerminalMeansPort == EndToEndSpec => []TerminalMeansPort
<1>1. BaseInv /\ PageInv /\ TurnInv => TerminalMeansPort
  <2> SUFFICES ASSUME BaseInv, PageInv, TurnInv,
                      NEW t \in Clients \ Overlap, Settled(t), view[t] = Terminal
               PROVE  active = t
    BY DEF TerminalMeansPort
  <2>1. PICK w \in Conns : ws[t] = w /\ ~ Cut(w) /\ down[w] = <<>> /\ Sid[w] = t /\ pc[w] # "new"
    BY DEF Settled, Cut, PageInv, Shape, Own
  <2>2. Announced(w) /\ ~ Ended(w)
    BY <2>1 DEF PageInv, TerminalIsAnnounced, NoQueueFrame, Ended, Cut, BaseInv,
                EndedIsCut, Crashed
  <2> QED BY <2>1, <2>2 DEF Announced, TurnInv, TurnsHold, ToldHasTurn, HasTurn, Alone
<1> QED BY <1>1, EndToEndInv, PTL

\* A page left before its overlay without a frame on its way is one that waits, unless
\* its promotion is under way, nobody made it (server.py:160), or the target printed
\* what raises the overlay (index.html:127-135).
THEOREM PageOverlayIsTrue ==
    ASSUME Overlap = {}
    PROVE  EndToEndSpec => []OverlayIsTrue
<1>1. ServerInv /\ PageInv => OverlayIsTrue
  <2> SUFFICES ASSUME ServerInv, PageInv, NEW t \in Clients, Settled(t),
                      view[t].shows = "waiting", ~ Queued(t)
               PROVE  LET w == ws[t] IN
                      /\ active = t
                      /\ promo[w] = "notify" \/ (Overlooked(w) /\ PromotedLeft) \/ w \in shown
    BY DEF OverlayIsTrue
  <2>1. PICK w \in Conns : ws[t] = w /\ ~ Cut(w) /\ down[w] = <<>> /\ Sid[w] = t /\ pc[w] # "new"
    BY DEF Settled, Cut, PageInv, Shape, Own
  <2>2. ~ Ended(w)
    BY <2>1 DEF Ended, Cut, ServerInv, BaseInv, EndedIsCut, Crashed
  <2>3. active = t
    BY <2>1, <2>2 DEF ServerInv, PlaceInv, HasPlace
  <2>4. ASSUME w \notin shown, ~ (Overlooked(w) /\ PromotedLeft) PROVE promo[w] = "notify"
    <3>1. ~ HasActive(w) /\ ~ Ready(w)
      BY <2>1, <2>4, ViewKinds DEF HasActive, Ready
    <3>2. ~ Announced(w)
      BY <2>1, <3>1 DEF PageInv, AnnouncedIsSent
    <3>3. Serves(w)
      BY <2>1, <2>2, <2>3, <2>4, HolderServed
    <3>4. promo[w] # "none"
      BY <2>1, <3>2, <3>3 DEF Serves, Announced, Cut, ServerInv, BaseInv, EndedIsCut, PlaceInv,
                              StartingTold
    <3> QED BY <2>1, <3>2, <3>4 DEF Announced, Cut, ServerInv, BaseInv, HandlersOK, PlaceInv,
                                    PromotionTold
  <2> QED BY <2>1, <2>3, <2>4
<1> QED BY <1>1, EndToEndServer, PTL

-----------------------------------------------------------------------------
(* The place that a page shows                                             *)

\* The place that is on its way to the page, or else the one it shows, is not
\* ahead of any place its client has.
HonestAt(w) ==
    ~ Cut(w) /\ ws[Sid[w]] = w => \A i \in 1 .. Len(queue) : queue[i] = Sid[w] =>
        \/ ~ NoQueueFrame(w) /\ down[w][1].position >= i
        \/ NoQueueFrame(w) /\ (view[Sid[w]].shows = "waiting" => view[Sid[w]].place >= i)
HonestPlace == \A w \in Conns : HonestAt(w)

\* A page that was sent output was told of the relay, and whoever is told, or has
\* been promoted, has left the queue.
ShownWereTold == \A w \in shown : Told(w)
TheToldWaitNot ==
    \A w \in Conns : ws[Sid[w]] = w /\ (Announced(w) \/ promo[w] # "none") => ~ Queued(Sid[w])

HonestInv == HonestPlace /\ ShownWereTold /\ TheToldWaitNot

\* Every step of pages and server preserves ShownWereTold.
LEMMA NextShown ==
    ASSUME BaseInv, ShownWereTold, [EndToEndNext]_endToEndVars
    PROVE  ShownWereTold'
<1>1. ASSUME NEW w \in shown' \ shown PROVE w \in Alive
  <2>1. PICK v \in Conns : RelayLoop(v) /\ shown' # shown
    BY <1>1, ShownChanges
  <2>2. v \in Alive /\ shown' \subseteq shown \cup {v}
    BY <2>1 DEF RelayLoop, LoopStep, LoopForwards, LoopEnds, LoopCancelled, LoopMissesCancel,
                Sends, Alive
  <2> QED BY <1>1, <2>2
<1>2. \A v \in Conns : Told(v) => Told(v)'
  <2>1. CASE [Next]_vars
    BY <2>1, NothingUndone
  <2>2. CASE \E t \in Clients : Reloads(t)
    BY <2>2 DEF Reloads, relayVars, Told
  <2> QED BY <2>1, <2>2, ServerOrReload
<1>3. shown' \subseteq Conns
  <2>1. shown \subseteq Conns /\ Alive \subseteq Conns
    BY DEF BaseInv, RelayOK, Alive
  <2> QED BY <1>1, <2>1
<1> QED BY <1>1, <1>2, <1>3 DEF ShownWereTold, BaseInv, LoopsAreStarted, Told

\* Whoever is promoted leaves the queue.
LEMMA PromotedLeavesQueue ==
    ASSUME BaseInv, [Next]_vars, NEW v \in Conns, promo[v] = "none", promo'[v] # "none"
    PROVE  ~ Queued(Sid[v])'
<1> USE DEF BaseInv
<1>1. CMInv' /\ Sid[v] \in Clients
  BY NextBase, SidAssumption
<1>2. PICK w \in Conns : Releases(w)
  <2>1. ASSUME NEW w \in Conns, Connect(w) \/ KeyArrives(w) PROVE promo' = promo
    BY <2>1 DEF Connect, ConnectActive, ConnectQueued, KeyArrives
  <2>2. ASSUME NEW w \in Conns, HandlerStep(w) PROVE promo' = promo \/ Releases(w)
    BY <2>2 DEF HandlerStep, Greeted, Enqueued, GreetingRaises, InputEnds, LogoutAndStop,
                LogoutFails, StopReturns, LeaveQueue
  <2>3. ASSUME NEW w \in Conns, PromotionStep(w)
        PROVE  promo[w] = "notify" /\ \E q : promo' = [promo EXCEPT ![w] = q]
    BY <2>3 DEF PromotionStep, PromotionNotifies, PromotionFails
  <2>4. ASSUME NEW w \in Conns, StartStep(w)
        PROVE  promo' = promo \/ (promo[w] = "starting" /\ \E q : promo' = [promo EXCEPT ![w] = q])
    BY <2>4, StartStepOK
  <2>5. ASSUME Surroundings \/ UNCHANGED vars PROVE promo' = promo
    BY <2>5, SurroundingsEffects DEF vars, handlerVars
  <2> QED BY <2>1, <2>2, <2>3, <2>4, <2>5 DEF Next, Surroundings, HandlersOK
<1>3. active' = Sid[v]
  BY <1>2, ReleasesOK DEF HandlersOK
<1> QED BY <1>1, <1>3 DEF Queued, Contains, CMInv, CMTypeOK, OnePlaceEach

\* Every step of pages and server preserves TheToldWaitNot.
LEMMA NextWaitNot ==
    ASSUME BaseInv, PageInv, TheToldWaitNot, [EndToEndNext]_endToEndVars
    PROVE  TheToldWaitNot'
<1> SUFFICES ASSUME NEW w \in Conns, (ws[Sid[w]] = w)', Announced(w)' \/ promo'[w] # "none"
             PROVE  ~ Queued(Sid[w])'
  BY DEF TheToldWaitNot
<1>0. Sid[w] \in Clients /\ w # None
  BY SidAssumption, ConnsAssumption
<1>1. ASSUME ws[Sid[w]] = w, Queued(Sid[w])' => Queued(Sid[w]),
             Announced(w)' => Announced(w) \/ promo[w] # "none", promo'[w] = promo[w]
      PROVE  ~ Queued(Sid[w])'
  BY <1>1 DEF TheToldWaitNot
<1>2. ASSUME NEW v \in Conns, OpensActive(v) \/ OpensQueued(v) PROVE ~ Queued(Sid[w])'
  <2>1. /\ ws[Sid[v]] = None /\ ws' = [ws EXCEPT ![Sid[v]] = v] /\ Connect(v)
        /\ UNCHANGED <<start, promo>> /\ pc[v] = "new"
        /\ pc' = [pc EXCEPT ![v] = IF ConnectActive(v) THEN "greet" ELSE "enqueue"]
    BY <1>2 DEF OpensActive, OpensQueued, OpensWs, Connect, ConnectActive, ConnectQueued,
                MayConnect, Goes, relayVars
  <2>2. CASE v = w /\ OpensActive(v)
    BY <1>0, <2>2, ConnectActiveBase
       DEF OpensActive, BaseInv, Queued, Contains, CMInv, CMTypeOK, OnePlaceEach
  <2>3. CASE v = w /\ ~ OpensActive(v)
    <3>1. pc'[w] = "enqueue" /\ start'[w] = "idle" /\ promo'[w] = "none"
      BY <1>2, <2>1, <2>3 DEF OpensQueued, ConnectQueued, Goes, BaseInv, HandlersOK, NewIsFresh
    <3> QED BY <3>1 DEF Announced, Told
  <2>4. CASE v # w
    <3>1. Sid[v] # Sid[w] /\ ws[Sid[w]] = w
      BY <2>1, <2>4, SidAssumption DEF PageInv, Shape
    <3>2. Queued(Sid[w])' => Queued(Sid[w])
      BY <1>0, <2>1, <3>1, ConnectMovesUp DEF MovesUp, Queued, Contains
    <3> QED BY <1>1, <2>1, <2>4, <3>1, <3>2 DEF Announced, Told, BaseInv, HandlersOK
  <2> QED BY <2>2, <2>3, <2>4
<1>3. ASSUME UNCHANGED <<queue, ws, pc, start, promo>> PROVE ~ Queued(Sid[w])'
  BY <1>1, <1>3 DEF Queued, Announced, Told
<1>4. ASSUME NEW t \in Clients, Receives(t) \/ WsCloses(t) \/ Reloads(t) PROVE ~ Queued(Sid[w])'
  <2>1. /\ UNCHANGED <<queue, pc, start, promo>> 
        /\ ws' = ws \/ ws' = [ws EXCEPT ![t] = None]
    BY <1>4 DEF Receives, WsCloses, Reloads, vars, managerVars, cmVars, handlerVars, relayVars
  <2>2. ws[Sid[w]] = w
    BY <1>0, <2>1 DEF PageInv, Shape
  <2> QED BY <1>1, <2>1, <2>2 DEF Queued, Announced, Told
<1>5. ASSUME BesidesConnect, UNCHANGED ws, Announced(w)' => Announced(w) \/ promo[w] # "none"
      PROVE  ~ Queued(Sid[w])'
  <2>1. Queued(Sid[w])' => Queued(Sid[w])
    BY <1>0, <1>5, OthersMoveUp DEF MovesUp, Queued, Contains
  <2>2. [Next]_vars
    BY <1>5 DEF BesidesConnect, Surroundings, Next
  <2> QED BY <1>5, <2>1, <2>2, PromotedLeavesQueue DEF TheToldWaitNot
<1>6. ASSUME NEW v \in Conns, Promotion(v) PROVE ~ Queued(Sid[w])'
  <2>1. BesidesConnect /\ UNCHANGED ws
    BY <1>6 DEF Promotion, BesidesConnect, PromotionStep
  <2>2. Announced(w)' => Announced(w) \/ promo[w] # "none"
    BY <1>6, StartBeginsOK
       DEF Promotion, PromotionNotifies, StartMoves, BaseInv, RelayOK, Announced, Told
  <2> QED BY <1>5, <2>1, <2>2
<1>7. ASSUME NEW v \in Conns, ForwardsOutput(v) \/ NetworkFails(v) PROVE ~ Queued(Sid[w])'
  <2>1. BesidesConnect /\ UNCHANGED <<ws, start, pc>>
    BY <1>7, LoopStepOK
       DEF ForwardsOutput, RelayLoop, NetworkFails, BrowserLeaves, BesidesConnect, Surroundings,
           handlerVars, relayVars, BaseInv
  <2> QED BY <1>5, <2>1 DEF Announced, Told
<1>8. ASSUME ServerAlone \/ \E v \in Conns : PageTypes(v) PROVE ~ Queued(Sid[w])'
  <2>1. BesidesConnect /\ UNCHANGED ws /\ (ServerAlone \/ \E v \in Conns : KeyArrives(v))
    BY <1>8 DEF ServerAlone, PageTypes, BesidesConnect, Surroundings, PromotionStep, pageVars
  <2> QED BY <1>5, <2>1, QuietServer
<1>9. ASSUME UNCHANGED endToEndVars PROVE ~ Queued(Sid[w])'
  BY <1>3, <1>9 DEF endToEndVars, pageVars, vars, managerVars, cmVars, handlerVars, relayVars
<1> QED BY <1>2, <1>4, <1>6, <1>7, <1>8, <1>9 DEF EndToEndNext

\* While nothing happens between a page and its connection, its client moves up.
LEMMA HonestKept ==
    ASSUME PageInv, HonestPlace, NEW v \in Conns,
           (ws[Sid[v]] = v)' => ws[Sid[v]] = v /\ view'[Sid[v]] = view[Sid[v]],
           NoQueueFrame(v)' <=> NoQueueFrame(v),
           ~ NoQueueFrame(v) => down'[v][1] = down[v][1],
           Cut(v) => Cut(v)',
           (ws[Sid[v]] = v)' => MovesUp(Sid[v]),
           queue' \in Seq(Clients), queue \in Seq(Clients)
    PROVE  HonestAt(v)'
<1> SUFFICES ASSUME ~ Cut(v)', (ws[Sid[v]] = v)', NEW j \in 1 .. Len(queue'), queue'[j] = Sid[v]
             PROVE  \/ ~ NoQueueFrame(v)' /\ down'[v][1].position >= j
                    \/ /\ NoQueueFrame(v)'
                       /\ view'[Sid[v]].shows = "waiting" => view'[Sid[v]].place >= j
  BY DEF HonestAt
<1>1. ws[Sid[v]] = v /\ view'[Sid[v]] = view[Sid[v]] /\ ~ Cut(v)
  OBVIOUS
<1>2. PICK i \in 1 .. Len(queue) : i >= j /\ queue[i] = Sid[v]
  BY <1>1 DEF MovesUp
<1>3. CASE ~ NoQueueFrame(v)
  <2>1. down[v][1].position >= i
    BY <1>1, <1>2, <1>3 DEF HonestPlace, HonestAt
  <2>2. down[v][1].position \in Nat
    <3>1. down[v] # <<>> /\ down[v][1].type = "queue"
      BY <1>3 DEF NoQueueFrame
    <3>2. down[v][1] \in Frames(Nat)
      BY <3>1, FirstFrame DEF PageInv, Shape
    <3> QED BY <3>1, <3>2, FrameTypes DEF Frames
  <2> QED BY <1>2, <1>3, <2>1, <2>2
<1>4. CASE NoQueueFrame(v)
  <2> SUFFICES ASSUME view[Sid[v]].shows = "waiting" PROVE view[Sid[v]].place >= j
    BY <1>1, <1>4
  <2>1. view[Sid[v]].place >= i
    BY <1>1, <1>2, <1>4 DEF HonestPlace, HonestAt
  <2>2. view[Sid[v]].place \in Nat
    <3>1. view[Sid[v]] \in Views(Nat)
      BY SidAssumption DEF PageInv, Shape
    <3> QED BY <3>1, ViewKinds DEF Views
  <2> QED BY <1>2, <2>1, <2>2
<1> QED BY <1>3, <1>4

\* Steps of the server other than connections, with the message {"type": "active"} or none.
LEMMA QuietHonest ==
    ASSUME BaseInv, PageInv, HonestPlace, BesidesConnect, UNCHANGED <<ws, term, view>>,
           NEW w \in Conns, UNCHANGED down \/ SendsFrame(w, Active)
    PROVE  HonestPlace'
<1>0. [Next]_vars
  BY DEF BesidesConnect, Surroundings, Next
<1>1. CMInv /\ CMInv' /\ \A v \in Conns : Cut(v) => Cut(v)'
  BY <1>0, NextBase, NothingUndone DEF BaseInv, Cut
<1>2. queue \in Seq(Clients) /\ queue' \in Seq(Clients)
  BY <1>1 DEF CMInv, CMTypeOK
<1>3. Active.type # "queue"
  BY FrameTypes
<1>4. \A v \in Conns : /\ NoQueueFrame(v)' <=> NoQueueFrame(v)
                       /\ ~ NoQueueFrame(v) => down'[v][1] = down[v][1]
  <2>1. CASE UNCHANGED down
    BY <2>1 DEF NoQueueFrame
  <2>2. CASE SendsFrame(w, Active)
    <3>1. /\ down' \in [Conns -> Seq(Frames(Nat))]
          /\ \A v \in Conns \ {w} : down'[v] = down[v]
          /\ \A i \in 1 .. Len(down[w]) : down'[w][i] = down[w][i]
          /\ Len(down[w]) \in Nat /\ Len(down'[w]) \in {Len(down[w]), Len(down[w]) + 1}
          /\ Len(down'[w]) = Len(down[w]) + 1 => down'[w][Len(down'[w])] = Active
      BY <2>2, SendsFrameOK DEF Frames, PageInv
    <3>2. down[w] = <<>> <=> Len(down[w]) = 0
      BY EmptySeq DEF Shape, PageInv
    <3>3. down'[w] = <<>> <=> Len(down'[w]) = 0
      BY <3>1, EmptySeq
    <3> QED BY <1>3, <3>1, <3>2, <3>3 DEF NoQueueFrame
  <2> QED BY <2>1, <2>2
<1>5. ASSUME NEW v \in Conns PROVE HonestAt(v)'
  BY <1>1, <1>2, <1>4, HonestKept, OthersMoveUp, SidAssumption
<1> QED BY <1>5 DEF HonestPlace

\* A page connects and is told its place.
LEMMA OpensHonest ==
    ASSUME BaseInv, PageInv, HonestPlace, NEW w \in Conns,
           OpensActive(w) \/ OpensQueued(w)
    PROVE  HonestPlace'
<1>1. /\ ws[Sid[w]] = None /\ ws' = [ws EXCEPT ![Sid[w]] = w] /\ UNCHANGED <<term, view>>
      /\ Sid[w] \in Clients /\ pc[w] = "new" /\ w \notin left
  BY SidAssumption
     DEF OpensActive, OpensQueued, OpensWs, ConnectActive, ConnectQueued, MayConnect,
         BaseInv, NewIsFresh
<1>2. [Next]_vars
  BY DEF OpensActive, OpensQueued, Next, Connect
<1>3. CMInv /\ CMInv' /\ \A v \in Conns : Cut(v) => Cut(v)'
  BY <1>2, NextBase, NothingUndone DEF BaseInv, Cut
<1>4. queue \in Seq(Clients) /\ queue' \in Seq(Clients)
  BY <1>3 DEF CMInv, CMTypeOK
<1>5. down[w] = <<>>
  BY <1>1, ConnsAssumption DEF PageInv, Detached
<1>6. ASSUME NEW v \in Conns \ {w} PROVE HonestAt(v)'
  <2>1. down'[v] = down[v]
    BY DEF OpensActive, OpensQueued, SendsFrame, PageInv, Shape
  <2>2. (ws[Sid[v]] = v)' => ws[Sid[v]] = v /\ view'[Sid[v]] = view[Sid[v]]
    BY <1>1, SidAssumption DEF PageInv, Shape
  <2>3. /\ NoQueueFrame(v)' <=> NoQueueFrame(v)
        /\ ~ NoQueueFrame(v) => down'[v][1] = down[v][1]
    BY <2>1 DEF NoQueueFrame
  <2>4. (ws[Sid[v]] = v)' => MovesUp(Sid[v])
    <3>1. (ws[Sid[v]] = v)' => Sid[v] # Sid[w]
      BY <1>1 DEF PageInv, Shape
    <3> QED BY <3>1, ConnectMovesUp, SidAssumption DEF OpensActive, OpensQueued, Connect
  <2> QED BY <1>3, <1>4, <2>2, <2>3, <2>4, HonestKept
<1>7. CASE OpensActive(w)
  <2>1. active' = Sid[w]
    BY <1>7, ConnectActiveBase DEF OpensActive
  <2>2. \A j \in 1 .. Len(queue') : queue'[j] # Sid[w]
    BY <1>3, <2>1 DEF CMInv, OnePlaceEach
  <2>3. HonestAt(w)'
    BY <2>2 DEF HonestAt
  <2> QED BY <1>6, <2>3 DEF HonestPlace
<1>8. CASE OpensQueued(w)
  <2> DEFINE p == PlaceGiven(Sid[w])
  <2>1. p \in 1 .. Len(queue') /\ queue'[p] = Sid[w]
    BY <1>8, PlaceGivenOK DEF OpensQueued
  <2>2. SendsFrame(w, InQueue(p))
    BY <1>8 DEF OpensQueued
  <2> HIDE DEF p
  <2>3. down'[w] = Append(down[w], InQueue(p))
    BY <1>1, <2>2, FrameTypes DEF SendsFrame, PageInv, Shape
  <2>4. down'[w] # <<>> /\ down'[w][1] = InQueue(p)
    BY <1>5, <2>3
  <2>5. \A j \in 1 .. Len(queue') : queue'[j] = Sid[w] => j = p
    BY <1>3, <2>1 DEF CMInv, OnePlaceEach
  <2>6. ~ NoQueueFrame(w)' /\ \A j \in 1 .. Len(queue') : queue'[j] = Sid[w] =>
                                    down'[w][1].position >= j
    BY <1>4, <2>1, <2>4, <2>5, FrameTypes DEF NoQueueFrame
  <2>7. HonestAt(w)'
    BY <2>6 DEF HonestAt
  <2> QED BY <1>6, <2>7 DEF HonestPlace
<1> QED BY <1>7, <1>8

\* The page takes in a frame.
LEMMA ReceivesHonest ==
    ASSUME BaseInv, PageInv, HonestInv, NEW t \in Clients, Receives(t)
    PROVE  HonestPlace'
<1> USE DEF HonestInv
<1>1. PICK w \in Conns : ws[t] = w
  BY DEF Receives, PageInv, Shape
<1> DEFINE frame == Head(down[w])
<1>2. /\ down[w] # <<>> /\ Sid[w] = t
      /\ \/ frame = Active /\ ShowsTerminal(t)
         \/ frame = Output /\ UNCHANGED <<term, view>>
         \/ frame.type = "queue" /\ Overlays(t, frame.position) /\ UNCHANGED term
      /\ down' = [down EXCEPT ![w] = Tail(@)]
      /\ UNCHANGED <<vars, ws>>
  BY <1>1, ConnsAssumption DEF Receives, PageInv, Own
<1>3. UNCHANGED <<queue, pc, left, closed, ws>>
  BY <1>2 DEF vars, wsVars, managerVars, cmVars, handlerVars
<1>4. queue \in Seq(Clients) /\ \A v \in Conns : Cut(v)' <=> Cut(v)
  BY <1>3 DEF BaseInv, CMInv, CMTypeOK, Cut, Crashed
<1>5. \A c : MovesUp(c)
  BY <1>3, <1>4 DEF MovesUp
<1>6. down[w] \in Seq(Frames(Nat)) /\ frame = down[w][1] /\ down'[w] = Tail(down[w])
  BY <1>2, FirstFrame DEF PageInv, Shape
<1>7. ASSUME NEW v \in Conns \ {w} PROVE HonestAt(v)'
  <2>1. down'[v] = down[v]
    BY <1>2 DEF PageInv, Shape
  <2>2. (ws[Sid[v]] = v)' => ws[Sid[v]] = v /\ view'[Sid[v]] = view[Sid[v]]
    BY <1>1, <1>2, <1>3, SidAssumption DEF ShowsTerminal, Overlays, PageInv, Shape
  <2>3. /\ NoQueueFrame(v)' <=> NoQueueFrame(v)
        /\ ~ NoQueueFrame(v) => down'[v][1] = down[v][1]
    BY <2>1 DEF NoQueueFrame
  <2> QED BY <1>3, <1>4, <1>5, <2>2, <2>3, HonestKept
<1>8. NoQueueFrame(w)' \/ w \in shown
  <2>1. /\ Len(down[w]) \in Nat /\ Len(down'[w]) = Len(down[w]) - 1 /\ down'[w] \in Seq(Frames(Nat))
        /\ \A i \in 1 .. Len(down[w]) - 1 : down'[w][i] = down[w][i + 1]
    <3>1. /\ Len(down[w]) \in Nat /\ Len(Tail(down[w])) = Len(down[w]) - 1
          /\ Tail(down[w]) \in Seq(Frames(Nat))
          /\ \A i \in 1 .. Len(down[w]) - 1 : Tail(down[w])[i] = down[w][i + 1]
      BY <1>2, <1>6, FirstFrame
    <3> QED BY <1>6, <3>1
  <2>2. CASE down'[w] # <<>>
    <3>1. 1 \in 1 .. Len(down[w]) - 1 /\ 2 \in 1 .. Len(down[w])
      BY <2>1, <2>2, EmptySeq
    <3>2. down'[w][1] = down[w][2]
      BY <2>1, <3>1
    <3> QED BY <3>1, <3>2 DEF NoQueueFrame, PageInv, QueueFirst
  <2> QED BY <2>2 DEF NoQueueFrame
<1>9. ASSUME w \in shown PROVE HonestAt(w)'
  <2>1. ~ Queued(t)
    BY <1>1, <1>2, <1>9 DEF ShownWereTold, TheToldWaitNot, Announced
  <2> QED BY <1>2, <1>3, <1>4, <2>1 DEF HonestAt, Queued, Contains
<1>10. ASSUME w \notin shown PROVE HonestAt(w)'
  <2> SUFFICES ASSUME ~ Cut(w), NEW i \in 1 .. Len(queue), queue[i] = t,
                      view'[t].shows = "waiting"
               PROVE  view'[t].place >= i
    BY <1>2, <1>3, <1>4, <1>8, <1>10 DEF HonestAt
  <2>1. \/ ~ NoQueueFrame(w) /\ down[w][1].position >= i
        \/ NoQueueFrame(w) /\ (view[t].shows = "waiting" => view[t].place >= i)
    BY <1>1, <1>2 DEF HonestPlace, HonestAt
  <2>2. CASE frame = Active /\ ShowsTerminal(t)
    BY <2>2, ViewKinds DEF ShowsTerminal, PageInv, Shape
  <2>3. CASE frame = Output /\ UNCHANGED <<term, view>>
    BY <1>2, <1>6, <2>1, <2>3, FrameTypes DEF NoQueueFrame
  <2>4. CASE frame.type = "queue" /\ Overlays(t, frame.position)
    <3>1. view'[t] = Waiting(frame.position)
      BY <2>4 DEF Overlays, PageInv, Shape
    <3> QED BY <1>2, <1>6, <2>1, <2>4, <3>1, ViewKinds DEF NoQueueFrame
  <2> QED BY <1>2, <2>2, <2>3, <2>4
<1> QED BY <1>7, <1>9, <1>10 DEF HonestPlace

\* Something happens between one page and its connection, and nowhere else.
LEMMA ElsewhereHonest ==
    ASSUME BaseInv, PageInv, HonestPlace, NEW w \in Conns,
           UNCHANGED <<queue, pc, closed>>, left \subseteq left', HonestAt(w)',
           \A v \in Conns \ {w} : down'[v] = down[v],
           \A v \in Conns \ {w} :
              (ws[Sid[v]] = v)' => ws[Sid[v]] = v /\ view'[Sid[v]] = view[Sid[v]]
    PROVE  HonestPlace'
<1>1. queue \in Seq(Clients) /\ \A v \in Conns : Cut(v) => Cut(v)'
  BY DEF BaseInv, CMInv, CMTypeOK, Cut, Crashed
<1>2. \A c : MovesUp(c)
  BY <1>1 DEF MovesUp
<1>3. ASSUME NEW v \in Conns \ {w} PROVE HonestAt(v)'
  <2>1. /\ NoQueueFrame(v)' <=> NoQueueFrame(v)
        /\ ~ NoQueueFrame(v) => down'[v][1] = down[v][1]
    BY DEF NoQueueFrame
  <2> QED BY <1>1, <1>2, <2>1, HonestKept
<1> QED BY <1>3 DEF HonestPlace

\* The network or a reload drops what is on its way.
LEMMA LosesHonest ==
    ASSUME BaseInv, PageInv, HonestPlace, NEW w \in Conns,
           UNCHANGED <<queue, pc, closed>>, left \subseteq left', Cut(w)',
           \A v \in Conns \ {w} : down'[v] = down[v],
           \A v \in Conns \ {w} :
              (ws[Sid[v]] = v)' => ws[Sid[v]] = v /\ view'[Sid[v]] = view[Sid[v]]
    PROVE  HonestPlace'
<1>1. HonestAt(w)'
  BY DEF HonestAt
<1> QED BY <1>1, ElsewhereHonest

\* Output reaches a page whose client does not wait, whatever it reads as.
LEMMA ForwardsHonest ==
    ASSUME BaseInv, PageInv, HonestPlace, TheToldWaitNot, NEW w \in Conns, ForwardsOutput(w)
    PROVE  HonestPlace'
<1>1. UNCHANGED <<queue, pc, closed, left, ws, view>> /\ LoopStep(w, Crashed)
  BY DEF ForwardsOutput, RelayLoop, wsVars, managerVars, cmVars, handlerVars
<1>2. w \in Alive
  BY <1>1 DEF LoopStep, LoopForwards, LoopEnds, LoopCancelled, LoopMissesCancel, Alive
<1>3. Announced(w)
  BY <1>2 DEF BaseInv, LoopsAreStarted, Announced, Told
<1>4. HonestAt(w)'
  BY <1>1, <1>3, SidAssumption DEF HonestAt, TheToldWaitNot, Queued, Contains, BaseInv, CMInv, CMTypeOK
<1>5. \A v \in Conns \ {w} : down'[v] = down[v]
  BY DEF ForwardsOutput, SendsFrame, PageInv, Shape
<1> QED BY <1>1, <1>4, <1>5, ElsewhereHonest

\* Every step of pages and server preserves HonestInv.
LEMMA NextHonest ==
    ASSUME BaseInv, PageInv, HonestInv, [EndToEndNext]_endToEndVars
    PROVE  HonestInv'
<1> USE DEF HonestInv
<1>1. ASSUME NEW w \in Conns, OpensActive(w) \/ OpensQueued(w) PROVE HonestPlace'
  BY <1>1, OpensHonest
<1>2. ASSUME NEW w \in Conns, Promotion(w) PROVE HonestPlace'
  BY <1>2, QuietHonest DEF Promotion, TellsPromoted, BesidesConnect, PromotionStep
<1>3. ASSUME NEW w \in Conns, ForwardsOutput(w) PROVE HonestPlace'
  BY <1>3, ForwardsHonest
<1>4. ASSUME NEW t \in Clients, Receives(t) PROVE HonestPlace'
  BY <1>4, ReceivesHonest
<1>5. ASSUME NEW t \in Clients, WsCloses(t) PROVE HonestPlace'
  <2>1. PICK w \in Conns : ws[t] = w
    BY <1>5 DEF WsCloses, PageInv, Shape, BaseInv, HandlersOK, Crashed
  <2>2. /\ UNCHANGED <<queue, pc, closed, left, down>> /\ Cut(w)'
        /\ ws' = [ws EXCEPT ![t] = None] /\ (UNCHANGED view \/ Overlays(t, 0))
    BY <1>5, <2>1 DEF WsCloses, vars, wsVars, managerVars, cmVars, handlerVars, Cut, Crashed
  <2>3. \A v \in Conns : (ws[Sid[v]] = v)' => ws[Sid[v]] = v /\ view'[Sid[v]] = view[Sid[v]]
    BY <2>2, SidAssumption, ConnsAssumption DEF Overlays, PageInv, Shape
  <2> QED BY <2>2, <2>3, LosesHonest
<1>6. ASSUME NEW t \in Clients, Reloads(t) PROVE HonestPlace'
  <2>1. PICK w \in Conns : ws[t] = w
    BY <1>6 DEF Reloads, PageInv, Shape
  <2>2. /\ UNCHANGED <<queue, pc, closed>> /\ left' = left \cup {w}
        /\ ws' = [ws EXCEPT ![t] = None] /\ view' = [view EXCEPT ![t] = Blank]
        /\ down' = [down EXCEPT ![w] = <<>>]
    BY <1>6, <2>1 DEF Reloads, managerVars, cmVars, handlerVars
  <2>3. \A v \in Conns : (ws[Sid[v]] = v)' => ws[Sid[v]] = v /\ view'[Sid[v]] = view[Sid[v]]
    BY <2>2, SidAssumption, ConnsAssumption DEF PageInv, Shape
  <2>4. Cut(w)' /\ \A v \in Conns \ {w} : down'[v] = down[v]
    BY <2>2 DEF Cut, PageInv, Shape
  <2> QED BY <2>2, <2>3, <2>4, LosesHonest
<1>7. ASSUME NEW w \in Conns, NetworkFails(w) PROVE HonestPlace'
  <2>1. /\ UNCHANGED <<queue, pc, closed, ws, view>> /\ left' = left \cup {w}
        /\ down' = [down EXCEPT ![w] = <<>>]
    BY <1>7 DEF NetworkFails, BrowserLeaves, managerVars, cmVars, handlerVars
  <2>2. Cut(w)' /\ \A v \in Conns \ {w} : down'[v] = down[v]
    BY <2>1 DEF Cut, PageInv, Shape
  <2> QED BY <2>1, <2>2, LosesHonest
<1>8. ASSUME BesidesConnect, UNCHANGED pageVars PROVE HonestPlace'
  <2>1. CASE \E w \in Conns : TRUE
    BY <1>8, <2>1, QuietHonest DEF pageVars
  <2>2. CASE ~ \E w \in Conns : TRUE
    BY <2>2 DEF HonestPlace
  <2> QED BY <2>1, <2>2
<1>9. ASSUME ServerAlone \/ (\E w \in Conns : PageTypes(w)) \/ UNCHANGED endToEndVars
      PROVE  HonestPlace'
  BY <1>8, <1>9 DEF ServerAlone, PageTypes, endToEndVars, BesidesConnect, Surroundings, PromotionStep
<1>10. HonestPlace'
  BY <1>1, <1>2, <1>3, <1>4, <1>5, <1>6, <1>7, <1>9 DEF EndToEndNext
<1> QED BY <1>10, NextShown, NextWaitNot

\* The place that an overlay names is never better than the client's true one
\* (server.py:112, sent once and never updated; index.html:132), even if tabs overlap.
THEOREM PagePlaceNeverFlatters == EndToEndSpec => []PlaceNeverFlatters
<1>1. PageInit => HonestInv
  BY DEF PageInit, Init, CMInit, RelayInit, HonestInv, HonestPlace, HonestAt, ShownWereTold,
         TheToldWaitNot, Queued, Contains
<1>2. BaseInv /\ PageInv /\ HonestInv /\ [EndToEndNext]_endToEndVars => HonestInv'
  BY NextHonest
<1>3. BaseInv /\ PageInv /\ HonestInv => PlaceNeverFlatters
  <2> SUFFICES ASSUME BaseInv, PageInv, HonestInv, NEW t \in Clients, Settled(t),
                      view[t].shows = "waiting", Queued(t)
               PROVE  view[t].place >= Position(t)
    BY DEF PlaceNeverFlatters
  <2>1. PICK w \in Conns : ws[t] = w /\ ~ Cut(w) /\ down[w] = <<>> /\ Sid[w] = t
    BY DEF Settled, Cut, PageInv, Shape, Own
  <2>2. Position(t) \in 1 .. Len(queue) /\ queue[Position(t)] = t
    BY PositionProperties DEF BaseInv, CMInv
  <2> QED BY <2>1, <2>2 DEF HonestInv, HonestPlace, HonestAt, NoQueueFrame
<1> QED BY <1>1, <1>2, <1>3, EndToEndInv, PTL DEF EndToEndSpec

-----------------------------------------------------------------------------
(* Types                                                                   *)

\* A sequence without repetitions is not longer than its set is large.
LEMMA NoLongerThanItsSet ==
    ASSUME NEW S, IsFiniteSet(S), NEW s \in Seq(S),
           \A i, j \in 1 .. Len(s) : s[i] = s[j] => i = j
    PROVE  Len(s) <= Cardinality(S) /\ Cardinality(S) \in Nat
<1>1. Len(s) \in Nat /\ s \in [1 .. Len(s) -> S]
  OBVIOUS
<1>2. s \in Injection(1 .. Len(s), S)
  BY <1>1 DEF Injection, IsInjective
<1>3. Cardinality(1 .. Len(s)) = Len(s)
  BY <1>1, FS_Interval
<1>4. Cardinality(1 .. Len(s)) <= Cardinality(S)
  BY <1>2, FS_Injection
<1> QED BY <1>3, <1>4, FS_CardinalityType

\* The places that a message can name and a page can show.
Named == Places \cup PrintedPlaces
PlacesOK ==
    /\ down \in [Conns -> Seq(Frames(Named))]
    /\ view \in [Clients -> Views(Named)]

\* No frame and no overlay names a place beyond the number of clients, unless the
\* target has printed it.
LEMMA NextPlaces ==
    ASSUME IsFiniteSet(Clients), BaseInv, PageInv, PlacesOK, [EndToEndNext]_endToEndVars
    PROVE  PlacesOK'
<1> USE DEF PlacesOK
<1>1. Shape(Named)
  BY DEF PageInv, Shape
<1>2. ASSUME NEW w \in Conns, NEW frame \in Frames(Named), SendsFrame(w, frame), UNCHANGED view
      PROVE  PlacesOK'
  BY <1>1, <1>2, SendsFrameOK DEF Named, Places, Views, Frames
<1>3. ASSUME NEW w \in Conns, OpensActive(w) \/ Promotion(w) \/ ForwardsOutput(w)
      PROVE  PlacesOK'
  <2>1. CASE UNCHANGED <<down, view>>
    BY <2>1 DEF Named, Places, Views, Frames
  <2>2. Active \in Frames(Named) /\ Chunks(w) \subseteq Frames(Named)
    BY DEF Chunks, Frames, Named
  <2>3. CASE OpensActive(w) \/ Promotion(w)
    BY <1>2, <2>2, <2>3 DEF OpensActive, OpensWs, Promotion, TellsPromoted
  <2>4. CASE ForwardsOutput(w) /\ \E chunk \in Chunks(w) : SendsFrame(w, chunk)
    BY <1>2, <2>2, <2>4 DEF ForwardsOutput
  <2> QED BY <1>3, <2>1, <2>3, <2>4 DEF ForwardsOutput
<1>4. ASSUME NEW w \in Conns, OpensQueued(w) PROVE PlacesOK'
  <2>1. CMInv' /\ PlaceGiven(Sid[w]) \in 1 .. Len(queue')
    BY <1>4, PlaceGivenOK, ConnectQueuedBase DEF OpensQueued, BaseInv
  <2>2. Len(queue') \in Nat /\ Len(queue') <= Cardinality(Clients) /\ Cardinality(Clients) \in Nat
    <3>1. queue' \in Seq(Clients) /\ \A i, j \in 1 .. Len(queue') : queue'[i] = queue'[j] => i = j
      BY <2>1 DEF CMInv, CMTypeOK, OnePlaceEach
    <3> QED BY <3>1, NoLongerThanItsSet
  <2>3. PlaceGiven(Sid[w]) \in Named
    BY <2>1, <2>2 DEF Named, Places
  <2>4. InQueue(PlaceGiven(Sid[w])) \in Frames(Named)
    BY <2>3 DEF Frames
  <2> QED BY <1>2, <1>4, <2>4 DEF OpensQueued, OpensWs
<1>5. ASSUME NEW t \in Clients, Receives(t) PROVE PlacesOK'
  <2>1. PICK w \in Conns : ws[t] = w
    BY <1>5 DEF Receives, PageInv, Shape
  <2> DEFINE frame == Head(down[w])
  <2>2. /\ down[w] # <<>> /\ down' = [down EXCEPT ![w] = Tail(@)]
        /\ \/ ShowsTerminal(t) \/ UNCHANGED view
           \/ frame.type = "queue" /\ Overlays(t, frame.position)
    BY <1>5, <2>1 DEF Receives
  <2>3. Tail(down[w]) \in Seq(Frames(Named)) /\ frame \in Frames(Named)
    BY <2>2, FirstFrame
  <2>4. frame.type = "queue" => frame.position \in Named
    BY <2>3, FrameTypes DEF Frames
  <2>5. view' \in [Clients -> Views(Named)]
    BY <2>2, <2>4 DEF ShowsTerminal, Overlays, Views, Named, Places
  <2>6. down' \in [Conns -> Seq(Frames(Named))]
    BY <2>2, <2>3
  <2> QED BY <2>5, <2>6 DEF Views, Frames, Named, Places
<1>6. ASSUME down' = down \/ (\E w \in Conns : down' = [down EXCEPT ![w] = <<>>]),
             view' = view \/ \E t \in Clients, v \in {Blank, Waiting(0)} : view' = [view EXCEPT ![t] = v]
      PROVE  PlacesOK'
  <2>0. <<>> \in Seq(Frames(Named))
    OBVIOUS
  <2>1. down' \in [Conns -> Seq(Frames(Named))]
    BY <1>6, <2>0
  <2>2. view' \in [Clients -> Views(Named)]
    BY <1>6 DEF Views
  <2> QED BY <2>1, <2>2 DEF Views, Frames, Named, Places
<1>7. ASSUME NEW t \in Clients, WsCloses(t) PROVE PlacesOK'
  BY <1>6, <1>7 DEF WsCloses, Overlays
<1>8. ASSUME NEW t \in Clients, Reloads(t) PROVE PlacesOK'
  <2>1. ws[t] \in Conns
    BY <1>8 DEF Reloads, PageInv, Shape
  <2> QED BY <1>6, <1>8, <2>1 DEF Reloads
<1>9. ASSUME NEW w \in Conns, NetworkFails(w) PROVE PlacesOK'
  BY <1>6, <1>9 DEF NetworkFails
<1>10. ASSUME UNCHANGED pageVars PROVE PlacesOK'
  BY <1>6, <1>10 DEF pageVars
<1> QED BY <1>3, <1>4, <1>5, <1>7, <1>8, <1>9, <1>10
        DEF EndToEndNext, ServerAlone, PageTypes, endToEndVars

\* Every message and every view has the shape that web/index.html expects, and no
\* place is beyond the number of tabs, but for those that the target has printed.
THEOREM PageTypesHold ==
    ASSUME IsFiniteSet(Clients)
    PROVE  EndToEndSpec => []PageTypeOK
<1>1. PageInit => PlacesOK
  BY DEF PageInit, PlacesOK, Views
<1>2. BaseInv /\ PageInv /\ PlacesOK /\ [EndToEndNext]_endToEndVars => PlacesOK'
  BY NextPlaces
<1>3. BaseInv /\ PageInv /\ PlacesOK => PageTypeOK
  BY TypeParts DEF BaseInv, CMInv, PageInv, Shape, PlacesOK, Named, PageTypeOK, Frames, Views
<1> QED BY <1>1, <1>2, <1>3, EndToEndInv, PTL DEF EndToEndSpec
=============================================================================
