------------------------ MODULE SerializedRelayProofs ------------------------
(***************************************************************************)
(* What SerializedRelay promises, for every set of connections, faults and *)
(* lost cancellations included.  The properties rest on each other: the    *)
(* port is free of readers during a kick because stop() has waited for the *)
(* one loop there is, and that it is the one depends on no second call     *)
(* overwriting _task meanwhile.  OneCall says what "one call at a time"    *)
(* comes to in the variables, and closes the induction.                    *)
(***************************************************************************)
EXTENDS SerializedRelay, TLAPS

Kicking(w) == start[w] \in {"settle", "newline", "fresh", "echo"}

OneStarting == \A v, w \in Conns : Starting(v) /\ Starting(w) => v = w

\* A stop() that waits is the one inside start(), or nobody is in start().
WaitsInStart ==
    /\ \A w \in Conns : start[w] = "stop" <=> awaited[<<"start", w>>] # None
    /\ \A w \in Conns : awaited[<<"stop", w>>] # None =>
        \A v \in Conns : ~ Starting(v)

OneWaits == \A k, l \in Calls : awaited[k] # None /\ awaited[l] # None => k = l

\* stop() waits for the task that is still recorded in _task.
WaitsForTask == \A k \in Calls : awaited[k] # None => awaited[k] = task

OneCall == OneStarting /\ WaitsInStart /\ OneWaits /\ WaitsForTask

IInv == TypeOK /\ ReaderIsTask /\ KickAlone /\ PortHeldOnce /\ OneCall

-----------------------------------------------------------------------------
(* The steps of stop() and of the kick, each seen once *)

\* When stop() finds nothing to wait for, no loop is alive at all.
LEMMA NothingAlive ==
    ASSUME ReaderIsTask, task \notin Alive
    PROVE  Alive = {}
BY DEF ReaderIsTask, Alive

\* While a kick is suspended no stop() waits, in any call.
LEMMA KickIsTheOnlyCall ==
    ASSUME OneCall, NEW w \in Conns, Kicking(w)
    PROVE  /\ \A k \in Calls : awaited[k] = None
           /\ \A v \in Conns : Starting(v) => v = w
<1>1. \A v \in Conns : Starting(v) => v = w
  BY DEF OneCall, OneStarting, Starting, Kicking
<1>2. ASSUME NEW v \in Conns PROVE awaited[<<"start", v>>] = None
  BY <1>1 DEF OneCall, WaitsInStart, Starting, Kicking
<1>3. ASSUME NEW v \in Conns PROVE awaited[<<"stop", v>>] = None
  BY DEF OneCall, WaitsInStart, Starting, Kicking
<1>4. \A k \in Calls : \E v \in Conns : k = <<"start", v>> \/ k = <<"stop", v>>
  BY DEF Calls
<1> QED BY <1>1, <1>2, <1>3, <1>4

\* Opening a port that is closed leaks nothing, and leaves start(w) in a phase
\* for which the port is held, or failed.
LEMMA ReopensHolds ==
    ASSUME TypeOK, PortHeldOnce, port = "closed", NEW w \in Conns, Reopens(w)
    PROVE  /\ port' \in {"closed", "open"} /\ leaked' = FALSE
           /\ UNCHANGED <<shell, output>>
           /\ \E s \in {"newline", "fresh", "failed"} :
                /\ start' = [start EXCEPT ![w] = s]
                /\ s # "failed" => port' = "open"
<1>1. CASE Opens /\ start' = [start EXCEPT ![w] = IF fresh THEN "fresh" ELSE "newline"]
  <2>1. port' = "open" /\ leaked' = FALSE /\ UNCHANGED <<shell, output>>
    BY <1>1 DEF Opens, PortHeldOnce, TypeOK, targetVars
  <2>2. CASE fresh
    <3>1. start' = [start EXCEPT ![w] = "fresh"] BY <1>1, <2>2
    <3> QED BY <2>1, <3>1
  <2>3. CASE ~ fresh
    <3>1. start' = [start EXCEPT ![w] = "newline"] BY <1>1, <2>3
    <3> QED BY <2>1, <3>1
  <2> QED BY <2>2, <2>3
<1>2. CASE OpenRaises /\ start' = [start EXCEPT ![w] = "failed"]
  BY <1>2 DEF OpenRaises, portVars, targetVars, PortHeldOnce, TypeOK
<1> QED BY <1>1, <1>2 DEF Reopens

\* A kick begins by closing an open port, or by opening a closed one.
LEMMA KicksHolds ==
    ASSUME TypeOK, PortHeldOnce, NEW w \in Conns, Kicks(w)
    PROVE  /\ port' \in {"closed", "open"} /\ leaked' = FALSE
           /\ output' \in {"none", "printing", "buffered"}
           /\ UNCHANGED <<shell, fresh, shown>>
           /\ \E s \in {"settle", "newline", "fresh", "failed"} :
                /\ start' = [start EXCEPT ![w] = s]
                /\ s = "settle" => port' = "closed"
                /\ s \in {"newline", "fresh"} => port' = "open"
<1>1. CASE is_open
  BY <1>1 DEF Kicks, Closes, is_open, TypeOK, PortHeldOnce
<1>2. CASE ~ is_open
  <2>1. port = "closed" /\ Reopens(w) /\ UNCHANGED <<fresh, shown>>
    BY <1>2 DEF Kicks, is_open
  <2>2. PICK s \in {"newline", "fresh", "failed"} :
          start' = [start EXCEPT ![w] = s] /\ (s # "failed" => port' = "open")
    BY <2>1, ReopensHolds
  <2>3. port' \in {"closed", "open"} /\ leaked' = FALSE /\ UNCHANGED <<shell, output>>
    BY <2>1, ReopensHolds
  <2> QED BY <2>1, <2>2, <2>3 DEF TypeOK
<1> QED BY <1>1, <1>2

\* A kick that begins when no loop is alive and no other call is under way
\* preserves the invariant, whether start(w) had to wait in stop() or not.
LEMMA KickBegins ==
    ASSUME IInv, NEW w \in Conns, Kicks(w), Alive = {},
           task' = None, UNCHANGED <<loop, wsVars>>,
           \A v \in Conns \ {w} : ~ Starting(v),
           awaited' \in [Calls -> {None}]
    PROVE  IInv'
<1>1. PICK s \in {"settle", "newline", "fresh", "failed"} :
        /\ start' = [start EXCEPT ![w] = s]
        /\ s = "settle" => port' = "closed"
        /\ s \in {"newline", "fresh"} => port' = "open"
  BY KicksHolds DEF IInv
<1>2. /\ port' \in {"closed", "open"} /\ leaked' = FALSE
      /\ output' \in {"none", "printing", "buffered"}
      /\ UNCHANGED <<shell, fresh, shown>>
  BY KicksHolds DEF IInv
<1>3. \A k \in Calls : awaited'[k] = None
  OBVIOUS
<1>4. /\ start'[w] = s
      /\ \A v \in Conns \ {w} : start'[v] = start[v] /\ start[v] \in {"idle", "done", "failed"}
  BY <1>1 DEF IInv, TypeOK, Starting
<1>5. TypeOK'
  <2>1. awaited' \in [Calls -> Conns \cup {None}]
    OBVIOUS
  <2>2. start' \in [Conns -> {"idle", "stop", "settle", "newline", "fresh",
                             "echo", "done", "failed"}]
    BY <1>1 DEF IInv, TypeOK
  <2>3. UNCHANGED <<loop, closed, left>>
    BY DEF wsVars
  <2> QED BY <1>2, <2>1, <2>2, <2>3 DEF IInv, TypeOK, Calls
<1>6. Alive' = {}
  BY DEF Alive
<1>7. ReaderIsTask' /\ KickAlone'
  BY <1>6 DEF ReaderIsTask, KickAlone
<1>8. PortHeldOnce'
  BY <1>1, <1>2, <1>4 DEF PortHeldOnce
<1>9. OneStarting'
  BY <1>4 DEF OneStarting, Starting
<1>10. WaitsInStart'
  <2>1. \A v \in Conns : awaited'[<<"start", v>>] = None /\ awaited'[<<"stop", v>>] = None
    BY <1>3 DEF Calls
  <2> QED BY <1>4, <2>1 DEF WaitsInStart
<1>11. OneWaits' /\ WaitsForTask'
  BY <1>3 DEF OneWaits, WaitsForTask
<1> QED BY <1>5, <1>7, <1>8, <1>9, <1>10, <1>11 DEF IInv, OneCall

-----------------------------------------------------------------------------
(* The actions preserve the invariant *)

LEMMA Initially == Init => IInv
<1> SUFFICES ASSUME Init PROVE IInv
  OBVIOUS
<1> USE DEF Init, TargetInit, SerialInit, RelayInit
<1>1. TypeOK
  BY DEF TypeOK
<1>2. \A w \in Conns : start[w] = "idle" /\ ~ Starting(w)
  BY DEF Starting
<1>3. \A k \in Calls : awaited[k] = None
  OBVIOUS
<1>4. \A w \in Conns : awaited[<<"start", w>>] = None /\ awaited[<<"stop", w>>] = None
  BY <1>3 DEF Calls
<1>5. Alive = {}
  BY DEF Alive
<1>6. ReaderIsTask /\ KickAlone /\ PortHeldOnce
  BY <1>2, <1>5 DEF ReaderIsTask, KickAlone, PortHeldOnce
<1>7. OneCall
  BY <1>2, <1>3, <1>4 DEF OneCall, OneStarting, WaitsInStart, OneWaits, WaitsForTask
<1> QED BY <1>1, <1>6, <1>7 DEF IInv

\* A stop() that has to wait, made for start(w) or by itself when nobody is
\* in any call.
LEMMA StopWaits ==
    ASSUME IInv, Idle, NEW k \in Calls, StopsLater(k),
           UNCHANGED <<ioVars, fresh, shown, wsVars>>,
           \/ /\ \E w \in Conns : k = <<"stop", w>>
              /\ UNCHANGED start
           \/ \E w \in Conns : /\ k = <<"start", w>>
                               /\ start' = [start EXCEPT ![w] = "stop"]
    PROVE  IInv'
<1> USE DEF StopsLater
<1>1. /\ awaited' \in [Calls -> Conns \cup {None}]
      /\ awaited'[k] = task /\ \A l \in Calls \ {k} : awaited'[l] = None
      /\ task \in Conns /\ task # None /\ task' = task
  BY ConnsAssumption DEF IInv, TypeOK, Idle, Alive
<1>2. /\ start' \in [Conns -> {"idle", "stop", "settle", "newline", "fresh",
                               "echo", "done", "failed"}]
      /\ \A w \in Conns : ~ Kicking(w)' /\ start[w] \in {"idle", "done", "failed"}
  BY DEF IInv, TypeOK, Idle, Starting, Kicking
<1>3. loop' \in [Conns -> {"none", "run", "cancel", "done"}] /\ Alive' = Alive
  BY DEF IInv, TypeOK, Alive
<1>4. TypeOK'
  BY <1>1, <1>2, <1>3 DEF IInv, TypeOK, Calls, ioVars, portVars, targetVars, wsVars
<1>5. ReaderIsTask'
  BY <1>1, <1>3 DEF IInv, ReaderIsTask
<1>6. KickAlone' /\ PortHeldOnce'
  BY <1>2 DEF IInv, KickAlone, PortHeldOnce, Kicking, ioVars, portVars
<1>7. OneWaits' /\ WaitsForTask'
  BY <1>1 DEF OneWaits, WaitsForTask
<1>8. CASE \E w \in Conns : k = <<"stop", w>> /\ UNCHANGED start
  <2>1. \A v \in Conns : start'[v] \in {"idle", "done", "failed"}
    BY <1>2, <1>8
  <2>2. \A v \in Conns : awaited'[<<"start", v>>] = None
    BY <1>1, <1>8 DEF Calls
  <2>3. OneStarting' /\ WaitsInStart'
    BY <2>1, <2>2 DEF OneStarting, WaitsInStart, Starting
  <2> QED BY <1>4, <1>5, <1>6, <1>7, <2>3 DEF IInv, OneCall
<1>9. ASSUME NEW w \in Conns, k = <<"start", w>>, start' = [start EXCEPT ![w] = "stop"]
      PROVE  IInv'
  <2>1. start'[w] = "stop" /\ \A v \in Conns \ {w} : start'[v] \in {"idle", "done", "failed"}
    BY <1>2, <1>9 DEF IInv, TypeOK
  <2>2. /\ awaited'[<<"start", w>>] # None
        /\ \A v \in Conns \ {w} : awaited'[<<"start", v>>] = None
        /\ \A v \in Conns : awaited'[<<"stop", v>>] = None
    BY <1>1, <1>9 DEF Calls
  <2>3. OneStarting' /\ WaitsInStart'
    BY <2>1, <2>2 DEF OneStarting, WaitsInStart, Starting
  <2> QED BY <1>4, <1>5, <1>6, <1>7, <2>3 DEF IInv, OneCall
<1> QED BY <1>8, <1>9

LEMMA CallStartKeeps ==
    ASSUME IInv, NEW w \in Conns, CallStart(w)
    PROVE  IInv'
<1> USE DEF CallStart
<1>1. CASE StopsAtOnce /\ Kicks(w)
  <2>1. Alive = {} /\ task' = None /\ UNCHANGED <<loop, awaited, wsVars>>
    BY <1>1, NothingAlive DEF IInv, StopsAtOnce
  <2>2. awaited' \in [Calls -> {None}]
    BY <2>1 DEF IInv, TypeOK, Idle
  <2>3. \A v \in Conns \ {w} : ~ Starting(v)
    BY DEF Idle
  <2> QED BY <1>1, <2>1, <2>2, <2>3, KickBegins
<1>2. CASE /\ StopsLater(<<"start", w>>)
           /\ start' = [start EXCEPT ![w] = "stop"]
           /\ UNCHANGED <<ioVars, fresh, shown>>
  <2>1. <<"start", w>> \in Calls
    BY DEF Calls
  <2> QED BY <1>2, <2>1, StopWaits
<1> QED BY <1>1, <1>2 DEF StartBegins

LEMMA CallStopKeeps ==
    ASSUME IInv, NEW w \in Conns, CallStop(w)
    PROVE  IInv'
<1> USE DEF CallStop
<1>1. CASE StopsAtOnce
  <2>1. Alive = {} /\ Alive' = {} /\ task' = None
    BY <1>1, NothingAlive DEF IInv, StopsAtOnce, Alive
  <2>2. \A k \in Calls : awaited'[k] = None
    BY <1>1 DEF StopsAtOnce, Idle
  <2>3. TypeOK'
    BY <1>1 DEF StopsAtOnce, IInv, TypeOK, Calls, ioVars, portVars, targetVars, wsVars
  <2>4. ReaderIsTask' /\ KickAlone' /\ PortHeldOnce'
    BY <2>1 DEF IInv, ReaderIsTask, KickAlone, PortHeldOnce, ioVars, portVars
  <2>5. OneStarting' /\ WaitsInStart'
    BY <1>1 DEF IInv, OneCall, OneStarting, WaitsInStart, Starting, StopsAtOnce
  <2>6. OneWaits' /\ WaitsForTask'
    BY <2>2 DEF OneWaits, WaitsForTask
  <2> QED BY <2>3, <2>4, <2>5, <2>6 DEF IInv, OneCall
<1>2. CASE StopsLater(<<"stop", w>>)
  <2>1. <<"stop", w>> \in Calls
    BY DEF Calls
  <2> QED BY <1>2, <2>1, StopWaits
<1> QED BY <1>1, <1>2

\* When the awaited loop has ended, no loop is alive and no other call waits.
LEMMA Resumed ==
    ASSUME IInv, NEW k \in Calls, StopResumes(k)
    PROVE  /\ Alive = {} /\ task' = None /\ UNCHANGED loop
           /\ awaited' \in [Calls -> {None}]
<1>1. awaited[k] = task /\ task \notin Alive
  BY DEF IInv, OneCall, WaitsForTask, StopResumes
<1>2. \A l \in Calls \ {k} : awaited[l] = None
  BY DEF IInv, OneCall, OneWaits, StopResumes
<1>3. awaited' \in [Calls -> {None}]
  BY <1>2 DEF StopResumes, IInv, TypeOK
<1> QED BY <1>1, <1>3, NothingAlive DEF IInv, StopResumes

LEMMA StopReturnsKeeps ==
    ASSUME IInv, NEW w \in Conns, StopReturns(w)
    PROVE  IInv'
<1> DEFINE k == <<"stop", w>>
<1>1. k \in Calls /\ StopResumes(k)
  BY DEF Calls, StopReturns
<1>2. /\ Alive = {} /\ task' = None /\ UNCHANGED loop
      /\ awaited' \in [Calls -> {None}]
  BY <1>1, Resumed
<1>3. Alive' = {} /\ \A l \in Calls : awaited'[l] = None
  BY <1>2 DEF Alive
<1>4. \A v \in Conns : ~ Starting(v) /\ start[v] # "stop" /\ UNCHANGED start
  BY <1>1 DEF IInv, OneCall, WaitsInStart, StopResumes, StopReturns, Starting
<1>5. TypeOK'
  <2>1. awaited' \in [Calls -> Conns \cup {None}]
    BY <1>2
  <2> QED BY <1>2, <2>1 DEF StopReturns, IInv, TypeOK, Calls, ioVars, portVars, targetVars, wsVars
<1>6. ReaderIsTask' /\ KickAlone' /\ PortHeldOnce'
  BY <1>2, <1>3 DEF IInv, ReaderIsTask, KickAlone, PortHeldOnce, StopReturns, ioVars, portVars
<1>7. OneStarting' /\ WaitsInStart'
  <2>1. \A v \in Conns : awaited'[<<"start", v>>] = None /\ awaited'[<<"stop", v>>] = None
    BY <1>3 DEF Calls
  <2> QED BY <1>4, <2>1 DEF OneStarting, WaitsInStart, Starting
<1>8. OneWaits' /\ WaitsForTask'
  BY <1>3 DEF OneWaits, WaitsForTask
<1> QED BY <1>5, <1>6, <1>7, <1>8 DEF IInv, OneCall

\* The steps of start(w) after it has stopped the old loop.
LEMMA StartResumesKeeps ==
    ASSUME IInv, NEW w \in Conns, StartResumes(w), UNCHANGED wsVars
    PROVE  IInv'
<1> DEFINE k == <<"start", w>>
<1>1. k \in Calls /\ StopResumes(k) /\ Kicks(w)
  BY DEF Calls, StartResumes
<1>2. /\ Alive = {} /\ task' = None /\ UNCHANGED loop
      /\ awaited' \in [Calls -> {None}]
  BY <1>1, Resumed
<1>3. \A v \in Conns \ {w} : ~ Starting(v)
  BY DEF IInv, OneCall, OneStarting, Starting, StartResumes
<1> QED BY <1>1, <1>2, <1>3, KickBegins

\* A step of the kick that touches no loop and no call: start(w) moves on to s,
\* and the port is held if s says so.
LEMMA KickGoesOn ==
    ASSUME IInv, NEW w \in Conns, Kicking(w),
           NEW s \in {"newline", "fresh", "echo", "failed"},
           start' = [start EXCEPT ![w] = s],
           s # "failed" => port' # "closed",
           port' \in {"closed", "open", "broken"}, leaked' = FALSE,
           output' \in {"none", "printing", "buffered"},
           UNCHANGED <<shell, task, loop, awaited, fresh, shown, wsVars>>
    PROVE  IInv'
<1>1. /\ \A k \in Calls : awaited[k] = None
      /\ \A v \in Conns \ {w} : ~ Starting(v)
  BY KickIsTheOnlyCall DEF IInv
<1>2. /\ start'[w] = s
      /\ \A v \in Conns \ {w} : start'[v] = start[v] /\ start[v] \in {"idle", "done", "failed"}
  BY <1>1 DEF IInv, TypeOK, Starting
<1>3. Alive = {} /\ Alive' = {} /\ task' = None
  BY DEF IInv, KickAlone, Kicking, Alive
<1>4. TypeOK'
  <2>1. start' \in [Conns -> {"idle", "stop", "settle", "newline", "fresh",
                             "echo", "done", "failed"}]
    BY DEF IInv, TypeOK
  <2> QED BY <2>1 DEF IInv, TypeOK, Calls, wsVars
<1>5. ReaderIsTask' /\ KickAlone'
  BY <1>3 DEF ReaderIsTask, KickAlone
<1>6. PortHeldOnce'
  BY <1>2 DEF PortHeldOnce
<1>7. OneStarting' /\ WaitsInStart'
  <2>1. \A v \in Conns : awaited'[<<"start", v>>] = None /\ awaited'[<<"stop", v>>] = None
    BY <1>1 DEF Calls
  <2> QED BY <1>2, <2>1 DEF OneStarting, WaitsInStart, Starting
<1>8. OneWaits' /\ WaitsForTask'
  BY <1>1 DEF OneWaits, WaitsForTask
<1> QED BY <1>4, <1>5, <1>6, <1>7, <1>8 DEF IInv, OneCall

LEMMA KickSettledKeeps ==
    ASSUME IInv, NEW w \in Conns, KickSettled(w), UNCHANGED wsVars
    PROVE  IInv'
<1>1. Kicking(w) /\ port = "closed" /\ Reopens(w)
  BY DEF IInv, PortHeldOnce, KickSettled, Kicking
<1>2. PICK s \in {"newline", "fresh", "failed"} :
        start' = [start EXCEPT ![w] = s] /\ (s # "failed" => port' = "open")
  BY <1>1, ReopensHolds DEF IInv
<1>3. /\ port' \in {"closed", "open"} /\ leaked' = FALSE
      /\ UNCHANGED <<shell, output>>
  BY <1>1, ReopensHolds DEF IInv
<1>4. output' \in {"none", "printing", "buffered"}
  BY <1>3 DEF IInv, TypeOK
<1> QED BY <1>1, <1>2, <1>3, <1>4, KickGoesOn DEF KickSettled

LEMMA KickNewlineKeeps ==
    ASSUME IInv, NEW w \in Conns, KickNewline(w), UNCHANGED wsVars
    PROVE  IInv'
<1> USE DEF KickNewline
<1>1. Kicking(w) /\ port # "closed" /\ leaked = FALSE
  BY DEF IInv, TypeOK, PortHeldOnce, Kicking
<1>2. /\ UNCHANGED <<shell, port, leaked>>
      /\ output' \in {"none", "printing", "buffered"}
  BY DEF Writes, WriteRaises, Newline, Answers, portVars, targetVars, IInv, TypeOK
<1>3. port' \in {"closed", "open", "broken"} /\ leaked' = FALSE /\ port' # "closed"
  BY <1>1, <1>2 DEF IInv, TypeOK
<1>4. CASE start' = [start EXCEPT ![w] = "echo"]
  BY <1>1, <1>2, <1>3, <1>4, KickGoesOn
<1>5. CASE start' = [start EXCEPT ![w] = "failed"]
  BY <1>1, <1>2, <1>3, <1>5, KickGoesOn
<1> QED BY <1>4, <1>5

\* The new loop is alone: KickAlone says so of the state it starts from.
LEMMA StartReturnsKeeps ==
    ASSUME IInv, NEW w \in Conns, StartReturns(w), UNCHANGED wsVars
    PROVE  IInv'
<1> USE DEF StartReturns
<1>1. Kicking(w)
  BY DEF Kicking
<1>2. /\ \A k \in Calls : awaited[k] = None
      /\ \A v \in Conns \ {w} : ~ Starting(v)
  BY <1>1, KickIsTheOnlyCall DEF IInv
<1>3. /\ start'[w] = "done"
      /\ \A v \in Conns \ {w} : start'[v] = start[v] /\ start[v] \in {"idle", "done", "failed"}
  BY <1>2 DEF IInv, TypeOK, Starting
<1>4. Alive = {}
  BY <1>1 DEF IInv, KickAlone, Kicking
<1>5. Alive' = {w}
  BY <1>4 DEF Alive, IInv, TypeOK
<1>6. TypeOK'
  <2>1. /\ start' \in [Conns -> {"idle", "stop", "settle", "newline", "fresh",
                                "echo", "done", "failed"}]
        /\ loop' \in [Conns -> {"none", "run", "cancel", "done"}]
    BY DEF IInv, TypeOK
  <2> QED BY <2>1 DEF IInv, TypeOK, Calls, ioVars, portVars, targetVars, wsVars
<1>7. ReaderIsTask'
  BY <1>5 DEF ReaderIsTask
<1>8. KickAlone' /\ PortHeldOnce'
  BY <1>3 DEF IInv, KickAlone, PortHeldOnce, ioVars, portVars
<1>9. OneStarting' /\ WaitsInStart'
  <2>1. \A v \in Conns : awaited'[<<"start", v>>] = None /\ awaited'[<<"stop", v>>] = None
    BY <1>2 DEF Calls
  <2> QED BY <1>3, <2>1 DEF OneStarting, WaitsInStart, Starting
<1>10. OneWaits' /\ WaitsForTask'
  BY <1>2 DEF OneWaits, WaitsForTask
<1> QED BY <1>6, <1>7, <1>8, <1>9, <1>10 DEF IInv, OneCall

\* A step of a loop, alive before it, makes no other loop alive and leaves the
\* calls alone.
LEMMA LoopKeeps ==
    ASSUME IInv, NEW w \in Conns, LoopStep(w, {}), UNCHANGED wsVars
    PROVE  IInv'
<1>1. PICK s \in {"run", "done"} : loop' = [loop EXCEPT ![w] = s]
  BY DEF LoopStep, LoopForwards, LoopEnds, LoopCancelled, LoopMissesCancel, Sends
<1>2. /\ w \in Alive
      /\ output' \in {"none", "printing", "buffered"}
      /\ shown' \subseteq Conns
      /\ UNCHANGED <<shell, port, leaked, task, start, awaited, fresh>>
  BY DEF LoopStep, LoopForwards, LoopEnds, LoopCancelled, LoopMissesCancel, Sends,
         Alive, Reads, ioVars, portVars, targetVars, IInv, TypeOK
<1>3. Alive' \subseteq Alive
  BY <1>1, <1>2 DEF Alive, IInv, TypeOK
<1>4. TypeOK'
  <2>1. loop' \in [Conns -> {"none", "run", "cancel", "done"}]
    BY <1>1 DEF IInv, TypeOK
  <2> QED BY <1>2, <2>1 DEF IInv, TypeOK, Calls, wsVars
<1>5. ReaderIsTask' /\ KickAlone' /\ PortHeldOnce'
  BY <1>2, <1>3 DEF IInv, ReaderIsTask, KickAlone, PortHeldOnce
<1>6. OneCall'
  BY <1>2 DEF IInv, OneCall, OneStarting, WaitsInStart, OneWaits, WaitsForTask, Starting
<1> QED BY <1>4, <1>5, <1>6 DEF IInv

\* What clients type, the target prints and the adapter does changes neither the
\* relay nor whether the port is held.
LEMMA SurroundingsKeep ==
    ASSUME IInv,
           UNCHANGED <<task, loop, start, awaited, shown, leaked>>,
           shell' \in Clients \cup {None},
           output' \in {"none", "printing", "buffered"},
           port' \in {"closed", "open", "broken"},
           port' = "closed" <=> port = "closed",
           fresh' \in BOOLEAN,
           closed' \subseteq Conns, left' \subseteq Conns
    PROVE  IInv'
<1>1. TypeOK'
  BY DEF IInv, TypeOK, Calls
<1>2. ReaderIsTask' /\ KickAlone' /\ PortHeldOnce'
  BY DEF IInv, ReaderIsTask, KickAlone, PortHeldOnce, Alive
<1>3. OneCall'
  BY DEF IInv, OneCall, OneStarting, WaitsInStart, OneWaits, WaitsForTask, Starting
<1> QED BY <1>1, <1>2, <1>3 DEF IInv

LEMMA NextKeeps == IInv /\ [Next]_vars => IInv'
<1> SUFFICES ASSUME IInv, [Next]_vars PROVE IInv'
  OBVIOUS
<1> USE DEF IInv, TypeOK, portVars, targetVars, ioVars, relayVars, wsVars
<1>1. ASSUME NEW w \in Conns, CallStart(w) PROVE IInv'
  BY <1>1, CallStartKeeps
<1>2. ASSUME NEW w \in Conns, CallStop(w) PROVE IInv'
  BY <1>2, CallStopKeeps
<1>3. ASSUME NEW w \in Conns, StartStep(w) PROVE IInv'
  BY <1>3, StartResumesKeeps, KickSettledKeeps, KickNewlineKeeps, StartReturnsKeeps
     DEF StartStep
<1>4. ASSUME NEW w \in Conns, StopReturns(w) PROVE IInv'
  BY <1>4, StopReturnsKeeps
<1>5. ASSUME NEW w \in Conns, LoopStep(w, {}), UNCHANGED wsVars PROVE IInv'
  BY <1>5, LoopKeeps
<1>6. ASSUME NEW w \in Conns, WsCloses(w) \/ BrowserLeaves(w) PROVE IInv'
  BY <1>6, SurroundingsKeep DEF WsCloses, BrowserLeaves
<1>7. ASSUME NEW c \in Clients, CallWrite(c) PROVE IInv'
  BY <1>7, SurroundingsKeep DEF CallWrite, Types, Writes, WriteRaises, Keys, Answers
<1>8. CASE CallLogout
  BY <1>8, SurroundingsKeep DEF CallLogout, LogsOut, LogoutRaises, Writes, WriteRaises,
     EndOfSession, Answers
<1>9. CASE TargetPrints
  BY <1>9, SurroundingsKeep DEF TargetPrints, Prints
<1>10. CASE AdapterGoes
  BY <1>10, SurroundingsKeep DEF AdapterGoes, Unplug
<1>11. CASE UNCHANGED vars
  BY <1>11, SurroundingsKeep DEF vars
<1> QED BY <1>1, <1>2, <1>3, <1>4, <1>5, <1>6, <1>7, <1>8, <1>9, <1>10, <1>11 DEF Next

-----------------------------------------------------------------------------
(* The theorems *)

\* The inductive invariant of the relay under serialised calls.
THEOREM RelayInvariant == Spec => []IInv
<1> QED BY Initially, NextKeeps, PTL DEF Spec

\* The variables keep the shape that relay.py gives them.
THEOREM RelayTypeOK == Spec => []TypeOK
<1>1. IInv => TypeOK
  BY DEF IInv
<1> QED BY <1>1, RelayInvariant, PTL

\* start() never leaves two loops reading the port: both would be the task that
\* _task records.
THEOREM RelayOneReader == Spec => []OneReader
<1>1. IInv => OneReader
  BY DEF IInv, ReaderIsTask, OneReader
<1> QED BY <1>1, RelayInvariant, PTL

\* The loop that is alive is the one stop() would cancel.
THEOREM RelayReaderIsTask == Spec => []ReaderIsTask
<1>1. IInv => ReaderIsTask
  BY DEF IInv
<1> QED BY <1>1, RelayInvariant, PTL

\* Nobody reads the port while the kick closes, reopens and prods it.
THEOREM RelayKickAlone == Spec => []KickAlone
<1>1. IInv => KickAlone
  BY DEF IInv
<1> QED BY <1>1, RelayInvariant, PTL

\* No kick opens the port over an open one, and the port it opened is still held
\* when it writes the newline.
THEOREM RelayPortHeldOnce == Spec => []PortHeldOnce
<1>1. IInv => PortHeldOnce
  BY DEF IInv
<1> QED BY <1>1, RelayInvariant, PTL
=============================================================================
