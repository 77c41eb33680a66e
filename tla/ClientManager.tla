--------------------------- MODULE ClientManager ----------------------------
(***************************************************************************)
(* kvmd_serial_term/client.py: exclusive access to the serial port, with a *)
(* FIFO queue and a reconnect grace period.  The manager is synchronous    *)
(* code: each method runs to completion between two awaits of the event    *)
(* loop, so each of its outcomes is one action.                            *)
(*                                                                         *)
(* Time.  The code stores the moment of a release and compares the time    *)
(* elapsed since then with grace_period.  grace[c] is that elapsed time in *)
(* ticks.  It stops counting at GracePeriod + 1: every later value gives   *)
(* the same answer to the code's only question, elapsed > grace_period.    *)
(***************************************************************************)
EXTENDS Sids, Integers, Sequences, SequencesExt

CONSTANT GracePeriod        \* ClientManager(grace_period=...), in ticks

ASSUME GraceAssumption == GracePeriod \in Nat

VARIABLES
    active,         \* _active: the client that holds the port, or None
    queue,          \* _queue: the waiting clients, first in line first
    grace           \* _grace: ticks since the release of each past holder

cmVars == <<active, queue, grace>>

NoEntry == -1                           \* client_id not in self._grace
Expired == GracePeriod + 1              \* elapsed > self._grace_period
Ages    == 0 .. Expired

-----------------------------------------------------------------------------
\* client_id in self._queue
Queued(c) == Contains(queue, c)

\* get_position for a queued client: its 1-based place.
Position(c) == CHOOSE i \in 1 .. Len(queue) : queue[i] = c

IsActive(c) == active = c

CMInit ==
    /\ active = None
    /\ queue = << >>
    /\ grace = [c \in Clients |-> NoEntry]

-----------------------------------------------------------------------------
(* acquire(): returns "active" in the first and third case, the position   *)
(* in the queue in the second and fourth.                                  *)

AcquireHeld(c) ==
    /\ active = c
    /\ UNCHANGED cmVars

AcquireQueued(c) ==
    /\ active # c
    /\ Queued(c)
    /\ UNCHANGED cmVars

AcquireFree(c) ==
    /\ active = None
    /\ ~ Queued(c)
    /\ active' = c
    /\ grace' = [grace EXCEPT ![c] = NoEntry]
    /\ UNCHANGED queue

\* Mutants of AcquireWait: a lost check that the client is already waiting; a
\* stack instead of a queue.
AcquireWaitTwice(c) ==
    /\ active \notin {None, c}
    /\ Len(queue) <= Cardinality(Clients)
    /\ queue' = Append(queue, c)
    /\ UNCHANGED <<active, grace>>

AcquireWaitAtFront(c) ==
    /\ active \notin {None, c}
    /\ ~ Queued(c)
    /\ queue' = <<c>> \o queue
    /\ UNCHANGED <<active, grace>>

AcquireWait(c) ==
    /\ active \notin {None, c}
    /\ ~ Queued(c)
    /\ queue' = Append(queue, c)
    /\ UNCHANGED <<active, grace>>

Acquire(c) ==
    \/ AcquireHeld(c)
    \/ AcquireQueued(c)
    \/ AcquireFree(c)
    \/ AcquireWait(c)

-----------------------------------------------------------------------------
(* release(), with _promote_next() inlined: the head of the queue takes    *)
(* over in the same step and its own grace entry is dropped.               *)

\* The client release(c) promotes: its return value.
Promoted(c) == IF active = c /\ queue # << >> THEN Head(queue) ELSE None

\* Mutants of ReleasePromote: the promoted client keeps its grace entry; the
\* client that waited least is promoted.
ReleasePromoteKeepGrace(c) ==
    /\ active = c
    /\ queue # << >>
    /\ active' = Head(queue)
    /\ queue' = Tail(queue)
    /\ grace' = [grace EXCEPT ![c] = 0]

ReleasePromoteLast(c) ==
    /\ active = c
    /\ queue # << >>
    /\ active' = Last(queue)
    /\ queue' = Front(queue)
    /\ grace' = [grace EXCEPT ![c] = 0, ![Last(queue)] = NoEntry]

ReleasePromote(c) ==
    /\ active = c
    /\ queue # << >>
    /\ active' = Head(queue)
    /\ queue' = Tail(queue)
    /\ grace' = [grace EXCEPT ![c] = 0, ![Head(queue)] = NoEntry]

\* Mutants of ReleaseIdle: _active is cleared first, so that the entry is stored
\* under None; a release that forgets to promote.
ReleaseStoredUnderNone(c) ==
    /\ active = c
    /\ queue = << >>
    /\ active' = None
    /\ grace' = [k \in Clients \cup {None} |-> IF k = None THEN 0 ELSE grace[k]]
    /\ UNCHANGED queue

ReleaseNoPromotion(c) ==
    /\ active = c
    /\ active' = None
    /\ grace' = [grace EXCEPT ![c] = 0]
    /\ UNCHANGED queue

ReleaseIdle(c) ==
    /\ active = c
    /\ queue = << >>
    /\ active' = None
    /\ grace' = [grace EXCEPT ![c] = 0]
    /\ UNCHANGED queue

ReleaseQueued(c) ==
    /\ active # c
    /\ Queued(c)
    /\ queue' = RemoveAt(queue, Position(c))
    /\ UNCHANGED <<active, grace>>

ReleaseUnknown(c) ==
    /\ active # c
    /\ ~ Queued(c)
    /\ UNCHANGED cmVars

Release(c) ==
    \/ ReleasePromote(c)
    \/ ReleaseIdle(c)
    \/ ReleaseQueued(c)
    \/ ReleaseUnknown(c)

-----------------------------------------------------------------------------
(* reconnect(): only the first case returns True.                          *)

\* reconnect(c) deletes an entry it finds expired.
Pruned(c) == IF grace[c] = Expired THEN [grace EXCEPT ![c] = NoEntry] ELSE grace

\* Mutant of MayReconnect: the test that nobody else holds the port is lost.
MayReconnectAnyway(c) == grace[c] \in 0 .. GracePeriod

\* The answer of reconnect(c).
MayReconnect(c) == grace[c] \in 0 .. GracePeriod /\ active \in {None, c}

ReconnectGranted(c) ==
    /\ MayReconnect(c)
    /\ active' = c
    /\ grace' = [grace EXCEPT ![c] = NoEntry]
    /\ UNCHANGED queue

ReconnectExpired(c) ==
    /\ grace[c] = Expired
    /\ grace' = Pruned(c)
    /\ UNCHANGED <<active, queue>>

ReconnectRefused(c) ==
    /\ \/ grace[c] = NoEntry
       \/ grace[c] \in 0 .. GracePeriod /\ active \notin {None, c}
    /\ UNCHANGED cmVars

Reconnect(c) ==
    \/ ReconnectGranted(c)
    \/ ReconnectExpired(c)
    \/ ReconnectRefused(c)

-----------------------------------------------------------------------------
\* time.monotonic() advances: every recorded release gets older.
Tick ==
    /\ grace' = [c \in Clients |->
                    IF grace[c] \in 0 .. GracePeriod THEN grace[c] + 1
                                                     ELSE grace[c]]
    /\ UNCHANGED <<active, queue>>

CMNext ==
    \/ \E c \in Clients : Acquire(c) \/ Release(c) \/ Reconnect(c)
    \/ Tick

CMSpec == CMInit /\ [][CMNext]_cmVars

-----------------------------------------------------------------------------
(* Properties *)

\* The state has the shape the code's annotations give it.
CMTypeOK ==
    /\ active \in Clients \cup {None}
    /\ queue \in Seq(Clients)
    /\ grace \in [Clients -> Ages \cup {NoEntry}]

\* A client has one place at most: it waits once, and not while it holds the
\* port.  acquire() may be called again for a client that already waits or
\* already holds (a second WebSocket with the same sid).
OnePlaceEach ==
    /\ \A i, j \in 1 .. Len(queue) : queue[i] = queue[j] => i = j
    /\ \A i \in 1 .. Len(queue) : queue[i] # active

\* The port is never free while somebody waits for it: no sequence of acquire,
\* release and reconnect loses a promotion inside the manager.
NeverIdleWhileWaiting == active = None => queue = << >>

\* The holder has no grace entry, whichever of the four ways it got the port:
\* a stale entry would let reconnect() grant it a second time later.
HolderHasNoGraceEntry == active # None => grace[active] = NoEntry

\* The inductive invariant.  OnePlaceEach alone is not inductive: reconnect()
\* does not look at the queue, and only NeverIdleWhileWaiting tells that the
\* client it makes active is not also waiting.
CMInv ==
    /\ CMTypeOK
    /\ OnePlaceEach
    /\ NeverIdleWhileWaiting
    /\ HolderHasNoGraceEntry

\* Whoever gets the port is the first in line, or nobody was in line: neither
\* a newcomer's acquire() nor a reconnect() within the grace period overtakes.
NoOvertaking ==
    [][active' \notin {active, None} => queue = << >> \/ active' = Head(queue)]_cmVars

\* The manager implements the line: the holder followed by the queue.
PortLine == IF active = None THEN queue ELSE <<active>> \o queue
Line == INSTANCE ClientLine WITH line <- PortLine
ImplementsLine == Line!LineSpec

\* If no client keeps the port for ever, no client waits for ever.  The
\* hypothesis is about the people at the browsers, not about the scheduler.
NoStarvation ==
    (\A c \in Clients : []<>(active # c))
        => \A c \in Clients : Queued(c) ~> ~ Queued(c)
=============================================================================
