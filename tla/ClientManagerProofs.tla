------------------------ MODULE ClientManagerProofs -------------------------
(***************************************************************************)
(* Proofs about ClientManager, for every set of clients and every grace    *)
(* period: the inductive invariant CMInv, that nobody is overtaken, that a *)
(* reconnect within the grace period does nothing acquire() would not do,  *)
(* and that the manager implements ClientLine.                             *)
(***************************************************************************)
EXTENDS ClientManager, SequenceTheorems, TLAPS

(* Removing one element of a sequence keeps the others, in their order.    *)
LEMMA RemoveAtProperties ==
    ASSUME NEW S, NEW s \in Seq(S), NEW i \in 1 .. Len(s)
    PROVE  /\ RemoveAt(s, i) \in Seq(S)
           /\ Len(RemoveAt(s, i)) = Len(s) - 1
           /\ \A j \in 1 .. Len(s) - 1 :
                RemoveAt(s, i)[j] = IF j < i THEN s[j] ELSE s[j + 1]
<1> DEFINE front == SubSeq(s, 1, i - 1)
           back  == SubSeq(s, i + 1, Len(s))
<1>0. Len(s) \in Nat /\ i \in Nat /\ i >= 1 /\ i <= Len(s)
  OBVIOUS
<1>1. /\ front \in Seq(S)
      /\ Len(front) = i - 1
      /\ \A j \in 1 .. i - 1 : front[j] = s[j]
  <2>1. \A j \in 1 .. i - 1 : s[j] \in S
    BY <1>0
  <2>2. /\ front \in Seq(S)
        /\ Len(front) = IF 1 <= i - 1 THEN i - 1 - 1 + 1 ELSE 0
        /\ \A j \in 1 .. i - 1 - 1 + 1 : front[j] = s[1 + j - 1]
    BY <1>0, <2>1, SubSeqProperties
  <2>3. QED BY <1>0, <2>2
<1>2. /\ back \in Seq(S)
      /\ Len(back) = Len(s) - i
      /\ \A j \in 1 .. Len(s) - i : back[j] = s[i + j]
  <2>1. \A j \in i + 1 .. Len(s) : s[j] \in S
    BY <1>0
  <2>2. /\ back \in Seq(S)
        /\ Len(back) = IF i + 1 <= Len(s) THEN Len(s) - (i + 1) + 1 ELSE 0
        /\ \A j \in 1 .. Len(s) - (i + 1) + 1 : back[j] = s[i + 1 + j - 1]
    BY <1>0, <2>1, SubSeqProperties
  <2>3. QED BY <1>0, <2>2
<1>3. RemoveAt(s, i) = front \o back
  BY DEF RemoveAt
<1> HIDE DEF front, back
<1>4. /\ front \o back \in Seq(S)
      /\ Len(front \o back) = Len(front) + Len(back)
      /\ \A j \in 1 .. Len(front) + Len(back) :
            (front \o back)[j] = IF j <= Len(front) THEN front[j]
                                                    ELSE back[j - Len(front)]
  BY <1>1, <1>2, ConcatProperties
<1>5. ASSUME NEW j \in 1 .. Len(s) - 1
      PROVE  (front \o back)[j] = IF j < i THEN s[j] ELSE s[j + 1]
  BY <1>0, <1>1, <1>2, <1>4
<1>6. QED BY <1>0, <1>1, <1>2, <1>3, <1>4, <1>5

(* A waiting client has a position, and it is where the client stands.     *)
LEMMA PositionProperties ==
    ASSUME CMTypeOK, NEW c \in Clients, Queued(c)
    PROVE  Position(c) \in 1 .. Len(queue) /\ queue[Position(c)] = c
BY DEF Queued, Contains, Position

(* A client that goes to the back of the queue has that one place.         *)
LEMMA GoesToTheBack ==
    ASSUME CMTypeOK, OnePlaceEach, NEW c \in Clients,
           active \notin {None, c}, ~ Queued(c),
           active' = active, queue' = Append(queue, c)
    PROVE  /\ queue' \in Seq(Clients)
           /\ OnePlaceEach' /\ NeverIdleWhileWaiting'
           /\ \A x \in Clients : Queued(x)' <=> Queued(x) \/ x = c
<1>1. /\ queue' \in Seq(Clients)
      /\ Len(queue') = Len(queue) + 1
      /\ \A i \in 1 .. Len(queue) : queue'[i] = queue[i]
      /\ queue'[Len(queue) + 1] = c
  BY AppendProperties DEF CMTypeOK
<1>2. \A i \in 1 .. Len(queue) : queue[i] # c
  BY DEF Queued, Contains
<1>3. OnePlaceEach'
  BY <1>1, <1>2 DEF OnePlaceEach, CMTypeOK
<1>4. \A x \in Clients : Queued(x)' <=> Queued(x) \/ x = c
  BY <1>1 DEF Queued, Contains, CMTypeOK
<1> QED BY <1>1, <1>3, <1>4 DEF NeverIdleWhileWaiting

-----------------------------------------------------------------------------
(* Each method preserves the invariant.                                    *)

\* acquire() keeps the manager's invariants, whichever of its outcomes occurs.
LEMMA AcquireInv ==
    ASSUME CMInv, NEW c \in Clients, Acquire(c)
    PROVE  CMInv'
<1> USE NoneAssumption, GraceAssumption
    DEF CMInv, CMTypeOK, OnePlaceEach, NeverIdleWhileWaiting,
        HolderHasNoGraceEntry, NoEntry, Ages, Expired, cmVars
<1>1. CASE AcquireHeld(c)    BY <1>1 DEF AcquireHeld
<1>2. CASE AcquireQueued(c)  BY <1>2 DEF AcquireQueued
<1>3. CASE AcquireFree(c)
  <2>1. active' = c /\ queue' = << >>
    BY <1>3 DEF AcquireFree
  <2>2. grace' \in [Clients -> Ages \cup {NoEntry}] /\ grace'[c] = NoEntry
    BY <1>3 DEF AcquireFree
  <2>3. QED BY <2>1, <2>2
<1>4. CASE AcquireWait(c)
  BY <1>4, GoesToTheBack DEF AcquireWait
<1>5. QED BY <1>1, <1>2, <1>3, <1>4 DEF Acquire

\* So does release(): of the holder, of a waiting client, of a stranger.
LEMMA ReleaseInv ==
    ASSUME CMInv, NEW c \in Clients, Release(c)
    PROVE  CMInv'
<1> USE NoneAssumption, GraceAssumption
    DEF CMInv, CMTypeOK, OnePlaceEach, NeverIdleWhileWaiting,
        HolderHasNoGraceEntry, NoEntry, Ages, Expired, cmVars
<1>1. CASE ReleasePromote(c)
  <2>1. /\ Head(queue) \in Clients /\ Head(queue) = queue[1]
        /\ queue' \in Seq(Clients)
        /\ Len(queue') = Len(queue) - 1
        /\ \A i \in 1 .. Len(queue') : queue'[i] = queue[i + 1]
    BY <1>1, HeadTailProperties DEF ReleasePromote
  <2>2. active' = queue[1] /\ Len(queue) \in Nat \ {0}
    BY <1>1, <2>1, EmptySeq DEF ReleasePromote
  <2>3. /\ grace' \in [Clients -> Ages \cup {NoEntry}]
        /\ grace'[Head(queue)] = NoEntry
    BY <1>1, <2>1 DEF ReleasePromote
  <2>4. OnePlaceEach'
    <3>1. /\ 1 \in 1 .. Len(queue)
          /\ \A i \in 1 .. Len(queue') : i + 1 \in 1 .. Len(queue) /\ i + 1 # 1
      BY <2>1, <2>2
    <3> HIDE DEF CMInv
    <3>2. \A i, j \in 1 .. Len(queue) : queue[i] = queue[j] => i = j
      BY DEF CMInv
    <3>3. ASSUME NEW i \in 1 .. Len(queue'), NEW j \in 1 .. Len(queue'), queue'[i] = queue'[j]
          PROVE  i = j
      <4>1. i + 1 = j + 1
        BY <2>1, <3>1, <3>2, <3>3
      <4> QED BY <4>1
    <3>4. \A i \in 1 .. Len(queue') : queue'[i] # active'
      BY <2>1, <2>2, <3>1, <3>2
    <3> QED BY <3>3, <3>4
  <2>5. QED BY <2>1, <2>2, <2>3, <2>4
<1>2. CASE ReleaseIdle(c)
  BY <1>2 DEF ReleaseIdle
<1>3. CASE ReleaseQueued(c)
  <2> DEFINE p == Position(c)
  <2>1. p \in 1 .. Len(queue)
    BY <1>3, PositionProperties DEF ReleaseQueued
  <2> HIDE DEF p
  <2>2. /\ RemoveAt(queue, p) \in Seq(Clients)
        /\ Len(RemoveAt(queue, p)) = Len(queue) - 1
        /\ \A j \in 1 .. Len(queue) - 1 :
             RemoveAt(queue, p)[j] = IF j < p THEN queue[j] ELSE queue[j + 1]
    BY <2>1, RemoveAtProperties
  <2>3. queue' = RemoveAt(queue, p) /\ active' = active /\ grace' = grace
    BY <1>3 DEF ReleaseQueued, p
  <2> DEFINE old(i) == IF i < p THEN i ELSE i + 1
  <2>4. OnePlaceEach'
    <3>1. \A i \in 1 .. Len(queue') :
            old(i) \in 1 .. Len(queue) /\ queue'[i] = queue[old(i)]
      BY <2>1, <2>2, <2>3
    <3>2. \A i, j \in 1 .. Len(queue') : old(i) = old(j) => i = j
      BY <2>1, <2>2, <2>3
    <3> HIDE DEF old
    <3>3. \A i, j \in 1 .. Len(queue') : queue'[i] = queue'[j] => i = j
      BY <3>1, <3>2
    <3>4. \A i \in 1 .. Len(queue') : queue'[i] # active'
      BY <2>3, <3>1
    <3>5. QED BY <3>3, <3>4
  <2>5. NeverIdleWhileWaiting'
    BY <2>1, <2>2, <2>3
  <2>6. QED BY <2>2, <2>3, <2>4, <2>5
<1>4. CASE ReleaseUnknown(c)  BY <1>4 DEF ReleaseUnknown
<1>5. QED BY <1>1, <1>2, <1>3, <1>4 DEF Release

\* So does reconnect(), because the holder has no entry of its own.
LEMMA ReconnectInv ==
    ASSUME CMInv, NEW c \in Clients, Reconnect(c)
    PROVE  CMInv'
<1> USE NoneAssumption, GraceAssumption
    DEF CMInv, CMTypeOK, OnePlaceEach, NeverIdleWhileWaiting,
        HolderHasNoGraceEntry, NoEntry, Ages, Expired, cmVars
<1>1. CASE ReconnectGranted(c)
  <2>1. active = None
    BY <1>1 DEF ReconnectGranted, MayReconnect
  <2>2. active' = c /\ queue' = << >>
    BY <1>1, <2>1 DEF ReconnectGranted, MayReconnect
  <2>3. grace' \in [Clients -> Ages \cup {NoEntry}] /\ grace'[c] = NoEntry
    BY <1>1 DEF ReconnectGranted, MayReconnect
  <2>4. QED BY <2>2, <2>3
<1>2. CASE ReconnectExpired(c)  BY <1>2 DEF ReconnectExpired, Pruned
<1>3. CASE ReconnectRefused(c)  BY <1>3 DEF ReconnectRefused
<1>4. QED BY <1>1, <1>2, <1>3 DEF Reconnect

\* Time passes without any effect but on the grace entries.
LEMMA TickInv ==
    ASSUME CMInv, Tick
    PROVE  CMInv'
BY NoneAssumption, GraceAssumption
   DEF CMInv, CMTypeOK, OnePlaceEach, NeverIdleWhileWaiting,
       HolderHasNoGraceEntry, NoEntry, Ages, Expired, Tick

(* What release(c) does, as its caller sees it: the client has no place any *)
(* more, the one that is promoted does not wait any more, and nobody else  *)
(* is affected.                                                            *)
LEMMA ReleaseEffects ==
    ASSUME CMInv, NEW c \in Clients, Release(c)
    PROVE  /\ \A x \in Clients : Queued(x)' => Queued(x) /\ x # c /\ x # active'
           /\ active = c => active' = Promoted(c)
           /\ active # c => active' = active /\ Promoted(c) = None
           /\ Promoted(c) # None => Promoted(c) \in Clients /\ Queued(Promoted(c))
<1> USE NoneAssumption DEF CMInv, CMTypeOK, OnePlaceEach
<1>1. ASSUME NEW x \in Clients, Queued(x)' PROVE x # active'
  BY <1>1, ReleaseInv DEF Queued, Contains
<1>2. CASE ReleasePromote(c)
  <2>1. /\ Head(queue) \in Clients /\ Head(queue) = queue[1]
        /\ Len(queue') = Len(queue) - 1 /\ Len(queue) \in Nat \ {0}
        /\ \A i \in 1 .. Len(queue') : queue'[i] = queue[i + 1]
    BY <1>2, HeadTailProperties, EmptySeq DEF ReleasePromote
  <2>2. \A x \in Clients : Queued(x)' => Queued(x) /\ x # c
    BY <1>2, <2>1 DEF ReleasePromote, Queued, Contains
  <2>3. Queued(Head(queue))
    BY <2>1 DEF Queued, Contains
  <2> QED BY <1>1, <1>2, <2>1, <2>2, <2>3 DEF ReleasePromote, Promoted
<1>3. CASE ReleaseIdle(c)
  BY <1>1, <1>3 DEF ReleaseIdle, Promoted, Queued, Contains
<1>4. CASE ReleaseQueued(c)
  <2> DEFINE p == Position(c)
  <2>1. p \in 1 .. Len(queue) /\ queue[p] = c
    BY <1>4, PositionProperties DEF ReleaseQueued
  <2> HIDE DEF p
  <2>2. /\ Len(RemoveAt(queue, p)) = Len(queue) - 1
        /\ \A j \in 1 .. Len(queue) - 1 :
             RemoveAt(queue, p)[j] = IF j < p THEN queue[j] ELSE queue[j + 1]
    BY <2>1, RemoveAtProperties
  <2>3. queue' = RemoveAt(queue, p) /\ active' = active /\ active # c
    BY <1>4 DEF ReleaseQueued, p
  <2>4. \A x \in Clients : Queued(x)' => Queued(x) /\ x # c
    BY <2>1, <2>2, <2>3 DEF Queued, Contains
  <2> QED BY <1>1, <2>3, <2>4 DEF Promoted
<1>5. CASE ReleaseUnknown(c)
  BY <1>1, <1>5 DEF ReleaseUnknown, Promoted, cmVars, Queued
<1> QED BY <1>2, <1>3, <1>4, <1>5 DEF Release

(* Nobody but the client that is released loses its place or goes back: it *)
(* waits no further behind than before, or has the port.                   *)
LEMMA ReleaseMovesUp ==
    ASSUME CMInv, NEW c \in Clients, Release(c), NEW i \in 1 .. Len(queue), queue[i] # c
    PROVE  active' = queue[i] \/ \E j \in 1 .. Len(queue') : j <= i /\ queue'[j] = queue[i]
<1> USE DEF CMInv, CMTypeOK
<1>1. CASE ReleasePromote(c)
  <2>1. /\ active' = queue[1] /\ Len(queue') = Len(queue) - 1
        /\ \A j \in 1 .. Len(queue') : queue'[j] = queue[j + 1]
    BY <1>1, HeadTailProperties DEF ReleasePromote
  <2>2. CASE i = 1
    BY <2>1, <2>2
  <2>3. CASE i # 1
    <3>1. i - 1 \in 1 .. Len(queue') /\ i - 1 <= i /\ queue'[i - 1] = queue[i]
      BY <2>1, <2>3
    <3> QED BY <3>1
  <2> QED BY <2>2, <2>3
<1>2. CASE ReleaseIdle(c)
  BY <1>2 DEF ReleaseIdle
<1>3. CASE ReleaseQueued(c)
  <2> DEFINE p == Position(c)
             j == IF i < p THEN i ELSE i - 1
  <2>1. p \in 1 .. Len(queue) /\ queue[p] = c
    BY <1>3, PositionProperties DEF ReleaseQueued
  <2>2. queue' = RemoveAt(queue, p)
    BY <1>3 DEF ReleaseQueued
  <2> HIDE DEF p
  <2>3. /\ Len(queue') = Len(queue) - 1
        /\ \A k \in 1 .. Len(queue) - 1 : queue'[k] = IF k < p THEN queue[k] ELSE queue[k + 1]
    BY <2>1, <2>2, RemoveAtProperties
  <2>4. i # p
    BY <2>1
  <2>5. j \in 1 .. Len(queue') /\ j <= i /\ queue'[j] = queue[i]
    BY <2>1, <2>3, <2>4
  <2> QED BY <2>5
<1>4. CASE ReleaseUnknown(c)
  BY <1>4 DEF ReleaseUnknown, cmVars
<1> QED BY <1>1, <1>2, <1>3, <1>4 DEF Release

(* Nobody but the client that is released loses its place, in the queue or *)
(* at the port.                                                            *)
LEMMA ReleaseKeepsOthers ==
    ASSUME CMInv, NEW c \in Clients, Release(c),
           NEW x \in Clients, x # c, active = x \/ Queued(x)
    PROVE  active' = x \/ Queued(x)'
<1>1. CASE active = x
  BY <1>1, ReleaseEffects
<1>2. CASE Queued(x)
  <2>1. PICK i \in 1 .. Len(queue) : queue[i] = x
    BY <1>2 DEF Queued, Contains
  <2> QED BY <2>1, ReleaseMovesUp DEF Queued, Contains
<1> QED BY <1>1, <1>2

(* The inductive invariant holds of every behaviour.                       *)
THEOREM ManagerInvariant == CMSpec => []CMInv
<1>1. CMInit => CMInv
  BY NoneAssumption, GraceAssumption
     DEF CMInit, CMInv, CMTypeOK, OnePlaceEach, NeverIdleWhileWaiting,
         HolderHasNoGraceEntry, NoEntry, Ages, Expired
<1>2. CMInv /\ [CMNext]_cmVars => CMInv'
  <2> SUFFICES ASSUME CMInv, [CMNext]_cmVars PROVE CMInv'
    OBVIOUS
  <2>1. CASE \E c \in Clients : Acquire(c) \/ Release(c) \/ Reconnect(c)
    BY <2>1, AcquireInv, ReleaseInv, ReconnectInv
  <2>2. CASE Tick
    BY <2>2, TickInv
  <2>3. CASE UNCHANGED cmVars
    BY <2>3 DEF CMInv, CMTypeOK, OnePlaceEach, NeverIdleWhileWaiting,
                HolderHasNoGraceEntry, cmVars
  <2>4. QED BY <2>1, <2>2, <2>3 DEF CMNext
<1>3. QED BY <1>1, <1>2, PTL DEF CMSpec

(* Type correctness.                                                       *)
THEOREM ManagerTypeOK == CMSpec => []CMTypeOK
BY ManagerInvariant, PTL DEF CMInv

(* No client waits twice, or waits while it holds the port.                *)
THEOREM ManagerOnePlaceEach == CMSpec => []OnePlaceEach
BY ManagerInvariant, PTL DEF CMInv

(* The port is never free while somebody waits.                            *)
THEOREM ManagerNeverIdle == CMSpec => []NeverIdleWhileWaiting
BY ManagerInvariant, PTL DEF CMInv

(* The holder has no grace entry.                                          *)
THEOREM ManagerHolderHasNoGraceEntry == CMSpec => []HolderHasNoGraceEntry
BY ManagerInvariant, PTL DEF CMInv

-----------------------------------------------------------------------------
(* A reconnect that is granted is an acquire of the free port: the grace   *)
(* period never gives a client anything that connecting anew would not.    *)
THEOREM ReconnectIsAcquire ==
    ASSUME CMInv, NEW c \in Clients, ReconnectGranted(c)
    PROVE  AcquireFree(c)
<1>1. active = None
  BY GraceAssumption, NoneAssumption
     DEF CMInv, HolderHasNoGraceEntry, ReconnectGranted, MayReconnect, NoEntry
<1>2. queue = << >> /\ ~ Queued(c)
  BY <1>1 DEF CMInv, NeverIdleWhileWaiting, Queued, Contains
<1>3. QED BY <1>1, <1>2 DEF ReconnectGranted, MayReconnect, AcquireFree

(* A step that gives the port to another client gives it to the first in   *)
(* line, unless nobody was waiting.                                        *)
THEOREM ManagerNoOvertaking == CMSpec => NoOvertaking
<1>1. CMInv /\ [CMNext]_cmVars
        => (active' \notin {active, None} => queue = << >> \/ active' = Head(queue))
  <2> SUFFICES ASSUME CMInv, [CMNext]_cmVars, active' \notin {active, None}
               PROVE  queue = << >> \/ active' = Head(queue)
    OBVIOUS
  <2>1. ASSUME NEW c \in Clients, Acquire(c)
        PROVE  queue = << >>
    BY <2>1 DEF Acquire, AcquireHeld, AcquireQueued, AcquireFree, AcquireWait,
                cmVars, CMInv, NeverIdleWhileWaiting
  <2>2. ASSUME NEW c \in Clients, Release(c)
        PROVE  active' = Head(queue)
    BY <2>2 DEF Release, ReleasePromote, ReleaseIdle, ReleaseQueued,
                ReleaseUnknown, cmVars
  <2>3. ASSUME NEW c \in Clients, Reconnect(c)
        PROVE  queue = << >>
    BY <2>3 DEF Reconnect, ReconnectGranted, MayReconnect, ReconnectExpired,
                ReconnectRefused, cmVars, CMInv, NeverIdleWhileWaiting
  <2>4. CASE Tick
    BY <2>4 DEF Tick
  <2>5. CASE UNCHANGED cmVars
    BY <2>5 DEF cmVars
  <2>6. QED BY <2>1, <2>2, <2>3, <2>4, <2>5 DEF CMNext
<1>2. QED BY <1>1, ManagerInvariant, PTL DEF CMSpec, NoOvertaking

-----------------------------------------------------------------------------
(* The line of ClientLine is a holder followed by a queue.                 *)
LEMMA FrontProperties ==
    ASSUME NEW S, NEW a \in S, NEW s \in Seq(S)
    PROVE  /\ <<a>> \o s \in Seq(S)
           /\ Len(<<a>> \o s) = Len(s) + 1
           /\ (<<a>> \o s)[1] = a
           /\ \A i \in 1 .. Len(s) : (<<a>> \o s)[i + 1] = s[i]
<1>1. <<a>> \in Seq(S) /\ Len(<<a>>) = 1 /\ <<a>>[1] = a
  OBVIOUS
<1>2. /\ <<a>> \o s \in Seq(S)
      /\ Len(<<a>> \o s) = 1 + Len(s)
      /\ \A i \in 1 .. 1 + Len(s) :
            (<<a>> \o s)[i] = IF i <= 1 THEN <<a>>[i] ELSE s[i - 1]
  BY <1>1, ConcatProperties
<1>3. Len(s) \in Nat
  OBVIOUS
<1>4. QED BY <1>1, <1>2, <1>3

(* ClientLine uses the same library operators.                             *)
LEMMA LineOperators ==
    /\ \A s, e : Line!Contains(s, e) <=> Contains(s, e)
    /\ \A s, i : Line!RemoveAt(s, i) = RemoveAt(s, i)
BY DEF Line!Contains, Contains, Line!RemoveAt, RemoveAt

(* Going to the back of the queue is joining the line.                     *)
LEMMA WaitIsJoin ==
    ASSUME CMInv, NEW c \in Clients, active \notin {None, c}, ~ Queued(c),
           active' = active, queue' = Append(queue, c)
    PROVE  Line!Join(c)
<1> USE NoneAssumption DEF CMInv, CMTypeOK, PortLine
<1>1. /\ active \in Clients /\ active # c /\ active' = active
      /\ queue' = Append(queue, c)
      /\ \A i \in 1 .. Len(queue) : queue[i] # c
  BY DEF Queued, Contains
<1>2. /\ PortLine = <<active>> \o queue
      /\ PortLine' = <<active>> \o Append(queue, c)
  BY <1>1
<1>3. ~ Contains(PortLine, c)
  <2>1. \A i \in 1 .. Len(PortLine) : i = 1 \/ i - 1 \in 1 .. Len(queue)
    BY <1>1, <1>2, FrontProperties
  <2>2. QED BY <1>1, <1>2, <2>1, FrontProperties DEF Contains
<1>4. <<active>> \o Append(queue, c) = Append(<<active>> \o queue, c)
  <2>1. /\ <<active>> \in Seq(Clients) /\ <<c>> \in Seq(Clients)
        /\ <<active>> \o queue \in Seq(Clients)
    BY <1>1
  <2>2. /\ Append(queue, c) = queue \o <<c>>
        /\ Append(<<active>> \o queue, c) = (<<active>> \o queue) \o <<c>>
    BY <2>1, AppendIsConcat
  <2>3. <<active>> \o (queue \o <<c>>) = (<<active>> \o queue) \o <<c>>
    BY <2>1, ConcatAssociative
  <2>4. QED BY <2>2, <2>3
<1>5. QED BY <1>2, <1>3, <1>4, LineOperators DEF Line!Join

\* What acquire() does to the line: nothing, or a join at its end.
LEMMA AcquireIsJoin ==
    ASSUME CMInv, NEW c \in Clients, Acquire(c)
    PROVE  Line!Join(c) \/ UNCHANGED PortLine
<1> USE NoneAssumption DEF CMInv, CMTypeOK, PortLine
<1>1. CASE AcquireHeld(c) \/ AcquireQueued(c)
  BY <1>1 DEF AcquireHeld, AcquireQueued, cmVars
<1>2. CASE AcquireFree(c)
  <2>1. queue = << >> /\ queue' = << >> /\ active = None /\ active' = c
    BY <1>2 DEF AcquireFree, NeverIdleWhileWaiting
  <2>2. PortLine = << >> /\ PortLine' = <<c>>
    <3>1. <<c>> \o << >> = <<c>>
      BY ConcatEmptySeq, <<c>> \in Seq(Clients)
    <3>2. QED BY <2>1, <3>1
  <2>3. ~ Contains(<< >>, c) /\ Append(<< >>, c) = <<c>>
    <3> HIDE DEF PortLine, CMInv, CMTypeOK
    <3>1. ~ Contains(<< >>, c)
      BY DEF Contains
    <3>2. Append(<< >>, c) = << >> \o <<c>> /\ << >> \o <<c>> = <<c>>
      BY <<c>> \in Seq(Clients), << >> \in Seq(Clients),
         AppendIsConcat, ConcatEmptySeq
    <3>3. QED BY <3>1, <3>2
  <2> HIDE DEF PortLine, CMInv, CMTypeOK
  <2>4. QED BY <2>2, <2>3, LineOperators DEF Line!Join
<1>3. CASE AcquireWait(c)
  BY <1>3, WaitIsJoin DEF AcquireWait
<1>4. QED BY <1>1, <1>2, <1>3 DEF Acquire

\* What release() does to the line: the client is taken out of it.
LEMMA ReleaseIsLeave ==
    ASSUME CMInv, NEW c \in Clients, Release(c)
    PROVE  Line!Leave(c) \/ UNCHANGED PortLine
<1> USE NoneAssumption DEF CMInv, CMTypeOK, PortLine
<1>1. CASE active = c
  \* The holder leaves the front: what remains is the queue as it was.
  <2>1. active \in Clients /\ PortLine = <<c>> \o queue
    BY <1>1
  <2>2. PortLine' = queue
    <3>1. CASE ReleasePromote(c)
      <4>1. /\ active' = Head(queue) /\ queue' = Tail(queue) /\ queue # << >>
            /\ Head(queue) \in Clients /\ Head(queue) = queue[1]
            /\ Tail(queue) \in Seq(Clients) /\ Len(Tail(queue)) = Len(queue) - 1
            /\ \A i \in 1 .. Len(Tail(queue)) : Tail(queue)[i] = queue[i + 1]
        BY <3>1, HeadTailProperties DEF ReleasePromote
      <4>2. /\ <<Head(queue)>> \o Tail(queue) \in Seq(Clients)
            /\ Len(<<Head(queue)>> \o Tail(queue)) = Len(queue)
            /\ (<<Head(queue)>> \o Tail(queue))[1] = queue[1]
            /\ \A i \in 1 .. Len(queue) - 1 :
                  (<<Head(queue)>> \o Tail(queue))[i + 1] = queue[i + 1]
        BY <4>1, FrontProperties
      <4>3. \A i \in 1 .. Len(queue) :
              (<<Head(queue)>> \o Tail(queue))[i] = queue[i]
        <5> SUFFICES ASSUME NEW i \in 1 .. Len(queue), i # 1
                     PROVE  (<<Head(queue)>> \o Tail(queue))[i] = queue[i]
          BY <4>2
        <5>1. i - 1 \in 1 .. Len(queue) - 1 /\ (i - 1) + 1 = i
          OBVIOUS
        <5>2. QED BY <4>2, <5>1
      <4>4. <<Head(queue)>> \o Tail(queue) = queue
        BY <4>2, <4>3, SeqEqual
      <4>5. QED BY <4>1, <4>4
    <3>2. CASE ReleaseIdle(c)
      BY <3>2 DEF ReleaseIdle
    <3>3. QED BY <1>1, <3>1, <3>2 DEF Release, ReleaseQueued, ReleaseUnknown
  <2>3. /\ PortLine \in Seq(Clients) /\ Len(PortLine) = Len(queue) + 1
        /\ PortLine[1] = c
        /\ \A i \in 1 .. Len(queue) : PortLine[i + 1] = queue[i]
    BY <1>1, <2>1, FrontProperties
  <2> HIDE DEF PortLine
  <2>4. 1 \in 1 .. Len(PortLine)
    BY <2>3
  <2>5. /\ RemoveAt(PortLine, 1) \in Seq(Clients)
        /\ Len(RemoveAt(PortLine, 1)) = Len(PortLine) - 1
        /\ \A j \in 1 .. Len(PortLine) - 1 :
              RemoveAt(PortLine, 1)[j] =
                IF j < 1 THEN PortLine[j] ELSE PortLine[j + 1]
    BY <2>3, <2>4, RemoveAtProperties
  <2>6. RemoveAt(PortLine, 1) = queue
    <3>1. \A j \in 1 .. Len(queue) : RemoveAt(PortLine, 1)[j] = queue[j]
      BY <2>3, <2>5
    <3>2. Len(RemoveAt(PortLine, 1)) = Len(queue)
      BY <2>3, <2>5
    <3>3. QED BY <2>5, <3>1, <3>2, SeqEqual
  <2>7. QED BY <2>2, <2>3, <2>4, <2>6, LineOperators DEF Line!Leave
<1>2. CASE ReleaseQueued(c)
  \* A waiting client leaves its place p, which is place p + 1 of the line.
  <2> DEFINE p == Position(c)
             rest == RemoveAt(queue, p)
  <2>1. p \in 1 .. Len(queue) /\ queue[p] = c
    BY <1>2, PositionProperties DEF ReleaseQueued
  <2>2. queue' = rest /\ active' = active
    BY <1>2 DEF ReleaseQueued
  <2> HIDE DEF p
  <2>3. active \in Clients
    BY <2>1 DEF NeverIdleWhileWaiting
  <2>4. /\ rest \in Seq(Clients) /\ Len(rest) = Len(queue) - 1
        /\ \A j \in 1 .. Len(queue) - 1 :
              rest[j] = IF j < p THEN queue[j] ELSE queue[j + 1]
    BY <2>1, RemoveAtProperties
  <2> HIDE DEF rest
  <2>5. PortLine = <<active>> \o queue /\ PortLine' = <<active>> \o rest
    BY <2>2, <2>3
  <2>6. /\ PortLine \in Seq(Clients) /\ Len(PortLine) = Len(queue) + 1
        /\ PortLine[1] = active
        /\ \A i \in 1 .. Len(queue) : PortLine[i + 1] = queue[i]
    BY <2>3, <2>5, FrontProperties
  <2>7. /\ PortLine' \in Seq(Clients) /\ Len(PortLine') = Len(queue)
        /\ PortLine'[1] = active
        /\ \A i \in 1 .. Len(queue) - 1 : PortLine'[i + 1] = rest[i]
    <3>1. /\ <<active>> \o rest \in Seq(Clients)
          /\ Len(<<active>> \o rest) = Len(rest) + 1
          /\ (<<active>> \o rest)[1] = active
          /\ \A i \in 1 .. Len(rest) : (<<active>> \o rest)[i + 1] = rest[i]
      BY <2>3, <2>4, FrontProperties
    <3> HIDE DEF PortLine
    <3>2. QED BY <2>1, <2>4, <2>5, <3>1
  <2> HIDE DEF PortLine
  <2>8. p + 1 \in 1 .. Len(PortLine) /\ PortLine[p + 1] = c
    BY <2>1, <2>6
  <2>9. /\ RemoveAt(PortLine, p + 1) \in Seq(Clients)
        /\ Len(RemoveAt(PortLine, p + 1)) = Len(PortLine) - 1
        /\ \A j \in 1 .. Len(PortLine) - 1 :
              RemoveAt(PortLine, p + 1)[j] =
                IF j < p + 1 THEN PortLine[j] ELSE PortLine[j + 1]
    BY <2>6, <2>8, RemoveAtProperties
  <2>10. \A j \in 1 .. Len(queue) : PortLine'[j] = RemoveAt(PortLine, p + 1)[j]
    <3> SUFFICES ASSUME NEW j \in 1 .. Len(queue)
                 PROVE  PortLine'[j] = RemoveAt(PortLine, p + 1)[j]
      OBVIOUS
    <3>1. CASE j = 1
      BY <2>1, <2>6, <2>7, <2>9, <3>1
    <3>2. CASE j # 1
      <4>1. j - 1 \in 1 .. Len(queue) - 1 /\ (j - 1) + 1 = j
        BY <3>2
      <4>2. PortLine'[j] = IF j - 1 < p THEN queue[j - 1] ELSE queue[j]
        BY <2>4, <2>7, <4>1
      <4>3. PortLine[j] = queue[j - 1] /\ PortLine[j + 1] = queue[j]
        BY <2>6, <4>1
      <4>4. QED BY <2>1, <2>6, <2>9, <4>1, <4>2, <4>3
    <3>3. QED BY <3>1, <3>2
  <2>11. Len(RemoveAt(PortLine, p + 1)) = Len(PortLine')
    BY <2>1, <2>6, <2>7, <2>9
  <2>12. PortLine' = RemoveAt(PortLine, p + 1)
    <3>1. \A j \in 1 .. Len(PortLine') : PortLine'[j] = RemoveAt(PortLine, p + 1)[j]
      BY <2>7, <2>10
    <3>2. QED BY <2>7, <2>9, <2>11, <3>1, SeqEqual
  <2>13. QED BY <2>8, <2>12, LineOperators DEF Line!Leave
<1>3. CASE ReleaseUnknown(c)
  BY <1>3 DEF ReleaseUnknown, cmVars
<1>4. QED BY <1>1, <1>2, <1>3 DEF Release, ReleasePromote, ReleaseIdle

(* The manager implements the line: acquire and a granted reconnect are a  *)
(* join or nothing, release is a leave or nothing, time passing is nothing.*)
THEOREM ManagerImplementsLine == CMSpec => ImplementsLine
<1>1. CMInit => Line!LineInit
  BY DEF CMInit, Line!LineInit, PortLine
<1>2. CMInv /\ [CMNext]_cmVars => [Line!LineNext]_PortLine
  <2> SUFFICES ASSUME CMInv, [CMNext]_cmVars
               PROVE  Line!LineNext \/ UNCHANGED PortLine
    OBVIOUS
  <2>1. ASSUME NEW c \in Clients, Acquire(c)
        PROVE  Line!LineNext \/ UNCHANGED PortLine
    BY <2>1, AcquireIsJoin DEF Line!LineNext
  <2>2. ASSUME NEW c \in Clients, Release(c)
        PROVE  Line!LineNext \/ UNCHANGED PortLine
    BY <2>2, ReleaseIsLeave DEF Line!LineNext
  <2>3. ASSUME NEW c \in Clients, Reconnect(c)
        PROVE  Line!LineNext \/ UNCHANGED PortLine
    <3>1. CASE ReconnectGranted(c)
      <4>1. Acquire(c)
        BY <3>1, ReconnectIsAcquire DEF Acquire
      <4>2. QED BY <2>1, <4>1
    <3>2. CASE ReconnectExpired(c) \/ ReconnectRefused(c)
      BY <3>2 DEF ReconnectExpired, ReconnectRefused, cmVars, PortLine
    <3>3. QED BY <2>3, <3>1, <3>2 DEF Reconnect
  <2>4. CASE Tick \/ UNCHANGED cmVars
    BY <2>4 DEF Tick, cmVars, PortLine
  <2>5. QED BY <2>1, <2>2, <2>3, <2>4 DEF CMNext
<1>3. QED BY <1>1, <1>2, ManagerInvariant, PTL DEF CMSpec, ImplementsLine, Line!LineSpec

=============================================================================
