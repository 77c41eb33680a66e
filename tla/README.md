# Formal models of kvmd-serial-term

TLA+ modules, TLC configurations and TLAPS proofs for the daemon that gives
browsers exclusive access to a serial line (`kvmd_serial_term/`). Everything is
translated from the source; paths below are relative to the repository.

## 1. Inventory

| Component | State | Operations | Talks to |
|---|---|---|---|
| `ClientManager` (`client.py`) | `_active`, `_queue`, `_grace` | `acquire`, `release`, `reconnect`, `is_active`, `get_position` | called by the handlers |
| `SerialHandler` (`serial_handler.py`) | `_reader`, `_writer` | `open`, `read`, `write`, `close` | the tty; called by `Relay` and `__main__` |
| `Relay` (`relay.py`) | `_task`, `_fresh_getty`, `started` | `start` (with `_kick`), `stop`, `write`, `logout`, the loop task | `SerialHandler`; the WebSocket of one client |
| `SerialTermServer` (`server.py`) | `_active_ws`, `_queued_ws`, one handler task per WebSocket, promotion tasks | connect, input loop, cleanup, `_promote`, `start`, `stop` | all of the above, browsers |
| Terminal page (`web/index.html`) | sid in `sessionStorage`, WebSocket, terminal or overlay | connect, retry after 2 s, show, send keys and resizes | the server |
| Entry point (`__main__.py`) | - | run until cancelled, then `handler.close`, `server.stop` | systemd |
| Configuration (`config.py`) | - | merge YAML with defaults | entry point |
| Deployment (`deploy.sh`, unit, manifest, nginx) | files | installation | - |
| Module-boundary rules (`.agents/skills/setup-ts-deep-modules/dependency-cruiser.config.cjs`) | - | five rules on imports, for TypeScript packages | dependency-cruiser |

The target machine (agetty, login, shell) and aiohttp are not code of the
repository; they are modelled from what the code expects of them, and marked
external.

**What is hard.** One asyncio event loop runs a handler per WebSocket, a task per
promotion and a relay loop. They switch only at awaits, but the awaits are in
awkward places: `relay.start` suspends for up to 1.3 s in the kick and in
`stop()`; a handler suspends in `send_str`, in `ws.close()` and in `relay.stop()`
between closing its WebSocket and releasing the port; a promotion runs beside the
handler of the client it promotes. There is no lock. Exceptions (adapter gone,
browser gone) can end a handler at several of these places.

**What makes each component correct.**

- ClientManager: a client has one place; the port is not idle while somebody
  waits; first come, first served; a past holder's grace entry gives nothing to
  anybody who holds or waits.
- SerialHandler: opened after being closed, and not twice.
- Relay: one loop reads the port; it is the one `stop()` cancels; a kick has the
  port to itself; calls return.
- Server: turns end only by the holder's own leaving; output goes to the holder
  only; waiting clients can be promoted and are; sessions end with their client's
  turn and not before; handlers end and free the port.

- Page: it shows what the server means, whatever is lost or late; no output goes
  by without a terminal to show it; a promise in the overlay is kept.
- Output: damage stays where a read cut a character; only whole JSON objects are
  taken for control frames.
- Process: an interrupted daemon ends and leaves no page connected; what it leaves
  behind on the target is known.
- Module-boundary rules: what holds for each import holds for chains of them, as
  long as they pass no file that lies beside the packages.

`PROJECT.json` lists the hazards with their lines and the properties aimed at them.

## 2. Modules

```
ClientLine <- refined by - ClientManager
                                |
Target <- SerialHandler <- Relay <- SerialTermServer <- Daemon
                             |                ^-------- TerminalPage
                             ^- SerializedRelay

ClientManagerProofs <- SerialTermServerProofs <- ServerTurnProofs <- DaemonProofs
                                                        ^----------- TerminalPageProofs
SerializedRelayProofs

TerminalStream (the output)       <- TerminalStreamProofs
ModuleBoundaries (import rules)   <- ModuleBoundariesProofs
```

(`A <- B`: B extends A. Each module of proofs also extends the component it is about.)

| Module | Models |
|---|---|
| `Sids` | The clients, known by their session ids, and the value that is none. |
| `ClientLine` | Abstract specification: the clients form one line; join at the back, leave from anywhere; the front holds the port. |
| `ClientManager` | `client.py`. One action per outcome of each method; a method is atomic because it has no await. `grace[c]` is the time since `c`'s release, in ticks, saturating at the first expired value. |
| `Target` | External: login prompt or a client's shell; whether it has something to print or printed something unread. |
| `SerialHandler` | `serial_handler.py`: closed, open, or held but broken (adapter pulled); whether an open connection was ever replaced unclosed (`leaked`). |
| `Relay` | `relay.py`: for each WebSocket `w`, where `start(w)` is suspended (`stop`, `settle`, `newline`, `fresh`, `echo`) and the state of its loop task; for each call the task its `stop()` awaits. |
| `SerializedRelay` | Relay with callers that wait for each other, its properties and its liveness. |
| `SerialTermServer` | `server.py`, composed with `Relay` and `ClientManager`: `pc[w]` is where the handler of `w` is suspended, `promo[w]` where the promotion task of `w` is. |
| `Daemon` | `__main__.py`, `SerialTermServer.stop` and the end and restart of the process, beside every step of `SerialTermServer` (`Beside`). |
| `TerminalPage` | `web/index.html` in every tab, end to end with `SerialTermServer`: each step of the server that sends a frame puts it into `down[w]`, and the page shows what it takes out. |
| `TerminalStream` | What the loop and the page do to the output: decoding per read, control frames in band. |
| `ModuleBoundaries` | The five rules of the dependency-cruiser configuration, and a code base that changes by one import at a time. |
| `ClientManagerProofs`, `SerializedRelayProofs` | The theorems about these two components. |
| `SerialTermServerProofs` | What the composed server keeps whether or not tabs overlap: types, the queue, the refinement of `ClientLine`, the port. |
| `ServerTurnProofs` | Turns and sessions of the tabs that do not overlap; who is served, when none does. |
| `DaemonProofs` | What of that survives shutdown, death and restart, and what the shutdown itself promises. |
| `TerminalPageProofs` | What the pages show, on top of the server's invariants. |
| `TerminalStreamProofs` | What becomes of each character of output. |
| `ModuleBoundariesProofs` | What rules about single imports mean for chains of them. |

Actions and code. A `Relay` or server action is everything the code does from one
await that may suspend to the next. `Greeted`, for instance, is the return of
`send_str` (server.py:99 or 107) together with `relay.start` up to its first
suspension; `LogoutAndStop` is the finally block from line 152 to the await in
`relay.stop()`, or to its end if that await does not suspend; `StartStep` resumes
`relay.start`, and if it returns or raises, its caller goes on in the same step.
`reconnect()` followed by `acquire()` has no await in between, so `ConnectActive`
and `ConnectQueued` do both in one step. Awaits modelled as never suspending:
`serial.open` (pyserial opens synchronously), `serial.close`, and the drain of a
few bytes. `closed` is `ws.closed`, `left` the set of WebSockets whose browser is
gone: sends to them may or may not raise. A handler that ends in an exception is
`crashed`; aiohttp then closes its transport, but `ws.closed` stays false.

Where `LossyCancel` is TRUE, a cancellation that meets a completed read is lost,
as in `asyncio.wait_for` before Python 3.12 (the project supports 3.9 and later).
Where `Faults` is TRUE the adapter may be pulled at any time and `open` may fail.
`Overlap` is the set of tabs that may connect again before the handler of their previous
WebSocket has ended (all of them, as far as the code is concerned); `Sid` maps
connections to tabs. Most promises of the server are stated for the others (`Alone`),
whatever the tabs in `Overlap` do.

In `Daemon`, `Interrupted` is lines 46 to 48 of `__main__.py` up to the await in
`relay.stop()`: the port is closed, the loop cancelled. `main` says where the main
task is from there on. `_close_ws_safe` sets `ws.closed` at once and waits up to a
second for the page, so `ClosesOne` takes one WebSocket a step and the handlers run
in between. A handler whose WebSocket was closed leaves its loop and enters the
finally block without a suspension; the model has a step boundary there, which
nothing can tell from the handler's not having been woken yet. `Killed` may happen in
any state; the comment "Run forever until SIGTERM" (`__main__.py:40`) does not
describe the code, which installs no handler for SIGTERM. SIGINT is modelled as
Python 3.11 and later treat it (the main task is cancelled); earlier versions cancel
all tasks together.

In `TerminalPage` a tab has a WebSocket (`ws[t]`) or a retry pending. `NetworkFails`
loses what is on its way; the page and the server notice separately (`WsCloses`,
`InputEnds`). A terminal survives `WsCloses` and not `Reloads`; with it the page can
type over its next connection before that one has been told anything (`HasTerminal`),
and the server relays such a key if the client has become active meanwhile.

The page does not know a message of the server from output that reads like one: a
program on the target that prints the JSON object of either message, in a chunk of
its own, raises the overlay or removes it (`Chunks`). `PrintedPlaces` are the places in
the queue that such output may name. Successive frames of ordinary output count as
one, since the page treats them alike.

In `TerminalStream` a character is known by its place in what was printed and its
bytes are tagged with it, so the invariants can say what became of each. A read takes
any number of bytes up to its limit: when the line delivers them is up to the line.
Of JSON, only the object `{}` is represented; whether a longer text parses is data.
`Decode` is said without recursion: a piece of text begins at the first byte of a
character and at each byte whose character has no beginning in the chunk; `Nth` is the
place of the n-th of them. In `ModuleBoundaries`, what a file uses is the least set
closed under imports, and a file may lie directly in the packages folder (`Stray`).

Operators marked "Mutant" in the modules are deliberately wrong variants of the
definition that follows them, used to confirm that each property can fail; no
specification uses them.

## 3. Runs

| Run | Instance | What it shows |
|---|---|---|
| `manager` | 4 clients, grace period of 2 ticks | The manager's invariants, FIFO, refinement of `ClientLine`, and that nobody starves if every holder leaves some day. |
| `relay` | 2 WebSockets, faults, lossy cancellation | One reader, never orphaned; a kick has the port to itself; the port is never opened twice; calls return. |
| `server_safety` | 3 tabs, faults, lossy cancellation | Turns are kept, output only to the holder, waiting clients reachable, and the exact limits of a defect below: a holder goes unserved *only* after a promoted client has left (or all its handlers ended, one in an exception). |
| `server_overlap` | 2 tabs, one of which connects twice, perhaps while its first handler still runs; faults, lossy cancellation | A tab with 2 handlers does not take the other's turn, and the port is still held in the order of the line. |
| `server_live` | 2 tabs, one of which connects twice in sequence; lossy cancellation | Turns are kept through the reconnect path, nobody's live session is ended and nobody's live loop stopped, and a turn ends without its logout *only* for a client that was promoted. Handlers end; the port is freed unless a handler raised; a kick that sends its newline brings output to its page; typing ends a handler only inside a kick. |
| `daemon` | 2 tabs, one restart, faults, lossy cancellation | Ctrl+C ends the process and leaves no page connected; a turn ends with its session open only for a promoted client, or because the process ends. |
| `page` | 2 tabs, one of which connects twice; output that may read as a control frame | What a page shows agrees with the server: output finds a terminal, a terminal means the port, an overlay means waiting. |
| `page_queue` | 3 tabs; such output | The place in the line that the overlay shows is never too good. |
| `stream` | 5 characters of 1 or 3 bytes | Damage is local, the order is kept, only whole objects are taken for control frames. |
| `modules` | 9 files: 2 packages, an application and a file beside the packages; 4 imports | Entry points hide the implementation from chains that do not pass the file beside the packages, tests and fixtures can be deleted, and a build order exists: any files that remain to be built include one that imports none of the others. |
| `server_unserved` | 3 tabs | *Violated*: finding 1. |
| `server_refresh` | 1 tab, 2 overlapping connections | *Violated*: finding 2. |

**Bounds.** Each connection is one WebSocket, used once; the number of connections
bounds every run. Three suffice for the longest dependency in the code: a holder
leaves, the promoted client's kick and departure overlap, and a third client
meets the result. Four clients in the manager allow a departure from the middle
of the queue. A grace period of 2 ticks has values before, at and after the limit;
in runs where every connection is another tab the period is irrelevant and 0.
In `server_live` and `page` it is 0 too: a tab that comes back before the first tick
is in time, later it is not.
Symmetry is used only in `server_safety` and `page_queue`, which check invariants.
`page` and `page_queue` also stop exploring (`CONSTRAINT SomebodyStays`) where every
connection is lost, closed or crashed and no frame is on its way: that never changes
back, no frame will come, and their invariants speak only of a tab with a frame on its way
or with a connection that is none of the three, so nothing they could find is cut off.
Output that reads as a control frame is bounded by `MaxDown`, the frames on their way
when it is sent (2 in `page`, 1 in `page_queue`), and names place 1, the best there is.
Two connections suffice for `daemon`: the holder and one that waits, arrives while
the daemon shuts down, or meets the session that the last process left. A third one
would admit overlapping kicks, and sleeps have no length in the model: a kick's 0.3 s
could outlast another's whole second, open the port after `handler.close()` and let
a lost cancellation keep the main task waiting, which the real lengths exclude.
In `page` one tab comes back, so its old terminal meets a new place in the line; in
`page_queue` the line is long enough for places to improve while the overlay does not.
Five characters let a damaged one have two neighbours on both sides, or an object
beside it; three bytes are the least for a character cut twice. Four imports make a
chain that leaves a package, passes another and comes back.

**Fairness.** Weak fairness of every task: asyncio runs each ready callback, sleeps
end, and awaited tasks that have ended resume their waiters. The target prints
what it has to print. Connecting, typing, leaving and pulling the adapter are never
fair, nor is time. In `Daemon` the main task is fair too; `runner.cleanup()` waits at
most 60 s. In `SerializedRelay` nobody has to call.
`NoStarvation` needs no fairness: its hypothesis is that every holder
leaves some day.

## 4. Findings, and limits that passing runs state

Two runs are violated, each by a property that a document of the repository states:

1. The return value of `release()` is ignored for a client that was not active
   when its input loop began (server.py:160). A client promoted from the queue is
   such a client: when it leaves, its successor becomes `_active` and is never told.
   `UnservedOnlyAfterPromoted` and `OverlayIsTrue` say that this is the only way.
2. A tab that reconnects while its old handler is still ending is told it is
   active and then loses the port when the old handler releases by sid. The same
   happens to a duplicated tab, which browsers give a copy of `sessionStorage`.
   `server_overlap` shows, and `ServerTurnsAreKept` proves, that it costs only such
   a tab its turn. The other passing runs set `Overlap` to the empty set.

Other limits of the code are stated exactly by properties that hold:

- A turn ends with its session open when the client was promoted (`was_active` is read
  once, line 122) or the process ends (`ShellsEndWithTurns`,
  `SessionsEndOrAreLeftBehind`); README.md:24 promises a logout on every disconnect,
  CONTEXT.md:48 only when nobody waits, and the code looks at neither.
- A handler that ends in an exception never releases the port
  (`PortIsFreedUnlessCrash`); until another page of the same tab comes and goes, it is
  held for nobody (`Deserted`).
- A kick brings output to its page if it sends its newline (`KickBringsPrompt`).
  After a logout it does not: `_fresh_getty` is never reset, and closing the port
  discards the banner that has arrived, so the page may stay empty until a key is typed.
- A promoted client that types in the 0.3 s in which its kick has the port closed
  is disconnected (`TypingFailsOnlyInKick`).
- A session whose client is connected and was told of its turn is ended by nobody
  (`LiveSessionsSurvive`), as long as no tab overlaps. Of two handlers of one tab that both
  were active when their loops began, the first to end releases the port, the next client
  is promoted and logs in, and the second handler then sends Ctrl+D and stops the relay
  (server.py:153) without asking whether its client is still active. With the constants
  of `server_overlap` TLC finds this in seconds. Where no tab overlaps, it does not suffice
  that the client's handler is in its input loop: a client that was admitted and whose
  page has not been told yet, or that waits, may have a session left from an earlier turn,
  and the handler of whoever held the port before ends that one.
- The grace period gives nothing that connecting anew would not: with somebody
  waiting, the release itself gives the port away (`NoOvertaking`; proved as
  `ReconnectIsAcquire`), although CONTEXT.md:42 speaks of no queueing.
- A character that two reads share is displayed as replacement marks, and a read
  that is a JSON object as a whole is not displayed at all (`DamageIsLocal`);
  CONTEXT.md:57 says the relay decodes what it reads as UTF-8.
- Output that is the JSON object of a queue message hides the holder's terminal behind
  the overlay until an active message comes (index.html:127-135; the third exception of
  `OverlayIsTrue`). It cannot deceive anybody else, since only the holder gets output.
- A file directly in `src/packages` is matched by no lint rule: the first rule excludes
  the whole folder, the second needs a package. It may import any package's internals, and
  be imported, unreported, although the comment at dependency-cruiser.config.cjs:32 and
  rule 1 of the skill's SKILL.md promise otherwise. `EntryPointsHideInternals` holds for
  the chains that avoid such files.
- `OneReader` and `ReaderIsTask` are kept by calls that wait for each other, and not by
  the server: a promoted client that types in the 0.3 s of its kick and leaves lets the next
  one in beside its kick, which later stores its loop over the other's in `_task`. TLC
  reaches two live loops and one that is not in `_task` on the instances of `server_safety`
  and `server_live`. What keeps this from doing worse is that the stored loop's WebSocket is
  closed, and that nobody calls `stop()` who does not have the turn (`LiveRelaysSurvive`).
  While both live, the `StreamReader` refuses the later of two reads, which ends that loop.

## 5. Proofs

TLAPS proves, for every set of clients and every grace period (assuming only that
`None` is no client and the period is a natural number):

- `ManagerInvariant`: `CMInv` is inductive. `OnePlaceEach` alone is not:
  `reconnect` does not look at the queue, and only `HolderHasNoGraceEntry` (the
  holder's own entry is gone, so a granted reconnect finds the port free) with
  `NeverIdleWhileWaiting` (so nobody waits then) tells that the client is not
  also waiting. The step lemmas are one per method: `AcquireInv`, `ReleaseInv`,
  `ReconnectInv`, `TickInv`. `RemoveAtProperties` says what leaving the queue does
  to it.
- `ReconnectIsAcquire`, `ManagerNoOvertaking`: from the invariant.
- `ManagerImplementsLine`: each step is a `Join`, a `Leave` or a stutter of the
  line `<<active>> \o queue`.

About the relay, for every set of connections and whether or not the adapter
fails or cancellations are lost (assuming that `None` is no connection), under
the serialised callers of `SerializedRelay`:

- `RelayInvariant`: `IInv` is inductive. The run's properties lean on each
  other: `StartReturns` keeps `ReaderIsTask` because `KickAlone` says that no loop
  is alive when the new one is created; `KickAlone` holds because `start` begins
  its kick only when the one loop that could be alive, the recorded one
  (`ReaderIsTask`), has ended. What is missing to close the circle is `OneCall`,
  what "one call at a time" means in the variables: at most one `start` is under
  way, at most one `stop()` waits, it waits inside that `start` or else nobody is
  in one (`WaitsInStart`), and the task it waits for is still the one in `_task`
  (`WaitsForTask`; this is what the assignment at relay.py:102 relies on). The
  lemmas are one per action; `KickBegins` and `KickGoesOn` serve the two ways
  into the kick and its later steps.
- `RelayTypeOK`, `RelayOneReader`, `RelayReaderIsTask`, `RelayKickAlone`,
  `RelayPortHeldOnce`: the run's safety properties, from `IInv`.

The composed server does not keep `OneCall`: a promotion and a departing handler
may both be in the relay (section 4). So nothing about the server is derived from the
theorems about serialised calls; its own proofs use of the relay only what each single
step may do to the port, the session and the loops (`StartBeginsOK`, `StartGoesOnOK`,
`LoopStepOK`, `StartStepOK`), in whatever state the others have left it.

About the composed server, for every set of tabs and connections and every assignment
of the one to the other, with faults and lost cancellations (assuming that `None` is
neither, and the period a natural number):

- `ServerBase`: `BaseInv` is inductive. It says that the manager's own invariant
  holds under its real callers, and how the records agree: a connection that was not
  made has left no trace (`NewIsFresh`), a registration belongs to its client
  (`RegisteredOwn`), a live loop's `start` has returned (`LoopsAreStarted`), and whoever
  has ended has a WebSocket that is closed or lost, or no loop (`EndedIsCut`).
  `WaitersRegistered`, which is `WaitersAreReachable` by clients instead of places, is
  inductive with it; it is kept apart because the shutdown, which clears `_queued_ws`,
  breaks it and keeps the rest. The proof has a lemma for each action; `ReleasesOK`
  says once what a handler's release does, and is used by the three paths to it.
- `ServerTypeOK`, `ServerWaitersAreReachable`: from these.
- `ServerPortIsALine`: each step of a handler is one `Join` or `Leave` of the abstract
  line, or a stutter; the combined `reconnect` and `acquire` is the case that needs the
  manager's invariant.
- `ServerTypingFailsOnlyInKick`, while the adapter stays plugged in and opens when
  asked (`~ Faults`, as in the run): `PortInv` says that once the relay was used only a
  kick in its 0.3 s has the port closed.

About the turns of every tab that is not in `Overlap`, whatever those in it do:

- `ServerTurns`: `TurnInv` is inductive with `BaseInv`. `TurnsAreKept` speaks of what
  the page was told, but who may release is decided by other records: that the handler
  was active when its loop began, that it is in `relay.start` or in its finally block,
  or that the connection was promoted. `HasTurn` collects these, `TurnsHold` says that
  each of them means holding the port, and `ToldHasTurn` that nobody is told without one;
  `OneHandler` is what not to overlap comes to. A tab that does overlap has none of
  this, but a handler releases under its own sid alone, so it takes nobody else's turn
  away. `ServerTurnsAreKept` and `ServerOutputOnlyToHolder` follow.
- `ServerShellsEndWithTurns`: only a release ends a turn (`TurnEnds`). A handler that
  was active when its loop began has logged out before it releases, and while it waits
  in `relay.stop()` nobody can open a session, since it still has the turn (`LoggedOut`).

With the hypothesis that no tab overlaps (`Overlap = {}`), which these need:

- `ServerLiveSessionsSurvive`: an action property, from `TurnInv`; only a logout ends a
  session, and the handler that logs out has the turn, so it is the client's own. One
  other tab that overlaps is enough to break this (section 4).
- `ServerLiveRelaysSurvive`: inductive with `TurnInv`. `stop()` cancels what it finds in
  `_task`, but `WhoCancels` says that only a client that has just got its turn or is about
  to give it up calls it, and a page with a live loop has the turn itself.
- `ServerUnservedOnlyAfterPromoted`: `HolderInv`. The holder's handler knows of its turn
  unless a promotion was overlooked (`HolderKnows`), a client that waits is
  registered by the handler that is still running (`RegisteredWaits`), so the
  promotion finds it, and the holder has a handler that goes on or has crashed
  (`HolderIsHere`).

About the daemon, where the main task, the end of the process and its restart are
steps beside those of the server:

- `DaemonKeepsTurns`: the steps of the main task change nothing but what
  `MainMoves` lists, under which `BaseInv` and `TurnInv` stay; the end of the process
  starts both anew.
- `DaemonEveryPageIsClosed`: `PagesAreListed`. When `stop()` has
  listed the WebSockets, every running handler has its own closed, on the list, or came later.
- `DaemonSessionsEnd`: `LoggedOut` also survives the shutdown, which closes the port under
  handlers that are about to log out: their `logout()` raises, and they end no turn.

About the pages, for every network that loses what is on its way and every reload:

- `EndToEndInv`: `PageInv` is inductive with `BaseInv`, and `TurnInv` survives reloads
  (a reload is no step of the server's `Next`: it loses a connection and resets the page
  in one step; hence `ReloadsServer`). `PageInv` is about the frames on their
  way: until output was sent the first alone may name a place (`QueueFirst`), output
  comes after the frame that creates the terminal (`OutputFollowsActive`), and whoever the
  server has announced to has the frame on its way or has its terminal, shown unless output
  was sent (`AnnouncedIsSent`, with `Ready`), and conversely (`SentIsAnnounced`,
  `TerminalIsAnnounced`). `PageOutputFindsATerminal` follows for every tab, and
  `PageTerminalMeansPort` for every tab that does not overlap. `PageTypesHold` adds that
  places do not exceed the number of clients (assuming that they are finitely many),
  those that were printed excepted.
- `PageOverlayIsTrue` (`Overlap = {}`): with `TurnInv`, `HolderInv` and `PlaceInv`, which
  says what a handler knows of its client's place: together `ServerInv`.
- `PagePlaceNeverFlatters`, for every tab: `HonestInv`. `HonestPlace` is kept because
  nobody but a client that connects anew moves back in the line (`ConnectMovesUp`,
  `ReleaseMoves`, `OthersMoveUp`); output may name any place, but whoever was sent output
  was told of its turn (`ShownWereTold`), and who was told waits no more (`TheToldWaitNot`).

About the text, for every sequence of characters of one to four bytes, every limit of a
read and every way the reads cut it (assuming that braces have one byte):

- `StreamDamageIsLocal`: `OutputInv`. `DamageIsLocal` speaks of characters that were
  read to the end; what keeps it is what is known of those that were not. The line is
  always a tail of the bytes that were printed (`LineIsTail`), so a read takes the first
  of the bytes that a character has left; a character of which nothing was read has no
  piece on the display, and of one that is half read the marks on the display and the
  bytes on the line are together no more than its bytes (`Delivered`). `DecodePieces`
  says what a chunk makes of a character: itself, one mark for a part with a beginning,
  a mark for each byte of a part without one. `ObjectHasNoMarks` is why no half of a
  character is lost in a frame that is taken for a control frame.

About the import rules, for every set of files, finite or not, in every assignment to
packages and folders:

- `ChainsUseEntryPoints`, `ChainsLeaveTestsAlone`: the imports are finitely many and the
  linter reports none of them (`LinterInvariant`, a lemma). What a file uses is a least
  closed set, so it is inside every closed set; each proof names one: for the entry points,
  whatever a file uses from outside but the file that is hidden from it.
- `ChainsEnd`: of any files, one that uses the fewest imports none of the others
  (`SomeFileIsNext`). That there is one is well-foundedness of proper inclusion between
  finite sets.

The theorems with `Overlap = {}` need it. With one tab in `Overlap` TLC refutes each
of them: `LiveSessionsSurvive`, `LiveRelaysSurvive` and `UnservedOnlyAfterPromoted` on the
instance of `server_overlap` (for the last, two handlers of the tab wait, the later one,
which is registered, ends in an exception, and the promotion goes to it), and
`OverlayIsTrue` on that of `page`. Nothing else is assumed of the constants, but
`~ Faults` where it is named.

Only model-checked:

- Liveness: that nobody starves, calls return, handlers end, the port is freed, a kick brings
  a prompt and the shutdown ends. It rests on fairness, which the provers do not handle.

Every other property of the runs that hold is proved.

## 6. Not modelled

- Bytes in the composed server: there output is a token; `TerminalStream` has the text.
  Bytes that are not UTF-8 at all (noise on the line) are left out of both.
- The text of what is typed: a keystroke is a token. A paste that is a JSON object as a
  whole is dropped by the server (server.py:128-137), as resize frames are; one nested so
  deep that `json.loads` gives up with another error than `JSONDecodeError` ends the handler.
- Which bytes of output reach a page as one frame when pages are modelled end to end: there
  any chunk may read as a control frame.
- The PTY early return of the kick and the `started` event: for tests.
- `SerialTermServer.start`: it sets up a socket before anything runs.
- Growth of `_grace` by one entry per tab that ever held the port: the set of
  clients is finite here.
- `config.py`: a pure merge of two dictionaries, run once. It differs from its
  docstring ("all fields populated") when a key is given as an explicit null in YAML,
  which replaces the default; nothing concurrent depends on it.
- Deployment scripts, routes and static files; the vendored xterm.js.
- `ping`/`pong` and timeouts of aiohttp: a browser's departure is noticed at an
  arbitrary later time, which covers them.

## 7. Plan

The growth of `_grace`, which needs clients that are not from a finite set.
