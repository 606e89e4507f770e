# A verification project for vnc-tight

vnc-tight is the TightVNC/RealVNC family of servers and viewers for the RFB
protocol: a C++ core in `src/common`, Unix programs in `src/unix` (Xvnc,
x0vncserver, a viewer), Windows programs in `src/win`, and a Java viewer in
`src/java`. This directory holds TLA+ modules that model its core, TLC
configurations that check them on small instances, and TLAPS proofs of
theorems about them for every value of their parameters.

Run TLC with `tlc -config X.cfg M` and TLAPS with `tlapm M.tla` in this directory.
`PROJECT.json` lists the runs, the source lines each definition stands for,
the hazards with the properties that cover them, and the theorems.

## 1. The system

### Components, their state and their operations

| Component | State it keeps | Operations | Module |
| --- | --- | --- | --- |
| **RFB server core** `common/rfb/VNCServerST`, `VNCSConnectionST` | list of clients, sockets waiting to be removed, `desktopStarted`, `pb`, `pointerClient`; per client: protocol state, pressed keys, access rights | `addSocket`, `removeSocket`, `close`, `closeClients`, `queryConnection`, `approveConnection`, `clientInit`, `pointerEvent`, `keyEvent`, `setConnStatus`, `setPixelBuffer` | `VNCServer` |
| **Framebuffer updates** `UpdateTracker`, `ComparingUpdateTracker`, `VNCServerST::checkUpdate`, `VNCSConnectionST::writeFramebufferUpdate` | the server's tracker and old image; per client: tracker, requested region, video counter | `add_changed`, `add_copied`, `compare`, `getUpdateInfo`, `subtract`, requests, writes | `UpdateTracker`, `FramebufferUpdate` |
| **Rendered cursor** (the same files, `Cursor.cxx`) | the rendered cursor and what lies below it; per client: where it was drawn, whether it is to be drawn or removed | render, remove, draw, `needRenderedCursor` | `RenderedCursor` |
| **Update messages** `SMsgWriterV3`, `CMsgReaderV3`, the viewers' `CConn` | formats, encodings, flags for cursor, size and name; rectangles left to read; requests due | header, rectangles, `SetPixelFormat`, `SetEncodings`, requests, resizes | `UpdateStream` |
| **Handshake** `SConnection`, `CConnection`, Java `RfbProto`, security types | protocol state, version, security type on either end | one handler per message | `Handshake`, `Admission` |
| **Timeouts and the event loop** `VNCServerST::checkTimeouts`, `SocketManager`, `EventManager` | times of the last event, connection, disconnection and input | `checkTimeouts`, waiting, removing shut sockets | `ServerTimeouts` |
| **Blacklist** `Blacklist.cxx` | per host: counter, unblock time, block timeout | `isBlackmarked`, `clearBlackmark` | `Blacklist` |
| **Windows host thread and command queue** `VNCServerWin32`, `STrayIcon`, `QueryConnectDialog`, `Threading.h` | one command slot, an event, a condition variable, the dialog and tray threads | `queueCommand`, `processEvent`, `run`, `stop`, destructor | `VNCServerWin32`, `CommandService` |
| **Xvnc's query** `XserverDesktop`, `vncExtInit.cc`, `vncconfig` | each screen's query, the extension's one query and its timer, each vncconfig's dialog | `queryConnection`, `vncQueryConnect`, the timer, get and approve requests, the dialog | `XvncQuery` |
| **Timers** `Timer.cxx` | list of pending timers ordered by due time | `start`, `stop`, `checkTimeouts` | not modelled |
| **Regions** `Region.cxx`, `Rect.h` | banded rectangle lists | union, `get_rects` in copy order | sets of pixels only |
| **Xvnc's hooks, x0vncserver's polling, Windows `SDisplay`** | deferred update timer, polling grid, hooks | main loop | environments of the models |
| **File transfer**, **HTTP server** | transfers, sessions | per message, per request | not modelled |
| Encoders, pixel formats, DES, streams, sockets, configuration, key remapping, toolkits, user interfaces, vendored libraries | | data transformations, I/O, text | not modelled |

### How they interact

- A host (x0vncserver, Xvnc, winvnc) owns the loop. It calls `addSocket` for a
  new connection, `processSocketEvent` for a readable one, `removeSocket` for
  one it finds shut down, `checkTimeouts`, and `tryUpdate` after drawing.
- A client is closed in two phases. `close()` shuts the socket and leaves the
  client in the list as CLOSING. The host finds the socket shut and calls
  `removeSocket`, which deletes the client and may stop the desktop. Anything
  may be called in between, and one call may close several clients.
- The server calls the desktop: `start` for the first authenticated client,
  `stop` after the last, key and pointer events. The desktop calls back with
  `setPixelBuffer` and drawing hints.
- A query keeps the address of a *socket*, not of a connection, and
  `approveConnection` gets it back later, when it may be free or belong to
  another connection. On Windows the answer comes from the dialog's thread
  through the command queue; in Xvnc from another process through an extension
  of the X server, after a notification that several such processes may get.
- Drawing hints reach the server's one tracker. Any client's write first runs
  `checkUpdate`, which filters the hints against an old copy of the frame
  buffer, adds what is left to *every* client's tracker and clears the server's.
  It also renders the cursor, if some client needs it, on what lies below it.
- A viewer asks for the next update when it has read or painted one, and changes
  its pixel format only then; the server writes an update whenever it has a request
  and news. Two things ask at any time besides: the viewer's Refresh menu, and the
  server itself when the control panel sets what a client may see (`setStatus`).

### What is hard

Two-phase closing combined with authentication, queries and sharing policy;
socket addresses reused under a pending dialog; copy rectangles that compose
with pending changes, earlier copies and the drawn cursor; a comparer whose old
image must agree with what clients were told; video areas that bypass the
changed region; two ends that must agree on whether a result is sent, in which
format a rectangle is and how large the desktop is; four threads with one
condition variable; a query kept at once by a screen, an extension and several
processes; a wall clock that is set. `PROJECT.json` lists 40 such places by
line; the ones without a property say why.

## 2. Modules

    Admission  <--(PromiseKept)--  Handshake     <- MCHandshake
                                   UpdateStream  <- MCUpdateStream
                                       ^----------- ConnectionProofs (both)
    VNCServer  <- MCVNCServer
        ^-------- VNCServerProofs
    CommandService  <--(ServesCommands)--  VNCServerWin32  <- MCVNCServerWin32
                                               ^------------- VNCServerWin32Proofs
    XvncQuery  <- MCXvncQuery
        ^-------- XvncQueryProofs
    Blacklist  <- ServerTimeouts  <- MCServerTimeouts
                       ^------------ ServerTimeoutsProofs
    UpdateTracker  <- FramebufferUpdate  <- MCFramebufferUpdate
        |   ^          RenderedCursor    <- MCRenderedCursor
        |   |- UpdateTrackerProofs  <- FramebufferUpdateProofs, RenderedCursorProofs

An arrow is EXTENDS, `<--(P)--` a refinement stated as the property P, and
`RenderedCursor` extends `UpdateTracker` too. Definitions whose comment calls
them a *faulty variant* or a *mutant* are used by no behaviour; each changes one
definition the way a plausible bug would, and the property it is paired with in
`PROJECT.json` is then violated.

### VNCServer

Everything runs on one thread, so an action is one call into the server carried
to its return, including the calls it makes (deleting a client releases its
keys and stops the desktop, for instance). Variables carry the names of the
fields. `state[s]` is the protocol state of the client whose socket has the
*address* `s`; addresses are reused. `queryCurrent`, `lastCall`, `deskKeys` and
`pbFault` are history: whether the client asked about is still the one at its
socket, whether start and stop alternate, the keys the desktop believes down,
and whether `pb` was used while null or freed.

The hosts differ, so they are parameters: `StopClearsBuffer`
(Windows sets a null buffer, x0vncserver frees it without telling the server;
Xvnc keeps its buffer, which is the harmless case), `StoppedTakesKeys` (a Windows desktop
drops key events once stopped), `StartMayFail` (`start()` throws), `StartMayLackBuffer`
(it returns, and the desktop counts as started, without a buffer), `FilterQuery`,
`Outgoing`. The control panel sends back a list it took earlier: `PanelSetsStatus` takes
any of the connections still there, with a status for each, whether or not the
desktop runs. `HANDSHAKE` stands for everything from PROTOCOL_VERSION to SECURITY;
`Handshake` separates it. Removal happens in any order (a superset of the hosts'
sweeps) and may take a live socket, as `SocketManager` does when an event cannot
be re-armed. The blacklist's verdict is free here; `ServerTimeouts` computes it.
Idle timeouts are a case of `Close`.

Left out: `~VNCServerST`, restart of the Windows desktop core, the access right
"no query" (never granted by this code), and the broadcasts that change no
modelled state (colour map, bell, cut text, name).

### UpdateTracker and FramebufferUpdate

A tracker is a record of regions, and a region a set of integer pixels: a strip,
on which a scroll is an offset. Bands and rectangles of a region do not matter
to what the trackers promise. `Bridges(u, old, new)` is that promise: where `u`
has nothing pending the old image already equals the new one, and where it has a
copy pending the copy makes it so.

`FramebufferUpdate` keeps the frame buffer, the server's tracker and old image,
and per client its tracker, requested region, mode and *screen* (`cfb`). A pixel
is also the block of `compareRect`. `turn` unrolls the loop of `tryUpdate` (and
the write that ends `processMessages`): nothing else runs until it is empty.
`WriteReturns`, `WriteNothing` and `WriteUpdate` are the three ways through
`writeFramebufferUpdate`, the `checkUpdate` inside included. `seen` is history:
the frame buffer when the server's tracker was last cleared. `MaxEvents` bounds
the number of drawings, buffer changes, joins and leaves.

Left out: desktop resizes as the client sees them (`UpdateStream`), the rendered
cursor (`RenderedCursor`), and the extra tracker inside the Windows `SDisplay`.

### RenderedCursor

The same strip, with one client in detail and the others as actions
(`OtherClientWrites`, and the flag `others` of a write) that propagate and render
but do not touch the client. A pixel the client shows is a colour and whether a
cursor is on it. `checkUpdate()` renders the cursor on a copy of its background
(`rendered`); `Write` adds the old cursor, and where a copy would put an image of
it (`Bogus`), to what changed, sends, and draws the cursor last. `drawn` is
`renderedCursorRect`, `remove` and `draw` the two flags. Whether the client needs
the cursor drawn depends on time and on whose pointer it is, so a client with a
cursor of its own (`local`) may need it or not after any event.

### UpdateStream

One connection in session, seen from both ends: `conn` and `cconn` are what
`VNCSConnectionST` and `CConn` keep, `upstream` and `downstream` hold whole
messages, but each rectangle of an update is a message of its own, since the
viewer reads them one by one. The screen is a row of columns, so that a size is a
number; a changed column is one rectangle. `reading` is the loop of
`processMessages()`, within which a request is not yet answered. A viewer may
request the next update at once or after painting (`PaintCompleted`), as the
viewers for Unix and Windows do, and its user may change format and encodings, or
refresh, at any time. `conn.view` is the right that the control panel grants and takes
(`SetStatus`), which requests an update the viewer did not ask for. `Unset` is what
`ConnParams` takes a viewer to support before it has sent its encodings.
`ViewerError` is the exception that a rectangle off the viewer's desktop raises, or
that one decoded in another format may. `crossed` is history, and names the two races
the code loses: a format selected while an update was under way, and an update
requested of a desktop the viewer will not know by then. Rectangles carry no pixels
(`FramebufferUpdate` is about contents), and there are no video areas, whose frozen
update without rectangles is a hazard that no property covers.

### Handshake and Admission

Two processes and two FIFO channels of whole messages (a handler that finds part
of a message waits for the rest). The server is `SConnection` with the overrides
of `VNCSConnectionST`; the viewer is the C++ `CConnection` or the Java
`RfbProto`, which speaks the Tight extensions. Each handler is an action; the
state INVALID does not appear because its handler's exception closes the
connection at once. `offer` (the parameter SecurityTypes) may change at any
moment, since `vncconfig` sets it at run time. `admitted` is history.

`Admission` is the promise without messages: entitled, then admitted, then the
viewer believes it is in. `PromiseKept` says that `Handshake` implements it.

Left out: version strings in pieces and unofficial minor versions, the
client-side order of types (nothing sets it), the contents of capability
lists, a reset that destroys data already sent, a password changed during the
handshake. Version 3.7 viewers are not in the repository; the server supports
them, so they are among the viewers checked.

### Blacklist and ServerTimeouts

`Blacklist` is the entry of a host as pure operators; the doubling timeout has the
width of an unsigned int (`Modulus`). `ServerTimeouts` composes it with what
`VNCServerST` does by the clock in the loop of the Windows server: it checks
timeouts, removes the sockets that are shut, computes its wait from the result of
the first step, and waits. The clock of a client's last event is set when it
connects, when it is *accepted* (by the user, or at once where none is asked) and by
what it sends in session; the right password only clears its host's black marks. Two
clocks: `now` is `time(0)`, which `SetClock` moves
either way, `real` is what really passes. `heard`, `closedAt`, `arrivedAt`,
`usedAt`, `tries` and `triedAt` are history in real time, so that properties can
say what an operator expects whatever the wall clock shows. `MinAuth` and `Late`
are 15 s and 60 s in the code. `MaxWait` is the longest wait whose milliseconds fit an
int: an idle timeout is capped to it (`secsToMillis`), while the three times that end
the process overflow, after which the wait may have any length or no end (`Wakes`).
`listening` says whether a listening socket is registered, without which
`SocketManager` asks no server for its timeouts.

### VNCServerWin32 and CommandService

Each section under `commandLock` is one action; `Condition` is the stack of
waiters that `Threading.h` implements, whose `signal()` wakes the latest. `call[t]`
says where a thread waits: for the slot or for completion, on the same condition.
The host's steps between its event and the next wait are separate actions,
since other threads run between them: the command is looked at, performed and
cleared in three. The dialog's thread queues without waiting and is joined by
the host while its command is performed. `CommandService` is the promise to one
caller: asked, performed once, returned.

### XvncQuery

The X server is one thread, so each of its handlers is one action; each vncconfig
is a process with a queue of notifications, a dialog and answers on their way.
A connection is known by the address of its socket, which a later one may get.
`slot` and `timer` are the extension's one query, `deskId` each screen's. A
notification is handled by a round trip, hence only when the answers before it
were read. An answer is passed to every screen, and taken by those that wait about its
address. `approved` and `unasked` are history: the connections whose dialog was
accepted, and the screens that wait on a query with a timeout of 0, for which
`vncQueryConnect()` keeps no query. The address is taken for a name; that the
reply cuts it to 32 bits (`vncExtInit.cc:767`) is not modelled.

## 3. Runs

| Run | Instance | Distinct states | Question |
| --- | --- | --- | --- |
| `server_session` | 3 sockets, 3 keys, all queried, the panel used at any time, symmetric | 240 008 | The desktop runs exactly while someone needs it, and authenticated clients have a live buffer; a pending query can be answered, and only its answer lets the connection in; no stuck keys; no dangling pointer owner |
| `server_policy` | 3 sockets (two queried, one reverse), NeverShared, starts that throw or lack a buffer, fair | 32 570 | At most one session under NeverShared; an unused desktop stops; a query ends |
| `server_stuck_key` | 2 sockets, a desktop that drops key events when stopped | violation | "release any keys" |
| `update_scroll` | 2 clients, 3 pixels, scrolls, comparing, 3 events, fair | 807 472 | Trackers bridge; the comparer's old image is what clients were told; no stale pixel, whoever asks first; convergence |
| `update_video` | a fixed video area, freezing, priority 2, fair | 21 832 | Video does not starve the rest |
| `cursor` | 3 pixels, a cursor of 2, scrolls, other clients, 3 events, fair | 609 326 | No cursor is left behind or copied; right background; the cursor ends where it is |
| `stream` | 2 formats, 2 columns, 3 sets of encodings, 3 events (refreshes and panel included), fair | 1 080 858 | Formats agree and rectangles fit but in the races named; headers count right; the viewer is never left without a request; size and cursor converge |
| `handshake` | 5 offers, versions 3.3, 3.7 and 3.8, 4 kinds of viewer, fair | 7 520 | No entry without the right; both ends agree and stay in step; refusals are told; the handshake settles; `Admission` |
| `clock` | 2 clients of 1 host, 8 settings, the clock set once by -3 or +8, 4 time units, 3 attempts | 8 335 899 | Nobody is closed early; idle clients and the process end in time; a failing host is barred twice as long each time |
| `clock_unused` | one setting | violation | The wait ends when MaxDisconnectionTime does |
| `commands` | 3 callers of 2 calls each, the dialog, fair | 304 926 | No lost wakeup; each command performed once, before its call returns; calls return; the server stops |
| `xquery` | 2 connections, 2 addresses, 2 screens, 2 vncconfigs, 1 exit, timeouts 0 and 10, fair | 261 398 | One query that all agree on; only a user shown the address lets it in; every query and dialog ends |

Why the bounds suffice. Three sockets are needed for one client closing another
while a third authenticates or a query is pending; `server_session` has no
counter, so its state space is complete. Three pixels are the fewest in which one
copy overlaps another in part and runs off the screen; a scroll, a drawing
inside its source and a second scroll are three events, and a cursor of two
pixels is partly in and partly out of a scroll's source. In `stream` three
of a resize, a change of format or encodings, a refresh and a use of the panel may meet
under one update, and two columns tell a larger desktop from a smaller. The handshake has no
bound: channels are kept short by the protocol itself. The clock's leaps exceed
every timeout of its settings, which are 1 to 3 units; after the one leap there is time for a timeout to
pass anew; `MaxWait` 2 lies among them, so that one is capped and one overflows; `Modulus` 4 makes the doubling wrap. In `commands` two waiters and a
third thread that takes the slot first are the case in which `signal()` may wake
the wrong one; a second call meets what the first left. Two addresses and two
connections let an address be reused while an answer is on its way, and two
screens let one be refused for the other's query. Most of the safety
properties are also theorems without these bounds (section 5).

`CHECK_DEADLOCK FALSE` appears where the system really stops: the handshake with
both ends closed, a destroyed Windows server, an exited process, and the runs
whose bounded events are used up (`stream`, `cursor`, `xquery`).

### Disagreements between the code and its comments

The two `violation` runs show one each; `PROJECT.json` quotes both sides.

1. `server_stuck_key`: `removeSocket` stops the desktop when no client is
   authenticated. A CLOSING client is not counted but may hold keys; its
   destructor releases them on a stopped desktop.
2. `clock_unused`: `SocketManager` asks for the server's timeouts before it removes
   the sockets that are shut. When that removes the last client it waits without a
   timeout, although MaxDisconnectionTime is set.

More are reached by changing one constant, or by naming a property that is
defined but in no configuration:

- `VerdictOnlyForAsked` (with `server_session`): the dialog's answer is for a
  socket address, so that a rejection may close another connection. An acceptance
  never lets one in (`OnlyTheUserLetsIn`).
- `AskedIsAnswered` (with `handshake`): a viewer of the type None before 3.8 sends
  ClientInit at once, which ends a connection the user is still being asked about.
- `VideoAreas <- VideoOnOff` (with `update_video`) breaks `NoStalePixel`: a pixel changed
  inside a video area and not sent is in no region after the area is switched off.
- `Requests <- AnyStrip` (with `update_scroll`) breaks `NoStalePixel`: a request that covers
  the source of a pending copy but not its destination repaints the source; the copy
  then takes the new value. `Asked <- AnyStrip` does the same to `NoTrail`
  (with `cursor`): part of a drawn cursor is copied.
- `Background` without `~local`: the need of a cursor may arise by time alone
  (`VNCServerST.cxx:464`), with the cursor rendered on an old background.
- `RejectedInTime` (with `xquery`): with QueryConnectTimeout 0, which the parameter's
  description does not exclude, the screen waits for ever and refuses everybody.
- `FormatsAgree` and `RectsFit` (with `stream`) fail without their premises about
  `crossed`. The Refresh menu (`unix/vncviewer/CConn.cxx:467`, the same in the Windows
  viewer) asks while an update is under way, and `setStatus()` (`VNCSConnectionST.cxx:812`)
  for one the viewer does not expect. A format that the viewer selects after the first
  update then overtakes the second, which is the crash that a comment there
  (`CConn.cxx:708-716`) expects of old servers only; and a rectangle of the former,
  larger desktop may come after the new size ("Rect too big"). `StreamFramed` and
  `NeverStarved` hold in these races too.
- `Converges` promises a client that the panel shows the desktop again nothing before
  the next change or message: `setStatus()` requests its update and does not write
  it.
- `PixelBufferValid` (with `server_session`): `setStatus()` reads `pb` of any connection
  of the panel's list (`VNCSConnectionST.cxx:812`), also of one that is not authenticated
  while the desktop has never been started or is stopped.
- `StartMayFail = TRUE` (with `server_session`) breaks `StartStopAlternate`: `SDesktop.h:32`
  asks for alternate calls, but after a failed start `VNCServerST.cxx:439` calls
  `start()` again.
- `StartMayLackBuffer = TRUE` with `StopClearsBuffer = FALSE` breaks `DesktopServesClients`:
  a `pb` that `stop()` freed is not null, and `VNCServerST.cxx:441` takes it for one that
  `start()` has set.
- `InTime` without `Timely` (with `clock`): `timeLeft * 1000` overflows for
  MaxDisconnectionTime, MaxConnectionTime and MaxIdleTime above 2147483 seconds
  (`VNCServerST.cxx:203`, `224`, `246`), and a server without listening socket is
  never asked (`SocketManager.cxx:136-138`).
- `AcceptedWasShown` is about addresses. An answer about an address that was shown
  reaches whichever connection has it now.
- With `NeverShared` and `DisconnectClients` a new client closes the active one
  (`ServerCore.cxx:71` against `VNCSConnectionST.cxx:401`), which no property forbids.
- `InStep` has an exception for a rejection that needs no question: it writes a
  security result, or a second one, even where the protocol has none.

## 4. Fairness

- `VNCServer`: weak fairness of reaping each shut socket (every host looks for
  them in its loop) and of the verdict (the dialogs have a timeout). Nothing is
  assumed of peers.
- `FramebufferUpdate`, `RenderedCursor`: a begun call goes through its clients
  (weak); the host tries updates again and again, and a client in session asks for
  the screen after each update (strong: both are enabled only between calls).
  Viewers do ask again; a viewer that does not is not promised anything. Requests
  are for the whole screen, because a client alternating full requests for the
  video area alone can keep the rest from being sent.
- `UpdateStream`: weak fairness of both ends reading what has arrived, of the
  answer that ends `processMessages()`, of the deferred `tryUpdate` and of
  painting. Reading includes failing to (`ViewerError`). Users, the panel and the
  desktop need do nothing.
- `Handshake`: weak fairness of each process. The query dialog times out and an
  idle timeout of at least 15 seconds (`VNCSConnectionST.cxx:267`) ends a viewer
  that waits; nothing is assumed of closing or of configuration changes.
- `VNCServerWin32`: weak fairness of the host thread, of woken threads and of the
  tray thread once told to stop; the dialog counts down and so calls. Nobody has
  to call otherwise, to query or to stop.
- `XvncQuery`: weak fairness of the timer and of reading answers and notifications.
  Users, vncconfigs that exit and connections are free.
- `ServerTimeouts` has none: that something happens in time is a safety property
  there (`InTime`), as `Tick` cannot pass the end of a wait.

## 5. Proofs

All theorems hold for every value of the constants allowed by the named
assumptions of the modules.

**VNCServerProofs.** `TypeCorrect`. The desktop: "used implies running" is not
inductive, since closing clients keep the desktop alive; `DesktopInv` adds that
running implies an authenticated or closing client, and a live buffer if `start()`
returns with one, as `SDesktop.h` asks of it. It gives `DesktopNeeded`, and under that
assumption (`~StartMayLackBuffer`; a start may still throw) `DesktopServes` and
`DesktopFollows`. `QueryAnswerable` is inductive
by itself and yields `UserLetsIn`. `NeverSharedExclusive` is inductive through
`ClientInit` alone, which is why the earlier "in use" test being stale does no harm.
`InputInv` gives `PointerOwner` and `KeysReleased` (if a stopped desktop still
takes key events; the violation above is the other case).

**UpdateTrackerProofs.** Each tracker operation returns a tracker within the
frame. `AddCopiedBridges`: adding a copy to a tracker that bridges two images
gives one that bridges the first and the copied second, in all three cases of
`add_copied`. `FeedBridges` composes two trackers; `ClipCopiedBridges` is a clipped
scroll. The two modules below rest on these.

**FramebufferUpdateProofs.** `TrackersFormed` needs no assumption. `Sound` is the
inductive invariant of the rest: well-formedness, `ServerBridged`,
`ClientBridged` and `ComparesWithSeen`. Each is needed: a client's tracker is
extended by what the server's promises, and comparing is harmless only against
what clients saw. It gives `ServerTrackerSound`, `ComparesSound`,
`ClientTrackerSound` and `NothingLost` under `Plain`: no video areas, and either
whole-screen requests or no scrolling. Both parts of `Plain` are necessary, as
section 3 shows. Frame buffer, number of clients, offsets, colours and
events are arbitrary.

**RenderedCursorProofs.** `NoCursorTrail` and `ScreenRight`, for requests of the whole
screen (`AsksForAll`, necessary too). The invariant has three parts: trackers are
well formed; every cursor shown lies in `drawn`, which is the present cursor unless
it is to be removed; and there *exist* two images, the client's screen without
cursors that are in the way and the screen at the last propagation, that the two
trackers link to the frame buffer. No history variable has to carry those images.
The key is `PendedRight`: after the old cursor and its would-be copies are added to
the changes, no pending copy has its source under the cursor.

**ConnectionProofs** is about both stages of a connection.

*Handshake.* `Inv` adds to the types what a message in flight implies
for the state that reads it. `OnlyAuthorised`: nobody passes the security
handshake without the password where one is asked. `TypeSettledFromOffer`: the
type is settled once and from the offer in force then. `ImplementsAdmission`:
every step is a step of `Admission` or a stutter. `EndsAgree`, `RefusalsTold` and
`StaysInStep` need more: `Joint` says, for every state of the server, in which
states the viewer can be and which messages are under way, in both channels. It is
in three parts because an end may go at any moment. While nobody has closed, `Open`
lists the joint states; the viewer may be one type or two messages ahead
(`Choice`) or behind (`Behind`), and ahead and behind are where a disagreement would
hide. Once the viewer is gone only `ServerReadable` is left, and once the
server closed, `Legible` and `RefusalTold`. The invariant names the one exception,
`RefusedUnasked`.

*UpdateStream*, for any desktop, formats, encodings and number of events, and with no
further assumption: any number of requests and updates may be under way. `StreamInv`
has four parts. `FramingInv`: the stream is a `Chain`, in which what is left of the
first update, and each header, is `Followed` by as many rectangles as were announced
and then by a header or nothing; only a connection that was closed may lack the last
ones. `NeverStarved` is inductive with it: an update that was begun ends, and with
its end the viewer asks. `FormatInv`: what is under way is in the viewer's format, and
a new format is ahead only while nothing else is (`FormatAhead`); without one ahead the
server has the viewer's format. `SizeInv`: each rectangle fits the desktop that the
viewer will know when it reads it (`Shown`), and what is requested would fit if it were
written next; a larger desktop is requested only by a viewer that knows it. They give
`CountsHold`, `AlwaysAsked`, `DecodesAsWritten` and `NoRectTooBig`. The last two carry
the exceptions of `FormatsAgree` and `RectsFit`, which are false of the code otherwise
(section 3).

**VNCServerWin32Proofs.** For any number of callers and calls. `QueueTyped` includes
that the stack holds each thread once. `SignalsSuffice`: whoever is woken in vain
passes the signal on or fills the slot, so that with a free slot and a waiter
somebody is awake; `HostSeesCommand`: the event is reset before the command is read;
`WakeupsSuffice` is both. `DataOutlivesCommand` and `UnlockedReadsStable` justify the
host's reads without the lock. `QueueImplementsService` maps the queue to
`CommandService`; its invariant counts each thread's calls and performed commands.

**XvncQueryProofs.** `Inv` adds to the properties that the extension's query is
whole (`SlotWhole`), that addresses belong to connections that came
(`AddressesKnown`), and the path of an acceptance from the dialog through the
message on its way to the accepted connection (`DialogsShown`,
`AcceptancesShown`, `AcceptedShown`). It gives `OneQueryAgreed` and `OnlyShownAccepted` for
any number of connections, addresses, screens and processes.

**ServerTimeoutsProofs.** `NeverEarly`: the wall clock read at a client's last event
is never before what the resets of `checkIdleTimeout` leave, so setting the clock
back closes nobody early, and an acceptance starts a client's time anew.
`ExitsWithReason`: likewise for the three times that end
the process. `AlwaysInTime` is the other direction, under `Timely` as the property says (a
listening socket, and times that fit their milliseconds): `Punctual` relates each time that was
noted to the end of the present wait, by a budget of one timeout for each time
the clock was set. A clock set back makes the wait longer, and is what the budget pays
for; `Reset` then brings the noted time back into the range that the next wait is
computed from. That the end of the wait is the soonest of its parts uses the
well-foundedness of the naturals (`SoonestLeast`). `BarredForTwiceAsLong`: on a clock
that is not set, `Remembered` gives a host's whole entry from the number of its
failures and the time of the last, so `isBlackmarked` decides as `FailuresBarHost`
says. It rests on `Powers` (the recursive function of powers of two exists and is the
only one) and `DoubleRemainder` (doubling modulo 2^32 step by step is doubling, then
the remainder), for any modulus.

Only model-checked: all liveness (`UnusedDesktopStops`, `QueryEnds`, `Converges`,
`NonVideoConverges`, `CursorShown`, `Settles`, `CallsReturn`, `StopsUnlessCalling`,
`DialogsEnd`), which TLAPS does not reach here. Every safety property that a passing
run checks is a theorem. `UnusedServerWakes` and `AskedIsAnswered` are false
(section 3), and so is `NoStuckKey` where a stopped desktop takes no key events.

## 6. Not modelled, and why

- **Timers**: the models let a timer's timeout happen at any time. The list's
  order and the reaction to a clock that jumps are sequential code behind one
  function; `ServerTimeouts` covers a jumping clock where the server reads it itself.
- **Order of copies in `Region`**: a strip has one row, in which a copy is one
  rectangle or a few in one direction; the models take the copies of one update to
  be simultaneous, which is what the order of `get_rects` is for.
- **Encoders and decoders, pixel formats, scaling, pixel buffers, DES, key
  remapping**: functions from data to data, which a test reaches as well as a
  model. What matters of them to order and state (which format, how many
  rectangles, which key) is in the models.
- **File transfer**: shares no state with the session, and the source calls it
  unfinished (`SConnection.cxx:439`).
- **HTTP server**: one request per socket; shares the loop and nothing else.
- **x0vncserver's polling, Xvnc's hooks and deferred update, `SDisplay`**: sources of
  drawing hints and callers of `tryUpdate`, which come at any time in the models.
- **Streams, sockets, configuration, logging, toolkits, user interfaces, the Java
  viewer's decoding**: I/O, text and widgets.
- **Vendored code** (Xregion, zlib, jpeg): not this program's own.

Most of the repository's lines are in these parts; the project covers the part
whose state is shared between calls, threads, processes or machines.

## 7. What could come next

1. `Timers`, with the clock of `ServerTimeouts`.
2. The copy order of `Region::get_rects`: a two-dimensional pure algorithm, checked
   over all small regions against a simultaneous copy.
3. The tracker inside `SDisplay` and Xvnc's deferred update as further stages before
   the server's tracker; `FeedBridges` is the lemma they need.
4. Video areas in `UpdateStream`: a frozen one makes an update whose header counts
   nothing (`VNCSConnectionST.cxx:672-714`), which `CMsgReaderV3.cxx:109` never ends.
5. A property of the control panel's rights, once it is settled which `setStatus()` should
   leave: it clears them with `!` where `~` may be meant (`VNCSConnectionST.cxx:806`).
