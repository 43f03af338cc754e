# go-quick in TLA+

go-quick is a small Go framework for game and service back ends: TCP and
WebSocket servers and clients that exchange length-prefixed frames, a message
router, a scheduler, an etcd registry, database wrappers and process-exit hooks.
This directory holds TLA+ models of its concurrent parts, the TLC runs that check
them and TLAPS proofs about them. Line numbers refer to the Go files.

## 1. Inventory

| component | source | state | operations | what is hard |
|---|---|---|---|---|
| TCP connector | `network/tcp_connector.go` | `running`, `reconning`, `ctx`, `Conn` (under `mu`), `writeMu`, `startOnce`, the socket's deadlines | `Connect`, `SendMessage`, `Close`; goroutine `readLoop` with `reconnectWithBackoff` | `Close` against a dial in flight; a stale socket's failure against a new one; deadlines shared by senders |
| TCP server | `network/tcp_server.go` | `running`, listener, `clients` (`sync.Map`), per connection `Running`, socket, session map | `Start`, `RemoveConnect`, `GetConnect`, `OnSystemExit`, `SendMessage`; goroutines: accept loop, one handler per connection | three parties end a connection at once; `Range` while connections come and go; callbacks that panic |
| request/response client | `network/tcp_client_service.go` | maps of pending requests and push handlers | `RequestMessage`, `AddMessageHandler`, `RemoveMessageHandler`, callback `rec` | answers matched by message id only; unsynchronised maps; who returns the payload to the pool |
| framing, decoder, buffer pool | `network/framer.go`, `decoder.go`, `data_message.go`, `buf_pool.go` | bytes of the stream, pooled buffers | `DeFrame`, `WriteFrame`, `Decode`, `Get`, `Put`, `Close` | a read timeout inside a frame; use after release |
| WebSocket connector | `network/ws_connecter.go` | as the TCP connector, plus a buffer of partial frames | as the TCP connector, with `MaxAttempts` | the same races; the buffer surviving a change of connection |
| WebSocket server | `network/ws_server.go` | `clients`, per connection `Running`, session map | `wsHandler`, `CloseContext`, `OnSystemExit`, `SendMessage` | as the TCP server, without a `running` flag |
| message router, session handler | `network/message_router.go`, `componnet.go` | map of handlers | `Register`, `Route`; the callbacks `OnAccept`, `OnClose`, `OnIdleTimeout` | the order of the callbacks, which the servers decide |
| scheduler | `schedule/schedule.go` | map of tasks, their `StartTime` | `AddJob`, ticker goroutine, one goroutine per execution | `StartTime` is written by the goroutine of the task; a second can be missed |
| etcd registry | `3rd/etcd.go` | `NodesInfo`, lease | `RegisterAndWatch` | events between the read and the watch; the end of the lease |
| process exit | `system/sys.go` | list of exit handlers | `RegisterExitHandler`, `WaitElegantExit` | the process ends while goroutines are at work |
| databases, HTTP, config, logging, utilities | `db/`, `quickhttp/`, `config/`, `logger/`, `util/` | external | wrappers | I/O |

The server and the connectors meet on the wire only. Inside a process the request
client sits on the TCP connector (`rec` is its `MessageHandler`); `WaitElegantExit`
calls `OnSystemExit` of the servers and then ends the process; every reader goes
through the framer, the decoder and the buffer pool.

What makes each component correct: the **connectors** must never lose a socket or
have two, must reconnect, and must stop for good; the **servers** must end every
connection once, completely, and tell the session handler once; the **request
client** must give each answer to its request; the **framing** must deliver the
frames sent, whole and in order; the **scheduler** must run each task as often as
its fields say; the **registry** must converge to the registered nodes.

## 2. Plan

The modules are written in the order of what a mistake costs: first the two
programs that decide whether a process keeps its connections, then what runs on
top of them, then their WebSocket twins, and what both of a pair promise.

| step | modules | status |
|---|---|---|
| 1 | `TcpConnector`, `MCTcpConnector`, `TcpConnectorProofs` | checked and proved |
| 2 | `TcpServer`, `MCTcpServer`, `TcpServerProofs` | checked and proved |
| 3 | `Schedule`, `MCSchedule`, `ScheduleProofs` | checked and proved |
| 4 | `ClientService`, `MCClientService`, `ClientServiceProofs` | checked and proved |
| 5 | `FrameStream`, `MCFrameStream`, `FrameStreamProofs`: the cells of the stream and the three receivers of frames | checked and proved |
| 6 | `WsConnector`, `WsServer`, their MC modules and `WsConnectorProofs`, `WsServerProofs` | checked and proved |
| 7 | `Link`, what a connector promises, and `Sessions`, what a server promises | implemented by both of each pair: checked and proved |
| 8 | `EtcdRegistry`, `MCEtcdRegistry`, `EtcdRegistryProofs` | checked and proved |
| 9 | what `Link` and `Sessions` promise by themselves, carried over to the programs by the refinements: a connector that was closed stays without a socket, a session is told its end once | proved |

    Link     <-- TcpConnector, WsConnector          Sessions <-- TcpServer, WsServer
                     |                                                |
              ClientService (rec is its MessageHandler)        system exit (in WsServer)
                     |                                                |
              FrameStream: the bytes between a connector and what it reads, both transports

An arrow is a refinement (`INSTANCE ... WITH`), which a run checks as a property.
No module declares a RECURSIVE operator: all of them can be proved about.

## 3. The modules and the code

### TcpConnector (`network/tcp_connector.go`)

One `Connector` and its goroutines: `Dialers` call `Connect`, `Senders`
`SendMessage`, `Closers` `Close`, again and again; `Reader` is `readLoop`. `pc`
says where each is and `hold` is its local `conn` (in `retire`: `old`).

| state | code |
|---|---|
| `running`, `reconning`, `started`, `cancelled` | the atomics `running` and `reconning`, `startOnce`, `ctx` |
| `cur` | `Conn`, read and written under `mu` only: each critical section is a step |
| `writer` | the holder of `writeMu` |
| `sock`, `wdl`, `torn` | per socket: open, broken by the network or closed by us; its write deadline; whether part of a frame was written on it |

Actions are named after the function and the point in it: `ConnectCall` ...
`ConnectStart`; `SendCall`, `SendSnapshot` (298), `SendDeadline` (305), `SendLock`,
`SendWritten` or `SendBroken` (314), `SendFail` (319, closes and clears `Conn` if it
still is the sender's), `SendClear` (the deferred 310); `CloseCall`, `CloseCancel`,
`CloseShut`; the reader's `LoopHead`, `LoopSnapshot`, `ReadFrame`, `ReadTimeout`
and the four ways a read fails, `HandlerReturns`, `DropFailed`, `DropUndecodable`,
`Reconnect...`, `Redial...`, `Install`, `Retire`, `Backoff...`, and the deferred
`Close(Reader)`. Sockets come from a finite set; one that is closed and that
nobody refers to stands for the next one (`Fresh`).

Left out: the bytes (frames are read whole; `FrameStream` has the bytes), the
length of the backoff (`WsConnector` has the same formula), logging. The branch of
`reconnectWithBackoff` that waits for another goroutine's reconnection (lines
233-245) is not modelled because it is never taken, which `FlagsSound` states and
`Uncontended` proves.

### TcpServer (`network/tcp_server.go`)

The server after `Start` has listened. A connection `c` is also the goroutine
that handles it; `Acceptor` is the accept loop, `Exit` runs `OnSystemExit`, and
`Apps` are goroutines that keep a `ConnectContext` and call `SendMessage` or
`RemoveConnect` on it. `clients` is the `sync.Map`: its operations are atomic
steps, except `Range`, which visits every key that was there when it began and
stayed, and may visit later ones (`ExitRange`, `ExitVisit`). `Running` has no lock:
a handler may act on an old value (`HandlerHead`). `RemoveConnect` is four steps
(`LoadAndDelete`, `Running`, `Close`, `OnClose`) for each of its three callers.
`closes` counts the calls of `OnClose`.

A handler whose `OnAccept` panics ends in `panicked`: it has not deferred
`RemoveConnect` yet. `SendMessage` writes in one step; its lock and deadline
(285-290) are used as in the connector, with the same two races (section 5), and
nothing here relies on the deadline.

### WsConnector (`network/ws_connecter.go`)

The same goroutines and the same `pc`, `hold`, `cur`, `sock` and `writer`. What
differs from TCP, and is modelled as the code has it: the timeout of a write is a
context that starts before `writeMu` is locked and belongs to one call, so there
is no deadline of the connection to race for; the library closes a connection
whose read context expires, so that `ReadAgain` may leave a dead one to the next
read; every failed read goes through the head of the loop (`Drop`); a sender closes
and clears in one critical section; a dialled connection is stored over `Conn`
without looking at what was there (`RedialStore`); and `MaxAttempts` may end the
reader (`RedialNoMore`). `buf` is, of the buffer of partial frames, whose bytes are in
it: the set of connections they came from. `delay` is the pause `ExpBackoff`
computes, in integers of `Bits` bits, from a product of floats that may leave their
range; the jitter on top of it is left out.

### WsServer (`network/ws_server.go`, `system/sys.go`)

`wsHandler` is the goroutine `c` of a request; it writes its answers itself
(`Answer`, which is `MessageRouter.Route`), so that a handler can wait for `writeMu`
behind the application. `Main` is the goroutine in `WaitElegantExit`: a signal, the
`Range` of `OnSystemExit` as in `TcpServer`, and `ProcessExit`, after which `Alive` is
false and nothing moves. There is no `running` flag, and the HTTP server goes on
accepting during the exit: `late` is the set of connections stored since `Range`
began.

### Link and Sessions

`Link` is a connector seen from outside: a phase (down, dialing, dialed, up, dead),
the socket, and whether `Close` was called. It may dial only when down and not
stopped, and a socket must be dropped or closed before the next dial. The mapping
reads the phase off: a dial or a store under way comes before what `Conn` is, and a
socket that is open, not in `Conn` and not being stored has the phase `lost`, which
`Link` does not have. `Sessions` is a server seen by its `ISessionHandler`: a
connection is accepted, registered, taken out once, closed, and then told to
`OnClose` once. The mapping reads the phase off `clients`, `closes` and whether some
goroutine is between `LoadAndDelete` and `OnClose`. `Link` is about a connector on which
`Connect` succeeds once; the MC modules assume that by name (`ConnectedOnce`).

### FrameStream (`network/framer.go`, `decoder.go`, `ws_connecter.go`, `ws_server.go`)

What the other modules call reading a frame, cell by cell. A peer sends a stream,
either any cells at all or the frames of some bodies (`sent`); `proto` chooses who
receives: `DeFrame` under the read deadline of `readLoop` (`ReadPart`, `ReadFrame`,
`ReadRefused`, `ReadTimeout`), `wsDeframe` with the buffer it keeps from message to
message (`WsReceive`), or the server's `wsExtractBodies`, which keeps none
(`ServerReceive`). `have` is what the receiver holds, `got` what it delivered. `Split`
is the loop both WebSocket functions run; the sizes of a byte, of the length, of
the header and of the largest body are parameters. A length is written and read cell
by cell (`Shifted`, `MakeHeader`, `Total`), as `PutUint32` and `Uint32` do, and what does
not fit into its cells is cut off. What is assumed of a sending is that its frames are
not longer than a length can count. A body may be shorter than a header: the library's
own senders never write one, but `DeFrame` returns an empty frame, and `Decode` then
refuses it (`Undecodable`, `ReadRefused`; section 5).

### Schedule (`schedule/schedule.go`)

`Tick` begins a walk over the map, `Visit` comes to a task in any order, reads the
clock and decides (`Due`, `Ends`), `DoTask` starts a goroutine, `Delete` removes by
name in a step of its own, and `Begin` is that goroutine storing `StartTime`.
`AddJob` may come at any point and replace a task of the same name; tasks are
added with a `StartTime` of 0 or in the future. `runs` records the second in
which each execution was decided. Two history variables say how kind time has
been: `steady`, that each second so far saw a whole walk and no walk crossed into
the next, and `prompt`, that each execution began before the next walk. The code
guarantees neither, and the properties that need one name it.

### ClientService (`network/tcp_client_service.go`, with `data_message.go`, `decoder.go`, `buf_pool.go`)

`Requesters` call `RequestMessage`, each with an id that `idOf` fixes at the start
and that may be another's or a push's: `Register`, `Send` or `SendFails` (which
leaves the handler), `Receive`. `AddMessageHandler` and `RemoveMessageHandler` may come
at any time. The reader decodes (`Decode`, which takes a buffer with `Gets`), calls
`rec` (`RecAnswer`, `Deliver`, `Delete`; or `RecPush`), which looks at the id only, and
closes the message (`CloseTest`, `ClosePut`, `CloseClear`: the three steps of `Close`
and `Release`). `use` follows the goroutine that got the message; if `userCloses` it
closes it too. `pool` counts how often a buffer is in the pool, `payload` is the
message's `Msg` and `owned` the slice its `Release` closed over. The connector below
appears as messages that arrive, and as `Disconnect`, which loses those under way.
Payloads are not empty (an empty one has no buffer) and `sync.Pool` forgets nothing.

### EtcdRegistry (`3rd/etcd.go`)

Nodes that call `RegisterAndWatch` (`Grant`, `Get`, `Put`, `KeepAlive`, and the
goroutine's `Watch` and `HandleEvent`), crash, and start again; `start` is the number of
the current start, which also names its lease and the value it puts. etcd is
external: `store`, `attached` and `leases`, changed atomically, a lease that may
expire at any time (a process may be cut off for two seconds), and an event for
each change to each watch that is on, in order (`queue`). `gap` is, for each node,
the keys whose last change fell between its `Get` and its `Watch`.

## 4. The runs

| run | what it asks | bounds |
|---|---|---|
| `tcp_connector` | types; the flags (`FlagsSound`); no open socket is forgotten (`NoOrphan`); `Conn` is not a dead socket that nobody looks after (`ClosedNeverCurrent`), nor cleared for another's failure (`StaleFailureHarmless`); frames are mixed only in a short window (`TornIsShort`); `CloseEndsReader`, `Reconnects`, `SendReturns`; `ImplementsLink` | 1 dialler, 2 senders, 1 closer, 2 sockets; `Connect` succeeds once |
| `ws_connector` | types; no frame mixes two connections (`FramesOfOneConn`); `CloseEndsReader`, `Reconnects`, `SendReturns`; `ImplementsLink` | the same; `MaxAttempts` 1 or none; pauses of one length |
| `tcp_server` | types; a finished handler leaves nothing behind (`CleanedUp`); exit reaches all (`ExitReachesAll`); `ImplementsSessions`; `DeadConnCleaned`, `ExitEndsAll`; `OnAccept` may panic | 1 connection, 2 application goroutines |
| `ws_server` | types; `OnClose` has been called when the process ends (`ExitNotifies`); `ImplementsSessions`; `DeadConnCleaned` | 1 connection, 2 application goroutines |
| `frames` | the receiver is in step with the stream (`InStep`), and delivers what was sent or has a reason not to (`Faithful`) | cells of base 4, lengths of 2 cells, a header of 1; every stream of up to 6 cells; up to 3 frames, with bodies that are empty, too long or in between |
| `client_answers` | types; `rec` never waits (`RecNeverBlocks`); a request with an id of its own gets its answer (`RightAnswer`); a buffer has one owner (`BufferOwnedOnce`) | 2 requesters, one of which asks twice; 1 push; 2 ids; 1 buffer |
| `schedule_ticks` | types; nothing runs before its `StartTime` (`NotEarly`), however the ticks fall; `Spaced` while executions are prompt; `OneShotIfSteady` while no second is missed | 4 tasks, two of one name; 4 seconds, 3 recorded executions |
| `registry` | types; `NodesInfo` follows etcd (`CacheTracksStore`); a key lives and dies with its own lease (`Registered`); a dead node is forgotten (`DeadForgotten`) | 2 nodes, 2 starts each |

Why these bounds are enough. In a connector each goroutine holds one socket at
most: with two sockets one can be current, or being dialled, while another
goroutine still holds the previous one, which is what every stale failure needs;
sockets are reused, so that the runs have no bound on the number of
reconnections. Two senders are what a lock, and a deadline that is shared, need to
go wrong. The safety properties of both runs, `TornIsShort` and `ImplementsLink` are
proved for any number of goroutines and sockets. In the servers
the three kinds of callers of `RemoveConnect` meet on one connection, two
application goroutines can meet each other; connections share only `clients`, and
what `Range` does with several of them is proved (`ExitSweepsAll`, `ExitTellsAll`). For the
WebSocket server the safety properties are proved for any number of both, and
were also checked with two connections and one application goroutine, 722,108
states, which is too slow with liveness. In `frames` the
longest stream holds a length, a header and a payload, and half of the next frame,
or two frames whose lengths are wrong in two ways, and the deadline may pass and a
message may end at any cell; both properties of it are proved for any sizes,
streams and sendings. In `client_answers` the second call of a requester
meets what the first, failed one left, and a push meets both. In the scheduler
four seconds hold two executions of a task of interval 2, the third second of a
one-shot task and a second after it. In `registry` one node starts again while the
lease of its first start lives, and the other sees it. What these three runs check,
but for the liveness of `registry`, is proved for any numbers as well.

Every module caps what would grow in a guard or a constant: `Horizon` and `MaxRuns`
in `Schedule`, `MaxCalls` in `ClientService`, `MaxCount` in `WsConnector`, `MaxStarts`
in `EtcdRegistry`, `MaxStream` and `MaxSent` for `FrameStream`; the others have finite
states.

Deadlock is not checked where the program may rightly stop: a closed connector
whose callers are done, a server after its exit, a requester whose answer was lost
(`RequestMessage` has no timeout), a stream that has been read, nodes that have no
start left. `Schedule` is checked for it.

### Fairness

Each `FairSpec` gives weak fairness to the steps a goroutine takes by itself, to
callbacks returning and to timed operations ending; a goroutine at `writeMu`, which
Go's mutex does not starve, gets strong fairness. Strong fairness is also given
to the failure of a read on a dead socket, whose buffered frames are finite, to
the success of a dial that is tried for ever (reconnection promises nothing if
the peer never comes back), and in `WsServer` to the end of an execution, which may
send finitely often. Nothing is assumed of callers, peers and the network: they
need not call, send, read or break; no idle timeout is relied on. In particular a
TCP write to a peer that does not read ends only by its deadline, which another
sender may have removed: `SendReturns` of `TcpConnector` says so. A WebSocket write ends
by its context, and `SendReturns` of `WsConnector` has no such exception. In
`EtcdRegistry` watchers handle the events they are sent, and etcd ends the leases that
no process keeps alive. `ExitEndsAll` says what would happen if the process lived on after
`OnSystemExit`: no goroutine of the server hangs.

## 5. Where the code and its comments differ

Each of these runs expects TLC to violate one property, which a comment of the
source states.

| run | property | what happens |
|---|---|---|
| `frames_timeout` | `ReadsWholeFrames` | a read deadline that passes inside a frame is taken for an idle connection; the part read is dropped, and the rest read as a frame |
| `schedule_missed` | `OneShotOnce` | a one-shot task whose exact second is missed is executed at every tick from then on |
| `client_used` | `UsedBeforeReturned` | the reader returns a payload to the pool as soon as `rec` has handed the message over |
| `ws_backoff` | `PauseAtLeastBase` | after 37 failures in a row, with the default base, the computed pause leaves the range of a `Duration`; on amd64 there is no pause any more (`tcp_connector.go` 276 computes it in the same way) |

Others that the models contain, with the property that is stated around them:

- `Close` does not wait for a dial in flight (`tcp_connector.go` 265 and 107): its socket
  is stored into `Conn` after `Close` has looked there, and stays open on a stopped
  connector, though line 331 says that `Close` closes the current connection.
  `Link` allows a dial that `Close` overtakes to bring a socket, and none later. The
  WebSocket connector does the same.
- The deferred reset of the write deadline (310) runs after `writeMu` is released and
  resets the next sender's: the exception in `SendReturns`.
- After half a frame `writeMu` is released before the socket is closed (315 to 322),
  and another sender may append a frame: `TornIsShort` says that this window is the only one.
  Both races are in the TCP server's `SendMessage` as well.
- A user who closes a message races with the reader's close (`data_message.go` 37):
  both may find `Release` set and the buffer is returned twice. `BufferOwnedOnce` is
  about users that leave it to the reader.
- A second successful `Connect` overwrites `Conn` (107) without closing the socket in
  it, though line 94 calls it idempotent: `ConnectedOnce`, and `OneConnect` in the proofs.
- Two nodes that start together may never hear of each other: each reads the keys
  before it puts its own, and watches only from after that (`etcd.go` 45 and 75). `gap`
  is the exception in `CacheTracksStore` and `DeadForgotten`.
- `StartTime` is the "start time" of a task (`schedule.go` 18), and one-shot tasks, and those
  with a `StartTime` of 0, do start then; a periodic task with a later one is first
  executed at `StartTime + Interval` (57). `NotEarly` promises no more than that nothing runs
  before its `StartTime`, and no property says when a periodic task is first executed.
- An empty frame (length 4), which `DeFrame` returns as a valid one, "for instance a
  heartbeat" (`framer.go` 83), ends the connection: `Decode` has no message for less than a
  header (`decoder.go` 18), so that the TCP connector closes it (`tcp_connector.go` 189) and the
  TCP server ends its handler (`tcp_server.go` 230); to both WebSocket functions the
  length is a bad one. `Faithful` names it as a reason (`Headless`). The heartbeat of
  `buildHeartbeatFrame` (`tcp_connector.go` 368), a header with nothing behind it, is delivered.
- A task whose execution starts late, after the next tick, runs twice within an interval
  (`Spaced` without `prompt`).
- A frame without a header takes the whole frames before it in the same WebSocket message
  along (`ws_connecter.go` 357): `Headless` among the reasons in `Faithful`.
- A requester that shares its id with another one or with a push may receive the
  other's message, or wait for ever (`RightAnswer` is about ids of one's own).

## 6. What is proved

TLAPS checks the theorems below for any sets of goroutines, sockets and
connections, tasks, requests, streams and nodes, and any values of the options and bounds,
from the named assumptions on the constants only: the kinds of goroutines and of
messages are distinct (`ThreadAssumption`, `SourceAssumption`), `None` is none of the
other values, times and bounds are natural numbers, the pauses of `WsConnector` fit
into a `Duration` as configured (`DelayAssumption`), and the sizes of a frame, what a peer
sends and what its frames can hold are what section 3 says of `FrameStream`
(`SizeAssumption`, `StreamAssumption`, `SendingAssumption`). Where `OneConnect` is named the
theorem is about a connector on which `Connect` succeeds once, as the
repository's clients (`test/`, `tcp_client_service.go` 39) use it. Conditions on the environment, such as `prompt` or
`userCloses`, are part of the properties and not of the theorems.

An invariant below is inductive together with those that come before it in its module,
unless something else is said.

`TcpConnectorProofs` builds five invariants:

1. `TypeOK` (`TypeCorrect`): types, and no goroutine uses a nil socket.
2. `FlagInv`: `reconning` is set only inside `reconnectWithBackoff`; whoever is past the
   swap in `Close` has stopped the connector. It gives `Uncontended` and `ReaderGone`,
   together `FlagsReliable`. `StaleHarmless` is an action property: `ClearStep` goes
   through the actions that clear `Conn`.
3. `OwnInv`: a socket that was dialled and is not stored yet is open, is not `Conn`, and
   nobody else has it. It is what makes `ClosedNeverCurrent` inductive
   (`ClosedCurrent`): without it `ConnectStore` and `Install` could store a closed one.
4. `StageInv`: while the reader reconnects `Conn` is nil, while it reads `Conn` is its
   socket or nil, and before `startOnce` there is no socket but the dialled one. It
   needs `OneConnect`: `Redial` is false and there is one dialler. Without it
   what follows is false. It gives `SocketsAccounted` (`NoOrphan`) and `OneSocket`
   (`SingleSocket`).
5. `TornInv`: a socket with part of a frame on it is closed, or the sender that failed is
   about to close it. It gives `FramesTornBriefly`, the action property `TornIsShort`. It
   needs `StageInv`: that sender closes the socket only if it is still `Conn`, and one that
   is not `Conn` any more has been closed by whoever took it out.

These decide the mapping to `Link` (`LinkInv`, `PhaseMap`): one goroutine at most dials or
stores, `Conn` is nil then, and no socket is lost. `LinkStep` maps each action to a step
of `Link` or, by `NoLinkStep`, to none, and `LinkImplemented` is the refinement, under
`OneConnect`.

`TcpServerProofs`:

1. `TypeOK` (`TypeCorrect`).
2. `LifeInv`: the life of a connection. One that is known is in `clients`, or one
   goroutine is removing it, or `OnClose` has been called once and its socket is
   closed; these exclude each other. It gives `OnCloseOnce`, `OnCloseIsLast` and, with
   `DoneStep` (a handler ends by `RemoveConnect`, or panicked), `HandlerCleansUp`.
3. `SessionStep`: with `LifeInv` before and after, each action is a step of `Sessions` or, by
   `NoSessionStep`, none; `SessionsImplemented` is the refinement.
4. `SweepInv`: while `OnSystemExit` sweeps, a client whose handler reads is still to be
   visited. It holds because a handler that starts after `running` was cleared never
   reads, and gives `ExitSweepsAll`.

`WsServerProofs`, on the same pattern:

1. `TypeOK` (`TypeCorrect`).
2. `LifeInv`: the life of a connection, as in the TCP server.
3. `SweepInv`: from the start of `Range` on, a client that was not stored since is still
   to be visited or being visited. There is no `running` flag here, so what is
   stored later is set apart (`late`). With `LifeInv` it gives `ExitTellsAll`.
4. `SessionStep` and `SessionsImplemented`, the refinement of `Sessions`. `SendMessage` and
   `CloseContext` may both close a socket (`HangupStep`), which `Sessions` allows twice.

`WsConnectorProofs` follows `TcpConnectorProofs` where the programs agree:

1. `TypeOK` with `FlagInv` (`TypeCorrect`); they are inductive together, since a pause is a
   number (`PauseIsInt`) only after an attempt was counted.
2. `OwnInv`, as in TCP, holds for any number of diallers.
3. `StageInv`, under `OneConnect`. `Conn` is stored here without looking at what was
   there, so that it is this invariant alone, `Conn` is nil during a dial, that keeps a
   connection from being lost.
4. `BufInv`, under `OneConnect`: before the next snapshot of `Conn` the buffer holds bytes of
   what is in `Conn` only. `FramesOfOneConn` speaks of the reads and is not inductive: a
   sender may clear `Conn` while the reader is between two frames, and the buffer
   is emptied only after the next dial. It gives `FramesUnmixed`. With two
   diallers the property is false: the second replaces `Conn` under the reader.
5. `LinkInv`, `PhaseMap`, `LinkStep` and `LinkImplemented`, as in TCP.

`ClientServiceProofs`:

1. `TypeOK` with `CallInv` (`TypeCorrect`): who is in `RequestMessage` has made a call.
2. `WireInv`: a call is asked once, and its answer is asked for, on the wire, or decoded,
   and that once. `AppendElements` and `TailElements` say what the wire, a sequence,
   gains and loses.
3. `WaiterInv`: `responseHandlers` has a call under the id of its requester only, and a
   channel that was filled is there only until `rec` has deleted it. It contains
   `RecNeverBlocks`, which is not inductive alone, and gives `ReadLoopGoesOn` for ids that are
   shared in any way.
4. `AnswerInv`: as long as a request with an id of its own, or its answer, is under way
   its requester waits with this very call, the latest, in the map. What is hard in it is
   the handler that a failed `Send` leaves: its call was never asked, so no answer
   finds it. It gives `AnswersMatch`.
5. `BufferInv`, which `UserInv` states for users that do not close: the payload of a message
   stays in it until the reader has put it into the pool, a buffer is in the pool
   at most once, and no two messages hold it. It gives `BuffersNeverShared`.

`EtcdRegistryProofs`:

1. `TypeOK` (`TypeCorrect`).
2. `LeaseInv`: a key is attached to the lease of the start that has put it. Without it
   the expiry of an old lease could take the key of a new start: `Registered` alone is not
   inductive. It gives `RegisteredWhileLeased`.
3. `CacheInv`: from `Get` on, and until its watch ends, what a node has read and the events
   under way to it make what etcd holds, but for the keys of its gap; and nothing is
   under way before the watch. `EventSent` and `EventHandled` say what an event does to
   `LastHeard`, which speaks of the last event of a key and so needs no induction over the
   queue. It gives `NodesInfoTracksEtcd`.

`ScheduleProofs`:

1. `TypeOK` with `MapInv` (`TypeCorrect`): what is about to be deleted is in the map.
2. `RunInv`: `StartTime` is what `AddJob` was given until the first execution is decided.
   With the clock, which does not go back, it gives `NeverEarly`, with no assumption on when
   executions begin.
3. `PromptInv`, while `prompt`: a task has one execution at most that has not begun, the
   latest, and is not visited until it has; then `StartTime` is the second of the latest
   execution. It gives `SpacedRuns`. `Spaced` itself speaks of `runs` only and says nothing of
   `StartTime`, by which the next execution is decided.
4. `SteadyInv`, while `steady`: the walk of each second comes to every one-shot task
   that is due in it, and one that was executed is being deleted. It gives
   `OneShotOnTime`.

`FrameStreamProofs` is about data of any length, and what recursive functions make of it.
The induction theorems of the library take an operator as parameter, which none of the
provers can instantiate; `Induction` states the same for a set of numbers and follows
from `WFMin`, that a well-founded order has minimal elements. `Recursion`
gives the functions that `Shifted`, `Total` and `Encode` define, `SameRecurrence` says that
what begins alike and goes on alike is the same. On these rest:

1. `HeaderRead` and `HeaderWritten`: a length read from its cells is written with these
   cells, and a length that its cells can count is read as it was written. Longer ones
   are not: `SendingAssumption` is what `CountedIsWhole` needs.
2. `EncodeConcat`: the frames of a row of bodies behind another one are those of both.
   `FrameRead`: a buffer with a whole frame at its head begins with the frame of the
   body found in it.
3. `SplitDef`: `Split` takes a buffer apart into frames and a rest without a whole frame, or
   one with a bad length, and put together again they are the buffer. That `Split`
   is defined at all, though it goes on by as much as the length says, is `SplitSteps`.
4. `EncodeFront`: frames can be read in one way only; if a stream of frames begins with
   the frames of some bodies, these are the first that were sent.
5. `TypeInv` with `InStep`, which are inductive together: `Total` of what is held does not
   change as cells come in behind it (`TotalAhead`), so that `DeFrame` cannot run past
   the end of a frame. It gives `ReceiversInStep`.
6. `ClosedFor`: a connection whose peer sends frames is closed for one of the named
   reasons. It needs `InStep`, by which a length is read where a frame begins
   (`NextFrame`); one that is too small is that of a body without a header (`BadLength`). `InStep`, `ClosedFor` and `EncodeFront` give `ReceiversFaithful`.

The last theorems use the refinements. `LinkClosed` and `SessionEnd` are about `Link` and
`Sessions` alone; `CloseIsFinal` of both connectors and `OnCloseOnce` of the WebSocket server
carry them over: after `Close`, once there is no socket and no dial under way, no
pause that ends and no reader brings the connector back (under `OneConnect`), and
`OnClose` is called once at most, with the socket closed. The TCP server has its own
proof of the latter.

Only model-checked: the liveness properties, out of this prover's reach. Every safety
property of the passing runs is proved. The properties of the runs of section 5 are false.

## 7. What is not modelled

- The session maps of the servers' contexts: single map operations under
  `sessionMu`, without a protocol. A second `Start`, and a `Listen` that fails.
- The size classes and the counters of the buffer pool: what matters of it, that a
  buffer has one owner, is in `ClientService`; the rest is arithmetic without state
  and counters that nothing reads but a report.
- The registration of handlers with the router, before the server starts.
- Other exit handlers, and the order in which `WaitElegantExit` calls them: the
  application chooses it. A second signal finds the same goroutine at work.
- The jitter of the pauses, keep-alive and no-delay options of sockets, TLS of the
  HTTP server.
- The wrappers of databases, HTTP, configuration and logging, and the utilities:
  calls of external libraries, and formatting. They hold no state of their own
  that a model would say something about.
- What the Go runtime does with concurrent accesses to the maps of `Schedule`,
  `ClientService` and `NodesInfo`, which the code does not lock. They are atomic in the
  models; ending the process, at worst, is outside of them and listed as a hazard.
