# nti_proxy: a verification project

`nti_proxy` relays HTTP(S) between web clients and devices behind NATs. A
client's request names a device; the proxy cannot reach the device, so it asks a
STUN server to make the device call back, and pairs the device's connection with
the client's. This directory holds TLA+ models of that program, the
configurations TLC checks, and theorems TLAPS proves. Source paths are relative
to the repository (`core/connection.cpp` is `src/core/connection.cpp` in
`PROJECT.json`, whose `map` names the lines each definition stands for).

## The system

One process, one main thread, one worker thread per processor, a libevent loop
in each. The main thread accepts, reports load and owns the connector; every
connection belongs to one worker. Threads share the connection tables (behind
mutexes) and otherwise talk through pipes. A separate process writes logs.

    clients, devices --accept--> acceptor --pipe--> worker <--pipe--> worker
                                                      |  (hand-over)
                                                      | pipe
                                                      v
                             STUN server <--TCP-- connector

### Inventory

| Component | State | Operations | Talks to | Hard behaviour | Correct when |
|---|---|---|---|---|---|
| connection pairing (`core/connection.*`) | `type_`, `other_`, `host_`, `dev_id_`, `flag_`, timer, queues; `client_conn_table`, `server_conn_table` | attach, detach, handle_uri, match_client, match, request_new_server, send_error, close, handle_read/write/timeout | worker pipes, connector, tables | two workers touch one pair; timers race late answers; names go stale; every path that ends one end must settle the other | pairs are mutual and in one worker; waiting ends; nothing deserted stays |
| worker (`core/worker.*`, `base/circle_buffer.h`) | pipe, message automaton, ring of buckets | handle_notify, state_machine, handle_timeout, stop | acceptor, other workers | blocking writes to full pipes; the wheel deletes pairs while it walks a set | messages arrive once and in order; idle connections end |
| connector (`core/connector.*`) | pipe, `state_`, `out_queue_`, timer | async_send (workers), handle_notify, handle_read/write, handle_connect_timeout, reopen, close | workers, STUN server | edge-triggered events, reconnects with a half-sent head, timeout | a FIFO that may lose but not reorder, repeat or stall |
| acceptor (`core/acceptor.*`) | listening socket, `is_accept_` | handle_accept, dispatch | workers | edge-triggered backlog and early exits | every arrival is dispatched or refused |
| server (`core/server.*`, `main`, signals) | workers, acceptors, connector, codgram | open with roll-back, run, stop, signals | all | shutdown while workers run; partial start | everything opened is closed, nothing used after |
| HTTP stream (`core/http.*`) | header/body/chunk/trailer state, current buffer | read_request, read_response, send_error | connection | goes on after handlers that gave the connection away | what is parsed is what was sent |
| buffers, flow control (`core/buffer.*`) | queue, byte count, watermarks | push, pop, is_high, is_low | both ends of a pair | read switched off and on under edge triggering | no end stays switched off for ever |
| TLS (`core/ssl*`) | handshake, swapped handlers, shutdown | recv, send, shutdown | connection | deferred close; renegotiation | no use after close |
| load report (`core/codgram`, `core/flow_grab`) | last flow, limits | handle_timeout | acceptors | first report, counter wrap | accepting follows the limit |
| configuration (`core/config`, `base/ini_file`) | values | load, reload | everyone | reload under readers; partial failure | a value is always valid |
| logs (`log/*`, `ipc/*`, `logsrv/*`) | FIFOs, framing automaton, reactor heap | async_read_msg, add/del event, readn/writen | client threads | handlers change what the reactor iterates; partial reads | a message is written whole, once |
| memory (`mem/*`) | free lists, heap list | allocate, deallocate, refill | all | reuse of remainders, thread pools | no block is handed out twice |
| `base`, `net`, `loki` | value types, vendored templates | | | | |

`PROJECT.json` lists the hazards of each at its line, with the property that
covers it or the reason why none does.

### The modules

| Module | Component | Checked by |
|---|---|---|
| `ConnMatch` (`MCConnMatch`, `ConnMatchProofs`) | connection pairing; what workers, acceptor and connector do to it | `match_*` |
| `ConnMatchLive` | the same with clients that ask no more, and fairness | `match_live` |
| `Rendezvous` | what a client and a device may rely on; `ConnMatch` implements it | `match_safety` |
| `Connector`, `LossyFifo` (`ConnectorProofs`) | connector, and the queue it implements | `connector*` |
| `Relay` (`RelayProofs`) | both ends of a pair: read loops, queues, watermarks, edges | `relay` |
| `LogServer` (`LogServerProofs`) | log client, FIFOs, log server with its reactor, log file | `log_server*` |
| `WorkerPipe` (`WorkerProofs`) | pipes between all threads: framing, blocking, exit | `parts` |
| `Wheel` (`WorkerProofs`) | timing wheel of a worker | `parts` |
| `TlsConn` (`StreamProofs`) | TLS connection over edge-triggered events | `parts` |
| `Server` (`PartsProofs`) | start with roll-back, loop, reload, stop; acceptor, load report | `parts` |
| `HttpParser` (`StreamProofs`) | end of a header, bodies, trailers | `parts` |
| `RequestUri` (`StreamProofs`) | role and name in a URI, decoded in place | `parts` |
| `LoadReport` (`PartsProofs`) | the limit on the outgoing rate | `parts` |
| `BasicPool` (`WorkerProofs`) | memory pools of a build with `_USE_MEM_POOL` | `parts` |
| `MCParts` (`PartsProofs`) | the eight modules above that share no variable, side by side | `parts` |
| `Induction` | lemmas about loops, for the proofs | |

Between modules: `ConnMatch` has what a message of a pipe does, `WorkerPipe` how
it gets there; `Connector` has what becomes of a request, `WorkerPipe` the
threads that block on its pipe; `ConnMatch` decides who is paired with whom,
`Relay` what flows between the two, `Wheel` when an idle one is dropped,
`RequestUri` and `HttpParser` when a request is there and whom it names. `Server`
says when all of these exist. `MCParts` puts the eight modules that share no
variable side by side: a behaviour is one of one part. It extends them, so that TLC
evaluates the assumptions on their constants; this is why their variables and the
operators two of them would share have different names (`WheelInit`, `PipeNext`,
`ReportLoad`, ...). None of their definitions is replaced.

## What is modelled

### ConnMatch: pairing

`conn` is one record per socket with the fields of `connection` that decide
anything (`closing`, `rd`, `tmo` are bits of `flag_`; `armed` is the pending
`ev_timer_`, a separate thing because the code lets the two disagree); `pipe`
is the content of each worker's pipe; `doing` says what a worker is in the
middle of; `connectorUp` whether the connector's pipe is open; `fault` is the
first assertion that failed or the first use of something deleted, after which
the process is gone.

A connection is free, dispatched (in an ADD_SOCK message), built (constructed
and in `client_conn_table`, not attached), live, or moving (in a MATCH_SOCK
message). A socket is its own name, so it can be reused and a ConnectID can be
stale.

| Action | Code |
|---|---|
| `Dispatch` | `acceptor::handle_accept`, `notify_add_conn` |
| `TakeAdd`, `FinishAdd` | `state_machine`/add_conn: constructor, then `attach` (two steps: other threads can see the connection in between) |
| `TakeMatch` | `state_machine`/match_conn: `attach`, `match` |
| `ClientRequest`, `DeviceResponse` | the two halves of `handle_uri`, with `match_server`, `request_new_server`, `match_client`, `match`, `detach`, `notify_match_conn` |
| `Resume` | the rest of `read_request` after it handed its connection over |
| `BadRequest`, `SpecialRequest` | http_exception; `crossdomain.xml` and `/` |
| `ReadFail`, `RelayFail`, `WriteReady` | `handle_read`, `handle_write` and what `close()` does with their io_exceptions |
| `Timeout`, `IdleTimeout` | `handle_timeout`; `conn_bucket::clear` |
| `StopConnector` | `server::run` after its loop |

Pieces that several handlers share (`Kill`, `CloseRead`, `CloseWrite`,
`SendError`, `RequestNewServer`, `Refused`, `Paired`, `Detach`, `Attached`) are
operators from a table of connections to the table, or set of tables, they may
leave. A send may always succeed, stop at EAGAIN or fail.

`ConnMatchLive` adds `silent`, the waiting clients that ask nothing more while they
wait: `request_new_server` starts the timer anew at every further request of a waiting
client, so that its timer need not expire as long as it keeps asking.

Left out: server reuse (`match_server` and `close` are only ever called with
`reuse_server` false, so those branches are dead), flow control, TLS, failures of
memory and epoll, a second request of a device on its connection. Pipes are
unbounded. Assertions count as failures; a release build (`-DNDEBUG`) goes on
into the undefined behaviour they guard against.

`Rendezvous` is what remains of this for whoever looks from outside: an end is
out, a client, asking for a device, an idle server of a device, or busy with one
client. `Come`, `Ask`, `Offer`, `Meet`, `Miss` and `Leave` are its steps. There are no
workers, pipes, timers or tables, and a handler of `ConnMatch`, with everything it does
on its way, is one of these steps or none. `ConnMatch` implements it with `end`
given by `EndOf` of each record; asking is having the timer.

### Connector and LossyFifo: asking for a device

`sock` is the connection with its queue: `part` says whether the first buffer is
partly sent, and whether on this connection or an earlier one; `due` whether
EV_WRITE is going to be reported; `got` what the server received as a whole.
`pipe`, `edge`, `notifying` are the workers' pipe, its pending EV_READ, and the
main thread being inside the loop of `handle_notify`, which is one step per
request because workers write meanwhile. Each handler is one action. `away` is the main
thread in `acceptor::dispatch`, writing to a worker's pipe (`GoesAway`, `ComesBack`): it
may stay there.

`LossyFifo` is what a worker may rely on: requests leave in the order given,
each at most once, any may be lost. `Connector` implements it with
`queue <- sock.out \o pipe` and `delivered <- sock.got`.

`send()` has no caller and is left out. There is no clock: a timeout may come
whenever it is armed. If `open_sock` fails outright the queue waits for the next
call of `async_send`; `NothingStranded` says nothing of that state.

### Relay: what flows between two ends

A worker runs one handler at a time, but the kernel and the peers act between any
two `recv`s, so a step is one turn of a read loop. `end` is a record per end with
the bits of `flag_` that matter, the size of `out_queue_` in buffers, what the
kernel holds (`in`, `room`, `full`, `line`) and the events libevent holds (`rev`,
`wev`). Whatever the parser makes of the data is left to the peer that sent it. `Match`
is a match within a worker: the read loop of the device goes on after it, unless the
client's queue has reached its high watermark.

| Action | Code |
|---|---|
| `ReadPart`, `ReadBad`, `ReadHeader`, `ReadSpecial`, `ReadBody`, `ReadTrailer` | one turn of `http_stream::read_request`, by what the data completes, with `data_finish` |
| `ReadResponse` | a turn of `read_message_no_parse` |
| `ReadNothing`, `ReadEnds` | EAGAIN, end or error of `recv` in either loop |
| `HandleRead`, `HandleWrite`, `RespondTimeout`, `IdleTimeout` | the handlers of `connection` |
| `Match`, `Accept` | how a pair comes to be (details: `ConnMatch`) |
| `PeerSends`, `PeerTakes`, `PeerCloses` | peers and kernel; one edge may report both directions |

`Written`, `Throws`, `Sent` and `CloseRead` are `async_send_impl`, `async_send`
and `close(SELF_RD_ERROR)` as operators from ends to ends.

### LogServer: the log

`tls` says where in `log_send` a thread is, `fifo` what its FIFO holds in heads and
bodies, `client` the server's reader of it, `heap`, `rset` and `pass` the reactor:
the heap keeps the memory behind its end, since `run()` walks up to the size it
read before its handlers changed it. The loops of the heap (`SiftUp`, `SiftDown`,
`MakeHeap`) and of the handlers (`NewClients`, `Recordeds`, `Bodies`) are functions of
the number of turns; an event on its way through `n` others is where it belongs after
`n \div 2` turns at the latest, and stays there.

| Action | Code |
|---|---|
| `Ask`, `OpenFifo` | `tls_fifo_create`: make the FIFO, send its name, open it (blocks) |
| `Write`, `WriteRest` | `tls_fifo_writevn`; a write may stop after the head while the FIFO is full |
| `Exit`, `Kill` | end of a thread; kill of the process in the middle of anything |
| `Select`, `HandleNothing`, `HandleDeleted` | `select_reactor::run` |
| `HandleAcceptor`, `HandleClient`, `HandleSignal` | `fifo_acceptor` with the record it writes of an exception, `fifo_client` with `log_write`, the signal pipe |
| `Crash`, `Start` | end and restart of the server |

### WorkerPipe: the pipes between threads

Every pipe of a worker, the pipe of the connector, and what each thread is blocked
in. A message is at most PIPE_BUF and is written whole; it is read as a type and a
body. `Dispatch`, `HandOver` and `Ask` write (main thread, worker to worker, worker
to connector); `WriteEnds`, `AskEnds` are the kernel waking a writer; `Notify` and
`ReadPipe` are `handle_notify` with `state_machine`; `BreakLoop`, `StopConnector`,
`StopWorker`, `Join` are `server::run` after its loop. A worker's exit leaves
`pipe_tran_` at `pipe_size_`, so the next read asks for no bytes: that, and not the
loop's condition, is why nothing after the exit is taken (`NothingAfterExit`).

### Wheel: idle connections

The ring as slots with `front` and `back`, `cb_tail_` per connection, and how long
each has really been idle, for the properties. `Update` is `connection::update`,
`Tick` `handle_timeout` with the whole of `conn_bucket::clear`, over every order in
which the set may iterate: `Walk(order)` is the course of its loop, as a function of
the number of turns.

### TlsConn

The two handlers and the two that were exchanged, what OpenSSL asked for last in
each of handshake, recv and send, and the edges. OpenSSL may ask for either
direction at any call. `Shutdown` is the deferred close. `nested` is the endless
mutual call that starts when both handlers are exchanged at once (`BothExchanged`).

### Server

What each part holds as `<<part, resource>>`. Each `Start*` may fail after any of
its steps and then gives back what its fail path does; `Undo` is the roll-back of
`server::init`, `StopAll` the end of `run`. `Reconfigure` (SIGHUP) comes between
any two steps. `ReportLoad` and `HandleAccept` are codgram and acceptor.

### HttpParser and RequestUri

`HttpParser` runs the automaton of `http_parser` beside the CR LF CR LF detection
of `read_header`, a class of byte per step, headers of any length. After the header
`ReadContent`, `ReadChunk`, `ReadTrailer` follow `get_body_info`.

`RequestUri` takes a URI as a sequence of tokens and a name byte by byte through
`http_decode_uri`, including the bytes behind the name, which it reads.

### LoadReport

The byte counter of `flow_grab` with a width, what codgram remembers of it, and what
a reload changes: the limit and the interval, but not the timer. `period` is what
really went out since the last report.

### BasicPool

`pool` is each thread's free lists, the uncut part of its chunk and its list of
chunks. `chunk_alloc` calls itself, directly and by way of `add_heap`, which allocates the
record of a new chunk. An action is one call of it (`Carve`, `Malloc`, `MallocFails`), and
`stack` has the refills that wait for it; `New`, `Delete` and `Exit` are the program's
calls. malloc may fail at any call.

## What is checked

Operators introduced as *slips* are plausible errors in the definition after
them; `PROJECT.json` pairs each property with one that breaks it.

| Run | Instance | Shows |
|---|---|---|
| `match_safety` | 3 connections, 2 workers, 1 device, symmetry; 111 324 states | type invariant; `PairingMutual`, `InOnePipe`, `WaitingClientTimed`, `LoneServerCloses`, `ServesOneClient`, refinement of `Rendezvous` |
| `match_live` | 2 connections, 2 workers, fairness; 15 598 states | `HandOverArrives`, `WaitingEnds` |
| `match_host_assert` | 2 connections, 2 workers | violated: `assert(host && host_)` in `match_client` |
| `match_paired_timer` | same | violated: `assert(NULL==conn->other_)` in `handle_timeout` |
| `match_own_thread` | same | violated: "conn and this must be in the same thread" |
| `match_one_device` | 2 devices | violated: a device is given only requests that name it |
| `connector` | 3 requests, pipe of 2, fairness; 4 473 states | `TimerWhileConnecting`, `NothingStranded`, refinement of `LossyFifo`, `PipeDrains` |
| `connector_whole` | same | violated: `dtran_` counts what was written to this connection |
| `relay` | watermarks 1 and 3, three kept buffers, one pair; 2 718 223 states | `EdgesAreKept`, `DeafForAReason`, `DeviceQueueBounded` |
| `log_server` | 2 threads, 2 messages, FIFO of 3, 2 lives, fairness; 161 995 states | `WatchesAll`, `KeptIsNotLost`, `InOrder`, `InFrame`, `CallsReturn`, `ClientsEnd` |
| `log_server_deleted` | 3 threads, 1 message, FIFO of 2 | violated: `assert(fio_)` in `async_read_msg` |
| `parts` | below; 208 346 states | wheel: `IdleEnds`, `DroppedWasIdle`, `ClearKeepsItsPlace`; TLS: `RetriedWhereWanted`, `EdgesSurviveSwaps`; pools: `NoOverlap`; server: `CleanEnd`, `BacklogWatched`; parser: `HeaderIsDecided`; pipes: `InFrame`, `NothingAfterExit`, `WaitEnds`; URI: `IdIsDecoded`; limit: `AcceptFollowsRate` |

Each passing run checks its module's type invariant as well.

Bounds. Pairing is about two ends and a third that interferes, and about the
owner of the client and the owner of the server: three connections and two
workers are the least where a stale name, a rival server and a hand-over meet.
(Two devices with three connections, 2.1 million states, were checked as well;
the theorems below cover every size.) Symmetry is used for invariants and action
properties only. Three requests and a pipe of two give a full pipe, a head, a
middle and a tail, and a partly sent request with others behind it. Nothing
else is bounded in these two: an unlimited number of sockets come and go, and a
connector's requests are each given once because they are distinct objects.

* `Relay`: `Low = 1`, `High = 3` leave a queue that is low, between and high;
  `Room = 2` lets a send take part of a queue; one inbound unit is enough because
  a unit that comes after a `recv` is a new edge. Two guards bound what has no bound in
  the code: `MayReply` (answers to a client that does not read) and `inq < Kept`
  (buffers of a client that waits). With `Kept = 3` a match gives a device up to four
  buffers, which is more than its high watermark.
* `LogServer`: two threads and a FIFO of three put a whole frame and a half one in
  a FIFO; `RbSize = 1` rolls the file at the third record; two lives give a restart.
  No client is deleted here because it got a descriptor that the same pass has closed
  (`TakenForOld`): for this the walk must come to the new client in a place behind the
  acceptor, and the heap be as large as that of six threads, beyond this instance.
  The violation needs three clients, as the reactor's heap keeps one event behind
  its end for each deletion.
* Wheel: three connections (a pair, and one that takes over as the device or the
  client) in a ring of three (front, middle, back). The walk of a bucket is taken
  in every order.
* TLS: one connection, nothing bounded.
* Pools: two threads, sizes up to three units, refills of two, two calls of malloc
  and three blocks: a remainder, a larger node cut up and a chunk's own heap node
  all occur. In the code a refill asks for sixteen nodes, and sizes go up to 1024
  units.
* Server: two workers (all, one or none start), a backlog of two.
* Pipes: two workers and the main thread, pipes of three units (a message and a
  type that does not fit), a connector's pipe of one request, five sends.
* Parser: every class of byte at every state; length is not bounded. URI: names of
  up to five tokens with a limit of four: too long, an escape of an escape, and an
  unfinished escape at the end. Limit: a counter of eight values wraps, rates of 0 to
  3 meet limits of 0, 1 and 2, and two intervals differ.

`CHECK_DEADLOCK FALSE` is said where the modelled system may rightly come to rest:
a pair without peers, a log whose threads have ended, a stopped server, a pool or
a pipe whose bound is used up, a decoded URI.

Fairness. `ConnMatchLive`: a worker ends the handler it is in (weak), and comes back
to its pipe however many other events there are (strong, since the pipe is disabled
while a handler runs; libevent serves every ready event of a round). The timer of a
client expires (strong) if the client is silent, and only then: nothing starts it anew.
No client is assumed to fall silent, and nothing is assumed of devices or the kernel.
`Connector`: a main thread that is not away reaches the pipe's event (strong) and goes
on in its read loop (weak, nothing in it blocks). It is not assumed to come back when it
is away, because the worker it writes to may be waiting for the connector's own pipe.
Nothing is assumed of the STUN server;
`HandleRead` has no fairness because one byte is read per edge, so the close of
the peer may go unnoticed. The connector may stop for good after `close()`;
`ConnMatch` has an explicit `Halted` step for a process that is gone.
`LogServer`: the server does what is due, weakly (select() returns while anything
is ready, and a pass calls every handler that is), and a thread in a call goes on
(weak); calls, exits, signals and crashes need not come. `WorkerPipe`: one weak
condition on everything that needs nobody outside (a thread that is not blocked
comes to its pipe, reads it to the end, and a writer is woken); there is an end to
what can proceed because sends are bounded, so none is passed over for ever.
`Relay` has no fairness: that reading is taken up again is said as safety, by an
edge that is held or a peer that will make one.

### What the violations say

* A connection is public before it is attached: a device naming a reused socket
  can find it with a NULL host.
* The role of a connection may change from waiting client to server; its own timer
  is then left armed when it is paired.
* The worker that hands a connection over is still inside its read loop when the
  new owner may already run it (`MATCH_SOCK` should be the last thing it does).
* One in queue serves requests for two devices.
* A connection lost in the middle of a message is noticed by the read or the write
  side, and only the write side drops the message.
* The log server's `run()` walks its heap up to the size before the pass. Two of
  three clients that end in one pass leave their last event in the memory behind the
  shrunken heap, and the walk hands it to a client that was deleted. The proxy closes
  the FIFOs of all its threads at once when it ends.

`WaitingEnds` speaks of clients that ask no more: one that asks again before each
`timeout_respond` is over waits for ever. It also counts as ended a wait whose match failed
while sending: the timer and the requests are gone by then, and only the timing wheel
ends that client. Exceptions of the same kind are part of the other properties, and say
where the code promises less than one would wish: `IdleEnds` spares a client that
was left to its device; `CleanEnd` a packet capture whose limits a reload has
lifted; `BacklogWatched` an accept loop that gave up on a failure; `WaitEnds` a ring
of threads blocked on each other's full pipes, which is reachable; `PipeDrains` a main
thread that is in such a ring; `DeviceQueueBounded` what a client had queued before the
match, which is given to the device whole; `CallsReturn` a
thread in `open()` of a FIFO nobody will open any more, or whose new client is taken for
one that has ended (`TakenForOld`); `RetriedWhereWanted` a read that waits to write
together with a write that waits to read; `KeptIsNotLost` what the server had when it went;
`DeafForAReason` an end that
lost its other end while reading was off; `IdIsDecoded` an unfinished escape at the
end of a client's name; `AcceptFollowsRate` the first report, a reloaded interval and
a limit whose capture never started; `HeaderIsDecided` an unknown first word.

### Seen while modelling

Not claimed as findings, as no line of the repository says otherwise, or because
the case is outside the models:

* `read_trailer` parses from `off_`, still the length of the header: for a shorter
  trailer it sees nothing and reaches its `assert(false)` (`TrailerAssert` in
  `Relay`); `read_header` reaches its own when the parser is still at the first word.
* `writen` returns after its first write (missing braces, `ipc/io_ext.cpp`).
* A client spared by the wheel is in no bucket any more and may stay when its device
  goes without an event for it.
* The 30 seconds on a TLS shutdown never act: `connection::handle_read` drops an event
  that is EV_TIMEOUT alone. A TLS connection that waits for the peer's end stays in
  its bucket and keeps its pointer to the other end, which is deleted meanwhile.
* `basic_pool`: a refill inside `add_heap` fills a list that the outer refill then
  overwrites (the nodes are lost); refill links nodes after a failed malloc; the end
  of a thread releases chunks whose blocks others may hold.
* With `p2p_enable = 0`, `server::run` closes the descriptors of a connector that was
  never opened. A SIGTERM before the loop runs is forgotten.
* A worker deleted by `stop_workers` leaves its connections in the table; a later one
  may hand over to it ("worker deleted" in `WorkerPipe`). Messages behind an exit are
  lost with the pipe.

## What is proved

`ConnMatchProofs` proves, for every set of sockets, workers and devices:

| Theorem | Property |
|---|---|
| `TypeCorrect` | `TypeOK` |
| `PairingIsMutual` | `PairingMutual` |
| `PipesOwnTheirConnections` | `InOnePipe` |
| `WaitingIsTimed` | `WaitingClientTimed` |
| `LoneServersClose` | `LoneServerCloses` |
| `ServersServeOneClient` | `ServesOneClient` |
| `PairingIsARendezvous` | `ImplementsRendezvous` |
| `ClientsArePairedWhileWaiting` | `PairedWhileWaiting` (no run checks it: the step `Meet` says it, too) |

The only assumption is `NoneAssumption`: the three null values are not members.

The properties are not inductive by themselves. `IInv` adds to the type what a
handler relies on between its steps:

* `Good(conn)`: pairs are mutual; a connection that is not live is as its
  constructor or `detach` left it; a waiting client's timer is running, or it is
  closing and does not read any more (the second half is why `SpecialRequest`,
  which clears MASK_BIT_CLOSE, cannot revive it);
* `Lone(conn, {})`: a live server without a client is closing. The second argument
  lists servers excused in the middle of a handler (a server that has become one
  and has not been matched or refused yet);
* `InPipes`: the pipes own what they carry;
* `Building`: a worker in the middle of `attach` holds a built connection, and no
  other worker holds the same.

They need each other: `TakeMatch` attaches what it finds in the pipe, and only
`InPipes` says that this connection is detached and unpaired and that nobody else
will attach it; that no handler touches it meanwhile follows from `Good`.

Lemmas state, for each piece of a handler, that it takes a good table to good
tables and what it leaves alone; each action then follows from its pieces, and
`NextAfter` collects them together with the two action properties. Run before
the proof, the parts of `IInv` are invariants of the instances above.

For the refinement, `View(conn)` is the table as `Rendezvous` sees it, and
`Becomes(v, w)` that one of its steps, or none, makes `w` of `v`. A lemma for each piece
of a handler says what it does to the view: a send that fails is the end of one socket or
of both (`CloseWriteView`, `CloseReadView`), `Refused` does not show, `Paired` is `Meet`
or `Miss` (`PairedView`). What makes a whole handler one step is the invariant. A server
that has just declared itself is not yet anything to others, so declaring and being
matched are one `Meet`; one that has been in a pipe meanwhile is still idle because the
pipe owns it (`InPipes`); and the write handler of a deserted server may only close it
because `Lone` says it is closing.

`ConnectorProofs` proves, for every set of requests and every capacity of the pipe
(assumption `PipeCapAssumption`: a positive number):

| Theorem | Property |
|---|---|
| `TypeCorrect` | `TypeOK` |
| `ConnectsAreTimed` | `TimerWhileConnecting` |
| `NothingIsStranded` | `NothingStranded` |
| `ConnectorIsALossyFifo` | `ImplementsFifo` |

Its invariant says that the socket is `Settled` after every step: typed, its timer
on exactly while it connects, an EV_WRITE to come while it connects or while a
connection has something queued. The last point is stronger than
`NothingStranded`: what is pushed during a connect relies on the event that ends
the connect. For the refinement, `Leaves(a, b)` relates a socket before and after
`async_send`, a reconnect or a timeout: a prefix of the queue is gone, of which a
run has been delivered (the first may have been cut off by an earlier connection,
the last dropped by the error). `LeaveStep` turns that into a step of `LossyFifo`
with the rest of the pipe behind it.

### Relay

`RelayProofs` proves all its safety properties (`TypeOK`, `EdgesAreKept`,
`DeafForAReason`, `DeviceQueueBounded`), for any queue limits, socket sizes and number
of kept buffers with `Low < High` (`RelayAssumption`). The watermarks
are 16K and 64K (`core/buffer.h:53`). The code lets a client that waits for its device
send as much as it likes, and `match()` gives all of it to the device. `Kept` bounds that
in the model and may be any number, so `DeviceQueueBounded` says that a device's queue
is at most one buffer past `Most`: the high watermark, or what was kept and the answer
to the device when that is more. While a client is paired the high watermark alone stops it. The invariant has four parts: `Sound` (types, and what a live
end holds: an end with a queue has EV_WRITE, or a full socket, unless its send is in the
middle), `Limited` (the device's queue against `Most`, read off before it), `Reader`
(what holds of the end whose loop runs, and what it has still to make good when it
ends) and `Waiter` (a client that waits is live, unpaired and reads). A read loop
breaks the second half of `Sound` between its turns, which is why `SoundBut` excuses
one end.

### WorkerPipe

`WorkerProofs` proves `InFrame` and `NothingAfterExit`, for any workers, capacity
(at least the size of one message, `PipeAssumption`) and number of sends. `Framed(s, p)`
says that the units in a pipe, read in state `s`, are types and bodies in turn and that
an exit message is a type alone; `Stopped` that a worker whose `s_` is exit has
`pipe_tran_ = pipe_size_`, so that it reads nothing more.

### Server and LoadReport

`PartsProofs` proves `CleanEnd` and `BacklogWatched` for any set of workers, with every
place where start-up can fail and every order of signals. `Spans` says, for each part,
during which steps of `init`, `run` and the roll-back it may hold anything, and `Placed`
why it is there: the configuration when it was started, its place in `workers_`.
`CleanEnd` follows because only the capture's span reaches the end. `AcceptFollowsRate`
is proved for counters of any width: a difference modulo the width is the number of bytes
counted since the last report, however often the counter wrapped, when fewer bytes than
the width went out (`LoadAssumption`: width, unit and intervals are not 0).

### Wheel

`WorkerProofs` proves, too, `IdleEnds`, `DroppedWasIdle` and `ClearKeepsItsPlace`, for any
connections and a ring of any length. The invariant: a live connection is in exactly the
bucket of its `cb_tail_`, or spared (`Placed`), and has been idle for as long as that
bucket is old (`Age`), so what the last bucket holds has been idle for the whole ring;
pairs are mutual (`Paired`). The walk of `conn_bucket::clear` is a loop over the bucket
while it is being emptied: its invariant says which members are gone, that the next one
is not, and that a partner closed along with a connection was either in front of the
walk, or the next (and is stepped over), or is removed behind it.

### BasicPool

`WorkerProofs` proves `NoOverlap`, too, for any threads and sizes, any number of nodes to
a refill and any failures of malloc (`PoolAssumption`: `HeapNode` is one of the sizes,
`NodeNum` is not 0). The pieces of a pool are free nodes, records of chunks and the rest
that is still to cut. `Sound(p)` says that no address is in two pieces of one pool,
`OneOwner` that none is in two pools, or in a pool and a block of the program, and that
all were given out by malloc. Each operator is shown to keep `Sound` and to bring no
address into the pool but those it is given: what is left of a chunk is smaller than
the size that did not fit, so that there is a list for it (`NewChunkIs`), and the nodes of a
refill lie one behind the other in what was uncut (`CarveIs`). That the list a refill overwrites may have been filled by a nested one loses nodes,
but puts no address into two places.

### MCParts

`PartsProofs` proves that what is checked together is each of the parts: a behaviour of
`MCParts` is one of `WheelSpec`, `PipeSpec`, `TlsSpec`, ... (`PartsImplemented`). Hence
the type invariant of the run for all values of all constants (`PartsTypeCorrect`), and
all safety properties of the parts, proved of them alone, for the module that the run
checks (`PartsSafe`).

### LogServer

`LogServerProofs` proves all its safety properties (`TypeOK`, `WatchesAll`,
`KeptIsNotLost`, `InOrder`, `InFrame`) for any threads, FIFOs, calls and lives.
`LogAssumption`: threads are finitely many (their descriptors are), and none is one of the
three other owners of events and records.

* The heap: `Holds(m, n, E)` says that the first `n` places of the memory are the events
  `E`, each descriptor once. `push_heap` and the steps of `make_heap` only swap; a rising
  event stops under a larger one or at the top (`SiftUpIs`), a sinking one above its
  children (`SiftDownIs`), and `MakeHeapIs` goes from the last parent to the first; so the
  top is the largest (`InOrderIsTop`). `del_event` calls `make_heap` on what is no heap.
* A free descriptor is found because each client takes one and there are as many more as
  threads (`FreeFdIs`, by counting).
* `RecordedsAre` and `BodiesAre` say what a handler's loops write: a prefix of the new
  records, all of them if the file is still open; the bodies of the FIFO, in its order.
* `LogInv` joins these: the reactor watches what is open and a pass stays in the memory of
  the heap (`Reactor`); who has asked has no client, and without one a FIFO is empty
  (`Joined`); a FIFO ends with a head exactly when its writer is in the middle of a frame
  (`EndsHalf`); the numbers of a thread's messages rise from the log through the FIFO to
  its calls (`Behind`, `Counted`). `InOrder` needs the last two, `InFrame` needs `EndsHalf`
  (what is left open after a read), and `KeptIsNotLost` needs to know that what a read
  takes out of the FIFO it writes.

### TlsConn, HttpParser and RequestUri

`StreamProofs` proves what the three components of one connection promise.

* `TlsConn`: `RetriedWhereWanted` and `EdgesSurviveSwaps`. While a connection is on, its
  handlers are those of the handshake (`Shaking`) or of a connection that works
  (`Working`): with the exception of both at once, a call leads back to the handler that it
  has exchanged. A handler is exchanged exactly when the old one is kept in `old_handle_*_`,
  and a call that waits for the other direction has exchanged it. Each operator is shown
  to keep that and one of the two edges (`KeepsRead`, `KeepsWrite`), and to leave nothing
  behind in its own direction: `async_send` ends with nothing to send or a call that
  waits, `handle_read` with nothing to read, a call that waits, or reading off.
* `HttpParser`: `HeaderIsDecided`. `Seen` gives for each state of the automaton how much
  of CR LF CR LF the stream has counted; the rows of the automaton keep it (`Leads`),
  which is the same as saying that CR and LF lead nowhere but to the ends of lines. `check`,
  which takes any byte, is the one state that says nothing of the count, and so the one
  where the assertion can fail. The theorem is about headers of any length.
* `RequestUri`: `IdIsDecoded`, for names of any length (`UriAssumption`: the bounds are
  naturals). `Decoding` is the invariant of `http_decode_uri`: what stands before `i`,
  followed by what the bytes from `i` on mean, is what the name means, and these bytes are
  the last ones of the name, moved up by as much as has been taken out. What is behind
  the name (`Closed`) is ConnectID for a device, and after the first `memmove` the old
  end of the name, which cannot finish an escape either. That every name has a meaning
  (`MeaningFromIs`) is itself a loop, from the last byte to the first.

### Induction

The library states induction with an operator as a parameter, which no installed prover
can instantiate. `Induction` derives it for sets instead, from the library's theorem that
the finite subsets of a set are well-founded: a set of naturals has a least element
(`Least`), hence `UpTo`; and a function that a loop defines by recursion on its turns
exists and satisfies its equation (`Course`, `Loop`), and what each turn keeps holds after
all of them (`Stays`). This is how the loops of `Wheel` and `LogServer` are proved about.

### What the proofs changed

No property had to be weakened for its proof. `LogServer`'s loops, written with RECURSIVE operators
before, became functions of a number of turns, with the same reachable states; what a
name means (`MeaningFrom`) is now a definition of its own. `IdleEnds`
lost a conjunct that the rest implied. In `Relay`, `RequestUri` and `HttpParser` a CASE
had overlapping guards, where TLC takes the first and the logic any: they are IFs now. The
names that `LogAssumption` and `WheelAssumption` exclude (and `ServerAssumption`) were
silently assumed. `BasicPool`'s allocation was a set of outcomes computed by RECURSIVE
operators; with the stack of calls in the state, `NoOverlap` is checked between any two
calls as well. It lacked the records of chunks among the pieces, which the invariant
needed; the property has them now.

### Only model-checked

Liveness (`HandOverArrives`, `WaitingEnds`, `PipeDrains`, `CallsReturn`, `ClientsEnd`,
`WaitEnds`; out of the prover's reach) and the violations. Every other property of every
passing run is proved.
`TlsConn` and `HttpParser` have no constants, so that TLC's run of them is exhaustive as
well; their proofs show why the properties hold.

## Not modelled

* Server reuse: `match_server` and `close` are only called with `reuse_server`
  false. `send()` of the connector, `object_pool`, `any_new_policy`, the process pool
  and most URI coding functions have no caller.
* Status lines, the layout of answers, log formatting, `ini_file` and the command
  line are text. Of the configuration, `Server` has what decides which parts run.
* What a report says besides the rate, `/proc` and pcap. The outcome of a report is an
  input of `Server`, as `LoadReport` needs nothing else of it.
* Set-up of TLS contexts and of OpenSSL's locks, and OpenSSL itself: lists of library
  calls. `TlsConn` lets OpenSSL answer anything.
* `smart_pool`, wrappers of malloc and free; `daemon()`, affinity of threads.
* Failures of memory and of epoll outside `Server` and `BasicPool`; races of a
  reload with worker threads that read the same values (the log's levels and limits
  are plain integers).
* `base` value types, `net` address helpers, and the vendored `loki`.
* `log_file.c` is an older form of `log_file.cpp`.

The makefile builds with `_USE_MEM_POOL=0`, so `BasicPool` models the optional build.
Its release build defines NDEBUG: it goes on where the models report a fault.

## What is left

The hazards that have no property: an attach that throws before it has set `host_`, a
hand-over that fails after `detach` (both need failures of epoll and of writes to pipes in
`ConnMatch`), an exception before a connection exists, the connector's byte per edge, and
the timer that is armed before the connector is asked. `PROJECT.json` says of each why.
