----------------------------- MODULE ConnMatch -----------------------------
(***************************************************************************)
(* How nti_proxy pairs a client connection with the connection a device    *)
(* opens to answer it (core/connection.cpp, core/worker.cpp).              *)
(*                                                                         *)
(* The main thread hands every accepted socket to a worker through the     *)
(* worker's pipe.  A client's request names a device: the client waits,    *)
(* with a timer, while the connector asks the device to call back.  The    *)
(* device's connection names the waiting socket; it is paired on the spot  *)
(* when one worker owns both, and otherwise detached and handed to the     *)
(* owner of the client through that worker's pipe.                         *)
(*                                                                         *)
(* A handler runs to its end in one step, with two exceptions where other  *)
(* threads can see its middle: between the constructor of a connection and *)
(* attach(), and between the hand-over of a detached connection and the    *)
(* return of the read loop that handed it over.                            *)
(*                                                                         *)
(* A connection is named by its socket: a closed socket may be accepted    *)
(* again, so a ConnectID may be stale.  Out queues are abstract: a send    *)
(* may always empty the queue, stop at EAGAIN or fail.                     *)
(*                                                                         *)
(* A definition introduced as a slip is not part of the model: it is a     *)
(* plausible error in the definition that follows it, which a property     *)
(* below has to notice.                                                    *)
(***************************************************************************)
EXTENDS Naturals, Sequences

CONSTANTS Conns,       \* sockets, and the connection object built on each
          Workers,     \* worker threads
          Devs,        \* device ids
          NoConn,      \* a NULL connection*
          NoWorker,    \* a NULL worker*
          NoDev        \* the empty dev_id_

ASSUME NoneAssumption == /\ NoConn \notin Conns
                         /\ NoWorker \notin Workers
                         /\ NoDev \notin Devs

VARIABLES conn,        \* the connection object on each socket
          pipe,        \* the messages in each worker's pipe
          doing,       \* what each worker is in the middle of
          connectorUp, \* the connector's pipe is open
          fault        \* what went wrong for good, "none" while nothing did

vars == <<conn, pipe, doing, connectorUp, fault>>

Types  == {"CLIENT", "IDLE_SERVER", "BUSY_SERVER"}
Phases == {"free",        \* the socket is closed, no object
           "dispatched",  \* accepted, in an ADD_SOCK message
           "built",       \* constructed and in client_conn_table, no host yet
           "live",        \* attached to its host
           "moving"}      \* detached, in a MATCH_SOCK message
Faults == {"none", "HostAssert", "PairedTimer", "StrayTimer", "Dangling",
           "WrongThread"}

(***************************************************************************)
(* The fields of a connection: closing, rd and tmo are MASK_BIT_CLOSE,     *)
(* MASK_BIT_RD and MASK_BIT_TIMEOUT; armed says that ev_timer_ is pending  *)
(* in the event base; inq holds the devices named by the requests in       *)
(* in_queue_.                                                              *)
(***************************************************************************)
Connection == [phase : Phases, host : Workers \cup {NoWorker}, type : Types,
               other : Conns \cup {NoConn}, dev : Devs \cup {NoDev},
               inq : SUBSET Devs, closing : BOOLEAN, rd : BOOLEAN,
               tmo : BOOLEAN, armed : BOOLEAN]

FreeConn == [phase |-> "free", host |-> NoWorker, type |-> "CLIENT",
             other |-> NoConn, dev |-> NoDev, inq |-> {}, closing |-> FALSE,
             rd |-> FALSE, tmo |-> FALSE, armed |-> FALSE]

Message == [kind : {"add", "match"}, conn : Conns, dst : Conns \cup {NoConn}]

Activity == [op : {"loop", "attach", "resume", "resume_body"},
             conn : Conns \cup {NoConn}]
Loop == [op |-> "loop", conn |-> NoConn]

Init == /\ conn = [c \in Conns |-> FreeConn]
        /\ pipe = [w \in Workers |-> <<>>]
        /\ doing = [w \in Workers |-> Loop]
        /\ connectorUp = TRUE
        /\ fault = "none"

-----------------------------------------------------------------------------
(***************************************************************************)
(* Pieces of handlers: each maps a table of connections to the table, or   *)
(* the set of tables, the piece may leave behind.                          *)
(***************************************************************************)

\* client_conn_table: the connections a ConnectID can name.
InClientTable(cs, k) ==
  k \in Conns /\ cs[k].type = "CLIENT" /\ cs[k].phase \in {"built", "live"}

\* delete: the destructor removes the timer only under MASK_BIT_TIMEOUT.
Kill(cs, S) ==
  [x \in Conns |->
     IF x \in S THEN [FreeConn EXCEPT !.armed = cs[x].armed /\ ~cs[x].tmo]
                ELSE cs[x]]

Pair(cs, c) == {c} \cup ({cs[c].other} \ {NoConn})

\* close(SELF_WR_ERROR) and close(OTHER_WR_ERROR): both ends are deleted.
CloseWrite(cs, c) == Kill(cs, Pair(cs, c))

\* Slips of CloseRead: the pointer to the deleted end is kept; the other end
\* is not marked as closing.
CloseReadKeepsOther(cs, c) ==
  LET o == cs[c].other
      left == [cs EXCEPT ![o].closing = TRUE]
  IN  {CloseWrite(cs, c)} \cup (IF o = NoConn THEN {} ELSE {Kill(left, {c})})

CloseReadLeavesOpen(cs, c) ==
  LET o == cs[c].other
      left == [cs EXCEPT ![o].other = NoConn]
  IN  {CloseWrite(cs, c)} \cup (IF o = NoConn THEN {} ELSE {Kill(left, {c})})

\* close(SELF_RD_ERROR): the other end is deleted too (a request was broken
\* off, or all it had to send is gone), or it stays on its own to drain.
CloseRead(cs, c) ==
  LET o == cs[c].other
      left == [cs EXCEPT ![o] = [@ EXCEPT !.closing = TRUE, !.other = NoConn]]
  IN  {CloseWrite(cs, c)} \cup (IF o = NoConn THEN {} ELSE {Kill(left, {c})})

\* send_error: the answer goes out and the connection is closed, or it does
\* not fit in the socket and the connection stays, closing.
SendError(cs, c) ==
  {CloseWrite(cs, c),
   [cs EXCEPT ![c] = [@ EXCEPT !.closing = TRUE, !.rd = FALSE]]}

\* A slip of RequestNewServer: the timer is never armed.
RequestWithoutTimer(cs, c) ==
  IF connectorUp THEN {[cs EXCEPT ![c].tmo = TRUE]} ELSE SendError(cs, c)

\* request_new_server, with the answer to the exception when the connector
\* refuses: the timer is already armed then, MASK_BIT_TIMEOUT is not set.
RequestNewServer(cs, c) ==
  IF connectorUp
    THEN {[cs EXCEPT ![c] = [@ EXCEPT !.tmo = TRUE, !.armed = TRUE]]}
    ELSE SendError([cs EXCEPT ![c] = [@ EXCEPT !.tmo = FALSE, !.armed = TRUE]], c)

\* A slip of Refused: a client that does not wait is accepted.
RefusedUnlessFree(cs, s, k) == \/ ~InClientTable(cs, k)
                               \/ cs[k].host # cs[s].host
                               \/ cs[k].other # NoConn
                               \/ cs[k].dev # cs[s].dev

\* match(sock,true): what server s refuses about client k.
Refused(cs, s, k) == \/ ~InClientTable(cs, k)
                     \/ cs[k].host # cs[s].host
                     \/ cs[k].other # NoConn
                     \/ cs[k].dev # cs[s].dev
                     \/ ~cs[k].tmo

\* A slip of Paired: the timer is not stopped.
PairedWithTimer(cs, s, k) ==
  LET taken == [cs EXCEPT ![k].inq = {}]
  IN  {CloseWrite(taken, s),
       [taken EXCEPT ![s] = [@ EXCEPT !.type = "BUSY_SERVER", !.other = k],
                     ![k] = [@ EXCEPT !.other = s]]}

\* match(conn,true): the client's timer is stopped and its requests move to
\* the server's out queue; sending them succeeds or deletes the server.
Paired(cs, s, k) ==
  LET taken == [cs EXCEPT ![k] = [@ EXCEPT !.tmo = FALSE, !.armed = FALSE,
                                           !.inq = {}]]
  IN  {CloseWrite(taken, s),
       [taken EXCEPT ![s] = [@ EXCEPT !.type = "BUSY_SERVER", !.other = k],
                     ![k] = [@ EXCEPT !.other = s]]}

Match(cs, s, k) == IF Refused(cs, s, k) THEN SendError(cs, s)
                                        ELSE Paired(cs, s, k)

\* The read loop goes on after a match in the same worker: an answer of the
\* device that is already there is parsed as a request and refused.
EarlyAnswer(css, s) ==
  css \cup UNION {SendError(cs, s) : cs \in {t \in css : t[s].other # NoConn}}

\* detach: ev_read_, ev_write_ and, under MASK_BIT_TIMEOUT, ev_timer_.
Detach(cs, c) ==
  [cs EXCEPT ![c] = [@ EXCEPT !.phase = "moving", !.rd = FALSE, !.tmo = FALSE,
                              !.armed = cs[c].armed /\ ~cs[c].tmo]]

\* A slip of Attached: the wrong pointer becomes the host.
AttachedToItself(cs, c, w) ==
  [cs EXCEPT ![c] = [@ EXCEPT !.phase = "live", !.host = c, !.rd = TRUE]]

\* attach
Attached(cs, c, w) ==
  [cs EXCEPT ![c] = [@ EXCEPT !.phase = "live", !.host = w, !.rd = TRUE]]

-----------------------------------------------------------------------------
\* A worker that handed c over and has not left c's read loop yet.
Held(c) == \E w \in Workers : /\ doing[w].op \in {"resume", "resume_body"}
                              /\ doing[w].conn = c

\* Something still refers to a connection that is deleted on the way to cs:
\* a pending timer, or a worker inside its read loop.
Dangles(cs) == \E x \in Conns : /\ cs[x].phase = "free"
                                /\ \/ cs[x].armed
                                   \/ conn[x].phase # "free" /\ Held(x)

\* Undefined behaviour or a failed assertion ends the run.
Crash(why) == /\ fault' = why
              /\ UNCHANGED <<conn, pipe, doing, connectorUp>>

\* The handler ends in one of the tables css, or crashes on the way there.
Settle(css) ==
  \E cs \in css : IF Dangles(cs) THEN Crash("Dangling")
                  ELSE /\ conn' = cs
                       /\ UNCHANGED <<pipe, doing, connectorUp, fault>>

\* A slip of Runs: detach leaves the connection in its worker's event loop and
\* timing wheel.
RunsDetached(w, c) == fault = "none" /\ doing[w] = Loop /\ conn[c].host = w

\* Worker w may run a handler of connection c.
Runs(w, c) == /\ fault = "none"
              /\ doing[w] = Loop
              /\ conn[c].phase = "live"
              /\ conn[c].host = w

\* The same, for a handler that reads.
Reads(w, c) == Runs(w, c) /\ conn[c].rd
-----------------------------------------------------------------------------
(***************************************************************************)
(* The main thread.                                                        *)
(***************************************************************************)

\* acceptor::handle_accept, server::dispatch, worker::notify_add_conn
Dispatch(c, w) ==
  /\ fault = "none"
  /\ conn[c].phase = "free"
  /\ conn' = [conn EXCEPT ![c].phase = "dispatched"]
  /\ pipe' = [pipe EXCEPT ![w] =
                Append(@, [kind |-> "add", conn |-> c, dst |-> NoConn])]
  /\ UNCHANGED <<doing, connectorUp, fault>>

\* server::run closes the connector before it stops the workers.
StopConnector == /\ fault = "none"
                 /\ connectorUp
                 /\ connectorUp' = FALSE
                 /\ UNCHANGED <<conn, pipe, doing, fault>>

(***************************************************************************)
(* The pipe of a worker.                                                   *)
(***************************************************************************)

\* state_machine, add_conn: the constructor adds the connection to the table.
TakeAdd(w) ==
  /\ fault = "none" /\ doing[w] = Loop /\ pipe[w] # <<>>
  /\ Head(pipe[w]).kind = "add"
  /\ LET c == Head(pipe[w]).conn
     IN  /\ conn' = [conn EXCEPT ![c].phase = "built"]
         /\ doing' = [doing EXCEPT ![w] = [op |-> "attach", conn |-> c]]
  /\ pipe' = [pipe EXCEPT ![w] = Tail(@)]
  /\ UNCHANGED <<connectorUp, fault>>

\* ... and attach() then gives it a host.
FinishAdd(w) ==
  /\ fault = "none" /\ doing[w].op = "attach"
  /\ conn' = Attached(conn, doing[w].conn, w)
  /\ doing' = [doing EXCEPT ![w] = Loop]
  /\ UNCHANGED <<pipe, connectorUp, fault>>

\* A slip of TakeMatch: the message is put back until its client is there.
TakeMatchRetry(w) ==
  /\ fault = "none" /\ doing[w] = Loop /\ pipe[w] # <<>>
  /\ Head(pipe[w]).kind = "match"
  /\ LET s == Head(pipe[w]).conn
     IN  IF InClientTable(conn, Head(pipe[w]).dst)
           THEN /\ conn' \in Match(Attached(conn, s, w), s, Head(pipe[w]).dst)
                /\ pipe' = [pipe EXCEPT ![w] = Tail(@)]
           ELSE /\ pipe' = [pipe EXCEPT ![w] = Append(Tail(@), Head(@))]
                /\ UNCHANGED conn
  /\ UNCHANGED <<doing, connectorUp, fault>>

\* state_machine, match_conn: attach, then match with the named client.
TakeMatch(w) ==
  /\ fault = "none" /\ doing[w] = Loop /\ pipe[w] # <<>>
  /\ Head(pipe[w]).kind = "match"
  /\ LET s == Head(pipe[w]).conn
     IN  \E cs \in Match(Attached(conn, s, w), s, Head(pipe[w]).dst) :
           IF Dangles(cs) THEN Crash("Dangling")
           ELSE /\ conn' = cs
                /\ pipe' = [pipe EXCEPT ![w] = Tail(@)]
                /\ UNCHANGED <<doing, connectorUp, fault>>

(***************************************************************************)
(* Requests: handle_uri.                                                   *)
(***************************************************************************)

\* A request for the device the client is paired with is forwarded; one for
\* another device drops the pairing and asks for a new server.
ClientRequest(w, c, d) ==
  /\ Reads(w, c)
  /\ conn[c].type = "CLIENT"
  /\ IF conn[c].other # NoConn /\ conn[c].dev = d
       THEN Settle({conn, CloseWrite(conn, c)})
       ELSE LET queued == [conn EXCEPT ![c].inq = @ \cup {d}]
                alone  == Kill(queued, Pair(queued, c) \ {c})
            IN  Settle(RequestNewServer(
                  [alone EXCEPT ![c] = [@ EXCEPT !.other = NoConn, !.dev = d]],
                  c))

\* A device answers for socket k: the connection becomes a server and looks
\* its client up.  body: the POST has a body, which the loop reads next.
DeviceResponse(w, c, d, k, body) ==
  LET cs == [conn EXCEPT ![c] = [@ EXCEPT !.type = "IDLE_SERVER", !.dev = d]]
  IN  /\ Reads(w, c)
      /\ conn[c].type = "CLIENT"
      /\ IF conn[c].other # NoConn THEN Settle(SendError(conn, c))
         ELSE IF ~InClientTable(cs, k) THEN Settle(SendError(cs, c))
         ELSE IF cs[k].host = NoWorker THEN Crash("HostAssert")
         ELSE IF cs[k].host = w THEN Settle(EarlyAnswer(Match(cs, c, k), c))
         ELSE /\ conn' = Detach(cs, c)
              /\ pipe' = [pipe EXCEPT ![cs[k].host] =
                            Append(@, [kind |-> "match", conn |-> c, dst |-> k])]
              /\ doing' = [doing EXCEPT ![w] =
                             [op |-> IF body THEN "resume_body" ELSE "resume",
                              conn |-> c]]
              /\ UNCHANGED <<connectorUp, fault>>

\* The rest of read_request after the hand-over.  Still detached, the loop
\* ends, unless there is a body to read: a read error then deletes what the
\* pipe refers to.  Attached elsewhere, the loop reads on in this thread.
Resume(w) ==
  LET c == doing[w].conn
  IN  /\ fault = "none"
      /\ doing[w].op \in {"resume", "resume_body"}
      /\ \/ /\ doing' = [doing EXCEPT ![w] = Loop]
            /\ UNCHANGED <<conn, pipe, connectorUp, fault>>
         \/ conn[c].phase = "live" /\ Crash("WrongThread")
         \/ /\ conn[c].phase = "moving" /\ doing[w].op = "resume_body"
            /\ Crash("Dangling")

\* An http_exception of the parser, or a uri without a device id.
BadRequest(w, c) == /\ Reads(w, c)
                    /\ conn[c].type = "CLIENT"
                    /\ Settle(SendError(conn, c))

\* crossdomain.xml and "/" are answered here; the answer keeps the
\* connection alive, whatever MASK_BIT_CLOSE was.
SpecialRequest(w, c) ==
  /\ Reads(w, c)
  /\ conn[c].type = "CLIENT"
  /\ Settle({CloseWrite(conn, c), [conn EXCEPT ![c].closing = FALSE]})

(***************************************************************************)
(* Loss, timers.                                                           *)
(***************************************************************************)

\* The peer closed or the read failed; also a server nobody is paired with
\* that speaks.
ReadFail(w, c) == Reads(w, c) /\ Settle(CloseRead(conn, c))

\* What c read cannot be sent to the other end: close(OTHER_WR_ERROR).
RelayFail(w, c) == /\ Reads(w, c)
                   /\ conn[c].other # NoConn
                   /\ Settle({CloseWrite(conn, c)})

\* A slip of WriteReady: an orphaned server is reused while it closes.
WriteReadyReuse(w, c) ==
  /\ Runs(w, c)
  /\ Settle({CloseWrite(conn, c),
             IF conn[c].type = "BUSY_SERVER" /\ conn[c].other = NoConn
               THEN [conn EXCEPT ![c].type = "IDLE_SERVER"]
               ELSE conn})

\* handle_write: the send fails, or a closing connection has sent all; an
\* orphaned server that has sent all would become idle again.
WriteReady(w, c) ==
  /\ Runs(w, c)
  /\ Settle({CloseWrite(conn, c),
             IF conn[c].type = "BUSY_SERVER" /\ conn[c].other = NoConn
                /\ ~conn[c].closing
               THEN [conn EXCEPT ![c].type = "IDLE_SERVER"]
               ELSE conn})

\* handle_timeout: no server answered in time.
Timeout(w, c) ==
  /\ Runs(w, c)
  /\ conn[c].armed
  /\ IF conn[c].other # NoConn THEN Crash("PairedTimer")
     ELSE IF ~conn[c].tmo THEN Crash("StrayTimer")
     ELSE Settle(SendError([conn EXCEPT ![c].armed = FALSE], c))

\* The timing wheel drops c: alone, or a server together with its client.
IdleTimeout(w, c) ==
  /\ Runs(w, c)
  /\ conn[c].other = NoConn \/ conn[c].type # "CLIENT"
  /\ Settle({CloseWrite(conn, c)})

\* The process is gone.
Halted == fault # "none" /\ UNCHANGED vars
-----------------------------------------------------------------------------
\* A client asks, for the first time or again.
Requests(w, c) == \E d \in Devs : ClientRequest(w, c, d)

\* Everything else that can happen to a connection.
Happens(w, c) ==
  \/ \E d \in Devs, k \in Conns, body \in BOOLEAN : DeviceResponse(w, c, d, k, body)
  \/ BadRequest(w, c)
  \/ SpecialRequest(w, c)
  \/ ReadFail(w, c)
  \/ RelayFail(w, c)
  \/ WriteReady(w, c)
  \/ Timeout(w, c)
  \/ IdleTimeout(w, c)

Handler(w, c) == Requests(w, c) \/ Happens(w, c)

Worker(w) == TakeAdd(w) \/ FinishAdd(w) \/ TakeMatch(w) \/ Resume(w)

Next == \/ \E c \in Conns, w \in Workers : Dispatch(c, w)
        \/ StopConnector
        \/ \E w \in Workers : Worker(w)
        \/ \E w \in Workers, c \in Conns : Handler(w, c)
        \/ Halted

Spec == Init /\ [][Next]_vars

-----------------------------------------------------------------------------
TypeOK == /\ conn \in [Conns -> Connection]
          /\ pipe \in [Workers -> Seq(Message)]
          /\ doing \in [Workers -> Activity]
          /\ connectorUp \in BOOLEAN
          /\ fault \in Faults

\* Pairing is mutual: connection::match sets both other_ pointers, and every
\* path that deletes or leaves one end (close, handle_uri, the timing wheel)
\* deletes or resets the other.  Both ends belong to one worker, one is a
\* client, the other a busy server, and they name the same device.
PairingMutual ==
  \A c \in Conns : conn[c].other # NoConn =>
    LET o == conn[c].other
    IN  /\ conn[o].other = c
        /\ conn[c].phase = "live" /\ conn[o].phase = "live"
        /\ conn[c].host = conn[o].host
        /\ conn[c].type = "CLIENT" <=> conn[o].type = "BUSY_SERVER"
        /\ conn[c].type \in {"CLIENT", "BUSY_SERVER"}
        /\ conn[c].dev = conn[o].dev

\* A socket that waits to be built, or a detached connection, is in exactly
\* one message, of the right kind, in one pipe (notify_add_conn,
\* notify_match_conn); no other connection is in any.  A pointer taken from a
\* pipe is therefore never stale and never taken twice.
InOnePipe ==
  /\ \A w \in Workers : \A i \in 1 .. Len(pipe[w]) :
       conn[pipe[w][i].conn].phase =
         IF pipe[w][i].kind = "add" THEN "dispatched" ELSE "moving"
  /\ \A c \in Conns : conn[c].phase \in {"dispatched", "moving"} =>
       \E w \in Workers : \E i \in 1 .. Len(pipe[w]) : pipe[w][i].conn = c
  /\ \A v, w \in Workers :
       \A i \in 1 .. Len(pipe[v]), j \in 1 .. Len(pipe[w]) :
         pipe[v][i].conn = pipe[w][j].conn => v = w /\ i = j

\* A client that waits for a device has its timer running or is being closed
\* (request_new_server sets both, match clears both, handle_timeout answers),
\* and is not paired: no client is forgotten, no timer hits a paired one.
WaitingClientTimed ==
  \A c \in Conns : conn[c].tmo =>
    /\ conn[c].armed \/ conn[c].closing
    /\ conn[c].type = "CLIENT" => conn[c].other = NoConn

\* A server without a client is on its way out: a refused or deserted device
\* connection is never left idle (match_client and match answer an error,
\* close sets MASK_BIT_CLOSE), so that server_conn_table cannot fill up.
LoneServerCloses ==
  \A c \in Conns : /\ conn[c].phase = "live"
                   /\ conn[c].type # "CLIENT"
                   /\ conn[c].other = NoConn
                   => conn[c].closing

\* A server serves one client in its life: once busy it is never idle again
\* nor paired with a second client (server reuse is off in match_server and
\* close), so what it still sends cannot reach somebody else.
ServesOneClient ==
  [][\A c \in Conns :
       conn[c].type = "BUSY_SERVER" =>
         \/ conn'[c].phase = "free"
         \/ /\ conn'[c].type = "BUSY_SERVER"
            /\ conn'[c].other \in {conn[c].other, NoConn}]_vars

\* A client is paired only while it waits, with a server of the device it
\* asked for last (the checks of match and match_client).
PairedWhileWaiting ==
  [][\A c \in Conns :
       LET o == conn'[c].other
       IN  conn[c].type = "CLIENT" /\ conn[c].other = NoConn /\ o # NoConn
             /\ conn'[c].type = "CLIENT"
           => conn[c].tmo /\ conn'[o].dev = conn[c].dev]_vars

\* What a connection is to the others.
RoleOf == [CLIENT |-> "client", IDLE_SERVER |-> "idle", BUSY_SERVER |-> "busy"]

EndOf(k) ==
  LET asks == k.type = "CLIENT" /\ k.tmo
  IN  [role |-> IF k.phase = "free" THEN "out" ELSE IF asks THEN "asking" ELSE RoleOf[k.type],
       dev  |-> IF asks \/ k.type # "CLIENT" THEN k.dev ELSE NoDev,
       with |-> k.other]

Meeting == INSTANCE Rendezvous
             WITH Ends <- Conns, Nobody <- NoConn, end <- [c \in Conns |-> EndOf(conn[c])]

\* Every handler, in whatever worker, is one step of a rendezvous or none: who
\* asks meets one server of that device, or nobody, although the match, the
\* timer, the hand-over and both ends' closing come in any order.
ImplementsRendezvous == Meeting!Spec

\* All requests in the in queue of a waiting client name the device it asked
\* for last: the server that match() gives them to is of that device.
QueueForOneDevice ==
  \A c \in Conns : conn[c].tmo => conn[c].inq \subseteq {conn[c].dev}

\* handle_timeout: assert(NULL==conn->other_), no timer of a connection that
\* is paired by now.
NoPairedTimer == fault # "PairedTimer"

\* match_client: assert(host && host_).
NoHostAssert == fault # "HostAssert"

\* A match runs in the thread of the server and of no other: no other worker
\* is still inside the read loop of the server that is being matched.
MatchInOwnThread ==
  [][\A w \in Workers : pipe'[w] # pipe[w] /\ TakeMatch(w)
       => ~Held(Head(pipe[w]).conn)]_vars
=============================================================================
