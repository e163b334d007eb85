----------------------------- MODULE Connector -----------------------------
(***************************************************************************)
(* The connector (core/connector.cpp): workers write pointers to requests  *)
(* into its pipe; the main thread moves them to out_queue_ and sends them  *)
(* over one TCP connection to the STUN server, which it opens, loses and   *)
(* reopens.                                                                *)
(*                                                                         *)
(* All events are edge-triggered: an edge that is used up before its data  *)
(* does not come again.  A handler of the main thread is one step, except  *)
(* that the read loop of handle_notify takes one request per step, since   *)
(* workers write meanwhile.  How much send() takes, and whether connect()  *)
(* succeeds at once, later or never, is open.                              *)
(*                                                                         *)
(* A definition introduced as a slip is not part of the model: it is a     *)
(* plausible error in the definition that follows it.                      *)
(***************************************************************************)
EXTENDS Naturals, Sequences

CONSTANTS Reqs,        \* requests, one call of connector::async_send each
          PipeCap      \* pointers the pipe holds

ASSUME PipeCapAssumption == PipeCap \in Nat \ {0}

VARIABLES given,       \* the requests workers have passed to async_send
          pipe,        \* the pointers in the pipe
          edge,        \* EV_READ of the pipe is due
          notifying,   \* the main thread is in the loop of handle_notify
          away,        \* the main thread waits in the full pipe of a worker
          sock,        \* the connection and out_queue_
          up           \* close() has not been called

vars == <<given, pipe, edge, notifying, away, sock, up>>

States == {"disconnected", "connecting", "connected"}

(***************************************************************************)
(* part: bytes of the first buffer of out_queue_ are sent (dtran_ > 0), on *)
(* this connection ("here") or on an earlier one ("gone").  due: EV_WRITE  *)
(* is going to be reported.  got: the requests sent as a whole.            *)
(***************************************************************************)
Sock == [state : States, out : Seq(Reqs), part : {"none", "here", "gone"},
         due : BOOLEAN, timer : BOOLEAN, got : Seq(Reqs)]

Closed == [state |-> "disconnected", out |-> <<>>, part |-> "none",
           due |-> FALSE, timer |-> FALSE, got |-> <<>>]
-----------------------------------------------------------------------------
\* A slip of CloseSock: the timer of a connect that is given up goes on.
CloseSockOnly(k) ==
  [k EXCEPT !.state = "disconnected", !.due = FALSE,
            !.part = IF k.part = "none" THEN "none" ELSE "gone"]

\* close_sock
CloseSock(k) ==
  [k EXCEPT !.state = "disconnected", !.due = FALSE, !.timer = FALSE,
            !.part = IF k.part = "none" THEN "none" ELSE "gone"]

\* A slip of OpenSock: the failure is kept as the state.
OpenSockFailed(k) ==
  {[k EXCEPT !.state = "failed"],
   [k EXCEPT !.state = "connecting", !.due = TRUE, !.timer = TRUE],
   [k EXCEPT !.state = "connected", !.due = TRUE]}

\* open_sock: no socket, a connect in progress with its timer, or a
\* connection at once.
OpenSock(k) ==
  {k, [k EXCEPT !.state = "connecting", !.due = TRUE, !.timer = TRUE],
      [k EXCEPT !.state = "connected", !.due = TRUE]}

\* reopen_sock: only when there is something to send.
ReopenSock(k) == IF k.out = <<>> THEN {CloseSock(k)} ELSE OpenSock(CloseSock(k))

\* A slip of Sent: the last request is not popped.
SentAgain(k, n) ==
  [k EXCEPT !.out = IF n = 0 THEN @ ELSE SubSeq(@, n, Len(@)),
            !.got = @ \o SubSeq(k.out, 1, n),
            !.part = "none"]

\* The first n requests are sent to their ends; of one that was begun on an
\* earlier connection the server only gets the end.
Sent(k, n) ==
  [k EXCEPT !.out = SubSeq(@, n + 1, Len(@)),
            !.got = @ \o SubSeq(k.out, IF k.part = "gone" THEN 2 ELSE 1, n),
            !.part = IF n = 0 THEN @ ELSE "none"]

\* async_send ends with an empty queue, at EAGAIN, or with an error: a
\* request of which a part is sent is dropped then.
AsyncSend(k) ==
  LET all == Sent(k, Len(k.out))
      Begun(q) == {q, IF q.part = "none" THEN [q EXCEPT !.part = "here"] ELSE q}
      Drop(q) == IF q.part = "none" THEN q
                 ELSE [q EXCEPT !.out = Tail(@), !.part = "none"]
      stops == UNION {Begun(Sent(k, n)) : n \in 0 .. Len(k.out) - 1}
  IN  {all} \cup {[q EXCEPT !.due = TRUE] : q \in stops}
            \cup UNION {ReopenSock(Drop(q)) : q \in stops}

SendIfConnected(k) == IF k.state = "connected" THEN AsyncSend(k) ELSE {k}
-----------------------------------------------------------------------------
\* connector::open: the pipe, then the socket.
Init == /\ given = {} /\ pipe = <<>> /\ edge = FALSE /\ notifying = FALSE
        /\ away = FALSE
        /\ sock \in OpenSock(Closed)
        /\ up = TRUE

\* async_send(data,len) in a worker: it waits while the pipe is full, and
\* fails when close_pipe has run.
Submit(r) ==
  /\ r \notin given
  /\ given' = given \cup {r}
  /\ IF up THEN /\ Len(pipe) < PipeCap
                /\ pipe' = Append(pipe, r)
                /\ edge' = TRUE
           ELSE UNCHANGED <<pipe, edge>>
  /\ UNCHANGED <<notifying, away, sock, up>>

\* handle_notify: the event ...
NotifyBegin == /\ up /\ edge /\ ~notifying /\ ~away
               /\ edge' = FALSE
               /\ notifying' = TRUE
               /\ UNCHANGED <<given, pipe, away, sock, up>>

\* A slip of NotifyTake: one request per event.
NotifyTakeOne ==
  /\ notifying /\ pipe # <<>>
  /\ pipe' = Tail(pipe)
  /\ LET pushed == [sock EXCEPT !.out = Append(@, Head(pipe))]
     IN  \E k \in IF sock.state = "disconnected" THEN OpenSock(pushed)
                                                 ELSE {pushed} :
           sock' \in SendIfConnected(k)
  /\ notifying' = FALSE
  /\ UNCHANGED <<given, edge, away, up>>

\* ... one round of its loop ...
NotifyTake ==
  /\ notifying /\ pipe # <<>>
  /\ pipe' = Tail(pipe)
  /\ LET pushed == [sock EXCEPT !.out = Append(@, Head(pipe))]
     IN  \E k \in IF sock.state = "disconnected" THEN OpenSock(pushed)
                                                 ELSE {pushed} :
           sock' \in SendIfConnected(k)
  /\ UNCHANGED <<given, edge, notifying, away, up>>

\* ... and its end at EAGAIN.
NotifyEnd == /\ notifying /\ pipe = <<>>
             /\ notifying' = FALSE
             /\ UNCHANGED <<given, pipe, edge, away, sock, up>>

\* The main thread may run a handler of the socket.
Handles == up /\ ~notifying /\ ~away /\ sock.state # "disconnected"

\* A slip of HandleWrite: what was queued during the connect is not sent.
HandleWriteConnects ==
  /\ Handles
  /\ LET k == [sock EXCEPT !.due = FALSE]
     IN  IF k.state = "connecting"
           THEN sock' \in ReopenSock(k) \cup
                          {[k EXCEPT !.state = "connected", !.timer = FALSE]}
           ELSE sock' \in AsyncSend(k)
  /\ UNCHANGED <<given, pipe, edge, notifying, away, up>>

\* handle_write: the connect has failed, or succeeded and stops the timer;
\* in the state connected the queue is sent.
HandleWrite ==
  /\ Handles
  /\ LET k == [sock EXCEPT !.due = FALSE]
         opened == IF k.state = "connecting"
                     THEN ReopenSock(k) \cup
                          {[k EXCEPT !.state = "connected", !.timer = FALSE]}
                     ELSE {k}
     IN  \E q \in opened : sock' \in SendIfConnected(q)
  /\ UNCHANGED <<given, pipe, edge, notifying, away, up>>

\* handle_read: the server closed the connection, or an error.
HandleRead == /\ Handles
              /\ sock' \in ReopenSock(sock)
              /\ UNCHANGED <<given, pipe, edge, notifying, away, up>>

\* handle_connect_timeout: what is queued is dropped.
ConnectTimeout == /\ Handles /\ sock.timer
                  /\ sock' \in ReopenSock([sock EXCEPT !.out = <<>>, !.part = "none",
                                                       !.timer = FALSE])
                  /\ UNCHANGED <<given, pipe, edge, notifying, away, up>>

\* close, from server::stop_connector once the event loop has ended.
Close == /\ up /\ ~notifying /\ ~away
         /\ sock' = CloseSock(sock)
         /\ up' = FALSE
         /\ UNCHANGED <<given, pipe, edge, notifying, away>>

\* Between two handlers the main thread accepts a socket (acceptor::dispatch,
\* worker::write_pipe): the write waits while the pipe of that worker is full.
GoesAway == /\ up /\ ~notifying /\ ~away
            /\ away' = TRUE
            /\ UNCHANGED <<given, pipe, edge, notifying, sock, up>>

\* The worker has made room in its pipe, which it does not while it waits
\* itself, in async_send for the connector.
ComesBack == /\ away
             /\ away' = FALSE
             /\ UNCHANGED <<given, pipe, edge, notifying, sock, up>>

Next == \/ \E r \in Reqs : Submit(r)
        \/ NotifyBegin \/ NotifyTake \/ NotifyEnd
        \/ HandleWrite \/ HandleRead \/ ConnectTimeout
        \/ GoesAway \/ ComesBack
        \/ Close

Spec == Init /\ [][Next]_vars

(***************************************************************************)
(* Fairness: whenever the main thread is back in its event loop it gets to *)
(* the edge of the pipe, although it handles other events in between, and  *)
(* it goes on in the loop of handle_notify, where nothing blocks it.  That *)
(* it comes back from the pipe of a worker is not assumed, nor anything of *)
(* the server.                                                             *)
(***************************************************************************)
Fairness == /\ SF_vars(NotifyBegin)
            /\ WF_vars(NotifyTake \/ NotifyEnd)

FairSpec == Spec /\ Fairness
-----------------------------------------------------------------------------
TypeOK == /\ given \subseteq Reqs
          /\ pipe \in Seq(Reqs) /\ Len(pipe) <= PipeCap
          /\ edge \in BOOLEAN /\ notifying \in BOOLEAN
          /\ away \in BOOLEAN /\ up \in BOOLEAN
          /\ sock \in Sock

\* The timer runs exactly while a connect is in progress (open_sock,
\* close_sock, handle_write): handle_connect_timeout's assertion on state_
\* holds, and no connect waits without a limit.
TimerWhileConnecting == sock.timer <=> sock.state = "connecting"

\* Nothing waits for an edge that does not come: a pointer in the pipe has
\* its EV_READ due (handle_notify reads to EAGAIN), a request in out_queue_ of
\* a connection has EV_WRITE due (async_send is tried on every push and every
\* connect).
NothingStranded ==
  up /\ ~notifying => /\ pipe # <<>> => edge
                      /\ sock.out # <<>> /\ sock.state # "disconnected" => sock.due

\* The connector is a FIFO that loses: out_queue_ and the pipe are the queue,
\* whatever connections come and go.
Fifo == INSTANCE LossyFifo WITH queue <- sock.out \o pipe, delivered <- sock.got
ImplementsFifo == Fifo!Spec

\* A request a worker has written is taken from the pipe (handle_notify), so
\* a worker that waits on a full pipe goes on; unless the main thread waits
\* for ever on the pipe of a worker, as it may on one that waits for it.
PipeDrains ==
  \/ <>[]away
  \/ \A r \in Reqs : (\E i \in 1 .. Len(pipe) : pipe[i] = r)
                       ~> ~up \/ ~\E i \in 1 .. Len(pipe) : pipe[i] = r

\* dtran_ counts the bytes written to this connection (core/buffer.h): a
\* connection starts with the beginning of a request.
StartsWithWhole == sock.state # "disconnected" => sock.part # "gone"
=============================================================================
