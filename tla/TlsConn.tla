-------------------------------- MODULE TlsConn --------------------------------
(***************************************************************************)
(* A TLS connection (core/ssl_conn.cpp) between an edge-triggered event    *)
(* loop and OpenSSL.  A call of OpenSSL can ask for the other direction:   *)
(* the handler of that direction is then exchanged for one that repeats    *)
(* the call, and put back when the call succeeds.  Closing may have to     *)
(* wait for the peer, and keeps the object until it has.                   *)
(***************************************************************************)
EXTENDS Naturals

VARIABLES tls,     \* the connection, see Conn
          ev       \* events that wait to be dispatched: read, write, timeout

tlsVars == <<tls, ev>>

Handlers == {"handshake", "empty", "read", "write", "viaRead", "viaWrite", "shutdown"}
Wants == {"none", "read", "write"}

\* rh, wh, oldR, oldW are the handlers.  shake, recv, send say what OpenSSL
\* asked for when that call last had to wait.  held: reading was left off by
\* the read loop itself.  unread, room: the socket can be read, written.
\* timer: the 30 seconds on a shutdown that reads.
Conn == [rh : Handlers, wh : Handlers, oldR : {"none", "read"}, oldW : {"none", "write"},
         shake : Wants \cup {"done"}, recv : Wants, send : Wants,
         out : BOOLEAN, held : BOOLEAN, unread : BOOLEAN, room : BOOLEAN,
         quiet : BOOLEAN, timer : BOOLEAN, again : SUBSET {"read", "write"},
         life : {"on", "closing", "gone", "nested"}]

\* `again` collects what a handler activates by event_active.
Fresh == [rh |-> "handshake", wh |-> "empty", oldR |-> "none", oldW |-> "none",
          shake |-> "none", recv |-> "none", send |-> "none",
          out |-> FALSE, held |-> FALSE, unread |-> FALSE, room |-> FALSE,
          quiet |-> FALSE, timer |-> FALSE, again |-> {}, life |-> "on"]

TlsInit == tls = Fresh /\ ev = {}

-----------------------------------------------------------------------------
(* shutdown(): every operator gives the set of outcomes. *)

Deferred(c, want) ==
  [c EXCEPT !.rh = "shutdown", !.wh = "shutdown", !.life = "closing",
            !.timer = @ \/ want = "read",
            !.unread = @ /\ want # "read", !.room = @ /\ want # "write"]

\* A quiet shutdown sends nothing and waits for nothing.
Shutdown(c) ==
  {[c EXCEPT !.life = "gone"]} \cup
  (IF c.quiet THEN {} ELSE {Deferred(c, want) : want \in {"read", "write"}})

ShutdownQuietly(c) == Shutdown([c EXCEPT !.quiet = TRUE])

\* recv() and send() found the peer gone, or failed.
Ends(c) == Shutdown(c) \cup ShutdownQuietly(c)

-----------------------------------------------------------------------------
(* recv() and send() *)

\* Slips: the handler is put back and its event not raised; the handler that
\* is exchanged is the one that is there now.
RecvDataSilently(c) ==
  [c EXCEPT !.wh = IF c.oldW = "none" THEN @ ELSE c.oldW, !.oldW = "none", !.recv = "none"]
SendBlockedNeverSwaps(c, want) == [c EXCEPT !.send = want, !.room = @ /\ want # "write"]

RecvData(c) ==
  IF c.oldW = "none" THEN [c EXCEPT !.recv = "none"]
  ELSE [c EXCEPT !.wh = c.oldW, !.oldW = "none", !.recv = "none", !.again = @ \cup {"write"}]

RecvBlocked(c, want) ==
  LET d == [c EXCEPT !.recv = want, !.unread = @ /\ want # "read", !.room = @ /\ want # "write"]
  IN IF want = "read" \/ c.oldW # "none" THEN d
     ELSE [d EXCEPT !.oldW = c.wh, !.wh = "viaWrite"]

SendData(c) ==
  IF c.oldR = "none" THEN [c EXCEPT !.send = "none"]
  ELSE [c EXCEPT !.rh = c.oldR, !.oldR = "none", !.send = "none", !.again = @ \cup {"read"}]

SendBlocked(c, want) ==
  LET d == [c EXCEPT !.send = want, !.unread = @ /\ want # "read", !.room = @ /\ want # "write"]
  IN IF want = "write" \/ c.oldR # "none" THEN d
     ELSE [d EXCEPT !.oldR = c.rh, !.rh = "viaRead"]

\* async_send: the queue goes out until OpenSSL has to wait.
Send(c) ==
  IF ~c.out THEN {c}
  ELSE {[SendData(c) EXCEPT !.out = FALSE]}
       \cup {SendBlocked(d, want) : d \in {c, SendData(c)}, want \in {"read", "write"}}
       \cup Ends(c)

\* handle_read: nothing while reading is off.  What was read may be answered
\* at once; the loop ends when OpenSSL has to wait, or when the other end or
\* a hand-over stops it.
Read(c) ==
  IF c.held THEN {c}
  ELSE LET some == {c, RecvData(c)}
                   \cup {d \in Send([RecvData(c) EXCEPT !.out = TRUE]) : d.life = "on"}
       IN {RecvBlocked(d, want) : d \in some, want \in {"read", "write"}}
          \cup {[RecvData(c) EXCEPT !.held = TRUE]}
          \cup UNION {Ends(d) : d \in some}

\* do_handshake and handshake
Handshake(c) ==
  Read([c EXCEPT !.shake = "done", !.rh = "read", !.wh = "write"])
  \cup {[c EXCEPT !.shake = "read", !.rh = "handshake", !.wh = "empty", !.unread = FALSE],
        [c EXCEPT !.shake = "write", !.rh = "empty", !.wh = "handshake", !.room = FALSE]}
  \cup ShutdownQuietly(c)

\* read_handler and write_handler call each other's direction; when both are
\* exchanged they never return.
Handled(c, handler, timeout) ==
  CASE handler = "handshake" -> Handshake(c)
    [] handler = "empty"     -> {c}
    [] handler = "read"      -> Read(c)
    [] handler = "write"     -> Send(c)
    [] handler = "shutdown"  -> IF timeout THEN ShutdownQuietly(c) ELSE Shutdown(c)
    [] OTHER                 -> {[c EXCEPT !.life = "nested"]}

Dispatched(handler) ==
  CASE handler = "viaRead"  -> tls.wh
    [] handler = "viaWrite" -> tls.rh
    [] OTHER                -> handler

-----------------------------------------------------------------------------

Open == tls.life \in {"on", "closing"}

\* The connection becomes one of the outcomes C; what they activate joins
\* the events E that are left.
Become(C, E) == \E c \in C : tls' = [c EXCEPT !.again = {}] /\ ev' = E \cup c.again

\* The peer sends; the peer takes.
Readable == Open /\ tls' = [tls EXCEPT !.unread = TRUE] /\ ev' = ev \cup {"read"}
Writable == Open /\ tls' = [tls EXCEPT !.room = TRUE] /\ ev' = ev \cup {"write"}
Expire == Open /\ tls.timer /\ ev' = ev \cup {"timeout"} /\ UNCHANGED tls

\* connection::handle_read(fd, ev, arg) does nothing without EV_READ: a
\* timeout alone is dropped.
ReadEvent ==
  /\ Open /\ ev \cap {"read", "timeout"} # {}
  /\ LET rest == ev \ {"read", "timeout"}
     IN IF "read" \in ev
        THEN Become(Handled(tls, Dispatched(tls.rh), "timeout" \in ev), rest)
        ELSE ev' = rest /\ UNCHANGED tls

WriteEvent ==
  /\ Open /\ "write" \in ev
  /\ Become(Handled(tls, Dispatched(tls.wh), FALSE), ev \ {"write"})

\* The other end, or a timer, has something to send on this connection.
SendForOther ==
  /\ tls.life = "on" /\ tls.shake = "done"
  /\ Become(Send([tls EXCEPT !.out = TRUE]), ev)

\* The other end has drained, or the new worker has attached.
EnableRead == /\ tls.life = "on" /\ tls.held
              /\ tls' = [tls EXCEPT !.held = FALSE] /\ ev' = ev \cup {"read"}

\* The timing wheel or the other end closes it; a deferred one too.
CloseByOther == Open /\ Become(Shutdown(tls), ev)

TlsNext == Readable \/ Writable \/ Expire \/ ReadEvent \/ WriteEvent \/ SendForOther
        \/ EnableRead \/ CloseByOther

TlsSpec == TlsInit /\ [][TlsNext]_tlsVars

-----------------------------------------------------------------------------
(* Properties *)

TlsTypeOK == tls \in Conn /\ tls.again = {} /\ ev \subseteq {"read", "write", "timeout"}

\* recv() waits to write and send() waits to read: read_handler and
\* write_handler call each other, and neither call is ever repeated.
BothExchanged == tls.rh = "viaRead" /\ tls.wh = "viaWrite"

\* ssl_conn.cpp:124-141,166-170,195-198,210-215,240-243: the handler of the
\* direction that OpenSSL asked for leads to the call it could not finish,
\* unless both handlers are exchanged for each other.
RetriedWhereWanted ==
  tls.life = "on" /\ ~BothExchanged =>
    /\ tls.shake = "read"  => Dispatched(tls.rh) = "handshake"
    /\ tls.shake = "write" => Dispatched(tls.wh) = "handshake"
    /\ tls.recv = "write"  => tls.wh = "viaWrite" /\ Dispatched(tls.wh) = "read"
    /\ tls.send = "read"   => tls.rh = "viaRead" /\ Dispatched(tls.rh) = "write"

\* ssl_conn.cpp:161-165,205-209: an edge that a repeated call has used up is
\* raised again for the handler it was meant for: what can be read, and what
\* waits to be sent, has an event or a call that waits for the socket.
EdgesSurviveSwaps ==
  tls.life = "on" =>
    /\ tls.rh = "read" /\ tls.unread /\ ~tls.held /\ tls.recv # "write" => "read" \in ev
    /\ tls.wh = "write" /\ tls.out /\ tls.room /\ tls.send # "read" => "write" \in ev
=============================================================================
