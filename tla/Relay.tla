-------------------------------- MODULE Relay --------------------------------
(***************************************************************************)
(* How one pair relays: core/http.cpp reads a client's requests message by *)
(* message and a device's answers as they come, core/connection.cpp sends  *)
(* what the other end reads, and core/buffer.h tells when to stop reading. *)
(*                                                                         *)
(* Both ends live in one worker (ConnMatch), so handlers never overlap,    *)
(* but the kernel and the peers act between any two calls of recv: one     *)
(* step is one turn of a read loop.  Events are edge triggered: an edge    *)
(* that a handler ignores does not come again by itself.                   *)
(*                                                                         *)
(* Data is counted in units; what a unit means to the HTTP parser is up to *)
(* the peer that sent it.  One end is the client, the other whichever      *)
(* device connection it is paired with.                                    *)
(***************************************************************************)
EXTENDS Naturals

CONSTANTS Low,      \* dlow_:  reading starts again at or below it
          High,     \* dhigh_: reading stops at or above it
          Inbound,  \* what the socket of an end holds for reading
          Room,     \* what the socket of an end takes for sending
          Kept      \* what a client without a device keeps in in_queue_

ASSUME RelayAssumption ==
  /\ {Low, High, Inbound, Room, Kept} \subseteq Nat
  /\ Low < High /\ Inbound > 0 /\ Room > 0 /\ Kept > 0

VARIABLES end,     \* both ends of the pair
          stream,  \* what the client's http_stream is reading
          inq,     \* in_queue_ of the client
          waits,   \* MASK_BIT_TIMEOUT of the client, and whether it went off
          doing,   \* the end whose read loop is running
          fault    \* the assertion that failed

vars == <<end, stream, inq, waits, doing, fault>>

Ends == {"client", "server"}
Other(e) == IF e = "client" THEN "server" ELSE "client"
Streams == {"header", "content", "size", "chunk", "trailer"}

(***************************************************************************)
(* An end: paired is other_ # NULL; rd, reg, closing and est are           *)
(* MASK_BIT_ENABLE_RD, _RD, _CLOSE and _CONNECTED; out is the size of      *)
(* out_queue_.  in, room, full and line belong to the kernel: data to read,*)
(* room to send, a send was refused for want of room, and what the peer    *)
(* has done to the connection.  rev and wev are events libevent holds.     *)
(***************************************************************************)
End == [live : BOOLEAN, paired : BOOLEAN, rd : BOOLEAN, reg : BOOLEAN,
        closing : BOOLEAN, est : BOOLEAN, out : Nat, in : 0..Inbound,
        room : 0..Room, full : BOOLEAN, line : {"up", "fin", "rst"},
        rev : BOOLEAN, wev : BOOLEAN]

Gone == [live |-> FALSE, paired |-> FALSE, rd |-> TRUE, reg |-> TRUE,
         closing |-> FALSE, est |-> TRUE, out |-> 0, in |-> 0, room |-> Room,
         full |-> FALSE, line |-> "up", rev |-> FALSE, wev |-> FALSE]

\* attach(): both events are added, EV_WRITE is due and reading is enabled.
Fresh == [Gone EXCEPT !.live = TRUE, !.wev = TRUE]

Init == /\ end = [e \in Ends |-> Gone]
        /\ stream = "header"
        /\ inq = 0
        /\ waits = "no"
        /\ doing = "none"
        /\ fault = "none"

-----------------------------------------------------------------------------
(***************************************************************************)
(* Pieces of handlers, from a table of ends to the table they leave.       *)
(***************************************************************************)

Delete(E, e) == [E EXCEPT ![e] = Gone]
DeleteBoth(E, e) == IF E[e].paired THEN [x \in Ends |-> Gone] ELSE Delete(E, e)

\* buffer_queue::push
Push(E, e) == [E EXCEPT ![e].out = @ + 1]

IsHigh(E, e) == E[e].out >= High
IsLow(E, e)  == E[e].out <= Low

\* A slip of EnableRead: the lost edge is not made up for.
EnableReadSilently(E, e) == [E EXCEPT ![e].rd = TRUE]

\* enable_read: the edges that came meanwhile are gone, so it makes one.
EnableRead(E, e) ==
  IF E[e].rd THEN E ELSE [E EXCEPT ![e].rd = TRUE, ![e].rev = TRUE]

\* A slip of Written: pop() takes off again what consume_size() took off.
WrittenTwice(E, e) ==
  LET x == E[e]
      n == IF x.out <= x.room THEN x.out ELSE x.room
  IN  IF x.line = "rst" THEN [E EXCEPT ![e].closing = TRUE]
      ELSE [E EXCEPT ![e].out = IF @ = n THEN 0 - @ ELSE @ - n,
                     ![e].room = @ - n, ![e].full = @ \/ n < x.out]

\* async_send_impl up to its last test: all goes out, or the socket is full,
\* or it is broken.
Written(E, e) ==
  LET x == E[e]
      n == IF x.out <= x.room THEN x.out ELSE x.room
  IN  IF x.out = 0 THEN E
      ELSE IF x.line = "rst" THEN [E EXCEPT ![e].closing = TRUE]
      ELSE [E EXCEPT ![e].out = @ - n, ![e].room = @ - n,
                     ![e].full = @ \/ n < x.out]

\* ... and the exception it ends with.
Throws(E, e) ==
  LET W == Written(E, e)
  IN  W[e].closing /\ (W[e].out = 0 \/ E[e].line = "rst")

\* A slip of Sent: the reader is not looked at after sending.
SentWithoutWake(E, e) == Written(E, e)

\* async_send when it does not throw: the other end may read again.
Sent(E, e) ==
  LET W == Written(E, e)
      o == Other(e)
  IN  IF ~W[e].paired THEN W
      ELSE IF W[o].est /\ W[o].line # "up"
             THEN EnableRead([W EXCEPT ![o].est = FALSE], o)
      ELSE IF IsLow(W, e) THEN EnableRead(W, o) ELSE W

\* async_send where io_exception leads to the deletion of both ends: close()
\* with SELF_WR_ERROR or OTHER_WR_ERROR.
SentOrClosed(E, e) == IF Throws(E, e) THEN DeleteBoth(E, e) ELSE Sent(E, e)

\* close(SELF_RD_ERROR): a client that breaks off in a message takes the
\* device's connection along; otherwise the other end is left to drain.
CloseRead(E, e) ==
  LET o == Other(e)
      L == [Delete(E, e) EXCEPT ![o].paired = FALSE, ![o].closing = TRUE]
  IN  IF ~E[e].paired THEN Delete(E, e)
      ELSE IF e = "client" /\ stream # "header" THEN DeleteBoth(E, e)
      ELSE SentOrClosed(L, o)

\* send_error: no more reads, an answer, and the end of the connection once
\* it has been sent.
SendError(E, e) ==
  SentOrClosed([Push(E, e) EXCEPT ![e].reg = FALSE, ![e].rev = FALSE,
                                  ![e].closing = TRUE], e)

\* send_response with send_keepalive
Reply(E, e) == SentOrClosed([Push(E, e) EXCEPT ![e].closing = FALSE], e)

\* The client is gone or not: what goes with it when it is.
Settle(E, str, q, w) ==
  /\ end' = E
  /\ stream' = IF E["client"].live THEN str ELSE "header"
  /\ inq' = IF E["client"].live THEN q ELSE 0
  /\ waits' = IF E["client"].live THEN w ELSE "no"

-----------------------------------------------------------------------------
(***************************************************************************)
(* The read loop of the client.                                            *)
(***************************************************************************)

\* recv took a unit; the handler is still running.
Received(e) == [end EXCEPT ![e].in = @ - 1]

\* A slip of Turn: the high mark is not looked at.
TurnWithoutMark(E) == IF E["client"].live /\ E["client"].reg
                        THEN <<E, "client">> ELSE <<E, "none">>

\* The end of a turn of read_request: stop at the high mark of the other end.
Turn(E) ==
  LET c == E["client"]
  IN  IF ~c.live \/ ~c.reg THEN <<E, "none">>
      ELSE IF c.paired /\ IsHigh(E, "server")
             THEN <<[E EXCEPT !["client"].rd = FALSE], "none">>
      ELSE <<E, "client">>

\* data_finish: the loop goes on with the table E.
Continue(E, str, q, w) ==
  LET t == Turn(E) IN Settle(t[1], str, q, w) /\ doing' = t[2]

\* The bound on what a client that does not read is owed: neither the proxy's
\* own answers nor the answers of one device after another are held back.
MayReply == end["client"].out < High

Reading == doing = "client" /\ fault = "none" /\ end["client"].in > 0

\* A unit that completes nothing: a byte of a header, a size or a trailer, a
\* part of a body buffer.
ReadPart ==
  /\ Reading
  /\ Continue(Received("client"), stream, inq, waits)
  /\ UNCHANGED fault

\* What the parser, get_body_info or handle_uri refuse, in any state but that
\* of a body whose length is known.
ReadBad ==
  /\ Reading
  /\ stream \notin {"content", "chunk"}
  /\ Settle(SendError(Received("client"), "client"), stream, inq, waits)
  /\ doing' = "none"
  /\ UNCHANGED fault

\* A buffer that is complete goes to the other end, or waits for one.
Relayed(E, str) ==
  IF E["client"].paired
    THEN Continue(SentOrClosed(Push(E, "server"), "server"), str, inq, waits)
    ELSE inq < Kept /\ Continue(E, str, inq + 1, waits)

\* read_header: a request for the device the client is paired with, or for
\* another one, which ends the pair and asks for that device.
ReadHeader ==
  /\ Reading
  /\ stream = "header"
  /\ \E str \in {"header", "content", "size"}, continue, same \in BOOLEAN :
       LET R == Received("client")
           E == IF continue THEN Reply(R, "client") ELSE R
           A == [Delete(E, "server") EXCEPT !["client"].paired = FALSE]
       IN  IF continue /\ ~MayReply THEN FALSE
           ELSE IF ~E["client"].live
             THEN Settle(E, str, inq, waits) /\ doing' = "none"
           ELSE IF E["client"].paired /\ same THEN Relayed(E, str)
           ELSE /\ inq < Kept /\ MayReply
                /\ \/ Continue(IF E["client"].paired THEN A ELSE E,
                               str, inq + 1, "armed")
                   \/ /\ Settle(SendError(IF E["client"].paired THEN A ELSE E,
                                          "client"), "header", inq + 1, "no")
                      /\ doing' = "none"
  /\ UNCHANGED fault

\* handle_special_request: answered here; a body it announces is read.
ReadSpecial ==
  /\ Reading
  /\ stream = "header"
  /\ MayReply
  /\ \E str \in {"header", "content", "size"} :
       Continue(Reply(Received("client"), "client"), str, inq, waits)
  /\ UNCHANGED fault

\* read_body: the last unit of a buffer, which may be the last of the body or
\* of the chunk, or the line with the size of a chunk.
ReadBody ==
  /\ Reading
  /\ \/ stream = "content" /\ \E str \in {"content", "header"} :
                                 Relayed(Received("client"), str)
     \/ stream = "chunk" /\ \E str \in {"chunk", "size"} :
                               Relayed(Received("client"), str)
     \/ stream = "size" /\ \E str \in {"chunk", "trailer"} :
                              Relayed(Received("client"), str)
  /\ UNCHANGED fault

\* read_trailer at an end of line: parse_trailer starts at off_, which is
\* still the length of the header, so it sees nothing of a shorter trailer.
ReadTrailer ==
  /\ Reading
  /\ stream = "trailer"
  /\ \/ Relayed(Received("client"), "header") /\ UNCHANGED fault
     \/ fault' = "TrailerAssert" /\ UNCHANGED <<end, stream, inq, waits, doing>>

-----------------------------------------------------------------------------
\* A turn of read_message_no_parse: what the device sent goes to the client's
\* queue, and to the client when the queue is high.
ReadResponse ==
  /\ doing = "server" /\ fault = "none" /\ end["server"].in > 0
  /\ LET P == Push(Received("server"), "client")
         H == [P EXCEPT !["server"].rd = FALSE]
     IN  IF IsHigh(P, "client")
           THEN /\ Settle(SentOrClosed(H, "client"), stream, inq, waits)
                /\ doing' = "none"
           ELSE Settle(P, stream, inq, waits) /\ doing' = doing
  /\ UNCHANGED fault

\* recv has nothing: EAGAIN ends the loop, an answer that was read goes out.
ReadNothing ==
  /\ doing \in Ends /\ fault = "none"
  /\ end[doing].in = 0 /\ end[doing].line = "up"
  /\ Settle(IF doing = "server" /\ end["client"].out > 0
              THEN SentOrClosed(end, "client") ELSE end, stream, inq, waits)
  /\ doing' = "none"
  /\ UNCHANGED fault

\* recv reports the end of the peer's data or an error.
ReadEnds ==
  /\ doing \in Ends /\ fault = "none"
  /\ end[doing].in = 0 /\ end[doing].line # "up"
  /\ Settle(CloseRead(end, doing), stream, inq, waits)
  /\ doing' = "none"
  /\ UNCHANGED fault

-----------------------------------------------------------------------------
(***************************************************************************)
(* The event loop of the worker.                                           *)
(***************************************************************************)
Idle == doing = "none" /\ fault = "none"

\* handle_read: an edge that comes while reading is off is dropped, and a
\* device's connection without a client is closed.
HandleRead(e) ==
  /\ Idle /\ end[e].live /\ end[e].rev
  /\ LET E == [end EXCEPT ![e].rev = FALSE]
     IN  IF E[e].rd /\ e = "server" /\ ~E[e].paired
           THEN Settle(Delete(E, e), stream, inq, waits) /\ doing' = "none"
           ELSE /\ Settle(E, stream, inq, waits)
                /\ doing' = IF E[e].rd THEN e ELSE "none"
  /\ UNCHANGED fault

\* handle_write
HandleWrite(e) ==
  /\ Idle /\ end[e].live /\ end[e].wev
  /\ Settle(SentOrClosed([end EXCEPT ![e].wev = FALSE], e), stream, inq, waits)
  /\ UNCHANGED <<doing, fault>>

\* close(IDLE_TIMEOUT): no event came for the whole ring of buckets.
IdleTimeout(e) ==
  /\ Idle /\ end[e].live /\ ~end[e].rev /\ ~end[e].wev
  /\ e = "server" \/ ~end[e].paired
  /\ Settle([Delete(end, e) EXCEPT ![Other(e)].paired = FALSE],
            stream, inq, waits)
  /\ UNCHANGED <<doing, fault>>

\* handle_timeout: no device came.
RespondTimeout ==
  /\ Idle /\ waits = "armed"
  /\ Settle(SendError(end, "client"), stream, inq, "fired")
  /\ UNCHANGED <<doing, fault>>

\* A device's connection has named the client: match() answers the device,
\* hands it what the client asked so far, and pairs the two, unless the
\* device's connection breaks at that moment.  The EV_WRITE of attach() may
\* still be due.  In the worker of the client the device's own read_request
\* goes on: it stops at the high mark of the client.  The refusal of an answer
\* that is there already, read as a request, is left to ConnMatch
\* (EarlyAnswer); here the loop then ends.
Match ==
  /\ Idle /\ waits # "no" /\ ~end["server"].live
  /\ \/ \E deaf \in {FALSE, IsHigh(end, "client")}, due \in BOOLEAN :
          LET s == [Fresh EXCEPT !.out = inq + 1, !.rd = ~deaf, !.wev = due]
              E == Written([end EXCEPT !["server"] = s], "server")
          IN  Settle([e \in Ends |-> [E[e] EXCEPT !.paired = TRUE]],
                     stream, 0, "no")
     \/ Settle(end, stream, 0, "no")
  /\ UNCHANGED <<doing, fault>>

\* A client is accepted.
Accept ==
  /\ Idle /\ ~end["client"].live
  /\ Settle([end EXCEPT !["client"] = Fresh], "header", 0, "no")
  /\ UNCHANGED <<doing, fault>>

-----------------------------------------------------------------------------
(***************************************************************************)
(* The peers and the kernel.  An edge reports all the socket is ready for, *)
(* so it may bring the event of the other direction along.                 *)
(***************************************************************************)

\* The peer sends a unit.
PeerSends(e) ==
  /\ fault = "none" /\ end[e].live /\ end[e].line = "up" /\ end[e].in < Inbound
  /\ \E w \in {FALSE, end[e].room > 0} :
       end' = [end EXCEPT ![e].in = @ + 1, ![e].rev = end[e].reg,
                          ![e].wev = @ \/ w]
  /\ UNCHANGED <<stream, inq, waits, doing, fault>>

\* The peer has taken what was sent to it.
PeerTakes(e) ==
  /\ fault = "none" /\ end[e].live /\ end[e].line # "rst" /\ end[e].room < Room
  /\ \E r \in {FALSE, end[e].reg /\ end[e].in > 0} :
       end' = [end EXCEPT ![e].room = Room, ![e].full = FALSE,
                          ![e].wev = @ \/ end[e].full, ![e].rev = @ \/ r]
  /\ UNCHANGED <<stream, inq, waits, doing, fault>>

\* The peer closes its direction, or the connection breaks.
PeerCloses(e) ==
  /\ fault = "none" /\ end[e].live
  /\ \/ /\ end[e].line = "up"
        /\ end' = [end EXCEPT ![e].line = "fin", ![e].rev = end[e].reg]
     \/ /\ end[e].line # "rst"
        /\ end' = [end EXCEPT ![e].line = "rst", ![e].in = 0,
                              ![e].rev = end[e].reg, ![e].wev = TRUE]
  /\ UNCHANGED <<stream, inq, waits, doing, fault>>

ReadLoop == \/ ReadPart \/ ReadBad \/ ReadHeader \/ ReadSpecial \/ ReadBody
            \/ ReadTrailer \/ ReadResponse \/ ReadNothing \/ ReadEnds

Next == \/ ReadLoop
        \/ RespondTimeout \/ Match \/ Accept
        \/ \E e \in Ends : \/ HandleRead(e) \/ HandleWrite(e) \/ IdleTimeout(e)
                           \/ PeerSends(e) \/ PeerTakes(e) \/ PeerCloses(e)

Spec == Init /\ [][Next]_vars

-----------------------------------------------------------------------------
\* The type invariant.
TypeOK == /\ end \in [Ends -> End]
          /\ stream \in Streams
          /\ inq \in 0..Kept
          /\ waits \in {"no", "armed", "fired"}
          /\ doing \in Ends \cup {"none"}
          /\ fault \in {"none", "TrailerAssert"}

\* An edge is never lost: whatever an end has to read while reading is on has
\* an event coming, whoever switched reading off and on meanwhile; and what
\* waits to be sent has an event coming, or will when the peer makes room
\* (enable_read, disable_read, async_send under EV_ET).
EdgesAreKept ==
  \A e \in Ends :
    LET x == end[e]
    IN  x.live /\ doing # e =>
          /\ x.rd /\ x.reg /\ (x.in > 0 \/ x.line # "up") => x.rev
          /\ x.out > 0 => x.wev \/ x.full \/ doing # "none"

\* Reading is off only while the other end is above its low mark and will be
\* able to send, which switches reading on again; an end that lost its other
\* end that way has no one to wake it but the wheel (async_send, close).
DeafForAReason ==
  \A e \in Ends :
    LET o == Other(e)
    IN  end[e].live /\ ~end[e].rd /\ doing = "none" =>
          \/ end[e].paired /\ ~IsLow(end, o) /\ (end[o].full \/ end[o].wev)
          \/ ~end[e].paired

\* The high mark, or what match() gives the device when that is more.
Most == IF High > Kept THEN High ELSE Kept + 1

\* A client faster than its device is held back: past the high mark, or past
\* what match() gave the device when that was more, the device's queue grows
\* by one buffer at most, the one read to look for the end of a client that
\* has closed (read_request, async_send).  Nothing holds a client back while
\* it waits for a device: Kept is a bound of the model.
DeviceQueueBounded == end["server"].out <= Most + 1
=============================================================================
