-------------------------- MODULE ConnectorProofs --------------------------
(***************************************************************************)
(* Proofs about Connector, for any requests and any capacity of the pipe.  *)
(*                                                                         *)
(* Every handler maps a socket and its queue to one that is Settled: typed,*)
(* its timer running exactly while it connects, and nothing in its queue   *)
(* without an EV_WRITE to come.                                            *)
(***************************************************************************)
EXTENDS Connector, SequenceTheorems, TLAPS

Settled(k) == /\ k \in Sock
              /\ k.timer <=> k.state = "connecting"
              /\ k.state = "connecting" => k.due
              /\ k.out # <<>> /\ k.state # "disconnected" => k.due

IInv == /\ given \subseteq Reqs
        /\ pipe \in Seq(Reqs) /\ Len(pipe) <= PipeCap
        /\ edge \in BOOLEAN /\ notifying \in BOOLEAN
        /\ away \in BOOLEAN /\ up \in BOOLEAN
        /\ Settled(sock)
        /\ up /\ pipe # <<>> => edge \/ notifying
-----------------------------------------------------------------------------
\* A closed socket keeps its queue.
LEMMA CloseSockClosed ==
  ASSUME NEW k \in Sock
  PROVE  /\ CloseSock(k) \in Sock
         /\ CloseSock(k).state = "disconnected" /\ ~CloseSock(k).timer
         /\ CloseSock(k).out = k.out
BY DEF CloseSock, Sock, States

LEMMA OpenSockSettled ==
  ASSUME NEW k \in Sock, k.state = "disconnected", ~k.timer, NEW r \in OpenSock(k)
  PROVE  Settled(r)
<1>1. CASE r = k BY <1>1 DEF Settled
<1>2. CASE r = [k EXCEPT !.state = "connecting", !.due = TRUE, !.timer = TRUE]
  BY <1>2 DEF Settled, Sock, States
<1>3. CASE r = [k EXCEPT !.state = "connected", !.due = TRUE]
  BY <1>3 DEF Settled, Sock, States
<1> QED BY <1>1, <1>2, <1>3 DEF OpenSock

LEMMA ReopenSockSettled ==
  ASSUME NEW k \in Sock, NEW r \in ReopenSock(k)
  PROVE  Settled(r)
<1>1. CASE k.out = <<>>
  BY <1>1, CloseSockClosed DEF ReopenSock, Settled
<1>2. CASE k.out # <<>>
  BY <1>2, CloseSockClosed, OpenSockSettled DEF ReopenSock
<1> QED BY <1>1, <1>2

\* Sending moves requests from the queue to the server and changes no state.
LEMMA SentKeeps ==
  ASSUME NEW k \in Sock, NEW n \in 0 .. Len(k.out)
  PROVE  /\ Sent(k, n) \in Sock
         /\ Sent(k, n).state = k.state /\ Sent(k, n).timer = k.timer
         /\ Sent(k, n).due = k.due
         /\ Len(Sent(k, n).out) = Len(k.out) - n
<1>1. k.out \in Seq(Reqs) /\ k.got \in Seq(Reqs) /\ Len(k.out) \in Nat BY DEF Sock
<1>2. SubSeq(k.out, n + 1, Len(k.out)) \in Seq(Reqs)
      /\ Len(SubSeq(k.out, n + 1, Len(k.out))) = Len(k.out) - n
  BY <1>1
<1>3. SubSeq(k.out, 1, n) \in Seq(Reqs) /\ SubSeq(k.out, 2, n) \in Seq(Reqs)
  BY <1>1
<1>4. k.got \o SubSeq(k.out, IF k.part = "gone" THEN 2 ELSE 1, n) \in Seq(Reqs)
  BY <1>1, <1>3
<1> QED BY <1>2, <1>4 DEF Sent, Sock

LEMMA AsyncSendSettled ==
  ASSUME NEW k \in Sock, k.state = "connected", ~k.timer, NEW r \in AsyncSend(k)
  PROVE  Settled(r)
<1> DEFINE Begun(q) == {q, IF q.part = "none" THEN [q EXCEPT !.part = "here"] ELSE q}
           Drop(q) == IF q.part = "none" THEN q
                      ELSE [q EXCEPT !.out = Tail(@), !.part = "none"]
           stops == UNION {Begun(Sent(k, n)) : n \in 0 .. Len(k.out) - 1}
<1>1. Len(k.out) \in Nat BY DEF Sock
<1>2. CASE r = Sent(k, Len(k.out))
  <2>1. Len(k.out) \in 0 .. Len(k.out) BY <1>1
  <2>2. r \in Sock /\ Len(r.out) = 0 BY <1>1, <1>2, <2>1, SentKeeps
  <2>3. r.out = <<>> BY <2>2 DEF Sock
  <2> QED BY <1>2, <2>1, <2>2, <2>3, SentKeeps DEF Settled
<1>3. ASSUME NEW q \in stops
      PROVE  /\ q \in Sock /\ q.state = "connected" /\ ~q.timer
             /\ q.out # <<>>
  <2>1. PICK n \in 0 .. Len(k.out) - 1 : q \in Begun(Sent(k, n)) OBVIOUS
  <2> DEFINE s == Sent(k, n)
  <2>2. n \in 0 .. Len(k.out) BY <1>1
  <2>3. s \in Sock /\ s.state = "connected" /\ ~s.timer /\ Len(s.out) = Len(k.out) - n
    BY <2>2, SentKeeps
  <2>4. s.out # <<>> BY <1>1, <2>3
  <2> HIDE DEF s
  <2>5. q = s \/ q = [s EXCEPT !.part = "here"] BY <2>1 DEF s
  <2> QED BY <2>3, <2>4, <2>5 DEF Sock
<1>4. CASE r \in {[q EXCEPT !.due = TRUE] : q \in stops}
  <2>1. PICK q \in stops : r = [q EXCEPT !.due = TRUE] BY <1>4
  <2> QED BY <1>3, <2>1 DEF Settled, Sock
<1>5. CASE r \in UNION {ReopenSock(Drop(q)) : q \in stops}
  <2>1. PICK q \in stops : r \in ReopenSock(Drop(q)) BY <1>5
  <2>2. q \in Sock /\ q.out \in Seq(Reqs) /\ Tail(q.out) \in Seq(Reqs) BY <1>3, <2>1 DEF Sock
  <2>3. Drop(q) \in Sock BY <2>2 DEF Sock
  <2> QED BY <2>1, <2>3, ReopenSockSettled
<1> QED BY <1>2, <1>4, <1>5 DEF AsyncSend

LEMMA SendIfConnectedSettled ==
  ASSUME NEW k \in Sock, k.timer <=> k.state = "connecting",
         k.state = "connecting" => k.due, NEW r \in SendIfConnected(k)
  PROVE  Settled(r)
<1>1. CASE k.state = "connected"
  BY <1>1, AsyncSendSettled DEF SendIfConnected
<1>2. CASE k.state # "connected"
  BY <1>2 DEF SendIfConnected, Settled, Sock, States
<1> QED BY <1>1, <1>2
-----------------------------------------------------------------------------
LEMMA InitInv == Init => IInv
<1> SUFFICES ASSUME Init PROVE IInv OBVIOUS
<1>1. Closed \in Sock /\ Closed.state = "disconnected" /\ ~Closed.timer
  BY DEF Closed, Sock, States
<1>2. Settled(sock) BY <1>1, OpenSockSettled DEF Init
<1>3. pipe = <<>> /\ pipe \in Seq(Reqs) /\ Len(pipe) = 0 BY DEF Init
<1>4. Len(pipe) <= PipeCap BY <1>3, PipeCapAssumption
<1> QED BY <1>2, <1>3, <1>4 DEF Init, IInv

\* What handle_notify takes from the pipe is queued and, on a connection, sent.
LEMMA NotifyTakeSettled ==
  ASSUME IInv, NotifyTake PROVE Settled(sock')
<1> DEFINE pushed == [sock EXCEPT !.out = Append(@, Head(pipe))]
<1>1. Head(pipe) \in Reqs BY DEF IInv, NotifyTake
<1>2. Append(sock.out, Head(pipe)) \in Seq(Reqs) BY <1>1 DEF IInv, Settled, Sock
<1>3. /\ pushed \in Sock /\ pushed.state = sock.state /\ pushed.timer = sock.timer
      /\ pushed.due = sock.due
  BY <1>2 DEF IInv, Settled, Sock
<1> HIDE DEF pushed
<1>4. PICK k \in IF sock.state = "disconnected" THEN OpenSock(pushed) ELSE {pushed} :
        sock' \in SendIfConnected(k)
  BY DEF NotifyTake, pushed
<1>5. CASE sock.state = "disconnected"
  <2>1. Settled(k) BY <1>3, <1>4, <1>5, OpenSockSettled DEF IInv, Settled
  <2> QED BY <1>4, <2>1, SendIfConnectedSettled DEF Settled
<1>6. CASE sock.state # "disconnected"
  <2>1. k = pushed BY <1>4, <1>6
  <2> QED BY <1>3, <1>4, <2>1, SendIfConnectedSettled DEF IInv, Settled
<1> QED BY <1>5, <1>6

LEMMA HandleWriteSettled ==
  ASSUME IInv, HandleWrite PROVE Settled(sock')
<1> DEFINE k == [sock EXCEPT !.due = FALSE]
           opened == IF k.state = "connecting"
                       THEN ReopenSock(k) \cup
                            {[k EXCEPT !.state = "connected", !.timer = FALSE]}
                       ELSE {k}
<1>1. k \in Sock /\ k.state = sock.state /\ k.timer = sock.timer
  BY DEF IInv, Settled, Sock
<1>2. PICK q \in opened : sock' \in SendIfConnected(q) BY DEF HandleWrite
<1> HIDE DEF k
<1>3. /\ q \in Sock
      /\ q.timer <=> q.state = "connecting"
      /\ q.state = "connecting" => q.due
  <2>1. CASE q \in ReopenSock(k) BY <1>1, <2>1, ReopenSockSettled DEF Settled
  <2>2. CASE q = [k EXCEPT !.state = "connected", !.timer = FALSE]
    BY <1>1, <2>2 DEF Sock, States
  <2>3. CASE k.state # "connecting" /\ q = k
    BY <1>1, <2>3 DEF IInv, Settled
  <2> QED BY <1>2, <2>1, <2>2, <2>3
<1> QED BY <1>2, <1>3, SendIfConnectedSettled

LEMMA NextInv == IInv /\ [Next]_vars => IInv'
<1> SUFFICES ASSUME IInv, [Next]_vars PROVE IInv' OBVIOUS
<1> USE PipeCapAssumption
<1>0. sock \in Sock /\ pipe \in Seq(Reqs) BY DEF IInv, Settled
<1>1. ASSUME NEW r \in Reqs, Submit(r) PROVE IInv'
  <2>1. CASE up
    <3>1. pipe' = Append(pipe, r) /\ edge' = TRUE /\ Len(pipe) < PipeCap
      BY <1>1, <2>1 DEF Submit
    <3>2. pipe' \in Seq(Reqs) /\ Len(pipe') <= PipeCap BY <1>0, <3>1
    <3> QED BY <1>1, <3>1, <3>2 DEF Submit, IInv
  <2>2. CASE ~up BY <1>1, <2>2 DEF Submit, IInv
  <2> QED BY <2>1, <2>2
<1>2. CASE NotifyBegin BY <1>2 DEF NotifyBegin, IInv
<1>3. CASE NotifyTake
  <2>1. Tail(pipe) \in Seq(Reqs) /\ Len(Tail(pipe)) <= PipeCap
    BY <1>0, <1>3 DEF NotifyTake, IInv
  <2>2. Settled(sock') BY <1>3, NotifyTakeSettled
  <2> QED BY <1>3, <2>1, <2>2 DEF NotifyTake, IInv, Settled
<1>4. CASE NotifyEnd BY <1>4 DEF NotifyEnd, IInv
<1>5. CASE HandleWrite
  BY <1>5, HandleWriteSettled DEF HandleWrite, IInv, Settled
<1>6. CASE HandleRead
  BY <1>0, <1>6, ReopenSockSettled DEF HandleRead, IInv, Settled
<1>7. CASE ConnectTimeout
  <2>1. [sock EXCEPT !.out = <<>>, !.part = "none", !.timer = FALSE] \in Sock
    <3>1. <<>> \in Seq(Reqs) OBVIOUS
    <3> QED BY <1>0, <3>1 DEF Sock
  <2> QED BY <1>7, <2>1, ReopenSockSettled DEF ConnectTimeout, IInv, Settled
<1>8. CASE Close
  BY <1>0, <1>8, CloseSockClosed DEF Close, IInv, Settled
<1>9. CASE GoesAway \/ ComesBack
  <2>1. /\ UNCHANGED <<given, pipe, edge, notifying, sock, up>>
        /\ away' \in BOOLEAN
    BY <1>9 DEF GoesAway, ComesBack
  <2> QED BY <2>1 DEF IInv, Settled
<1>10. CASE UNCHANGED vars BY <1>10 DEF vars, IInv, Settled
<1> QED BY <1>1, <1>2, <1>3, <1>4, <1>5, <1>6, <1>7, <1>8, <1>9, <1>10 DEF Next

LEMMA Invariance == Spec => []IInv
BY InitInv, NextInv, PTL DEF Spec

\* Every reachable state has its type: the queue and the pipe hold requests,
\* the pipe never more than its capacity (connector.h).
THEOREM TypeCorrect == Spec => []TypeOK
<1>1. IInv => TypeOK BY DEF IInv, Settled, TypeOK
<1> QED BY <1>1, Invariance, PTL

\* The timer of open_sock runs exactly while the connect is in progress, on
\* every way into and out of that state.
THEOREM ConnectsAreTimed == Spec => []TimerWhileConnecting
<1>1. IInv => TimerWhileConnecting BY DEF IInv, Settled, TimerWhileConnecting
<1> QED BY <1>1, Invariance, PTL

\* handle_notify and async_send leave nothing behind on an edge that has been
\* used up.
THEOREM NothingIsStranded == Spec => []NothingStranded
<1>1. IInv => NothingStranded BY DEF IInv, Settled, NothingStranded
<1> QED BY <1>1, Invariance, PTL
-----------------------------------------------------------------------------
(***************************************************************************)
(* The connector implements LossyFifo.  Leaves(a, b): from socket a to b, a*)
(* prefix of the queue has left, of which a run has reached the server.    *)
(***************************************************************************)
Leaves(a, b) ==
  \E n \in 0 .. Len(a.out) : \E i \in 1 .. n + 1, j \in 0 .. n :
    /\ b.out = SubSeq(a.out, n + 1, Len(a.out))
    /\ b.got = a.got \o SubSeq(a.out, i, j)

LEMMA NothingLeaves ==
  ASSUME NEW a \in Sock, NEW b, b.out = a.out, b.got = a.got
  PROVE  Leaves(a, b)
<1>1. a.out \in Seq(Reqs) /\ a.got \in Seq(Reqs) /\ Len(a.out) \in Nat BY DEF Sock
<1>2. b.out = SubSeq(a.out, 1, Len(a.out)) BY <1>1, SubSeqFull
<1>3. SubSeq(a.out, 1, 0) = <<>> BY SubSeqEmpty
<1>4. b.got = a.got \o SubSeq(a.out, 1, 0) BY <1>1, <1>3, ConcatEmptySeq
<1>5. 0 \in 0 .. Len(a.out) /\ 1 \in 1 .. 0 + 1 /\ 0 \in 0 .. 0 /\ 0 + 1 = 1 BY <1>1
<1> QED BY <1>2, <1>4, <1>5 DEF Leaves

LEMMA OpenSockKeeps ==
  ASSUME NEW k \in Sock, NEW r \in OpenSock(k)
  PROVE  r \in Sock /\ r.out = k.out /\ r.got = k.got
BY DEF OpenSock, Sock, States

LEMMA ReopenSockKeeps ==
  ASSUME NEW k \in Sock, NEW r \in ReopenSock(k)
  PROVE  r.out = k.out /\ r.got = k.got
<1>1. CloseSock(k) \in Sock /\ CloseSock(k).out = k.out /\ CloseSock(k).got = k.got
  BY DEF CloseSock, Sock, States
<1> QED BY <1>1, OpenSockKeeps DEF ReopenSock

\* n requests are sent, and one that was begun may be dropped after them.
LEMMA SentLeaves ==
  ASSUME NEW k \in Sock, NEW n \in 0 .. Len(k.out)
  PROVE  /\ \A b : b.out = Sent(k, n).out /\ b.got = Sent(k, n).got => Leaves(k, b)
         /\ \A b : n < Len(k.out) /\ b.out = Tail(Sent(k, n).out)
                     /\ b.got = Sent(k, n).got => Leaves(k, b)
<1>1. k.out \in Seq(Reqs) /\ k.got \in Seq(Reqs) /\ Len(k.out) \in Nat BY DEF Sock
<1> DEFINE from == IF k.part = "gone" THEN 2 ELSE 1
<1>2. /\ Sent(k, n).out = SubSeq(k.out, n + 1, Len(k.out))
      /\ Sent(k, n).got = k.got \o SubSeq(k.out, from, n)
  BY DEF Sent, Sock
<1>3. \E i \in 1 .. n + 1, j \in 0 .. n : SubSeq(k.out, from, n) = SubSeq(k.out, i, j)
  <2>1. CASE from \in 1 .. n + 1
    <3>1. n \in 0 .. n BY <1>1
    <3> QED BY <2>1, <3>1
  <2>2. CASE from \notin 1 .. n + 1
    <3>1. n = 0 /\ from = 2 BY <1>1, <2>2
    <3>2. SubSeq(k.out, 2, 0) = <<>> /\ SubSeq(k.out, 1, 0) = <<>> BY SubSeqEmpty
    <3>3. 1 \in 1 .. n + 1 /\ 0 \in 0 .. n BY <3>1
    <3> QED BY <3>1, <3>2, <3>3
  <2> QED BY <2>1, <2>2
<1>4. PICK i \in 1 .. n + 1, j \in 0 .. n : SubSeq(k.out, from, n) = SubSeq(k.out, i, j)
  BY <1>3
<1> HIDE DEF from
<1>5. ASSUME NEW b, b.out = Sent(k, n).out, b.got = Sent(k, n).got PROVE Leaves(k, b)
  BY <1>2, <1>4, <1>5 DEF Leaves
<1>6. ASSUME NEW b, n < Len(k.out), b.out = Tail(Sent(k, n).out), b.got = Sent(k, n).got
      PROVE  Leaves(k, b)
  <2>1. n + 1 \in 1 .. Len(k.out) /\ Len(k.out) \in n + 1 .. Len(k.out) BY <1>1, <1>6
  <2>2. b.out = SubSeq(k.out, (n + 1) + 1, Len(k.out))
    BY <1>1, <1>2, <1>6, <2>1, HeadTailOfSubSeq
  <2>3. n + 1 \in 0 .. Len(k.out) /\ i \in 1 .. (n + 1) + 1 /\ j \in 0 .. n + 1
    BY <1>1, <2>1
  <2> QED BY <1>2, <1>4, <1>6, <2>2, <2>3 DEF Leaves
<1> QED BY <1>5, <1>6

LEMMA AsyncSendLeaves ==
  ASSUME NEW k \in Sock, NEW r \in AsyncSend(k)
  PROVE  Leaves(k, r)
<1> DEFINE Begun(q) == {q, IF q.part = "none" THEN [q EXCEPT !.part = "here"] ELSE q}
           Drop(q) == IF q.part = "none" THEN q
                      ELSE [q EXCEPT !.out = Tail(@), !.part = "none"]
           stops == UNION {Begun(Sent(k, n)) : n \in 0 .. Len(k.out) - 1}
<1>1. Len(k.out) \in Nat BY DEF Sock
<1>2. CASE r = Sent(k, Len(k.out))
  <2>1. Len(k.out) \in 0 .. Len(k.out) BY <1>1
  <2> QED BY <1>2, <2>1, SentLeaves
<1>3. ASSUME NEW q \in stops
      PROVE  \E n \in 0 .. Len(k.out) - 1 :
               /\ q \in Sock
               /\ q.out = Sent(k, n).out /\ q.got = Sent(k, n).got
  <2>1. PICK n \in 0 .. Len(k.out) - 1 : q \in Begun(Sent(k, n)) OBVIOUS
  <2> DEFINE s == Sent(k, n)
  <2>2. n \in 0 .. Len(k.out) BY <1>1
  <2>3. s \in Sock BY <2>2, SentKeeps
  <2> HIDE DEF s
  <2>4. q = s \/ q = [s EXCEPT !.part = "here"] BY <2>1 DEF s
  <2>5. q \in Sock /\ q.out = s.out /\ q.got = s.got BY <2>3, <2>4 DEF Sock
  <2> QED BY <2>5 DEF s
<1>4. CASE r \in {[q EXCEPT !.due = TRUE] : q \in stops}
  <2>1. PICK q \in stops : r = [q EXCEPT !.due = TRUE] BY <1>4
  <2>2. PICK n \in 0 .. Len(k.out) - 1 :
          q \in Sock /\ q.out = Sent(k, n).out /\ q.got = Sent(k, n).got
    BY <1>3
  <2>3. r.out = q.out /\ r.got = q.got BY <2>1, <2>2 DEF Sock
  <2>4. n \in 0 .. Len(k.out) BY <1>1
  <2> QED BY <2>2, <2>3, <2>4, SentLeaves
<1>5. CASE r \in UNION {ReopenSock(Drop(q)) : q \in stops}
  <2>1. PICK q \in stops : r \in ReopenSock(Drop(q)) BY <1>5
  <2>2. PICK n \in 0 .. Len(k.out) - 1 :
          q \in Sock /\ q.out = Sent(k, n).out /\ q.got = Sent(k, n).got
    BY <1>3
  <2>3. n \in 0 .. Len(k.out) /\ n < Len(k.out) BY <1>1
  <2>4. Tail(q.out) \in Seq(Reqs)
    <3>1. Len(q.out) = Len(k.out) - n BY <2>2, <2>3, SentKeeps
    <3>2. q.out \in Seq(Reqs) /\ q.out # <<>> BY <1>1, <2>2, <3>1 DEF Sock
    <3> QED BY <3>2, HeadTailProperties
  <2>5. Drop(q) \in Sock BY <2>2, <2>4 DEF Sock
  <2>6. r.out = Drop(q).out /\ r.got = Drop(q).got BY <2>1, <2>5, ReopenSockKeeps
  <2>7. CASE q.part = "none" BY <2>2, <2>3, <2>6, <2>7, SentLeaves
  <2>8. CASE q.part # "none"
    <3>1. r.out = Tail(q.out) /\ r.got = q.got BY <2>2, <2>6, <2>8 DEF Sock
    <3> QED BY <2>2, <2>3, <3>1, SentLeaves
  <2> QED BY <2>7, <2>8
<1> QED BY <1>2, <1>4, <1>5 DEF AsyncSend

LEMMA SendIfConnectedLeaves ==
  ASSUME NEW k \in Sock, NEW r \in SendIfConnected(k)
  PROVE  Leaves(k, r)
BY AsyncSendLeaves, NothingLeaves DEF SendIfConnected

LEMMA SubSeqOfQueue ==
  ASSUME NEW s \in Seq(Reqs), NEW p \in Seq(Reqs), NEW n \in 0 .. Len(s),
         NEW i \in 1 .. n + 1, NEW j \in 0 .. n
  PROVE  /\ SubSeq(s, n + 1, Len(s)) \o p = SubSeq(s \o p, n + 1, Len(s \o p))
         /\ SubSeq(s, i, j) = SubSeq(s \o p, i, j)
<1>1. Len(s) \in Nat /\ Len(p) \in Nat BY LenProperties
<1>2. /\ s \o p \in Seq(Reqs) /\ Len(s \o p) = Len(s) + Len(p)
      /\ \A x \in 1 .. Len(s) + Len(p) :
           (s \o p)[x] = IF x <= Len(s) THEN s[x] ELSE p[x - Len(s)]
  BY ConcatProperties
<1> DEFINE t == SubSeq(s, n + 1, Len(s))
           l == t \o p
           r == SubSeq(s \o p, n + 1, Len(s \o p))
<1>3. /\ t \in Seq(Reqs) /\ Len(t) = Len(s) - n
      /\ \A x \in 1 .. Len(s) - n : t[x] = s[n + x]
  <2>1. \A x \in n + 1 .. Len(s) : s[x] \in Reqs BY <1>1, ElementOfSeq
  <2>2. n + 1 \in Int /\ Len(s) \in Int BY <1>1
  <2>3. /\ t \in Seq(Reqs)
        /\ Len(t) = IF n + 1 <= Len(s) THEN Len(s) - (n + 1) + 1 ELSE 0
        /\ \A x \in 1 .. Len(s) - (n + 1) + 1 : t[x] = s[n + 1 + x - 1]
    BY <2>1, <2>2, SubSeqProperties
  <2> QED BY <1>1, <2>3
<1>4. /\ r \in Seq(Reqs) /\ Len(r) = Len(s) + Len(p) - n
      /\ \A x \in 1 .. Len(s) + Len(p) - n : r[x] = (s \o p)[n + x]
  <2>1. \A x \in n + 1 .. Len(s \o p) : (s \o p)[x] \in Reqs
    BY <1>1, <1>2, ElementOfSeq
  <2>2. n + 1 \in Int /\ Len(s \o p) \in Int BY <1>1, <1>2
  <2>3. /\ r \in Seq(Reqs)
        /\ Len(r) = IF n + 1 <= Len(s \o p) THEN Len(s \o p) - (n + 1) + 1 ELSE 0
        /\ \A x \in 1 .. Len(s \o p) - (n + 1) + 1 : r[x] = (s \o p)[n + 1 + x - 1]
    BY <2>1, <2>2, SubSeqProperties
  <2> QED BY <1>1, <1>2, <2>3
<1> HIDE DEF t
<1>5. /\ l \in Seq(Reqs) /\ Len(l) = Len(s) - n + Len(p)
      /\ \A x \in 1 .. Len(s) - n + Len(p) :
           l[x] = IF x <= Len(s) - n THEN t[x] ELSE p[x - (Len(s) - n)]
  <2>1. /\ l \in Seq(Reqs) /\ Len(l) = Len(t) + Len(p)
        /\ \A x \in 1 .. Len(t) + Len(p) :
             l[x] = IF x <= Len(t) THEN t[x] ELSE p[x - Len(t)]
    BY <1>3, ConcatProperties
  <2> HIDE DEF l
  <2> QED BY <1>3, <2>1
<1> HIDE DEF l, r
<1>6. l = r
  <2>1. Len(l) = Len(r) BY <1>1, <1>4, <1>5
  <2>2. ASSUME NEW x \in 1 .. Len(l) PROVE l[x] = r[x]
    <3>1. x \in 1 .. Len(s) + Len(p) - n /\ n + x \in 1 .. Len(s) + Len(p)
      BY <1>1, <1>5
    <3>2. r[x] = IF n + x <= Len(s) THEN s[n + x] ELSE p[n + x - Len(s)]
      BY <1>2, <1>4, <3>1
    <3>3. CASE n + x <= Len(s)
      <4>1. x \in 1 .. Len(s) - n /\ x <= Len(s) - n BY <1>1, <3>1, <3>3
      <4>2. l[x] = t[x] /\ t[x] = s[n + x] BY <1>1, <1>3, <1>5, <3>1, <4>1
      <4> QED BY <3>2, <3>3, <4>2
    <3>4. CASE ~(n + x <= Len(s))
      <4>1. ~(x <= Len(s) - n) /\ n + x - Len(s) = x - (Len(s) - n)
        BY <1>1, <3>1, <3>4
      <4>2. x \in 1 .. Len(s) - n + Len(p) BY <1>1, <3>1
      <4>3. l[x] = p[x - (Len(s) - n)] BY <1>5, <4>1, <4>2
      <4> QED BY <3>2, <3>4, <4>1, <4>3
    <3> QED BY <3>3, <3>4
  <2> QED BY <1>4, <1>5, <2>1, <2>2, SeqEqual
<1>7. SubSeq(s, i, j) = SubSeq(s \o p, i, j)
  <2>1. CASE j < i BY <1>1, <2>1, SubSeqEmpty
  <2>2. CASE ~(j < i)
    <3>1. i \in 1 .. Len(s) /\ j \in 1 .. Len(s) BY <1>1, <2>2
    <3> QED BY <3>1, SubSeqOfConcat1
  <2> QED BY <2>1, <2>2
<1> QED BY <1>6, <1>7 DEF l, r, t

\* What leaves the front of out_queue_ leaves the front of the FIFO.
LEMMA LeaveStep ==
  ASSUME NEW a \in Sock, NEW p \in Seq(Reqs), pipe' = p, given' = given,
         a.out \o p = sock.out \o pipe, a.got = sock.got, Leaves(a, sock')
  PROVE  [Fifo!Next]_(Fifo!vars)
<1>1. a.out \in Seq(Reqs) /\ a.got \in Seq(Reqs) /\ Len(a.out) \in Nat BY DEF Sock
<1>2. PICK n \in 0 .. Len(a.out) : \E i \in 1 .. n + 1, j \in 0 .. n :
        /\ sock'.out = SubSeq(a.out, n + 1, Len(a.out))
        /\ sock'.got = a.got \o SubSeq(a.out, i, j)
  BY DEF Leaves
<1>3. PICK i \in 1 .. n + 1, j \in 0 .. n :
        /\ sock'.out = SubSeq(a.out, n + 1, Len(a.out))
        /\ sock'.got = a.got \o SubSeq(a.out, i, j)
  BY <1>2
<1> DEFINE q == sock.out \o pipe
<1>4. /\ SubSeq(a.out, n + 1, Len(a.out)) \o p
            = SubSeq(a.out \o p, n + 1, Len(a.out \o p))
      /\ SubSeq(a.out, i, j) = SubSeq(a.out \o p, i, j)
  BY <1>1, SubSeqOfQueue
<1>5. sock'.out \o pipe' = SubSeq(q, n + 1, Len(q))
  BY <1>3, <1>4
<1>6. sock'.got = sock.got \o SubSeq(q, i, j)
  BY <1>3, <1>4
<1>7. q \in Seq(Reqs) /\ Len(q) = Len(a.out) + Len(p) /\ Len(p) \in Nat
  BY <1>1, ConcatProperties, LenProperties
<1>8. CASE n = 0
  <2>1. SubSeq(q, 1, Len(q)) = q BY <1>7, SubSeqFull
  <2>2. SubSeq(q, i, j) = <<>> BY <1>8, SubSeqEmpty
  <2>3. sock.got \o <<>> = sock.got BY <1>1, ConcatEmptySeq
  <2> QED BY <1>5, <1>6, <1>8, <2>1, <2>2, <2>3 DEF Fifo!vars
<1>9. CASE n # 0
  <2>1. n \in 1 .. Len(q) BY <1>1, <1>7, <1>9
  <2>2. Fifo!Leave BY <1>5, <1>6, <2>1 DEF Fifo!Leave
  <2> QED BY <2>2 DEF Fifo!Next
<1> QED BY <1>8, <1>9

LEMMA ConcatAppend ==
  ASSUME NEW s \in Seq(Reqs), NEW t \in Seq(Reqs), NEW e \in Reqs
  PROVE  s \o Append(t, e) = Append(s \o t, e)
<1> DEFINE u == <<e>>
<1>1. u \in Seq(Reqs) OBVIOUS
<1>2. s \o t \in Seq(Reqs) BY ConcatProperties
<1>3. Append(t, e) = t \o u /\ Append(s \o t, e) = (s \o t) \o u
  BY <1>2, AppendIsConcat
<1> HIDE DEF u
<1>4. (s \o t) \o u = s \o (t \o u) BY <1>1, ConcatAssociative
<1> QED BY <1>3, <1>4

LEMMA InitFifo == Init => Fifo!Init
<1> SUFFICES ASSUME Init PROVE Fifo!Init OBVIOUS
<1>1. Closed \in Sock /\ Closed.out = <<>> /\ Closed.got = <<>>
  BY DEF Closed, Sock, States
<1>2. sock.out = <<>> /\ sock.got = <<>> BY <1>1, OpenSockKeeps DEF Init
<1>3. <<>> \o <<>> = <<>> BY ConcatEmptySeq, EmptySeq
<1> QED BY <1>2, <1>3 DEF Init, Fifo!Init

LEMMA NextFifo == IInv /\ [Next]_vars => [Fifo!Next]_(Fifo!vars)
<1> SUFFICES ASSUME IInv, [Next]_vars PROVE [Fifo!Next]_(Fifo!vars) OBVIOUS
<1>0. /\ sock \in Sock /\ sock.out \in Seq(Reqs) /\ sock.got \in Seq(Reqs)
      /\ pipe \in Seq(Reqs)
  BY DEF IInv, Settled, Sock
<1>1. ASSUME NEW r \in Reqs, Submit(r) PROVE Fifo!Next
  <2>1. sock.out \o Append(pipe, r) = Append(sock.out \o pipe, r)
    BY <1>0, ConcatAppend
  <2>2. Fifo!Give(r) BY <1>1, <2>1 DEF Submit, Fifo!Give
  <2> QED BY <2>2 DEF Fifo!Next
<1>2. CASE NotifyBegin BY <1>2 DEF NotifyBegin, Fifo!vars
<1>3. CASE NotifyTake
  <2> DEFINE pushed == [sock EXCEPT !.out = Append(@, Head(pipe))]
  <2>1. pipe # <<>> /\ Head(pipe) \in Reqs /\ Tail(pipe) \in Seq(Reqs)
    BY <1>0, <1>3, HeadTailProperties DEF NotifyTake
  <2>2. Append(sock.out, Head(pipe)) \in Seq(Reqs) BY <1>0, <2>1, AppendProperties
  <2>3. /\ pushed \in Sock /\ pushed.out = Append(sock.out, Head(pipe))
        /\ pushed.got = sock.got
    BY <1>0, <2>2 DEF Sock
  <2>4. pushed.out \o Tail(pipe) = sock.out \o pipe
    <3>1. pipe = <<Head(pipe)>> \o Tail(pipe) /\ <<Head(pipe)>> \in Seq(Reqs)
      BY <1>0, <2>1
    <3>2. Append(sock.out, Head(pipe)) = sock.out \o <<Head(pipe)>>
      BY <1>0, <2>1, AppendIsConcat
    <3> QED BY <1>0, <2>1, <2>3, <3>1, <3>2, ConcatAssociative
  <2> HIDE DEF pushed
  <2>5. PICK k \in IF sock.state = "disconnected" THEN OpenSock(pushed) ELSE {pushed} :
          sock' \in SendIfConnected(k)
    BY <1>3 DEF NotifyTake, pushed
  <2>6. k \in Sock /\ k.out = pushed.out /\ k.got = pushed.got
    BY <2>3, <2>5, OpenSockKeeps
  <2>7. Leaves(k, sock') BY <2>5, <2>6, SendIfConnectedLeaves
  <2>8. pipe' = Tail(pipe) /\ given' = given BY <1>3 DEF NotifyTake
  <2> QED BY <2>1, <2>3, <2>4, <2>6, <2>7, <2>8, LeaveStep
<1>4. CASE NotifyEnd BY <1>4 DEF NotifyEnd, Fifo!vars
<1>5. CASE HandleWrite
  <2> DEFINE k == [sock EXCEPT !.due = FALSE]
             opened == IF k.state = "connecting"
                         THEN ReopenSock(k) \cup
                              {[k EXCEPT !.state = "connected", !.timer = FALSE]}
                         ELSE {k}
  <2>1. k \in Sock /\ k.out = sock.out /\ k.got = sock.got BY <1>0 DEF Sock
  <2>2. PICK q \in opened : sock' \in SendIfConnected(q) BY <1>5 DEF HandleWrite
  <2> HIDE DEF k
  <2>3. q \in Sock /\ q.out = sock.out /\ q.got = sock.got
    <3>1. CASE q \in ReopenSock(k)
      BY <2>1, <3>1, ReopenSockKeeps, ReopenSockSettled DEF Settled
    <3>2. CASE q = [k EXCEPT !.state = "connected", !.timer = FALSE]
      BY <2>1, <3>2 DEF Sock, States
    <3>3. CASE q = k BY <2>1, <3>3
    <3> QED BY <2>2, <3>1, <3>2, <3>3
  <2>4. Leaves(q, sock') BY <2>2, <2>3, SendIfConnectedLeaves
  <2>5. pipe' = pipe /\ given' = given BY <1>5 DEF HandleWrite
  <2> QED BY <1>0, <2>3, <2>4, <2>5, LeaveStep
<1>6. CASE HandleRead
  BY <1>0, <1>6, ReopenSockKeeps DEF HandleRead, Fifo!vars
<1>7. CASE ConnectTimeout
  <2> DEFINE k == [sock EXCEPT !.out = <<>>, !.part = "none", !.timer = FALSE]
  <2>1. k \in Sock /\ k.out = <<>> /\ k.got = sock.got
    <3>1. <<>> \in Seq(Reqs) OBVIOUS
    <3> QED BY <1>0, <3>1 DEF Sock
  <2>2. sock' \in ReopenSock(k) BY <1>7 DEF ConnectTimeout
  <2> HIDE DEF k
  <2>3. sock'.out = <<>> /\ sock'.got = sock.got BY <2>1, <2>2, ReopenSockKeeps
  <2>4. Leaves(sock, sock')
    <3>1. Len(sock.out) \in Nat BY <1>0
    <3>2. SubSeq(sock.out, Len(sock.out) + 1, Len(sock.out)) = <<>>
      BY <3>1, SubSeqEmpty
    <3>3. sock.got \o SubSeq(sock.out, 1, 0) = sock.got
      BY <1>0, SubSeqEmpty, ConcatEmptySeq
    <3>4. /\ Len(sock.out) \in 0 .. Len(sock.out)
          /\ 1 \in 1 .. Len(sock.out) + 1 /\ 0 \in 0 .. Len(sock.out)
      BY <3>1
    <3> QED BY <2>3, <3>2, <3>3, <3>4 DEF Leaves
  <2>5. pipe' = pipe /\ given' = given BY <1>7 DEF ConnectTimeout
  <2> QED BY <1>0, <2>4, <2>5, LeaveStep
<1>8. CASE Close
  <2>1. CloseSock(sock).out = sock.out /\ CloseSock(sock).got = sock.got
    BY <1>0 DEF CloseSock, Sock
  <2> QED BY <1>8, <2>1 DEF Close, Fifo!vars
<1>9. CASE GoesAway \/ ComesBack BY <1>9 DEF GoesAway, ComesBack, Fifo!vars
<1>10. CASE UNCHANGED vars BY <1>10 DEF vars, Fifo!vars
<1> QED BY <1>1, <1>2, <1>3, <1>4, <1>5, <1>6, <1>7, <1>8, <1>9, <1>10 DEF Next

\* The connector is a FIFO that loses: whatever connections it opens and
\* loses, and wherever they stop, requests reach the server in the order in
\* which async_send was called, each at most once.
THEOREM ConnectorIsALossyFifo == Spec => ImplementsFifo
BY InitFifo, NextFifo, Invariance, PTL DEF Spec, ImplementsFifo, Fifo!Spec
=============================================================================
