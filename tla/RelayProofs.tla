------------------------------ MODULE RelayProofs ------------------------------
(***************************************************************************)
(* Proofs about Relay, for any marks, any sockets and any queues.          *)
(*                                                                         *)
(* A handler maps the table of both ends to another one.  Sound says what  *)
(* such a table must be while the read loop of d is running: the pair is   *)
(* mutual, every edge is kept, who is deaf will be woken, and the queue of *)
(* the device is bounded.  Limited is the part of it that a turn of the    *)
(* read loop may break before it looks at the mark.                        *)
(***************************************************************************)
EXTENDS Relay, TLAPS

Table == [Ends -> End]

Mutual(E) == \A e \in Ends : E[e].paired => E[e].live /\ E[Other(e)].paired

ReadEdges(E, d) ==
  \A e \in Ends : E[e].live /\ d # e /\ E[e].rd /\ E[e].reg
                  /\ (E[e].in > 0 \/ E[e].line # "up") => E[e].rev

\* But for the ends in S, to which something is about to be sent.
WriteEdges(E, S) ==
  \A e \in Ends \ S : E[e].live /\ E[e].out > 0 => E[e].wev \/ E[e].full

\* Who does not read waits for the other end to go below its low mark.
Woken(E) == \A e \in Ends : E[e].paired /\ ~E[e].rd => E[Other(e)].out > Low

\* After send_error an end neither reads nor is deaf.
Muted(E) == \A e \in Ends : E[e].live /\ ~E[e].reg => E[e].rd /\ ~E[e].rev

\* A client that has lost its line reads once more to see the end of it.
Bounded(E) == /\ E["server"].out <= Most + 1
              /\ E["client"].paired /\ E["client"].est => E["server"].out <= Most

Limited(E) == E["client"].paired /\ E["client"].rd =>
                \/ E["server"].out < Most
                \/ E["server"].out = Most /\ ~E["client"].est

SoundBut(E, d, S) == /\ E \in Table /\ Mutual(E) /\ ReadEdges(E, d) /\ WriteEdges(E, S)
                     /\ Woken(E) /\ Muted(E) /\ Bounded(E)

\* The answers of a device are sent when its read loop ends.
Sound(E, d) == SoundBut(E, d, IF d = "server" THEN {"client"} ELSE {})

\* Whose read loop is running reads, and a device has a client.
Reader(E, d) == d \in Ends => /\ E[d].live /\ E[d].rd /\ E[d].reg
                              /\ d = "server" => E[d].paired

\* A client that waits for a device has none and reads on.
Waiter(E, w) == w # "no" => E["client"].live /\ ~E["client"].paired /\ E["client"].rd

IInv == /\ Sound(end, doing) /\ Limited(end)
        /\ Reader(end, doing) /\ Waiter(end, waits)
        /\ stream \in Streams /\ inq \in 0..Kept
        /\ waits \in {"no", "armed", "fired"}
        /\ doing \in Ends \cup {"none"}
        /\ fault \in {"none", "TrailerAssert"}

-----------------------------------------------------------------------------
\* What the marks and the queue of a waiting client say of Most.
LEMMA MostBounds == Most \in Nat /\ Most > 0 /\ High <= Most /\ Kept < Most
BY RelayAssumption DEF Most

LEMMA OtherEnd == \A e \in Ends : Other(e) \in Ends /\ Other(e) # e /\ Other(Other(e)) = e
BY DEF Ends, Other

\* Two ends that differ in the queue and in what the socket takes, at most.
SentFrom(y, x) ==
  /\ y.live = x.live /\ y.paired = x.paired /\ y.rd = x.rd /\ y.reg = x.reg
  /\ y.est = x.est /\ y.in = x.in /\ y.line = x.line /\ y.rev = x.rev /\ y.wev = x.wev

\* async_send_impl that does not throw empties the queue or fills the socket.
LEMMA WrittenSends ==
  ASSUME NEW E \in Table, NEW e \in Ends, ~Throws(E, e)
  PROVE  LET W == Written(E, e)
         IN /\ W \in Table /\ W[Other(e)] = E[Other(e)] /\ SentFrom(W[e], E[e])
            /\ W[e].out <= E[e].out /\ (W[e].out > 0 => W[e].full)
            /\ E[e].out > 0 /\ E[e].room > 0 => W[e].out < E[e].out
<1> DEFINE x == E[e]
           n == IF x.out <= x.room THEN x.out ELSE x.room
           W == Written(E, e)
<1>1. /\ x \in End /\ x.out \in Nat /\ x.room \in 0..Room /\ Room \in Nat
      /\ x.closing \in BOOLEAN /\ x.full \in BOOLEAN /\ Other(e) # e
  BY RelayAssumption, OtherEnd DEF Table, End
<1> HIDE DEF n, W
<1>2. CASE x.out = 0
  <2>1. W = E BY <1>2 DEF Written, W
  <2> QED BY <1>1, <1>2, <2>1 DEF SentFrom, W
<1>3. CASE x.out # 0 /\ x.line = "rst"
  <2>1. W = [E EXCEPT ![e].closing = TRUE] BY <1>3 DEF Written, W
  <2>2. W[e].closing BY <1>1, <2>1 DEF Table, End
  <2> QED BY <1>3, <2>2 DEF Throws, W
<1>4. CASE x.out # 0 /\ x.line # "rst"
  <2> DEFINE y == [x EXCEPT !.out = @ - n, !.room = @ - n, !.full = @ \/ n < x.out]
  <2>1. W = [E EXCEPT ![e] = y]
    BY <1>4 DEF Written, W, n
  <2>2. n \in Nat /\ n <= x.out /\ n <= x.room BY <1>1 DEF n
  <2>3. x.out - n \in Nat /\ x.room - n \in 0..Room /\ (x.full \/ n < x.out) \in BOOLEAN
    BY <1>1, <2>2
  <2>4. y \in End /\ SentFrom(y, x) /\ y.out = x.out - n /\ y.full = (x.full \/ n < x.out)
    BY <1>1, <2>3 DEF End, SentFrom
  <2> HIDE DEF y
  <2>5. W \in Table /\ W[e] = y /\ W[Other(e)] = E[Other(e)]
    BY <1>1, <2>1, <2>4 DEF Table
  <2>6. x.out - n > 0 => n < x.out BY <1>1, <2>2
  <2>7. y.out > 0 => y.full BY <2>4, <2>6
  <2>8. y.out <= x.out BY <1>1, <2>2, <2>4
  <2>9. x.room > 0 => y.out < x.out BY <1>1, <1>4, <2>2, <2>4 DEF n
  <2> QED BY <2>4, <2>5, <2>7, <2>8, <2>9 DEF W
<1> QED BY <1>2, <1>3, <1>4

\* Two ends that differ in whether they read and what wakes them, at most.
WokenFrom(y, x) ==
  /\ y.live = x.live /\ y.paired = x.paired /\ y.reg = x.reg /\ y.out = x.out
  /\ y.in = x.in /\ y.full = x.full /\ y.line = x.line /\ y.wev = x.wev
  /\ x.rd => y.rd
  /\ y.rev = x.rev \/ (~x.rd /\ y.rd /\ y.rev)
  /\ y.rd = x.rd \/ y.rev
  /\ y.est => x.est

LEMMA EnableReadWakes ==
  ASSUME NEW E \in Table, NEW e \in Ends
  PROVE  LET R == EnableRead(E, e)
         IN /\ R \in Table /\ R[Other(e)] = E[Other(e)] /\ R[e].rd
            /\ WokenFrom(R[e], E[e]) /\ R[e].est = E[e].est
<1> DEFINE R == EnableRead(E, e)
           y == [E[e] EXCEPT !.rd = TRUE, !.rev = TRUE]
<1>1. E[e] \in End /\ Other(e) # e BY OtherEnd DEF Table
<1>2. CASE E[e].rd
  <2>1. R = E BY <1>2 DEF EnableRead
  <2> QED BY <1>1, <1>2, <2>1 DEF WokenFrom
<1>3. CASE ~E[e].rd
  <2>1. R = [E EXCEPT ![e] = y] BY <1>3 DEF EnableRead
  <2>2. y \in End /\ y.rd /\ y.rev /\ y.est = E[e].est BY <1>1 DEF End
  <2>3. /\ y.live = E[e].live /\ y.paired = E[e].paired /\ y.reg = E[e].reg
        /\ y.out = E[e].out /\ y.in = E[e].in /\ y.full = E[e].full
        /\ y.line = E[e].line /\ y.wev = E[e].wev
    BY <1>1 DEF End
  <2> HIDE DEF y
  <2>4. R \in Table /\ R[e] = y /\ R[Other(e)] = E[Other(e)]
    BY <1>1, <2>1, <2>2 DEF Table
  <2>5. WokenFrom(y, E[e]) BY <1>3, <2>2, <2>3 DEF WokenFrom
  <2> QED BY <2>2, <2>4, <2>5
<1> QED BY <1>2, <1>3

\* async_send: it wakes the other end when it is low, or when that has to
\* see the end of its line.
LEMMA SentWakes ==
  ASSUME NEW E \in Table, NEW e \in Ends, ~Throws(E, e)
  PROVE  LET R == Sent(E, e)
             o == Other(e)
         IN /\ R \in Table /\ SentFrom(R[e], E[e]) /\ R[e].out <= E[e].out
            /\ R[e].out > 0 => R[e].full
            /\ WokenFrom(R[o], E[o])
            /\ ~E[e].paired => R[o] = E[o]
            /\ E[e].paired => \/ R[o].rd /\ E[o].est /\ ~R[o].est
                              \/ R[o].rd /\ R[e].out <= Low
                              \/ R[o] = E[o] /\ R[e].out > Low
<1> DEFINE W == Written(E, e)
           R == Sent(E, e)
           o == Other(e)
<1>1. o \in Ends /\ o # e /\ Other(o) = e BY OtherEnd
<1>2. /\ W \in Table /\ W[o] = E[o] /\ SentFrom(W[e], E[e]) /\ W[e].out <= E[e].out
      /\ W[e].out > 0 => W[e].full
  BY WrittenSends
<1>3. W[e].paired = E[e].paired BY <1>2 DEF SentFrom
<1>4. W[o] \in End /\ WokenFrom(W[o], E[o]) /\ W[e].out \in Nat /\ Low \in Nat
  BY <1>1, <1>2, RelayAssumption DEF WokenFrom, Table, End
<1>5. CASE ~E[e].paired
  <2>1. R = W BY <1>3, <1>5 DEF Sent
  <2> QED BY <1>2, <1>4, <1>5, <2>1
<1>6. CASE E[e].paired /\ W[o].est /\ W[o].line # "up"
  <2> DEFINE y == [W[o] EXCEPT !.est = FALSE]
             V == [W EXCEPT ![o] = y]
  <2>1. R = EnableRead(V, o) BY <1>3, <1>6 DEF Sent
  <2>2. y \in End /\ ~y.est /\ WokenFrom(y, E[o]) BY <1>2, <1>4 DEF End, WokenFrom
  <2> HIDE DEF y
  <2>3. V \in Table /\ V[o] = y /\ V[e] = W[e] BY <1>1, <1>2, <2>2 DEF Table
  <2> HIDE DEF V
  <2>4. R \in Table /\ R[e] = W[e] /\ R[o].rd /\ ~R[o].est /\ WokenFrom(R[o], y)
    BY <1>1, <2>1, <2>2, <2>3, EnableReadWakes
  <2>5. WokenFrom(R[o], E[o]) BY <2>2, <2>4 DEF WokenFrom
  <2> QED BY <1>2, <1>6, <2>4, <2>5
<1>7. CASE E[e].paired /\ ~(W[o].est /\ W[o].line # "up")
  <2>1. CASE W[e].out <= Low
    <3>1. R = EnableRead(W, o) BY <1>3, <1>7, <2>1 DEF Sent, IsLow
    <3>2. R \in Table /\ R[e] = W[e] /\ R[o].rd /\ WokenFrom(R[o], E[o])
      BY <1>1, <1>2, <3>1, EnableReadWakes
    <3> QED BY <1>2, <1>7, <2>1, <3>2
  <2>2. CASE ~(W[e].out <= Low)
    <3>1. R = W BY <1>3, <1>7, <2>2 DEF Sent, IsLow
    <3>2. W[e].out > Low BY <1>4, <2>2
    <3> QED BY <1>2, <1>4, <1>7, <3>1, <3>2
  <2> QED BY <2>1, <2>2
<1> QED BY <1>5, <1>6, <1>7

\* What SentOrClosed leaves of an end that lives is paired and registered as
\* before, and reads if it did.
Stays(y, x) == y.live => /\ x.live /\ y.paired = x.paired /\ y.reg = x.reg
                         /\ x.rd => y.rd

LEMMA GoneSound ==
  ASSUME NEW d, NEW S, NEW R, R = [x \in Ends |-> Gone]
  PROVE  SoundBut(R, d, S) /\ Limited(R) /\ \A x \in Ends : ~R[x].live
<1>1. Gone \in End BY RelayAssumption DEF Gone, End
<1>2. \A x \in Ends : R[x] = Gone OBVIOUS
<1>3. /\ ~Gone.live /\ ~Gone.paired /\ Gone.out = 0 BY DEF Gone
<1>4. R \in Table BY <1>1 DEF Table
<1>5. "server" \in Ends /\ "client" \in Ends /\ 0 <= Most + 1 /\ Most > 0
  BY MostBounds DEF Ends
<1> QED BY <1>2, <1>3, <1>4, <1>5
        DEF SoundBut, Limited, Mutual, ReadEdges, WriteEdges, Woken, Muted, Bounded

\* An end without another one goes alone.
LEMMA DeleteSound ==
  ASSUME NEW E, NEW d, NEW e \in Ends, NEW S \in SUBSET Ends, SoundBut(E, d, S \cup {e}),
         ~E[e].paired
  PROVE  LET R == Delete(E, e)
         IN /\ SoundBut(R, d, S) /\ (Limited(E) => Limited(R))
            /\ ~R[e].live /\ R[Other(e)] = E[Other(e)]
<1> DEFINE R == Delete(E, e)
<1>1. Gone \in End BY RelayAssumption DEF Gone, End
<1>2. ~Gone.live /\ ~Gone.paired /\ Gone.out = 0 BY DEF Gone
<1>3. E \in Table BY DEF SoundBut
<1>4. R \in Table /\ R[e] = Gone /\ \A x \in Ends : x # e => R[x] = E[x]
  BY <1>1, <1>3 DEF Delete, Table
<1>5. \A x \in Ends : ~R[x].paired
  BY <1>2, <1>4, OtherEnd DEF SoundBut, Mutual, Ends, Other
<1> HIDE DEF R
<1>6. Mutual(R) /\ Woken(R) BY <1>5 DEF Mutual, Woken
<1>7. ReadEdges(R, d) /\ WriteEdges(R, S) /\ Muted(R)
  BY <1>2, <1>4 DEF SoundBut, ReadEdges, WriteEdges, Muted
<1>8. "server" \in Ends /\ "client" \in Ends /\ 0 <= Most + 1 /\ Most > 0
  BY MostBounds DEF Ends
<1>9. Bounded(R) /\ Limited(R)
  BY <1>2, <1>4, <1>5, <1>8 DEF SoundBut, Bounded, Limited
<1> QED BY <1>2, <1>4, <1>6, <1>7, <1>9, OtherEnd DEF SoundBut, R

LEMMA DeleteBothSound ==
  ASSUME NEW E, NEW d, NEW e \in Ends, NEW S \in SUBSET Ends, SoundBut(E, d, S \cup {e})
  PROVE  LET R == DeleteBoth(E, e)
         IN /\ SoundBut(R, d, S) /\ (Limited(E) => Limited(R)) /\ ~R[e].live
            /\ R[Other(e)].live => R[Other(e)] = E[Other(e)]
<1>1. CASE E[e].paired
  <2>1. DeleteBoth(E, e) = [x \in Ends |-> Gone] BY <1>1 DEF DeleteBoth
  <2> QED BY <2>1, GoneSound, OtherEnd
<1>2. CASE ~E[e].paired
  <2>1. DeleteBoth(E, e) = Delete(E, e) BY <1>2 DEF DeleteBoth
  <2> QED BY <1>2, <2>1, DeleteSound
<1> QED BY <1>1, <1>2

\* Sending makes good for what was pushed: it goes out or has an edge to come.
LEMMA SentSound ==
  ASSUME NEW E, NEW d, NEW e \in Ends, NEW S \in SUBSET Ends, SoundBut(E, d, S \cup {e}),
         ~Throws(E, e)
  PROVE  LET R == Sent(E, e)
         IN /\ SoundBut(R, d, S) /\ (Limited(E) => Limited(R))
            /\ \A x \in Ends : Stays(R[x], E[x])
<1> DEFINE R == Sent(E, e)
           o == Other(e)
<1> USE DEF SoundBut
<1>1. /\ o \in Ends /\ o # e /\ Other(o) = e /\ Other(e) = o
      /\ \A x \in Ends : x = e \/ x = o
  BY OtherEnd DEF Ends, Other
<1>2. /\ R \in Table /\ SentFrom(R[e], E[e]) /\ R[e].out <= E[e].out
      /\ R[e].out > 0 => R[e].full
      /\ WokenFrom(R[o], E[o])
      /\ ~E[e].paired => R[o] = E[o]
      /\ E[e].paired => \/ R[o].rd /\ E[o].est /\ ~R[o].est
                        \/ R[o].rd /\ R[e].out <= Low
                        \/ R[o] = E[o] /\ R[e].out > Low
  BY SentWakes
<1> HIDE DEF R, o
<1>3. Mutual(R) BY <1>1, <1>2 DEF Mutual, SentFrom, WokenFrom
<1>4. ReadEdges(R, d) BY <1>1, <1>2 DEF ReadEdges, SentFrom, WokenFrom
<1>5. WriteEdges(R, S) BY <1>1, <1>2 DEF WriteEdges, SentFrom, WokenFrom
<1>6. Muted(R) BY <1>1, <1>2 DEF Muted, SentFrom, WokenFrom
<1>7. Woken(R)
  <2>1. E[o].paired <=> E[e].paired BY <1>1 DEF Mutual
  <2>2. R[o].paired /\ ~R[o].rd => R[e].out > Low
    BY <1>2, <2>1 DEF WokenFrom
  <2>3. R[e].paired /\ ~R[e].rd => R[o].out > Low
    BY <1>1, <1>2 DEF Woken, SentFrom, WokenFrom
  <2> QED BY <1>1, <2>2, <2>3 DEF Woken
<1>8. /\ E[e].out \in Nat /\ R[e].out \in Nat /\ E[o].out \in Nat
      /\ Low \in Nat /\ Most \in Nat /\ Low < Most
  BY <1>1, <1>2, RelayAssumption, MostBounds DEF Table, End
<1>9. Bounded(R) /\ (Limited(E) => Limited(R))
  <2>1. CASE e = "client"
    <3>1. o = "server" BY <2>1 DEF o, Other
    <3> QED BY <1>2, <2>1, <3>1 DEF Bounded, Limited, SentFrom, WokenFrom
  <2>2. CASE e = "server"
    <3>1. o = "client" BY <2>2 DEF o, Other
    <3>2. E[o].paired <=> E[e].paired BY <1>1 DEF Mutual
    <3>3. Bounded(R) BY <1>2, <1>8, <2>2, <3>1 DEF Bounded, SentFrom, WokenFrom
    <3>4. ASSUME Limited(E), R[o].paired, R[o].rd
          PROVE  R[e].out < Most \/ (R[e].out = Most /\ ~R[o].est)
      <4>1. CASE R[o].rd /\ E[o].est /\ ~R[o].est
        <5>1. E[e].out <= Most BY <1>2, <2>2, <3>1, <3>4, <4>1 DEF Bounded, WokenFrom
        <5> QED BY <1>2, <1>8, <4>1, <5>1
      <4>2. CASE R[e].out <= Low BY <1>8, <4>2
      <4>3. CASE R[o] = E[o]
        <5>1. E[e].out < Most \/ (E[e].out = Most /\ ~R[o].est)
          BY <2>2, <3>1, <3>4, <4>3 DEF Limited
        <5> QED BY <1>2, <1>8, <5>1
      <4> QED BY <1>2, <3>2, <3>4, <4>1, <4>2, <4>3 DEF WokenFrom
    <3> QED BY <2>2, <3>1, <3>3, <3>4 DEF Limited
  <2> QED BY <2>1, <2>2 DEF Ends
<1>10. \A x \in Ends : Stays(R[x], E[x])
  BY <1>1, <1>2 DEF Stays, SentFrom, WokenFrom
<1> QED BY <1>2, <1>3, <1>4, <1>5, <1>6, <1>7, <1>9, <1>10 DEF R

LEMMA SentOrClosedSound ==
  ASSUME NEW E, NEW d, NEW e \in Ends, NEW S \in SUBSET Ends, SoundBut(E, d, S \cup {e})
  PROVE  LET R == SentOrClosed(E, e)
         IN /\ SoundBut(R, d, S) /\ (Limited(E) => Limited(R))
            /\ \A x \in Ends : Stays(R[x], E[x])
<1>1. CASE ~Throws(E, e)
  BY <1>1, SentSound DEF SentOrClosed
<1>2. CASE Throws(E, e)
  <2>1. SentOrClosed(E, e) = DeleteBoth(E, e) BY <1>2 DEF SentOrClosed
  <2>2. \A x \in Ends : x = e \/ x = Other(e) BY DEF Ends, Other
  <2> QED BY <2>1, <2>2, DeleteBothSound DEF Stays
<1> QED BY <1>1, <1>2

-----------------------------------------------------------------------------
(* Pieces of handlers. *)

\* Nothing that Sound speaks of has changed but what is left to read.
Alike(y, x) == /\ y.live = x.live /\ y.paired = x.paired /\ y.rd = x.rd /\ y.reg = x.reg
               /\ y.est = x.est /\ y.out = x.out

LEMMA ReceivedSound ==
  ASSUME NEW e \in Ends, NEW S, SoundBut(end, e, S), end[e].in > 0
  PROVE  LET R == Received(e)
         IN /\ SoundBut(R, e, S) /\ (Limited(end) => Limited(R))
            /\ R[Other(e)] = end[Other(e)] /\ Alike(R[e], end[e])
<1> DEFINE y == [end[e] EXCEPT !.in = @ - 1]
           R == Received(e)
<1>1. end \in Table /\ end[e] \in End /\ end[e].in \in 0..Inbound /\ Inbound \in Nat
  BY RelayAssumption DEF SoundBut, Table, End
<1>2. end[e].in - 1 \in 0..Inbound BY <1>1
<1>3. /\ y \in End /\ Alike(y, end[e]) /\ y.full = end[e].full
      /\ y.line = end[e].line /\ y.rev = end[e].rev /\ y.wev = end[e].wev
  BY <1>1, <1>2 DEF End, Alike
<1> HIDE DEF y
<1>4. R = [end EXCEPT ![e] = y] BY DEF Received, y
<1>5. R \in Table /\ R[e] = y /\ \A x \in Ends : x # e => R[x] = end[x]
  BY <1>1, <1>3, <1>4 DEF Table
<1> HIDE DEF R
<1>6. Mutual(R) /\ Woken(R) /\ Muted(R)
  BY <1>3, <1>5, OtherEnd DEF SoundBut, Mutual, Woken, Muted, Alike
<1>7. ReadEdges(R, e) /\ WriteEdges(R, S)
  BY <1>3, <1>5 DEF SoundBut, ReadEdges, WriteEdges, Alike
<1>8. Bounded(R) /\ (Limited(end) => Limited(R))
  BY <1>3, <1>5 DEF SoundBut, Bounded, Limited, Alike, Ends
<1> QED BY <1>3, <1>5, <1>6, <1>7, <1>8, OtherEnd DEF SoundBut, R

\* The device gets a buffer from a client that reads only.
MayPush(E, e) == e = "server" => Limited(E) /\ E["client"].paired /\ E["client"].rd

LEMMA PushSound ==
  ASSUME NEW E, NEW d, NEW e \in Ends, NEW S, SoundBut(E, d, S), MayPush(E, e)
  PROVE  LET R == Push(E, e)
         IN /\ SoundBut(R, d, S \cup {e})
            /\ R[Other(e)] = E[Other(e)]
            /\ R[e] = [E[e] EXCEPT !.out = @ + 1]
            /\ e = "client" /\ Limited(E) => Limited(R)
<1> DEFINE y == [E[e] EXCEPT !.out = @ + 1]
           R == Push(E, e)
<1>1. E \in Table /\ E[e] \in End /\ E[e].out \in Nat
  BY DEF SoundBut, Table, End
<1>2. \A x \in Ends : E[x].out \in Nat BY <1>1 DEF Table, End
<1>3. Low \in Nat /\ High \in Nat /\ Low < High BY RelayAssumption
<1>4. /\ y \in End /\ y.live = E[e].live /\ y.paired = E[e].paired /\ y.rd = E[e].rd
      /\ y.reg = E[e].reg /\ y.est = E[e].est /\ y.in = E[e].in /\ y.line = E[e].line
      /\ y.rev = E[e].rev /\ y.out = E[e].out + 1
  BY <1>1 DEF End
<1> HIDE DEF y
<1>5. R = [E EXCEPT ![e] = y] BY DEF Push, y
<1>6. R \in Table /\ R[e] = y /\ \A x \in Ends : x # e => R[x] = E[x]
  BY <1>1, <1>4, <1>5 DEF Table
<1> HIDE DEF R
<1>7. Mutual(R) /\ Muted(R)
  BY <1>4, <1>6, OtherEnd DEF SoundBut, Mutual, Muted
<1>8. ReadEdges(R, d) /\ WriteEdges(R, S \cup {e})
  BY <1>4, <1>6 DEF SoundBut, ReadEdges, WriteEdges
<1>9. Woken(R)
  BY <1>2, <1>3, <1>4, <1>6, OtherEnd DEF SoundBut, Woken
<1>10. Bounded(R) /\ (e = "client" /\ Limited(E) => Limited(R))
  <2>1. CASE e = "client"
    BY <1>4, <1>6, <2>1 DEF SoundBut, Bounded, Limited, Ends
  <2>2. CASE e = "server"
    <3>1. E["server"].out < Most \/ (E["server"].out = Most /\ ~E["client"].est)
      BY <2>2 DEF Limited, MayPush
    <3> QED BY <1>2, <1>3, <1>4, <1>6, <2>2, <3>1, MostBounds DEF SoundBut, Bounded, Ends
  <2> QED BY <2>1, <2>2 DEF Ends
<1> QED BY <1>5, <1>6, <1>7, <1>8, <1>9, <1>10, OtherEnd DEF SoundBut, R, y

\* At the high mark the client stops reading.
LEMMA TurnSound ==
  ASSUME NEW E, NEW w, SoundBut(E, "client", {}), Waiter(E, w),
         E["client"].live => E["client"].rd /\ E["client"].reg
  PROVE  LET t == Turn(E)
         IN /\ t[2] \in {"client", "none"}
            /\ Sound(t[1], t[2]) /\ Limited(t[1]) /\ Reader(t[1], t[2])
            /\ t[1]["client"].live = E["client"].live
            /\ Waiter(t[1], w)
<1> DEFINE c == E["client"]
           t == Turn(E)
<1>1. "client" \in Ends /\ "server" \in Ends /\ Other("client") = "server"
  BY DEF Ends, Other
<1>2. E \in Table /\ c \in End /\ E["server"].out \in Nat BY <1>1 DEF SoundBut, Table, End
<1>3. Low \in Nat /\ High \in Nat /\ Low < High BY RelayAssumption
<1>4. CASE ~c.live
  <2>1. t = <<E, "none">> BY <1>4 DEF Turn
  <2>2. ~c.paired BY <1>1, <1>4 DEF SoundBut, Mutual
  <2>3. ReadEdges(E, "none") BY <1>4 DEF SoundBut, ReadEdges, Ends
  <2> QED BY <2>1, <2>2, <2>3 DEF Sound, SoundBut, Limited, Reader, Ends
<1>5. CASE c.live /\ c.paired /\ IsHigh(E, "server")
  <2> DEFINE y == [c EXCEPT !.rd = FALSE]
             R == [E EXCEPT !["client"] = y]
  <2>1. t = <<R, "none">> BY <1>5 DEF Turn
  <2>2. /\ y \in End /\ ~y.rd /\ y.live = c.live /\ y.paired = c.paired /\ y.reg = c.reg
        /\ y.est = c.est /\ y.out = c.out /\ y.full = c.full /\ y.wev = c.wev
    BY <1>2 DEF End
  <2> HIDE DEF y
  <2>3. R \in Table /\ R["client"] = y /\ R["server"] = E["server"]
    BY <1>1, <1>2, <2>2 DEF Table
  <2> HIDE DEF R
  <2>4. Mutual(R) BY <2>2, <2>3 DEF SoundBut, Mutual, Ends, Other
  <2>5. ReadEdges(R, "none") BY <2>2, <2>3 DEF SoundBut, ReadEdges, Ends
  <2>6. WriteEdges(R, {}) BY <2>2, <2>3 DEF SoundBut, WriteEdges, Ends
  <2>7. E["server"].out > Low BY <1>2, <1>3, <1>5 DEF IsHigh
  <2>8. Woken(R) BY <2>2, <2>3, <2>7 DEF SoundBut, Woken, Ends, Other
  <2>9. Muted(R) BY <1>5, <2>2, <2>3 DEF SoundBut, Muted, Ends
  <2>10. Bounded(R) /\ Limited(R) BY <2>2, <2>3 DEF SoundBut, Bounded, Limited
  <2>11. Waiter(R, w) /\ Reader(R, "none") BY <1>5 DEF Waiter, Reader, Ends
  <2>12. Sound(R, "none")
    BY <2>3, <2>4, <2>5, <2>6, <2>8, <2>9, <2>10 DEF Sound, SoundBut
  <2>13. t[1] = R /\ t[2] = "none" BY <2>1
  <2> QED BY <2>2, <2>3, <2>10, <2>11, <2>12, <2>13
<1>6. CASE c.live /\ ~(c.paired /\ IsHigh(E, "server"))
  <2>1. t = <<E, "client">> BY <1>6 DEF Turn
  <2>2. Limited(E) BY <1>2, <1>3, <1>6, MostBounds DEF IsHigh, Limited
  <2>3. Sound(E, "client") /\ Reader(E, "client") BY <1>6 DEF Sound, Reader
  <2>4. t[1] = E /\ t[2] = "client" BY <2>1
  <2> QED BY <2>2, <2>3, <2>4
<1> QED BY <1>4, <1>5, <1>6

\* Being condemned or spared changes nothing of this.
LEMMA CondemnSound ==
  ASSUME NEW E, NEW d, NEW e \in Ends, NEW S, NEW b \in BOOLEAN, SoundBut(E, d, S)
  PROVE  LET R == [E EXCEPT ![e].closing = b]
         IN /\ SoundBut(R, d, S) /\ (Limited(E) => Limited(R))
            /\ R[Other(e)] = E[Other(e)] /\ Alike(R[e], E[e])
<1> DEFINE y == [E[e] EXCEPT !.closing = b]
           R == [E EXCEPT ![e].closing = b]
<1>1. E \in Table /\ E[e] \in End BY DEF SoundBut, Table
<1>2. /\ y \in End /\ Alike(y, E[e]) /\ y.in = E[e].in /\ y.line = E[e].line
      /\ y.rev = E[e].rev /\ y.wev = E[e].wev /\ y.full = E[e].full
  BY <1>1 DEF End, Alike
<1> HIDE DEF y
<1>3. R = [E EXCEPT ![e] = y] BY DEF y
<1>4. R \in Table /\ R[e] = y /\ \A x \in Ends : x # e => R[x] = E[x]
  BY <1>1, <1>2, <1>3 DEF Table
<1> HIDE DEF R
<1>5. Mutual(R) /\ Woken(R) /\ Muted(R)
  BY <1>2, <1>4, OtherEnd DEF SoundBut, Mutual, Woken, Muted, Alike
<1>6. ReadEdges(R, d) /\ WriteEdges(R, S)
  BY <1>2, <1>4 DEF SoundBut, ReadEdges, WriteEdges, Alike
<1>7. Bounded(R) /\ (Limited(E) => Limited(R))
  BY <1>2, <1>4 DEF SoundBut, Bounded, Limited, Alike, Ends
<1> QED BY <1>2, <1>4, <1>5, <1>6, <1>7, OtherEnd DEF SoundBut, R

LEMMA ReplySound ==
  ASSUME NEW E, SoundBut(E, "client", {}), Limited(E)
  PROVE  LET R == Reply(E, "client")
         IN /\ SoundBut(R, "client", {}) /\ Limited(R)
            /\ Stays(R["client"], E["client"])
<1> DEFINE P == Push(E, "client")
           Q == [P EXCEPT !["client"].closing = FALSE]
<1>1. "client" \in Ends BY DEF Ends
<1>2. E["client"] \in End BY <1>1 DEF SoundBut, Table
<1>3. /\ SoundBut(P, "client", {"client"}) /\ Limited(P)
      /\ P["client"] = [E["client"] EXCEPT !.out = @ + 1]
  BY <1>1, PushSound DEF MayPush
<1>4. /\ P["client"].live = E["client"].live /\ P["client"].paired = E["client"].paired
      /\ P["client"].rd = E["client"].rd /\ P["client"].reg = E["client"].reg
  BY <1>2, <1>3 DEF End
<1> HIDE DEF P
<1>5. SoundBut(Q, "client", {"client"}) /\ Limited(Q) /\ Alike(Q["client"], P["client"])
  BY <1>1, <1>3, CondemnSound
<1> HIDE DEF Q
<1>6. LET R == SentOrClosed(Q, "client")
      IN SoundBut(R, "client", {}) /\ Limited(R) /\ Stays(R["client"], Q["client"])
  BY ZenonT(30), <1>1, <1>5, SentOrClosedSound
<1>7. Reply(E, "client") = SentOrClosed(Q, "client") BY DEF Reply, P, Q
<1> QED BY <1>4, <1>5, <1>6, <1>7 DEF Stays, Alike

\* send_error: the client is not read any more.
LEMMA SendErrorSound ==
  ASSUME NEW E, NEW d \in {"client", "none"}, SoundBut(E, d, {}), Limited(E),
         E["client"].live /\ E["client"].rd
  PROVE  LET R == SendError(E, "client")
         IN /\ Sound(R, "none") /\ Limited(R)
            /\ R["client"].live => /\ R["client"].paired = E["client"].paired
                                   /\ R["client"].rd
<1> DEFINE P == Push(E, "client")
           y == [P["client"] EXCEPT !.reg = FALSE, !.rev = FALSE, !.closing = TRUE]
           Q == [P EXCEPT !["client"].reg = FALSE, !["client"].rev = FALSE,
                          !["client"].closing = TRUE]
<1>1. "client" \in Ends BY DEF Ends
<1>2. E["client"] \in End BY <1>1 DEF SoundBut, Table
<1>3. /\ SoundBut(P, d, {"client"}) /\ Limited(P)
      /\ P["client"] = [E["client"] EXCEPT !.out = @ + 1]
  BY <1>1, PushSound DEF MayPush
<1>4. P \in Table /\ P["client"] \in End BY <1>1, <1>3 DEF SoundBut, Table
<1>5. P["client"].live /\ P["client"].rd /\ P["client"].paired = E["client"].paired
  BY <1>2, <1>3 DEF End
<1> HIDE DEF P
<1>6. /\ y \in End /\ ~y.reg /\ ~y.rev /\ y.live = P["client"].live /\ y.rd = P["client"].rd
      /\ y.paired = P["client"].paired /\ y.est = P["client"].est /\ y.out = P["client"].out
  BY <1>4 DEF End
<1>7. Q = [P EXCEPT !["client"] = y] OBVIOUS
<1> HIDE DEF y
<1>8. Q \in Table /\ Q["client"] = y /\ Q["server"] = P["server"]
  BY <1>4, <1>6, <1>7 DEF Table, Ends
<1> HIDE DEF Q
<1>9. Mutual(Q) /\ Woken(Q)
  BY <1>3, <1>6, <1>8 DEF SoundBut, Mutual, Woken, Ends, Other
<1>10. ReadEdges(Q, "none") /\ WriteEdges(Q, {"client"})
  BY <1>3, <1>6, <1>8 DEF SoundBut, ReadEdges, WriteEdges, Ends
<1>11. Muted(Q) BY <1>3, <1>5, <1>6, <1>8 DEF SoundBut, Muted, Ends
<1>12. Bounded(Q) /\ Limited(Q) BY <1>3, <1>6, <1>8 DEF SoundBut, Bounded, Limited
<1>13. SoundBut(Q, "none", {} \cup {"client"})
  BY <1>8, <1>9, <1>10, <1>11, <1>12 DEF SoundBut
<1>14. LET R == SentOrClosed(Q, "client")
       IN SoundBut(R, "none", {}) /\ Limited(R) /\ Stays(R["client"], Q["client"])
  BY <1>1, <1>12, <1>13, SentOrClosedSound
<1>15. SendError(E, "client") = SentOrClosed(Q, "client") BY DEF SendError, P, Q
<1> QED BY <1>5, <1>6, <1>8, <1>14, <1>15 DEF Stays, Sound

\* One end goes and leaves the other one alone.
LEMMA PartSound ==
  ASSUME NEW E, NEW d, NEW e \in Ends, NEW S \in SUBSET Ends, SoundBut(E, d, S \cup {e}),
         NEW R \in Table, R[e] = Gone, ~R[Other(e)].paired,
         LET x == E[Other(e)]
             y == R[Other(e)]
         IN /\ y.live = x.live /\ y.rd = x.rd /\ y.reg = x.reg /\ y.est = x.est
            /\ y.in = x.in /\ y.line = x.line /\ y.rev = x.rev /\ y.out = x.out
            /\ y.wev = x.wev /\ y.full = x.full
  PROVE  /\ SoundBut(R, d, S) /\ Limited(R)
         /\ d = e => SoundBut(R, "none", S)
<1> DEFINE o == Other(e)
           y == R[o]
<1>1. /\ o \in Ends /\ o # e /\ Other(e) = o /\ Other(o) = e
      /\ \A x \in Ends : x = e \/ x = o
  BY OtherEnd DEF Ends, Other
<1> HIDE DEF o
<1>2. E \in Table BY DEF SoundBut
<1>3. R \in Table /\ R[e] = Gone /\ R[o] = y OBVIOUS
<1>4. ~Gone.live /\ ~Gone.paired /\ Gone.out = 0 BY DEF Gone
<1>5. \A x \in Ends : ~R[x].paired BY <1>1, <1>3, <1>4
<1>6. Mutual(R) /\ Woken(R) BY <1>5 DEF Mutual, Woken
<1>7. ReadEdges(R, d) /\ (d = e => ReadEdges(R, "none"))
  BY <1>1, <1>3, <1>4 DEF SoundBut, ReadEdges
<1>8. WriteEdges(R, S)
  BY <1>1, <1>3, <1>4 DEF SoundBut, WriteEdges
<1>9. Muted(R) BY <1>1, <1>3, <1>4 DEF SoundBut, Muted
<1>10. R["server"].out <= Most + 1
  <2>1. 0 <= Most + 1 BY MostBounds
  <2> QED BY <1>1, <1>3, <1>4, <2>1 DEF SoundBut, Bounded, Ends
<1>11. Bounded(R) /\ Limited(R)
  BY <1>5, <1>10 DEF Bounded, Limited, Ends
<1> QED BY <1>1, <1>3, <1>6, <1>7, <1>8, <1>9, <1>11 DEF SoundBut

\* CloseRead, by the one whose read loop is running.
LEMMA CloseReadSound ==
  ASSUME NEW E, NEW e \in Ends, Sound(E, e), Limited(E), Reader(E, e)
  PROVE  LET R == CloseRead(E, e)
         IN /\ Sound(R, "none") /\ Limited(R)
            /\ R["client"].live => e = "server" /\ E["client"].paired
<1> DEFINE o == Other(e)
           y == [E[o] EXCEPT !.paired = FALSE, !.closing = TRUE]
           L == [Delete(E, e) EXCEPT ![o].paired = FALSE, ![o].closing = TRUE]
           R == CloseRead(E, e)
<1>1. /\ o \in Ends /\ o # e /\ Other(e) = o /\ Other(o) = e
      /\ \A x \in Ends : x = e \/ x = o
  BY OtherEnd DEF Ends, Other
<1>2. E \in Table /\ E[o] \in End /\ Mutual(E)
  BY <1>1 DEF Sound, SoundBut, Table
<1>3. ~Gone.live BY DEF Gone
<1>4. CASE ~E[e].paired
  <2>1. e = "client" /\ SoundBut(E, e, {} \cup {e})
    <3>1. e = "client" BY <1>4 DEF Reader, Ends
    <3>2. SoundBut(E, e, {}) BY <3>1 DEF Sound
    <3>3. WriteEdges(E, {} \cup {e}) BY <3>2 DEF SoundBut, WriteEdges
    <3> QED BY <3>1, <3>2, <3>3 DEF SoundBut
  <2>2. R = Delete(E, e) BY <1>4 DEF CloseRead
  <2>3. SoundBut(R, e, {}) /\ Limited(R) /\ ~R[e].live
    BY <1>4, <2>1, <2>2, DeleteSound
  <2>4. ReadEdges(R, "none") BY <2>3 DEF SoundBut, ReadEdges
  <2> QED BY <2>1, <2>3, <2>4 DEF Sound, SoundBut
<1>5. CASE E[e].paired /\ e = "client" /\ stream # "header"
  <2>1. R = [x \in Ends |-> Gone]
    BY <1>5 DEF CloseRead, DeleteBoth
  <2> QED BY <2>1, GoneSound DEF Sound, Ends
<1>6. CASE E[e].paired /\ ~(e = "client" /\ stream # "header")
  <2>1. R = SentOrClosed(L, o) BY <1>6 DEF CloseRead
  <2>2. /\ y \in End /\ ~y.paired /\ y.live = E[o].live /\ y.rd = E[o].rd
        /\ y.reg = E[o].reg /\ y.est = E[o].est /\ y.in = E[o].in
        /\ y.line = E[o].line /\ y.rev = E[o].rev /\ y.out = E[o].out
        /\ y.wev = E[o].wev /\ y.full = E[o].full
    BY <1>2 DEF End
  <2>3. L \in Table /\ L[e] = Gone /\ L[o] = y
    <3>1. Gone \in End BY RelayAssumption DEF Gone, End
    <3>2. Delete(E, e) \in Table /\ Delete(E, e)[e] = Gone /\ Delete(E, e)[o] = E[o]
      BY <1>1, <1>2, <3>1 DEF Delete, Table
    <3>3. L = [Delete(E, e) EXCEPT ![o] = y] BY <3>2
    <3> HIDE DEF y, L
    <3> QED BY <1>1, <2>2, <3>2, <3>3 DEF Table
  <2> HIDE DEF y, L
  <2>4. SoundBut(E, e, {o} \cup {e})
    <3>1. WriteEdges(E, {o} \cup {e}) BY <1>1 DEF WriteEdges
    <3> QED BY <3>1 DEF Sound, SoundBut
  <2>5. SoundBut(L, "none", {} \cup {o}) /\ Limited(L) /\ L[e] = Gone
    <3>1. {o} \in SUBSET Ends BY <1>1
    <3>2. SoundBut(L, "none", {o}) /\ Limited(L)
      BY <1>1, <2>2, <2>3, <2>4, <3>1, PartSound
    <3> QED BY <2>3, <3>2
  <2>6. SoundBut(R, "none", {}) /\ Limited(R) /\ Stays(R[e], L[e])
    BY <1>1, <2>1, <2>5, SentOrClosedSound
  <2>7. ~R[e].live BY <1>3, <2>5, <2>6 DEF Stays
  <2>8. E[o].paired BY <1>1, <1>2, <1>6 DEF Mutual
  <2> QED BY <1>1, <2>6, <2>7, <2>8 DEF Sound, Ends
<1> QED BY <1>4, <1>5, <1>6

-----------------------------------------------------------------------------
(* The invariant. *)

Waits == {"no", "armed", "fired"}

LEMMA InitInv == Init => IInv
<1> SUFFICES ASSUME Init PROVE IInv OBVIOUS
<1>1. SoundBut(end, "none", {}) /\ Limited(end) /\ \A x \in Ends : ~end[x].live
  BY GoneSound DEF Init
<1>2. Sound(end, doing) BY <1>1 DEF Init, Sound
<1>3. Reader(end, doing) /\ Waiter(end, waits) BY DEF Init, Reader, Waiter, Ends
<1>4. 0 \in 0..Kept BY RelayAssumption
<1> QED BY <1>1, <1>2, <1>3, <1>4 DEF Init, IInv, Streams

\* A handler that settles on a sound table keeps the invariant.
LEMMA SettleInv ==
  ASSUME NEW E, NEW str \in Streams, NEW q \in 0..Kept, NEW w \in Waits,
         Settle(E, str, q, w), doing' \in Ends \cup {"none"},
         Sound(E, doing'), Limited(E), Reader(E, doing'),
         E["client"].live => Waiter(E, w),
         fault' \in {"none", "TrailerAssert"}
  PROVE  IInv'
<1>1. 0 \in 0..Kept BY RelayAssumption
<1>2. end' = E /\ stream' \in Streams /\ inq' \in 0..Kept /\ waits' \in Waits
  BY <1>1 DEF Settle, Streams, Waits
<1>3. Waiter(E, waits') BY DEF Settle, Waiter
<1> QED BY <1>2, <1>3 DEF IInv, Waits

LEMMA ContinueInv ==
  ASSUME NEW E, NEW str \in Streams, NEW q \in 0..Kept, NEW w \in Waits,
         Continue(E, str, q, w), SoundBut(E, "client", {}),
         E["client"].live => E["client"].rd /\ E["client"].reg /\ Waiter(E, w),
         fault' \in {"none", "TrailerAssert"}
  PROVE  IInv'
<1> DEFINE t == Turn(E)
           v == IF E["client"].live THEN w ELSE "no"
<1>1. Waiter(E, v) BY DEF Waiter
<1>2. /\ t[2] \in {"client", "none"} /\ Sound(t[1], t[2]) /\ Limited(t[1])
      /\ Reader(t[1], t[2]) /\ t[1]["client"].live = E["client"].live
      /\ Waiter(t[1], v)
  BY <1>1, TurnSound
<1>3. Settle(t[1], str, q, w) /\ doing' = t[2] BY DEF Continue
<1> HIDE DEF t
<1>4. doing' \in Ends \cup {"none"} BY <1>2, <1>3 DEF Ends
<1>5. t[1]["client"].live => Waiter(t[1], w) BY <1>2
<1> QED BY <1>2, <1>3, <1>4, <1>5, SettleInv

\* What a handler of the client's read loop finds.
LEMMA ReadingTable ==
  ASSUME IInv, Reading
  PROVE  LET R == Received("client")
         IN /\ SoundBut(R, "client", {}) /\ Limited(R)
            /\ R["client"].live /\ R["client"].rd /\ R["client"].reg
            /\ Waiter(R, waits)
<1> DEFINE R == Received("client")
<1>1. "client" \in Ends BY DEF Ends
<1>2. SoundBut(end, "client", {}) /\ Limited(end)
      /\ end["client"].live /\ end["client"].rd /\ end["client"].reg /\ Waiter(end, waits)
  BY <1>1 DEF IInv, Reading, Sound, Reader
<1>3. SoundBut(R, "client", {}) /\ Limited(R) /\ Alike(R["client"], end["client"])
  BY <1>1, <1>2, ReceivedSound DEF Reading
<1> HIDE DEF R
<1>4. R["client"].live /\ R["client"].rd /\ R["client"].reg /\ Waiter(R, waits)
  BY <1>2, <1>3 DEF Alike, Waiter
<1> QED BY <1>3, <1>4 DEF R

LEMMA ReadPartInv == ASSUME IInv, ReadPart PROVE IInv'
<1>1. fault' \in {"none", "TrailerAssert"} BY DEF ReadPart, IInv
<1> QED BY <1>1, ReadingTable, ContinueInv DEF ReadPart, IInv, Waits

LEMMA ReadBadInv == ASSUME IInv, ReadBad PROVE IInv'
<1> DEFINE R == Received("client")
           E == SendError(R, "client")
<1>1. SoundBut(R, "client", {}) /\ Limited(R) /\ R["client"].live /\ R["client"].rd
      /\ Waiter(R, waits)
  BY ReadingTable DEF ReadBad
<1>2. Settle(E, stream, inq, waits) /\ doing' = "none" /\ fault' = fault BY DEF ReadBad
<1> HIDE DEF R
<1>3. /\ Sound(E, "none") /\ Limited(E)
      /\ E["client"].live => E["client"].paired = R["client"].paired /\ E["client"].rd
  BY <1>1, SendErrorSound
<1> HIDE DEF E
<1>4. E["client"].live => Waiter(E, waits) BY <1>1, <1>3 DEF Waiter
<1>5. Reader(E, "none") BY DEF Reader, Ends
<1> QED BY <1>2, <1>3, <1>4, <1>5, SettleInv DEF IInv, Waits

LEMMA RelayedInv ==
  ASSUME IInv, NEW E, NEW str \in Streams, Relayed(E, str),
         SoundBut(E, "client", {}), Limited(E),
         E["client"].live /\ E["client"].rd /\ E["client"].reg, Waiter(E, waits),
         fault' \in {"none", "TrailerAssert"}
  PROVE  IInv'
<1>1. "client" \in Ends /\ "server" \in Ends /\ Other("server") = "client"
  BY DEF Ends, Other
<1>2. CASE E["client"].paired
  <2> DEFINE P == Push(E, "server")
             R == SentOrClosed(P, "server")
  <2>1. Continue(R, str, inq, waits) BY <1>2 DEF Relayed
  <2>2. SoundBut(P, "client", {"server"}) /\ P["client"] = E["client"]
    <3>1. MayPush(E, "server") BY <1>2 DEF MayPush
    <3>2. ASSUME NEW S, S = {}
          PROVE  SoundBut(P, "client", S \cup {"server"})
      BY <1>1, <3>1, <3>2, PushSound
    <3>3. P["client"] = E["client"] BY <1>1 DEF Push, SoundBut, Table
    <3>4. {} \cup {"server"} = {"server"} OBVIOUS
    <3> QED BY <3>2, <3>3, <3>4
  <2> HIDE DEF P
  <2>3. {} \cup {"server"} = {"server"} /\ {} \in SUBSET Ends OBVIOUS
  <2>4. SoundBut(R, "client", {}) /\ Stays(R["client"], P["client"])
    BY <1>1, <2>2, <2>3, SentOrClosedSound
  <2> HIDE DEF R
  <2>5. R["client"].live => R["client"].rd /\ R["client"].reg /\ Waiter(R, waits)
    BY <1>1, <2>2, <2>4 DEF Stays, Waiter
  <2> QED BY <2>1, <2>4, <2>5, ContinueInv DEF IInv, Waits
<1>3. CASE ~E["client"].paired
  <2>1. inq < Kept /\ Continue(E, str, inq + 1, waits) BY <1>3 DEF Relayed
  <2>2. inq + 1 \in 0..Kept BY <2>1, RelayAssumption DEF IInv
  <2> QED BY <2>1, <2>2, ContinueInv DEF IInv, Waits
<1> QED BY <1>2, <1>3

LEMMA ReadSpecialInv == ASSUME IInv, ReadSpecial PROVE IInv'
<1> DEFINE R == Received("client")
           E == Reply(R, "client")
<1>1. /\ SoundBut(R, "client", {}) /\ Limited(R)
      /\ R["client"].live /\ R["client"].rd /\ R["client"].reg /\ Waiter(R, waits)
  BY ReadingTable DEF ReadSpecial
<1>2. PICK str \in {"header", "content", "size"} : Continue(E, str, inq, waits)
  BY DEF ReadSpecial
<1>3. fault' \in {"none", "TrailerAssert"} BY DEF ReadSpecial, IInv
<1> HIDE DEF R
<1>4. SoundBut(E, "client", {}) /\ Stays(E["client"], R["client"])
  BY <1>1, ReplySound
<1> HIDE DEF E
<1>5. E["client"].live => E["client"].rd /\ E["client"].reg /\ Waiter(E, waits)
  BY <1>1, <1>4 DEF Stays, Waiter
<1> QED BY <1>2, <1>3, <1>4, <1>5, ContinueInv DEF IInv, Waits, Streams

LEMMA ReadBodyInv == ASSUME IInv, ReadBody PROVE IInv'
<1>1. fault' \in {"none", "TrailerAssert"} BY DEF ReadBody, IInv
<1>2. PICK str \in Streams : Relayed(Received("client"), str)
  BY DEF ReadBody, Streams
<1> QED BY <1>1, <1>2, ReadingTable, RelayedInv DEF ReadBody

LEMMA ReadTrailerInv == ASSUME IInv, ReadTrailer PROVE IInv'
<1>1. CASE Relayed(Received("client"), "header") /\ UNCHANGED fault
  BY <1>1, ReadingTable, RelayedInv DEF ReadTrailer, IInv, Streams
<1>2. CASE fault' = "TrailerAssert" /\ UNCHANGED <<end, stream, inq, waits, doing>>
  BY <1>2 DEF IInv
<1> QED BY <1>1, <1>2 DEF ReadTrailer

LEMMA ReadHeaderInv == ASSUME IInv, ReadHeader PROVE IInv'
<1> DEFINE R == Received("client")
<1>1. /\ SoundBut(R, "client", {}) /\ Limited(R)
      /\ R["client"].live /\ R["client"].rd /\ R["client"].reg /\ Waiter(R, waits)
  BY ReadingTable DEF ReadHeader
<1>2. fault' \in {"none", "TrailerAssert"} BY DEF ReadHeader, IInv
<1> HIDE DEF R
<1>3. PICK str \in {"header", "content", "size"}, continue \in BOOLEAN, same \in BOOLEAN :
        LET E == IF continue THEN Reply(R, "client") ELSE R
            A == [Delete(E, "server") EXCEPT !["client"].paired = FALSE]
            B == IF E["client"].paired THEN A ELSE E
        IN \/ ~E["client"].live /\ Settle(E, str, inq, waits) /\ doing' = "none"
           \/ E["client"].live /\ E["client"].paired /\ Relayed(E, str)
           \/ /\ E["client"].live /\ inq < Kept
              /\ \/ Continue(B, str, inq + 1, "armed")
                 \/ /\ Settle(SendError(B, "client"), "header", inq + 1, "no")
                    /\ doing' = "none"
  BY ZenonT(30) DEF ReadHeader, R
<1> DEFINE E == IF continue THEN Reply(R, "client") ELSE R
           y == [E["client"] EXCEPT !.paired = FALSE]
           A == [Delete(E, "server") EXCEPT !["client"].paired = FALSE]
           B == IF E["client"].paired THEN A ELSE E
<1>4. SoundBut(E, "client", {}) /\ Limited(E) /\ Stays(E["client"], R["client"])
  <2>1. CASE continue BY <1>1, <2>1, ReplySound
  <2>2. CASE ~continue
    <3>1. E = R BY <2>2
    <3> QED BY <1>1, <3>1 DEF Stays
  <2> QED BY <2>1, <2>2
<1> HIDE DEF E
<1>5. E["client"].live => E["client"].rd /\ E["client"].reg /\ Waiter(E, waits)
  BY <1>1, <1>4 DEF Stays, Waiter
<1>6. str \in Streams BY DEF Streams
<1>7. CASE ~E["client"].live /\ Settle(E, str, inq, waits) /\ doing' = "none"
  <2>1. ReadEdges(E, "none") BY <1>4, <1>7 DEF SoundBut, ReadEdges, Ends
  <2>2. Sound(E, "none") /\ Reader(E, "none")
    BY <1>4, <2>1 DEF Sound, SoundBut, Reader, Ends
  <2> QED BY <1>2, <1>4, <1>6, <1>7, <2>2, SettleInv DEF IInv, Waits
<1>8. CASE E["client"].live /\ Relayed(E, str)
  BY <1>2, <1>4, <1>5, <1>6, <1>8, RelayedInv
<1>9. ASSUME E["client"].live, inq < Kept
      PROVE  /\ SoundBut(B, "client", {}) /\ Limited(B)
             /\ B["client"].live /\ B["client"].rd /\ B["client"].reg
             /\ ~B["client"].paired
             /\ inq + 1 \in 0..Kept
  <2>1. inq + 1 \in 0..Kept BY <1>9, RelayAssumption DEF IInv
  <2>2. CASE ~E["client"].paired
    <3>1. B = E BY <2>2
    <3> QED BY <1>4, <1>5, <1>9, <2>1, <2>2, <3>1
  <2>3. CASE E["client"].paired
    <3>1. B = A BY <2>3
    <3>2. /\ "client" \in Ends /\ "server" \in Ends /\ Other("server") = "client"
          /\ "client" # "server"
      BY DEF Ends, Other
    <3>3. E \in Table /\ E["client"] \in End /\ Gone \in End
      BY <1>4, <3>2, RelayAssumption DEF SoundBut, Table, Gone, End
    <3>4. /\ y \in End /\ ~y.paired /\ y.live = E["client"].live /\ y.rd = E["client"].rd
          /\ y.reg = E["client"].reg /\ y.est = E["client"].est /\ y.in = E["client"].in
          /\ y.line = E["client"].line /\ y.rev = E["client"].rev
          /\ y.out = E["client"].out /\ y.wev = E["client"].wev
          /\ y.full = E["client"].full
      BY <3>3 DEF End
    <3>5. /\ Delete(E, "server") \in Table /\ Delete(E, "server")["server"] = Gone
          /\ Delete(E, "server")["client"] = E["client"]
      BY <3>2, <3>3 DEF Delete, Table
    <3>6. A = [Delete(E, "server") EXCEPT !["client"] = y] BY <3>5
    <3> HIDE DEF y, A
    <3>7. A \in Table /\ A["server"] = Gone /\ A["client"] = y
      BY <3>2, <3>4, <3>5, <3>6 DEF Table
    <3>8. SoundBut(E, "client", {} \cup {"server"})
      BY <1>4 DEF SoundBut, WriteEdges
    <3>9. SoundBut(A, "client", {}) /\ Limited(A)
      BY <3>2, <3>4, <3>7, <3>8, PartSound
    <3> QED BY <1>5, <1>9, <2>1, <3>1, <3>4, <3>7, <3>9
  <2> QED BY <2>2, <2>3
<1> HIDE DEF B
<1>10. ASSUME E["client"].live, inq < Kept, Continue(B, str, inq + 1, "armed")
       PROVE  IInv'
  <2>1. Waiter(B, "armed") BY <1>9, <1>10 DEF Waiter
  <2> QED BY <1>2, <1>6, <1>9, <1>10, <2>1, ContinueInv DEF Waits
<1>11. ASSUME E["client"].live, inq < Kept, doing' = "none",
              Settle(SendError(B, "client"), "header", inq + 1, "no")
       PROVE  IInv'
  <2> DEFINE X == SendError(B, "client")
  <2>1. Sound(X, "none") /\ Limited(X) BY <1>9, <1>11, SendErrorSound
  <2> HIDE DEF X
  <2>2. Reader(X, "none") /\ Waiter(X, "no") BY DEF Reader, Waiter, Ends
  <2>3. Settle(X, "header", inq + 1, "no") BY <1>11 DEF X
  <2> QED BY <1>2, <1>9, <1>11, <2>1, <2>2, <2>3, SettleInv DEF Streams, Waits
<1> QED BY <1>3, <1>7, <1>8, <1>10, <1>11 DEF E, B

LEMMA ReadResponseInv == ASSUME IInv, ReadResponse PROVE IInv'
<1> DEFINE R == Received("server")
           P == Push(R, "client")
           y == [P["server"] EXCEPT !.rd = FALSE]
           H == [P EXCEPT !["server"].rd = FALSE]
           X == SentOrClosed(H, "client")
<1>1. "client" \in Ends /\ "server" \in Ends /\ Other("client") = "server"
      /\ Other("server") = "client"
  BY DEF Ends, Other
<1>2. /\ SoundBut(end, "server", {"client"}) /\ Limited(end)
      /\ end["server"].live /\ end["server"].rd /\ end["server"].reg /\ end["server"].paired
      /\ Waiter(end, waits)
  BY <1>1 DEF IInv, ReadResponse, Sound, Reader
<1>3. SoundBut(R, "server", {"client"}) /\ Limited(R) /\ Alike(R["server"], end["server"])
      /\ R["client"] = end["client"]
  BY <1>1, <1>2, ReceivedSound DEF ReadResponse
<1> HIDE DEF R
<1>4. Limited(P) /\ P["server"] = R["server"]
  <2>1. MayPush(R, "client") BY DEF MayPush
  <2>2. Limited(P) BY <1>1, <1>3, <2>1, PushSound
  <2>3. P["server"] = R["server"] BY <1>1, <1>3 DEF Push, SoundBut, Table
  <2> QED BY <2>2, <2>3
<1>5. MayPush(R, "client") BY DEF MayPush
<1>6. SoundBut(P, "server", {"client"})
  <2>1. ASSUME NEW S, S = {"client"}
        PROVE  SoundBut(P, "server", S \cup {"client"})
    BY <1>1, <1>3, <1>5, <2>1, PushSound
  <2>2. {"client"} \cup {"client"} = {"client"} OBVIOUS
  <2> QED BY <2>1, <2>2
<1>7. P["client"].paired = R["client"].paired /\ P["client"].live = R["client"].live
      /\ P["client"].rd = R["client"].rd
  BY <1>1, <1>3 DEF SoundBut, Push, Table, End
<1> HIDE DEF P
<1>8. /\ P["server"].live /\ P["server"].rd /\ P["server"].reg /\ P["server"].paired
      /\ Waiter(P, waits)
  BY <1>2, <1>3, <1>4, <1>7 DEF Alike, Waiter
<1>9. fault' \in {"none", "TrailerAssert"} BY DEF ReadResponse, IInv
<1>10. CASE IsHigh(P, "client")
  <2>1. Settle(X, stream, inq, waits) /\ doing' = "none"
    BY <1>10 DEF ReadResponse, P, R
  <2>2. P \in Table /\ P["server"] \in End BY <1>1, <1>6 DEF SoundBut, Table
  <2>3. /\ y \in End /\ ~y.rd /\ y.live = P["server"].live /\ y.paired = P["server"].paired
        /\ y.reg = P["server"].reg /\ y.est = P["server"].est /\ y.out = P["server"].out
        /\ y.full = P["server"].full /\ y.wev = P["server"].wev
    BY <2>2 DEF End
  <2>4. H = [P EXCEPT !["server"] = y] OBVIOUS
  <2> HIDE DEF y
  <2>5. H \in Table /\ H["server"] = y /\ H["client"] = P["client"]
    BY <1>1, <2>2, <2>3, <2>4 DEF Table
  <2> HIDE DEF H
  <2>6. Mutual(H) BY <1>6, <2>3, <2>5 DEF SoundBut, Mutual, Ends, Other
  <2>7. ReadEdges(H, "none") /\ WriteEdges(H, {"client"})
    BY <1>6, <2>3, <2>5 DEF SoundBut, ReadEdges, WriteEdges, Ends
  <2>8. P["client"].out > Low
    <3>1. P["client"].out \in Nat BY <1>1, <2>2 DEF Table, End
    <3> QED BY <1>10, <3>1, RelayAssumption DEF IsHigh
  <2>9. Woken(H) BY <1>6, <2>3, <2>5, <2>8 DEF SoundBut, Woken, Ends, Other
  <2>10. Muted(H) BY <1>6, <1>8, <2>3, <2>5 DEF SoundBut, Muted, Ends
  <2>11. Bounded(H) /\ Limited(H)
    BY <1>4, <1>6, <2>3, <2>5 DEF SoundBut, Bounded, Limited
  <2>12. SoundBut(H, "none", {} \cup {"client"})
    BY <2>5, <2>6, <2>7, <2>9, <2>10, <2>11 DEF SoundBut
  <2>13. SoundBut(X, "none", {}) /\ Limited(X) /\ Stays(X["client"], H["client"])
    BY <1>1, <2>11, <2>12, SentOrClosedSound
  <2> HIDE DEF X
  <2>14. X["client"].live => Waiter(X, waits)
    BY <1>8, <2>5, <2>13 DEF Stays, Waiter
  <2>15. Sound(X, "none") /\ Reader(X, "none") BY <2>13 DEF Sound, Reader, Ends
  <2> QED BY <1>9, <2>1, <2>13, <2>14, <2>15, SettleInv DEF IInv, Waits
<1>11. CASE ~IsHigh(P, "client")
  <2>1. Settle(P, stream, inq, waits) /\ doing' = "server"
    BY <1>11 DEF ReadResponse, P, R
  <2>2. Sound(P, "server") /\ Reader(P, "server")
    BY <1>6, <1>8 DEF Sound, Reader
  <2> QED BY <1>1, <1>4, <1>8, <1>9, <2>1, <2>2, SettleInv DEF IInv, Waits
<1> QED BY <1>10, <1>11

LEMMA ReadNothingInv == ASSUME IInv, ReadNothing PROVE IInv'
<1> DEFINE X == SentOrClosed(end, "client")
<1>1. /\ "client" \in Ends /\ doing' = "none" /\ fault' = fault
      /\ {} \cup {"client"} = {"client"} /\ {} \in SUBSET Ends
  BY DEF ReadNothing, Ends
<1>2. ReadEdges(end, "none")
  BY DEF IInv, Sound, SoundBut, ReadEdges, ReadNothing
<1>3. CASE doing = "server" /\ end["client"].out > 0
  <2>1. Settle(X, stream, inq, waits) BY <1>3 DEF ReadNothing
  <2>2. SoundBut(end, "none", {"client"}) /\ Limited(end)
    BY <1>2, <1>3 DEF IInv, Sound, SoundBut
  <2>3. SoundBut(X, "none", {}) /\ Limited(X) /\ Stays(X["client"], end["client"])
    BY <1>1, <2>2, SentOrClosedSound
  <2> HIDE DEF X
  <2>4. X["client"].live => Waiter(X, waits) BY <2>3 DEF Stays, Waiter, IInv
  <2>5. Sound(X, "none") /\ Reader(X, "none") BY <2>3 DEF Sound, Reader, Ends
  <2> QED BY <1>1, <2>1, <2>3, <2>4, <2>5, SettleInv DEF IInv, Waits
<1>4. CASE ~(doing = "server" /\ end["client"].out > 0)
  <2>1. Settle(end, stream, inq, waits) BY <1>4 DEF ReadNothing
  <2>2. WriteEdges(end, {})
    BY <1>4 DEF IInv, Sound, SoundBut, WriteEdges
  <2>3. Sound(end, "none") /\ Reader(end, "none")
    BY <1>2, <2>2 DEF IInv, Sound, SoundBut, Reader, Ends
  <2> QED BY <1>1, <2>1, <2>3, SettleInv DEF IInv, Waits
<1> QED BY <1>3, <1>4

LEMMA ReadEndsInv == ASSUME IInv, ReadEnds PROVE IInv'
<1> DEFINE X == CloseRead(end, doing)
<1>1. /\ doing \in Ends /\ doing' = "none" /\ fault' = fault
      /\ Settle(X, stream, inq, waits)
  BY DEF ReadEnds
<1>2. /\ Sound(X, "none") /\ Limited(X)
      /\ X["client"].live => end["client"].paired
  BY <1>1, CloseReadSound DEF IInv
<1> HIDE DEF X
<1>3. X["client"].live => Waiter(X, waits) BY <1>2 DEF IInv, Waiter
<1>4. Reader(X, "none") BY DEF Reader, Ends
<1> QED BY <1>1, <1>2, <1>3, <1>4, SettleInv DEF IInv, Waits

\* What happens at an end that Sound need not speak of: an edge comes or is
\* taken, the socket fills or empties, the peer closes.
LEMMA AlikeSound ==
  ASSUME NEW E, NEW d, NEW S, SoundBut(E, d, S), NEW e \in Ends, NEW b,
         d \in {"none", b}, d = b \/ e = b,
         NEW R \in Table, R[Other(e)] = E[Other(e)], Alike(R[e], E[e]),
         LET y == R[e]
         IN /\ b # e /\ y.live /\ y.rd /\ y.reg /\ (y.in > 0 \/ y.line # "up") => y.rev
            /\ e \notin S /\ y.live /\ y.out > 0 => y.wev \/ y.full
            /\ y.live /\ ~y.reg => ~y.rev
  PROVE  SoundBut(R, b, S) /\ (Limited(E) => Limited(R))
<1> DEFINE o == Other(e)
<1>1. /\ E \in Table /\ o \in Ends /\ o # e /\ Other(e) = o /\ Other(o) = e
      /\ \A x \in Ends : x = e \/ x = o
  BY OtherEnd DEF SoundBut, Ends, Other
<1> HIDE DEF o
<1>2. R[o] = E[o] BY <1>1
<1>3. Mutual(R) /\ Woken(R)
  BY <1>1, <1>2 DEF SoundBut, Mutual, Woken, Alike
<1>4. ReadEdges(R, b)
  <2>1. \A x \in Ends : x # e /\ b # x => d # x BY DEF Ends
  <2> QED BY <1>1, <1>2, <2>1 DEF SoundBut, ReadEdges
<1>5. WriteEdges(R, S) BY <1>1, <1>2 DEF SoundBut, WriteEdges
<1>6. Muted(R) BY <1>1, <1>2 DEF SoundBut, Muted, Alike
<1>7. Bounded(R) /\ (Limited(E) => Limited(R))
  BY <1>1, <1>2 DEF SoundBut, Bounded, Limited, Alike, Ends
<1> QED BY <1>3, <1>4, <1>5, <1>6, <1>7 DEF SoundBut

LEMMA HandleReadInv == ASSUME IInv, NEW e \in Ends, HandleRead(e) PROVE IInv'
<1> DEFINE x == end[e]
           y == [x EXCEPT !.rev = FALSE]
           E == [end EXCEPT ![e].rev = FALSE]
<1>1. /\ doing = "none" /\ x.live /\ x.rev /\ fault' = fault
      /\ fault' \in {"none", "TrailerAssert"}
  BY DEF HandleRead, Idle, IInv
<1>2. end \in Table /\ x \in End /\ SoundBut(end, "none", {}) /\ Limited(end)
  BY <1>1 DEF IInv, Sound, SoundBut, Table
<1>3. x.reg BY <1>1, <1>2 DEF SoundBut, Muted
<1>4. /\ y \in End /\ Alike(y, x) /\ ~y.rev /\ y.wev = x.wev /\ y.full = x.full
      /\ y.in = x.in /\ y.line = x.line
  BY <1>2 DEF End, Alike
<1>5. E = [end EXCEPT ![e] = y] OBVIOUS
<1> HIDE DEF y
<1>6. E[e] = y BY <1>2, <1>4, <1>5 DEF Table
<1>7. CASE x.rd /\ e = "server" /\ ~x.paired
  <2> DEFINE R == Delete(end, e)
  <2>1. Delete(E, e) = R BY <1>2, <1>5 DEF Delete, Table
  <2>2. Settle(R, stream, inq, waits) /\ doing' = "none"
    BY <1>4, <1>6, <1>7, <2>1 DEF HandleRead, Alike
  <2>3. SoundBut(end, "none", {} \cup {e}) BY <1>2 DEF SoundBut, WriteEdges
  <2>4. SoundBut(R, "none", {}) /\ Limited(R) /\ R[Other(e)] = end[Other(e)]
    BY <1>2, <1>7, <2>3, DeleteSound
  <2> HIDE DEF R
  <2>5. Sound(R, "none") /\ Reader(R, "none") /\ Waiter(R, waits)
    BY <1>7, <2>4 DEF Sound, Reader, Waiter, Ends, IInv, Other
  <2> QED BY <1>1, <2>2, <2>4, <2>5, SettleInv DEF IInv, Waits
<1>8. CASE ~(x.rd /\ e = "server" /\ ~x.paired)
  <2> DEFINE b == IF x.rd THEN e ELSE "none"
  <2>1. Settle(E, stream, inq, waits) /\ doing' = b
    BY <1>4, <1>6, <1>8 DEF HandleRead, Alike
  <2>2. b # e => ~y.rd BY <1>4 DEF Alike
  <2>3. y.live /\ y.out > 0 => y.wev \/ y.full
    BY <1>2, <1>4 DEF SoundBut, WriteEdges, Alike
  <2>4. /\ SoundBut(E, b, {}) /\ Limited(E) /\ E[Other(e)] = end[Other(e)]
    <3> HIDE DEF E
    <3>1. "none" = b \/ e = b OBVIOUS
    <3>2. E \in Table /\ E[e] = y /\ E[Other(e)] = end[Other(e)]
      BY <1>2, <1>4, <1>5, OtherEnd DEF Table
    <3> HIDE DEF b
    <3> QED BY <1>2, <1>4, <2>2, <2>3, <3>1, <3>2, AlikeSound
  <2>5. Sound(E, b) BY <2>4 DEF Sound, SoundBut, WriteEdges
  <2>6. Reader(E, b) BY <1>1, <1>3, <1>4, <1>6, <1>8 DEF Reader, Alike, Ends
  <2>7. Waiter(E, waits) BY <1>4, <1>6, <2>4 DEF IInv, Waiter, Alike, Ends, Other
  <2>8. b \in Ends \cup {"none"} OBVIOUS
  <2> HIDE DEF b, E
  <2> QED BY <1>1, <2>1, <2>4, <2>5, <2>6, <2>7, <2>8, SettleInv DEF IInv, Waits
<1> QED BY <1>7, <1>8

LEMMA HandleWriteInv == ASSUME IInv, NEW e \in Ends, HandleWrite(e) PROVE IInv'
<1> DEFINE x == end[e]
           y == [x EXCEPT !.wev = FALSE]
           E == [end EXCEPT ![e].wev = FALSE]
           X == SentOrClosed(E, e)
<1>1. /\ doing = "none" /\ doing' = "none" /\ fault' = fault
      /\ Settle(X, stream, inq, waits)
  BY DEF HandleWrite, Idle
<1>2. end \in Table /\ x \in End /\ SoundBut(end, "none", {}) /\ Limited(end)
  BY <1>1 DEF IInv, Sound, SoundBut, Table
<1>3. SoundBut(end, "none", {e}) BY <1>2 DEF SoundBut, WriteEdges
<1>4. /\ y \in End /\ Alike(y, x) /\ y.rev = x.rev /\ y.in = x.in /\ y.line = x.line
  BY <1>2 DEF End, Alike
<1>5. E = [end EXCEPT ![e] = y] OBVIOUS
<1> HIDE DEF y, E
<1>6. /\ "none" # e /\ y.live /\ y.rd /\ y.reg /\ (y.in > 0 \/ y.line # "up") => y.rev
      /\ y.live /\ ~y.reg => ~y.rev
  BY <1>2, <1>4 DEF SoundBut, ReadEdges, Muted, Alike
<1>7. SoundBut(E, "none", {e}) /\ Limited(E) /\ E[e] = y /\ E[Other(e)] = end[Other(e)]
  <2>1. E \in Table /\ E[e] = y /\ E[Other(e)] = end[Other(e)]
    BY <1>2, <1>4, <1>5, OtherEnd DEF Table
  <2>2. ASSUME NEW S, S = {e} PROVE SoundBut(E, "none", S) /\ Limited(E)
    BY <1>2, <1>3, <1>4, <1>6, <2>1, <2>2, AlikeSound
  <2> QED BY <2>1, <2>2
<1>8. {} \cup {e} = {e} /\ {} \in SUBSET Ends OBVIOUS
<1>9. SoundBut(X, "none", {}) /\ Limited(X) /\ \A z \in Ends : Stays(X[z], E[z])
  BY <1>7, <1>8, SentOrClosedSound
<1> HIDE DEF X
<1>10. Waiter(E, waits) BY <1>4, <1>7 DEF IInv, Waiter, Alike, Ends, Other
<1>11. X["client"].live => Waiter(X, waits)
  BY <1>9, <1>10 DEF Stays, Waiter, Ends
<1>12. Sound(X, "none") /\ Reader(X, "none") BY <1>9 DEF Sound, Reader, Ends
<1> QED BY <1>1, <1>9, <1>11, <1>12, SettleInv DEF IInv, Waits

LEMMA IdleTimeoutInv == ASSUME IInv, NEW e \in Ends, IdleTimeout(e) PROVE IInv'
<1> DEFINE o == Other(e)
           y == [end[o] EXCEPT !.paired = FALSE]
           R == [Delete(end, e) EXCEPT ![o].paired = FALSE]
<1>1. /\ doing = "none" /\ doing' = "none" /\ fault' = fault
      /\ Settle(R, stream, inq, waits)
  BY DEF IdleTimeout, Idle
<1>2. o \in Ends /\ o # e BY OtherEnd
<1>3. end \in Table /\ end[o] \in End /\ Gone \in End
  BY <1>2, RelayAssumption DEF IInv, Sound, SoundBut, Table, Gone, End
<1>4. SoundBut(end, "none", {} \cup {e})
  BY <1>1 DEF IInv, Sound, SoundBut, WriteEdges
<1>5. /\ y \in End /\ ~y.paired /\ y.live = end[o].live /\ y.rd = end[o].rd
      /\ y.reg = end[o].reg /\ y.est = end[o].est /\ y.in = end[o].in
      /\ y.line = end[o].line /\ y.rev = end[o].rev /\ y.out = end[o].out
      /\ y.wev = end[o].wev /\ y.full = end[o].full
  BY <1>3 DEF End
<1>6. Delete(end, e) \in Table /\ Delete(end, e)[e] = Gone /\ Delete(end, e)[o] = end[o]
  BY <1>2, <1>3 DEF Delete, Table
<1>7. R = [Delete(end, e) EXCEPT ![o] = y] BY <1>6
<1> HIDE DEF y, R
<1>8. R \in Table /\ R[e] = Gone /\ R[o] = y
  BY <1>2, <1>5, <1>6, <1>7 DEF Table
<1>9. SoundBut(R, "none", {}) /\ Limited(R)
  BY <1>4, <1>5, <1>8, PartSound
<1>10. Sound(R, "none") /\ Reader(R, "none") BY <1>9 DEF Sound, Reader, Ends
<1>11. R["client"].live => Waiter(R, waits)
  <2>1. ~Gone.live BY DEF Gone
  <2> QED BY <1>5, <1>8, <2>1 DEF IInv, Waiter, Ends, Other
<1> QED BY <1>1, <1>9, <1>10, <1>11, SettleInv DEF IInv, Waits

LEMMA FreshEnd ==
  /\ Fresh \in End /\ Fresh.live /\ ~Fresh.paired /\ Fresh.rd /\ Fresh.reg
  /\ ~Fresh.rev /\ ~Fresh.closing /\ Fresh.in = 0 /\ Fresh.line = "up"
  /\ Fresh.out = 0 /\ Fresh.room = Room
<1>1. /\ Gone \in End /\ ~Gone.paired /\ Gone.rd /\ Gone.reg /\ ~Gone.rev /\ ~Gone.closing
      /\ Gone.in = 0 /\ Gone.line = "up" /\ Gone.out = 0 /\ Gone.room = Room
  BY RelayAssumption DEF Gone, End
<1> QED BY <1>1 DEF Fresh, End

LEMMA RespondTimeoutInv == ASSUME IInv, RespondTimeout PROVE IInv'
<1> DEFINE X == SendError(end, "client")
<1>1. /\ doing = "none" /\ doing' = "none" /\ fault' = fault /\ waits # "no"
      /\ Settle(X, stream, inq, "fired")
  BY DEF RespondTimeout, Idle
<1>2. end["client"].live /\ end["client"].rd /\ ~end["client"].paired
  BY <1>1 DEF IInv, Waiter
<1>3. SoundBut(end, "none", {}) /\ Limited(end) BY <1>1 DEF IInv, Sound
<1>4. /\ Sound(X, "none") /\ Limited(X)
      /\ X["client"].live => X["client"].paired = end["client"].paired /\ X["client"].rd
  BY <1>2, <1>3, SendErrorSound
<1> HIDE DEF X
<1>5. X["client"].live => Waiter(X, "fired") BY <1>2, <1>4 DEF Waiter
<1>6. Reader(X, "none") BY DEF Reader, Ends
<1> QED BY <1>1, <1>4, <1>5, <1>6, SettleInv DEF IInv, Waits

\* A pair is made: what the client has asked so far is less than Most, and a
\* device that is deaf from the start waits for a client above its low mark.
Paired(deaf, due) ==
  LET s == [Fresh EXCEPT !.out = inq + 1, !.rd = ~deaf, !.wev = due]
      E == Written([end EXCEPT !["server"] = s], "server")
  IN  Settle([e \in Ends |-> [E[e] EXCEPT !.paired = TRUE]], stream, 0, "no")

LEMMA MatchInv == ASSUME IInv, Match PROVE IInv'
<1>0. SUFFICES ASSUME NEW deaf \in {FALSE, IsHigh(end, "client")},
                      NEW due \in BOOLEAN, Paired(deaf, due) \/ Settle(end, stream, 0, "no")
               PROVE  IInv'
  BY DEF Match, Paired
<1> DEFINE s == [Fresh EXCEPT !.out = inq + 1, !.rd = ~deaf, !.wev = due]
           F == [end EXCEPT !["server"] = s]
           E == Written(F, "server")
           R == [e \in Ends |-> [E[e] EXCEPT !.paired = TRUE]]
<1>1. /\ doing = "none" /\ doing' = "none" /\ fault' = fault /\ waits # "no"
      /\ ~end["server"].live
  BY DEF Match, Idle
<1>2. /\ "client" \in Ends /\ "server" \in Ends /\ Other("server") = "client"
      /\ Other("client") = "server" /\ "client" # "server"
  BY DEF Ends, Other
<1>3. /\ end["client"].live /\ ~end["client"].paired /\ end["client"].rd
      /\ SoundBut(end, "none", {}) /\ Limited(end) /\ end \in Table
      /\ end["client"] \in End /\ inq \in 0..Kept /\ 0 \in 0..Kept
  BY <1>1, <1>2, RelayAssumption DEF IInv, Waiter, Sound, SoundBut, Table
<1>4. Waiter(end, "no") /\ Reader(end, "none") BY DEF Waiter, Reader, Ends
<1>5. CASE Settle(end, stream, 0, "no")
  BY <1>1, <1>3, <1>4, <1>5, SettleInv DEF IInv, Waits
<1>6. CASE Paired(deaf, due)
  <2>0. Settle(R, stream, 0, "no") BY <1>6 DEF Paired
  <2>1. inq + 1 \in Nat /\ inq + 1 > 0 /\ inq < Most /\ Room > 0 /\ Room \in Nat
    BY <1>3, RelayAssumption, MostBounds
  <2>3. /\ s \in End /\ s.live /\ s.rd = ~deaf /\ s.reg /\ ~s.rev /\ s.in = 0 /\ s.line = "up"
        /\ s.room = Room /\ ~s.closing /\ s.out = inq + 1
    BY <2>1, FreshEnd DEF End
  <2> HIDE DEF s
  <2>4. F \in Table /\ F["server"] = s /\ F["client"] = end["client"]
    BY <1>2, <1>3, <2>3 DEF Table
  <2> HIDE DEF F
  <2>5. ~Throws(F, "server")
    <3> DEFINE n == IF s.out <= s.room THEN s.out ELSE s.room
               y == [s EXCEPT !.out = @ - n, !.room = @ - n, !.full = @ \/ n < s.out]
    <3>1. s.out # 0 /\ s.line # "rst" BY <2>1, <2>3
    <3>2. E = [F EXCEPT !["server"] = y] BY <2>4, <3>1 DEF Written
    <3>3. y.closing = s.closing BY <2>3 DEF End
    <3> HIDE DEF y, E
    <3>4. E["server"] = y BY <1>2, <2>4, <3>2 DEF Table
    <3>5. ~E["server"].closing BY <2>3, <3>3, <3>4
    <3> QED BY <3>5 DEF Throws, E
  <2>6. /\ E \in Table /\ E["client"] = end["client"] /\ SentFrom(E["server"], s)
        /\ E["server"].out > 0 => E["server"].full
        /\ E["server"].out < inq + 1
    BY <1>2, <2>1, <2>3, <2>4, <2>5, WrittenSends
  <2> HIDE DEF E
  <2>7. \A e \in Ends :
          /\ R[e] \in End /\ R[e].paired /\ R[e].live = E[e].live /\ R[e].rd = E[e].rd
          /\ R[e].reg = E[e].reg /\ R[e].est = E[e].est /\ R[e].in = E[e].in
          /\ R[e].line = E[e].line /\ R[e].rev = E[e].rev /\ R[e].wev = E[e].wev
          /\ R[e].out = E[e].out /\ R[e].full = E[e].full
    BY ZenonT(30), <2>6 DEF Table, End
  <2>8. R \in Table BY <2>7 DEF Table
  <2> HIDE DEF R
  <2>9. /\ R["server"].live /\ R["server"].rd = ~deaf /\ R["server"].reg /\ ~R["server"].rev
        /\ R["server"].in = 0 /\ R["server"].line = "up"
    BY <1>2, <2>3, <2>6, <2>7 DEF SentFrom
  <2>10. R["client"].live /\ R["client"].rd BY <1>2, <1>3, <2>6, <2>7
  <2>11. Mutual(R) /\ Woken(R)
    <3>1. deaf => R["client"].out > Low
      <4>1. R["client"].out = end["client"].out /\ end["client"].out \in Nat
        BY <1>2, <1>3, <2>6, <2>7 DEF End
      <4>2. deaf => end["client"].out >= High BY <1>0 DEF IsHigh
      <4> QED BY <4>1, <4>2, RelayAssumption
    <3> QED BY <1>2, <2>7, <2>9, <2>10, <3>1 DEF Mutual, Woken, Ends
  <2>12. ReadEdges(R, "none")
    BY <1>2, <1>3, <2>6, <2>7, <2>9 DEF SoundBut, ReadEdges, Ends
  <2>13. WriteEdges(R, {})
    BY <1>2, <1>3, <2>6, <2>7 DEF SoundBut, WriteEdges, Ends
  <2>14. Muted(R)
    BY <1>2, <1>3, <2>6, <2>7, <2>9 DEF SoundBut, Muted, Ends
  <2>15. R["server"].out < Most
    <3>1. R["server"].out = E["server"].out /\ E["server"].out \in Nat
      BY <1>2, <2>6, <2>7 DEF Table, End
    <3> QED BY <1>3, <2>1, <2>6, <3>1, MostBounds
  <2>16. Bounded(R) /\ Limited(R)
    <3>1. R["server"].out \in Nat /\ Most \in Nat BY <1>2, <2>7, MostBounds DEF End
    <3> QED BY <2>15, <3>1 DEF Bounded, Limited
  <2>17. Sound(R, "none")
    BY <2>8, <2>11, <2>12, <2>13, <2>14, <2>16 DEF Sound, SoundBut
  <2>18. Reader(R, "none") /\ Waiter(R, "no") BY DEF Reader, Waiter, Ends
  <2> QED BY <1>1, <1>3, <2>0, <2>16, <2>17, <2>18, SettleInv DEF IInv, Waits
<1> QED BY <1>0, <1>5, <1>6

LEMMA AcceptInv == ASSUME IInv, Accept PROVE IInv'
<1> DEFINE R == [end EXCEPT !["client"] = Fresh]
<1>1. /\ doing = "none" /\ doing' = "none" /\ fault' = fault /\ ~end["client"].live
      /\ Settle(R, "header", 0, "no")
  BY DEF Accept, Idle
<1>2. /\ "client" \in Ends /\ "server" \in Ends /\ Other("server") = "client"
      /\ Other("client") = "server" /\ "client" # "server"
  BY DEF Ends, Other
<1>3. /\ SoundBut(end, "none", {}) /\ end \in Table /\ 0 \in 0..Kept
  BY <1>1, RelayAssumption DEF IInv, Sound, SoundBut
<1>4. /\ Fresh \in End /\ Fresh.live /\ ~Fresh.paired /\ Fresh.rd /\ Fresh.reg
      /\ Fresh.in = 0 /\ Fresh.line = "up" /\ Fresh.out = 0
  BY FreshEnd
<1>5. R \in Table /\ R["client"] = Fresh /\ R["server"] = end["server"]
  BY <1>2, <1>3, <1>4 DEF Table
<1> HIDE DEF R
<1>6. ~end["server"].paired BY <1>1, <1>2, <1>3 DEF SoundBut, Mutual
<1>7. \A e \in Ends : ~R[e].paired BY <1>4, <1>5, <1>6 DEF Ends
<1>8. Mutual(R) /\ Woken(R) BY <1>7 DEF Mutual, Woken
<1>9. ReadEdges(R, "none") /\ WriteEdges(R, {}) /\ Muted(R)
  BY <1>3, <1>4, <1>5 DEF SoundBut, ReadEdges, WriteEdges, Muted, Ends
<1>10. Bounded(R) /\ Limited(R)
  BY <1>2, <1>3, <1>5, <1>7 DEF SoundBut, Bounded, Limited
<1>11. Sound(R, "none") BY <1>5, <1>8, <1>9, <1>10 DEF Sound, SoundBut
<1>12. Reader(R, "none") /\ Waiter(R, "no") BY DEF Reader, Waiter, Ends
<1> QED BY <1>1, <1>3, <1>10, <1>11, <1>12, SettleInv DEF IInv, Waits, Streams

\* What the kernel and a peer may do to an end.
LEMMA PeerInv ==
  ASSUME IInv, NEW e \in Ends, NEW y \in End, Alike(y, end[e]),
         y.reg /\ (y.in > 0 \/ y.line # "up") => y.rev \/ doing = e \/ ~y.rd,
         y.wev \/ y.full \/ (~end[e].wev /\ ~end[e].full),
         ~y.reg => ~y.rev,
         end' = [end EXCEPT ![e] = y], UNCHANGED <<stream, inq, waits, doing, fault>>
  PROVE  IInv'
<1> DEFINE S == IF doing = "server" THEN {"client"} ELSE {}
<1>1. SoundBut(end, doing, S) /\ end \in Table /\ Limited(end)
  BY DEF IInv, Sound, SoundBut
<1> HIDE DEF S
<1> DEFINE R == [end EXCEPT ![e] = y]
<1>2. R \in Table /\ R[e] = y /\ R[Other(e)] = end[Other(e)]
  BY <1>1, OtherEnd DEF Table
<1> HIDE DEF R
<1>3. e \notin S /\ y.live /\ y.out > 0 => y.wev \/ y.full
  BY <1>1 DEF SoundBut, WriteEdges, Alike
<1>4. SoundBut(R, doing, S) /\ Limited(R)
  BY <1>1, <1>2, <1>3, AlikeSound
<1>5. Sound(R, doing) BY <1>4 DEF Sound, S
<1>6. \A x \in Ends : Alike(R[x], end[x])
  BY <1>2 DEF Alike, Ends, Other
<1>7. Reader(R, doing) /\ Waiter(R, waits)
  BY <1>6 DEF IInv, Reader, Waiter, Alike, Ends
<1>8. end' = R BY DEF R
<1> QED BY <1>4, <1>5, <1>7, <1>8 DEF IInv

LEMMA PeerSendsInv == ASSUME IInv, NEW e \in Ends, PeerSends(e) PROVE IInv'
<1> DEFINE x == end[e]
<1>1. PICK w \in {FALSE, x.room > 0} :
        end' = [end EXCEPT ![e].in = @ + 1, ![e].rev = x.reg, ![e].wev = @ \/ w]
  BY DEF PeerSends
<1> DEFINE y == [x EXCEPT !.in = @ + 1, !.rev = x.reg, !.wev = @ \/ w]
<1>2. end \in Table /\ x \in End /\ x.in < Inbound
  BY DEF IInv, Sound, SoundBut, Table, PeerSends
<1>3. x.in \in 0..Inbound /\ x.reg \in BOOLEAN /\ x.wev \in BOOLEAN /\ Inbound \in Nat
  BY <1>2, RelayAssumption DEF End
<1>4. x.in + 1 \in 0..Inbound /\ (x.wev \/ w) \in BOOLEAN BY <1>2, <1>3
<1>5. /\ y \in End /\ Alike(y, x) /\ y.rev = x.reg /\ y.full = x.full
      /\ y.wev = (x.wev \/ w) /\ y.reg = x.reg
  BY <1>2, <1>4 DEF End, Alike
<1>6. end' = [end EXCEPT ![e] = y] BY <1>1
<1> HIDE DEF y
<1>7. UNCHANGED <<stream, inq, waits, doing, fault>> BY DEF PeerSends
<1>8. y.wev \/ y.full \/ (~x.wev /\ ~x.full) BY <1>5
<1> QED BY <1>5, <1>6, <1>7, <1>8, PeerInv

LEMMA PeerTakesInv == ASSUME IInv, NEW e \in Ends, PeerTakes(e) PROVE IInv'
<1> DEFINE x == end[e]
<1>1. PICK r \in {FALSE, x.reg /\ x.in > 0} :
        end' = [end EXCEPT ![e].room = Room, ![e].full = FALSE,
                           ![e].wev = @ \/ x.full, ![e].rev = @ \/ r]
  BY DEF PeerTakes
<1> DEFINE y == [x EXCEPT !.room = Room, !.full = FALSE,
                          !.wev = @ \/ x.full, !.rev = @ \/ r]
<1>2. end \in Table /\ x \in End /\ x.live /\ SoundBut(end, doing, IF doing = "server" THEN {"client"} ELSE {})
  BY DEF IInv, Sound, SoundBut, Table, PeerTakes
<1>3. Room \in 0..Room /\ (x.wev \/ x.full) \in BOOLEAN /\ (x.rev \/ r) \in BOOLEAN
  BY RelayAssumption
<1>4. /\ y \in End /\ Alike(y, x) /\ y.rev = (x.rev \/ r) /\ y.in = x.in /\ y.line = x.line
      /\ y.wev = (x.wev \/ x.full) /\ y.reg = x.reg /\ y.rd = x.rd
  BY ZenonT(30), <1>2, <1>3 DEF End, Alike
<1>5. end' = [end EXCEPT ![e] = y] BY <1>1
<1> HIDE DEF y
<1>6. UNCHANGED <<stream, inq, waits, doing, fault>> BY DEF PeerTakes
<1>7. y.reg /\ (y.in > 0 \/ y.line # "up") => y.rev \/ doing = e \/ ~y.rd
  BY <1>2, <1>4 DEF SoundBut, ReadEdges
<1>8. ~y.reg => ~y.rev BY <1>2, <1>4 DEF SoundBut, Muted
<1>9. y.wev \/ y.full \/ (~x.wev /\ ~x.full) BY <1>4
<1> QED BY <1>4, <1>5, <1>6, <1>7, <1>8, <1>9, PeerInv

LEMMA PeerClosesInv == ASSUME IInv, NEW e \in Ends, PeerCloses(e) PROVE IInv'
<1> DEFINE x == end[e]
<1>1. end \in Table /\ x \in End BY DEF IInv, Sound, SoundBut, Table
<1>2. UNCHANGED <<stream, inq, waits, doing, fault>> BY DEF PeerCloses
<1>3. CASE end' = [end EXCEPT ![e].line = "fin", ![e].rev = x.reg]
  <2> DEFINE y == [x EXCEPT !.line = "fin", !.rev = x.reg]
  <2>1. /\ y \in End /\ Alike(y, x) /\ y.rev = x.reg /\ y.reg = x.reg
        /\ y.wev = x.wev /\ y.full = x.full
    BY <1>1 DEF End, Alike
  <2>2. end' = [end EXCEPT ![e] = y] BY <1>3
  <2> HIDE DEF y
  <2>3. y.wev \/ y.full \/ (~x.wev /\ ~x.full) BY <2>1
  <2> QED BY <1>2, <2>1, <2>2, <2>3, PeerInv
<1>4. CASE end' = [end EXCEPT ![e].line = "rst", ![e].in = 0,
                              ![e].rev = x.reg, ![e].wev = TRUE]
  <2> DEFINE y == [x EXCEPT !.line = "rst", !.in = 0, !.rev = x.reg, !.wev = TRUE]
  <2>0. 0 \in 0..Inbound BY RelayAssumption
  <2>1. y \in End /\ Alike(y, x) /\ y.rev = x.reg /\ y.reg = x.reg /\ y.wev
    BY <1>1, <2>0 DEF End, Alike
  <2>2. end' = [end EXCEPT ![e] = y] BY <1>4
  <2> HIDE DEF y
  <2> QED BY <1>2, <2>1, <2>2, PeerInv
<1> QED BY <1>3, <1>4 DEF PeerCloses

LEMMA NextInv == ASSUME IInv, [Next]_vars PROVE IInv'
<1>1. CASE ReadLoop
  BY <1>1, ReadPartInv, ReadBadInv, ReadHeaderInv, ReadSpecialInv, ReadBodyInv,
     ReadTrailerInv, ReadResponseInv, ReadNothingInv, ReadEndsInv DEF ReadLoop
<1>2. CASE RespondTimeout BY <1>2, RespondTimeoutInv
<1>3. CASE Match BY <1>3, MatchInv
<1>4. CASE Accept BY <1>4, AcceptInv
<1>5. ASSUME NEW e \in Ends, HandleRead(e) \/ HandleWrite(e) \/ IdleTimeout(e)
      PROVE  IInv'
  BY <1>5, HandleReadInv, HandleWriteInv, IdleTimeoutInv
<1>6. ASSUME NEW e \in Ends, PeerSends(e) \/ PeerTakes(e) \/ PeerCloses(e)
      PROVE  IInv'
  BY <1>6, PeerSendsInv, PeerTakesInv, PeerClosesInv
<1>7. CASE UNCHANGED vars BY <1>7 DEF vars, IInv
<1> QED BY <1>1, <1>2, <1>3, <1>4, <1>5, <1>6, <1>7 DEF Next

\* The invariant holds in every state of every behaviour: what the read loop
\* of either end, the timer, the pairing, the wheel and the peers may do keeps
\* the table of both ends sound.
THEOREM Invariance == Spec => []IInv
<1>1. Init => IInv BY InitInv
<1>2. IInv /\ [Next]_vars => IInv' BY NextInv
<1> QED BY <1>1, <1>2, PTL DEF Spec

-----------------------------------------------------------------------------
(* What follows from it. *)

\* Every handler leaves each end and what the client keeps within its type,
\* so in_queue_ of a client without a device never goes past its limit.
THEOREM TypeCorrect == Spec => []TypeOK
<1>1. IInv => TypeOK
  BY DEF IInv, Sound, SoundBut, Table, TypeOK
<1> QED BY <1>1, Invariance, PTL

\* No edge is lost under EV_ET, whoever disables and enables reading and
\* whatever async_send, close and send_error leave behind.
THEOREM EdgesKept == Spec => []EdgesAreKept
<1>1. IInv => EdgesAreKept
  <2> SUFFICES ASSUME IInv, NEW e \in Ends, end[e].live, doing # e
               PROVE  LET x == end[e]
                      IN /\ x.rd /\ x.reg /\ (x.in > 0 \/ x.line # "up") => x.rev
                         /\ x.out > 0 => x.wev \/ x.full \/ doing # "none"
    BY DEF EdgesAreKept
  <2>1. ReadEdges(end, doing) BY DEF IInv, Sound, SoundBut
  <2>2. doing = "none" => WriteEdges(end, {}) BY DEF IInv, Sound, SoundBut
  <2> QED BY <2>1, <2>2 DEF ReadEdges, WriteEdges
<1> QED BY <1>1, Invariance, PTL

\* An end that does not read has an end above its low mark to wake it, or has
\* lost the one that would have: disable_read leaves no other way to be deaf.
THEOREM DeafWithReason == Spec => []DeafForAReason
<1>1. IInv => DeafForAReason
  <2> SUFFICES ASSUME IInv, NEW e \in Ends, end[e].live, ~end[e].rd, doing = "none",
                      end[e].paired
               PROVE  LET o == Other(e)
                      IN ~IsLow(end, o) /\ (end[o].full \/ end[o].wev)
    BY DEF DeafForAReason
  <2> DEFINE o == Other(e)
  <2>1. SoundBut(end, "none", {}) BY DEF IInv, Sound
  <2>2. o \in Ends /\ end[o].live BY <2>1, OtherEnd DEF SoundBut, Mutual
  <2>3. end[o].out \in Nat /\ Low \in Nat
    BY <2>1, <2>2, RelayAssumption DEF SoundBut, Table, End
  <2>4. end[o].out > Low BY <2>1 DEF SoundBut, Woken
  <2>5. end[o].full \/ end[o].wev
    <3>1. end[o].out > 0 BY <2>3, <2>4
    <3> QED BY <2>1, <2>2, <3>1 DEF SoundBut, WriteEdges
  <2>6. ~IsLow(end, o) BY <2>3, <2>4 DEF IsLow
  <2> QED BY <2>5, <2>6
<1> QED BY <1>1, Invariance, PTL

\* A client is held back at the high mark of its device's queue, for any marks.
THEOREM QueueBounded == Spec => []DeviceQueueBounded
<1>1. IInv => DeviceQueueBounded
  BY DEF IInv, Sound, SoundBut, Bounded, DeviceQueueBounded
<1> QED BY <1>1, Invariance, PTL
=============================================================================
