-------------------------- MODULE ConnMatchProofs --------------------------
(***************************************************************************)
(* Proofs about ConnMatch, for any sockets, workers and devices.           *)
(*                                                                         *)
(* A handler is built from operators that map a table of connections to    *)
(* the tables it may leave.  Good(cs) is what all of them preserve, even   *)
(* in the middle of a handler; Lone(cs, S) excepts the connections S whose *)
(* handler has not finished with them.  Moves and Serves relate the table  *)
(* before a handler to the one after it.                                   *)
(* The last part shows that ConnMatch implements Rendezvous.               *)
(***************************************************************************)
EXTENDS ConnMatch, TLAPS

Mutual(cs, c) ==
  cs[c].other # NoConn =>
    LET o == cs[c].other
    IN  /\ cs[o].other = c
        /\ cs[c].phase = "live" /\ cs[o].phase = "live"
        /\ cs[c].host = cs[o].host
        /\ cs[c].type = "CLIENT" <=> cs[o].type = "BUSY_SERVER"
        /\ cs[c].type \in {"CLIENT", "BUSY_SERVER"}
        /\ cs[c].dev = cs[o].dev

\* Outside "live" a connection is as its constructor, or detach(), left it.
Shape(cs, c) ==
  /\ cs[c].phase \in {"free", "dispatched", "built"} =>
       /\ cs[c].type = "CLIENT" /\ cs[c].other = NoConn
       /\ ~cs[c].tmo /\ cs[c].host = NoWorker
  /\ cs[c].phase = "moving" =>
       /\ cs[c].type = "IDLE_SERVER" /\ cs[c].other = NoConn /\ ~cs[c].tmo

\* WaitingClientTimed, and why clearing MASK_BIT_CLOSE does not break it: a
\* connection whose timer has fired does not read any more.
Timed(cs, c) ==
  cs[c].tmo => /\ cs[c].armed \/ (cs[c].closing /\ ~cs[c].rd)
               /\ cs[c].type = "CLIENT" => cs[c].other = NoConn

Good(cs) == /\ cs \in [Conns -> Connection]
            /\ \A c \in Conns : Mutual(cs, c) /\ Shape(cs, c) /\ Timed(cs, c)

Lone(cs, S) == \A c \in Conns \ S : /\ cs[c].phase = "live"
                                    /\ cs[c].type # "CLIENT"
                                    /\ cs[c].other = NoConn
                                    => cs[c].closing

\* Handlers touch live connections only and leave them live or delete them.
Moves(a, b) == \A x \in Conns : IF a[x].phase = "live"
                                  THEN b[x].phase \in {"live", "free"}
                                  ELSE b[x] = a[x]

Serves(a, b) == \A x \in Conns :
  /\ a[x].type = "BUSY_SERVER" =>
       \/ b[x].phase = "free"
       \/ b[x].type = "BUSY_SERVER" /\ b[x].other \in {a[x].other, NoConn}
  /\ a[x].type # "CLIENT" => b[x].phase = "free" \/ b[x].type # "CLIENT"

Waits(a, b) == \A x \in Conns :
  /\ a[x].type = "CLIENT" /\ a[x].other = NoConn
  /\ b[x].type = "CLIENT" /\ b[x].other # NoConn
  => a[x].tmo /\ b[x].dev = a[x].dev

Step(a, b) == Moves(a, b) /\ Serves(a, b) /\ Waits(a, b)
-----------------------------------------------------------------------------
LEMMA KillType ==
  ASSUME NEW cs \in [Conns -> Connection], NEW S
  PROVE  Kill(cs, S) \in [Conns -> Connection]
BY DEF Kill, FreeConn, Connection, Phases, Types

\* CloseWrite deletes both ends of a pair and nothing else.
LEMMA CloseWriteGood ==
  ASSUME NEW cs, Good(cs), NEW c \in Conns, cs[c].phase = "live"
  PROVE  LET r == CloseWrite(cs, c)
         IN  Good(r) /\ Step(cs, r) /\ (Lone(cs, {c}) => Lone(r, {}))
<1> DEFINE r == CloseWrite(cs, c)
<1> USE NoneAssumption
<1>1. cs[c].other # NoConn => cs[c].other \in Conns /\ cs[cs[c].other].phase = "live"
  BY DEF Good, Mutual, Connection
<1>2. Pair(cs, c) \subseteq Conns /\ \A x \in Pair(cs, c) : cs[x].phase = "live"
  BY <1>1 DEF Pair
<1>3. \A x \in Conns : r[x] = IF x \in Pair(cs, c)
                               THEN [FreeConn EXCEPT !.armed = cs[x].armed /\ ~cs[x].tmo]
                               ELSE cs[x]
  BY DEF CloseWrite, Kill
<1>4. r \in [Conns -> Connection]
  BY DEF CloseWrite, Kill, FreeConn, Connection, Good, Phases, Types
<1>5. ASSUME NEW x \in Conns PROVE Mutual(r, x) /\ Shape(r, x) /\ Timed(r, x)
  <2>1. CASE x \in Pair(cs, c)
    BY <2>1, <1>3 DEF Mutual, Shape, Timed, FreeConn
  <2>2. CASE x \notin Pair(cs, c)
    <3>1. r[x] = cs[x] BY <2>2, <1>3
    <3>2. ASSUME cs[x].other # NoConn
          PROVE  cs[x].other \in Conns /\ r[cs[x].other] = cs[cs[x].other]
      <4>1. cs[x].other \in Conns BY <3>2 DEF Good, Connection
      <4>2. cs[x].other \notin Pair(cs, c)
        BY <2>2, <3>2, <4>1 DEF Pair, Good, Mutual
      <4> QED BY <4>1, <4>2, <1>3
    <3> QED BY <3>1, <3>2 DEF Good, Mutual, Shape, Timed
  <2> QED BY <2>1, <2>2
<1>6. Step(cs, r)
  BY <1>2, <1>3 DEF Step, Moves, Serves, Waits, FreeConn
<1>7. ASSUME Lone(cs, {c}) PROVE Lone(r, {})
  <2>1. \A x \in Conns : r[x].phase = "live" => x # c /\ r[x] = cs[x]
    BY <1>3 DEF Pair, FreeConn
  <2> QED BY <2>1, <1>7 DEF Lone
<1> QED BY <1>4, <1>5, <1>6, <1>7 DEF Good

\* send_error deletes both ends or leaves the connection closing, not reading.
LEMMA SendErrorGood ==
  ASSUME NEW cs, Good(cs), NEW c \in Conns, cs[c].phase = "live",
         NEW r \in SendError(cs, c)
  PROVE  Good(r) /\ Step(cs, r) /\ (Lone(cs, {c}) => Lone(r, {}))
<1> DEFINE q == [cs EXCEPT ![c] = [@ EXCEPT !.closing = TRUE, !.rd = FALSE]]
<1>1. CASE r = CloseWrite(cs, c)
  BY <1>1, CloseWriteGood
<1>2. CASE r = q
  <2>1. q \in [Conns -> Connection]
    BY DEF Good, Connection
  <2>2. \A x \in Conns \ {c} : q[x] = cs[x]
    BY DEF Good
  <2>3. q[c] = [cs[c] EXCEPT !.closing = TRUE, !.rd = FALSE]
    BY DEF Good
  <2>4. /\ q[c].phase = cs[c].phase /\ q[c].host = cs[c].host
        /\ q[c].type = cs[c].type /\ q[c].other = cs[c].other
        /\ q[c].dev = cs[c].dev /\ q[c].tmo = cs[c].tmo
        /\ q[c].closing = TRUE /\ q[c].rd = FALSE
    BY <2>3 DEF Good, Connection
  <2>5. ASSUME NEW x \in Conns PROVE Mutual(q, x) /\ Shape(q, x) /\ Timed(q, x)
    <3>1. cs[x].other # NoConn => cs[x].other \in Conns
      BY DEF Good, Connection
    <3>2. Mutual(q, x) BY <2>2, <2>4, <3>1 DEF Good, Mutual
    <3>3. Shape(q, x) BY <2>2, <2>4 DEF Good, Shape
    <3>4. Timed(q, x) BY <2>2, <2>4 DEF Good, Timed
    <3> QED BY <3>2, <3>3, <3>4
  <2>6. Step(cs, q) BY <2>2, <2>4 DEF Step, Moves, Serves, Waits
  <2>7. Lone(cs, {c}) => Lone(q, {}) BY <2>2, <2>4 DEF Lone
  <2> QED BY <1>2, <2>1, <2>5, <2>6, <2>7 DEF Good
<1> QED BY <1>1, <1>2 DEF SendError

\* close(SELF_RD_ERROR) deletes both ends or leaves the other end closing.
LEMMA CloseReadGood ==
  ASSUME NEW cs, Good(cs), NEW c \in Conns, cs[c].phase = "live",
         NEW r \in CloseRead(cs, c)
  PROVE  Good(r) /\ Step(cs, r) /\ (Lone(cs, {c}) => Lone(r, {}))
<1> DEFINE o == cs[c].other
           left == [cs EXCEPT ![o] = [@ EXCEPT !.closing = TRUE, !.other = NoConn]]
<1> USE NoneAssumption
<1>1. CASE r = CloseWrite(cs, c)
  BY <1>1, CloseWriteGood
<1>2. CASE o # NoConn /\ r = Kill(left, {c})
  <2>1. /\ o \in Conns /\ o # c /\ cs[o].phase = "live" /\ cs[o].other = c
        /\ cs[o].type \in {"CLIENT", "BUSY_SERVER"}
    BY <1>2 DEF Good, Mutual, Connection
  <2>2. \A x \in Conns \ {c, o} : r[x] = cs[x]
    BY <1>2, <2>1 DEF Kill, Good
  <2>3. r[o] = [cs[o] EXCEPT !.closing = TRUE, !.other = NoConn]
    BY <1>2, <2>1 DEF Kill, Good
  <2>4. /\ r[o].phase = "live" /\ r[o].other = NoConn /\ r[o].closing = TRUE
        /\ r[o].type = cs[o].type /\ r[o].dev = cs[o].dev
        /\ r[o].host = cs[o].host /\ r[o].tmo = cs[o].tmo
        /\ r[o].armed = cs[o].armed /\ r[o].rd = cs[o].rd
    BY <2>1, <2>3 DEF Good, Connection
  <2>5. r[c] = [FreeConn EXCEPT !.armed = left[c].armed /\ ~left[c].tmo]
    BY <1>2 DEF Kill
  <2>6. /\ r[c].phase = "free" /\ r[c].other = NoConn /\ r[c].type = "CLIENT"
        /\ r[c].tmo = FALSE /\ r[c].host = NoWorker
    BY <2>5 DEF FreeConn
  <2>7. r \in [Conns -> Connection]
    <3>1. left \in [Conns -> Connection]
      BY ZenonT(30), <2>1 DEF Good, Connection
    <3> QED BY <1>2, <3>1, KillType
  <2>8. ASSUME NEW x \in Conns PROVE Mutual(r, x) /\ Shape(r, x) /\ Timed(r, x)
    <3>1. CASE x = c BY <3>1, <2>6 DEF Mutual, Shape, Timed
    <3>2. CASE x = o BY <3>2, <2>1, <2>4 DEF Good, Mutual, Shape, Timed
    <3>3. CASE x \notin {c, o}
      <4>1. cs[x].other # NoConn => cs[x].other \in Conns \ {c, o}
        BY <3>3, <2>1, <1>2 DEF Good, Mutual, Connection
      <4>2. Mutual(r, x) BY <3>3, <4>1, <2>2 DEF Good, Mutual
      <4> QED BY <3>3, <4>2, <2>2 DEF Good, Shape, Timed
    <3> QED BY <3>1, <3>2, <3>3
  <2>9. Step(cs, r) BY <2>1, <2>2, <2>4, <2>6 DEF Step, Moves, Serves, Waits
  <2>10. Lone(cs, {c}) => Lone(r, {}) BY <2>2, <2>4, <2>6 DEF Lone
  <2> QED BY <2>7, <2>8, <2>9, <2>10 DEF Good
<1> QED BY <1>1, <1>2 DEF CloseRead

\* match(conn,true): server s is deleted, or s and k are paired.
LEMMA PairedGood ==
  ASSUME NEW cs, Good(cs), NEW s \in Conns, NEW k \in Conns,
         cs[s].phase = "live", cs[s].host \in Workers,
         cs[s].type = "IDLE_SERVER", cs[s].other = NoConn,
         ~Refused(cs, s, k), NEW r \in Paired(cs, s, k)
  PROVE  Good(r) /\ Step(cs, r) /\ (Lone(cs, {s}) => Lone(r, {}))
<1> DEFINE taken == [cs EXCEPT ![k] = [@ EXCEPT !.tmo = FALSE, !.armed = FALSE,
                                                !.inq = {}]]
           both == [taken EXCEPT
                      ![s] = [@ EXCEPT !.type = "BUSY_SERVER", !.other = k],
                      ![k] = [@ EXCEPT !.other = s]]
<1> USE NoneAssumption
<1>1. /\ cs[k].type = "CLIENT" /\ cs[k].phase = "live" /\ cs[k].other = NoConn
      /\ cs[k].host = cs[s].host /\ cs[k].dev = cs[s].dev /\ cs[k].tmo /\ s # k
  BY DEF Refused, InClientTable, Good, Shape
<1>2. \A x \in Conns \ {k} : taken[x] = cs[x]
  BY DEF Good
<1>3. /\ taken[k].phase = "live" /\ taken[k].host = cs[s].host
      /\ taken[k].type = "CLIENT" /\ taken[k].other = NoConn
      /\ taken[k].dev = cs[s].dev /\ taken[k].tmo = FALSE
      /\ taken[k].closing = cs[k].closing
  BY <1>1 DEF Good, Connection
<1>4. taken \in [Conns -> Connection]
  <2>1. cs[k] \in Connection BY DEF Good
  <2>2. [cs[k] EXCEPT !.tmo = FALSE, !.armed = FALSE, !.inq = {}] \in Connection
    BY <2>1 DEF Connection
  <2> QED BY <2>2 DEF Good
<1>5. CASE r = CloseWrite(taken, s)
  <2>1. ASSUME NEW x \in Conns
        PROVE  Mutual(taken, x) /\ Shape(taken, x) /\ Timed(taken, x)
    <3>1. cs[x].other # NoConn => cs[x].other \in Conns \ {k}
      BY <1>1 DEF Good, Mutual, Connection
    <3>2. CASE x = k BY <3>2, <1>3 DEF Mutual, Shape, Timed
    <3>3. CASE x # k BY <3>3, <3>1, <1>2 DEF Good, Mutual, Shape, Timed
    <3> QED BY <3>2, <3>3
  <2>2. Good(taken) /\ taken[s].phase = "live"
    BY <1>1, <1>2, <1>4, <2>1 DEF Good
  <2>3. Good(r) /\ Step(taken, r) /\ (Lone(taken, {s}) => Lone(r, {}))
    BY <1>5, <2>2, CloseWriteGood
  <2>4. Step(cs, r)
    BY <1>1, <1>2, <1>3, <2>3 DEF Step, Moves, Serves, Waits
  <2>5. Lone(cs, {s}) => Lone(taken, {s})
    BY <1>2, <1>3 DEF Lone
  <2> QED BY <2>3, <2>4, <2>5
<1>6. CASE r = both
  <2>1. \A x \in Conns \ {s, k} : both[x] = cs[x]
    BY <1>2, <1>4
  <2>2. both[s] = [cs[s] EXCEPT !.type = "BUSY_SERVER", !.other = k]
    BY <1>1, <1>2, <1>4
  <2>3. both[k] = [taken[k] EXCEPT !.other = s]
    BY <1>1, <1>4
  <2>0. DOMAIN both = Conns /\ both = [x \in Conns |-> both[x]]
    BY <1>4
  <2> HIDE DEF both, taken
  <2>4. /\ both[s].phase = "live" /\ both[s].host = cs[s].host
        /\ both[s].type = "BUSY_SERVER" /\ both[s].other = k
        /\ both[s].dev = cs[s].dev /\ both[s].tmo = cs[s].tmo
        /\ both[s].armed = cs[s].armed /\ both[s].closing = cs[s].closing
        /\ both[s].rd = cs[s].rd
    <3>1. cs[s] \in Connection BY DEF Good
    <3> QED BY <2>2, <3>1 DEF Connection
  <2>5. /\ both[k].phase = "live" /\ both[k].host = cs[s].host
        /\ both[k].type = "CLIENT" /\ both[k].other = s
        /\ both[k].dev = cs[s].dev /\ both[k].tmo = FALSE
    BY <1>3, <2>3, <1>4 DEF Connection
  <2>6. both \in [Conns -> Connection]
    <3>1. cs[s] \in Connection /\ taken[k] \in Connection BY <1>4 DEF Good
    <3>2. both[s] \in Connection BY <2>2, <3>1 DEF Connection, Types
    <3>3. both[k] \in Connection BY <2>3, <3>1 DEF Connection
    <3>4. \A x \in Conns : both[x] \in Connection
      BY <2>1, <3>2, <3>3 DEF Good
    <3> QED BY <2>0, <3>4
  <2>7. ASSUME NEW x \in Conns
        PROVE  Mutual(both, x) /\ Shape(both, x) /\ Timed(both, x)
    <3>1. CASE x = s BY <3>1, <1>1, <2>4, <2>5 DEF Good, Mutual, Shape, Timed
    <3>2. CASE x = k BY <3>2, <1>1, <2>4, <2>5 DEF Mutual, Shape, Timed
    <3>3. CASE x \notin {s, k}
      <4>1. cs[x].other # NoConn => cs[x].other \in Conns \ {s, k}
        BY <3>3, <1>1 DEF Good, Mutual, Connection
      <4>2. Mutual(both, x) BY <3>3, <4>1, <2>1 DEF Good, Mutual
      <4> QED BY <3>3, <4>2, <2>1 DEF Good, Shape, Timed
    <3> QED BY <3>1, <3>2, <3>3
  <2>8. Step(cs, both)
    BY <1>1, <2>1, <2>4, <2>5 DEF Step, Moves, Serves, Waits
  <2>9. Lone(cs, {s}) => Lone(both, {})
    BY <2>1, <2>4, <2>5 DEF Lone
  <2> QED BY <1>6, <2>6, <2>7, <2>8, <2>9 DEF Good
<1> QED BY <1>5, <1>6 DEF Paired

\* match(sock,true), refused or not.
LEMMA MatchGood ==
  ASSUME NEW cs, Good(cs), NEW s \in Conns, NEW k \in Conns \cup {NoConn},
         cs[s].phase = "live", cs[s].host \in Workers,
         cs[s].type = "IDLE_SERVER", cs[s].other = NoConn,
         NEW r \in Match(cs, s, k)
  PROVE  Good(r) /\ Step(cs, r) /\ (Lone(cs, {s}) => Lone(r, {}))
<1>1. CASE Refused(cs, s, k) BY <1>1, SendErrorGood DEF Match
<1>2. CASE ~Refused(cs, s, k)
  <2>1. k \in Conns BY <1>2 DEF Refused, InClientTable
  <2> QED BY <1>2, <2>1, PairedGood DEF Match
<1> QED BY <1>1, <1>2

\* send_error pairs nobody.
LEMMA SendErrorKeeps ==
  ASSUME NEW cs \in [Conns -> Connection], NEW c \in Conns,
         NEW r \in SendError(cs, c), NEW x \in Conns, r[x].other # NoConn
  PROVE  /\ r[x].other = cs[x].other /\ r[x].type = cs[x].type
         /\ r[x].dev = cs[x].dev
<1>1. CASE r = CloseWrite(cs, c)
  BY <1>1 DEF CloseWrite, Kill, FreeConn
<1>2. CASE r = [cs EXCEPT ![c] = [@ EXCEPT !.closing = TRUE, !.rd = FALSE]]
  BY <1>2 DEF Connection
<1> QED BY <1>1, <1>2 DEF SendError

\* A match in the worker that reads on: the answer may be there already.
LEMMA EarlyAnswerGood ==
  ASSUME NEW cs, Good(cs), NEW s \in Conns, NEW k \in Conns \cup {NoConn},
         cs[s].phase = "live", cs[s].host \in Workers,
         cs[s].type = "IDLE_SERVER", cs[s].other = NoConn,
         NEW r \in EarlyAnswer(Match(cs, s, k), s)
  PROVE  Good(r) /\ Step(cs, r) /\ (Lone(cs, {s}) => Lone(r, {}))
<1>1. CASE r \in Match(cs, s, k) BY <1>1, MatchGood
<1>2. ASSUME NEW t \in Match(cs, s, k), t[s].other # NoConn, r \in SendError(t, s)
      PROVE  Good(r) /\ Step(cs, r) /\ (Lone(cs, {s}) => Lone(r, {}))
  <2>1. Good(t) /\ Step(cs, t) /\ (Lone(cs, {s}) => Lone(t, {}))
    BY MatchGood
  <2>2. t[s].phase = "live" BY <1>2, <2>1 DEF Good, Mutual
  <2>3. Good(r) /\ Step(t, r) /\ (Lone(t, {s}) => Lone(r, {}))
    BY <1>2, <2>1, <2>2, SendErrorGood
  <2>4. Lone(t, {}) => Lone(t, {s}) BY DEF Lone
  <2>5. Moves(cs, r) /\ Serves(cs, r)
    BY <2>1, <2>3 DEF Step, Moves, Serves
  <2>6. Waits(cs, r)
    <3>1. \A x \in Conns : r[x].other # NoConn =>
            /\ r[x].other = t[x].other /\ r[x].type = t[x].type
            /\ r[x].dev = t[x].dev
      BY <1>2, <2>1, SendErrorKeeps DEF Good
    <3> QED BY <3>1, <2>1 DEF Step, Waits
  <2> QED BY <2>1, <2>3, <2>4, <2>5, <2>6 DEF Step
<1> QED BY <1>1, <1>2 DEF EarlyAnswer

\* request_new_server, whether the connector takes the request or not.
LEMMA RequestGood ==
  ASSUME NEW cs, Good(cs), NEW c \in Conns, cs[c].phase = "live",
         cs[c].type = "CLIENT", cs[c].other = NoConn,
         NEW r \in RequestNewServer(cs, c)
  PROVE  /\ Good(r) /\ Step(cs, r) /\ (Lone(cs, {}) => Lone(r, {}))
         /\ r[c].other = NoConn
<1> DEFINE q(b) == [cs EXCEPT ![c] = [@ EXCEPT !.tmo = b, !.armed = TRUE]]
<1>1. ASSUME NEW b \in BOOLEAN
      PROVE  Good(q(b)) /\ Step(cs, q(b)) /\ (Lone(cs, {}) => Lone(q(b), {}))
             /\ q(b)[c].phase = "live" /\ q(b)[c].other = NoConn
  <2>1. \A x \in Conns \ {c} : q(b)[x] = cs[x]
    BY DEF Good
  <2>2. cs[c] \in Connection /\ q(b)[c] = [cs[c] EXCEPT !.tmo = b, !.armed = TRUE]
    BY DEF Good
  <2>3. /\ q(b)[c].phase = "live" /\ q(b)[c].host = cs[c].host
        /\ q(b)[c].type = "CLIENT" /\ q(b)[c].other = NoConn
        /\ q(b)[c].dev = cs[c].dev /\ q(b)[c].armed = TRUE
    <3> HIDE DEF q
    <3> QED BY <2>2 DEF Connection
  <2>4. q(b) \in [Conns -> Connection]
    <3>1. [cs[c] EXCEPT !.tmo = b, !.armed = TRUE] \in Connection
      BY <2>2 DEF Connection
    <3> QED BY <3>1 DEF Good
  <2> HIDE DEF q
  <2>5. ASSUME NEW x \in Conns
        PROVE  Mutual(q(b), x) /\ Shape(q(b), x) /\ Timed(q(b), x)
    <3>1. CASE x = c BY <3>1, <2>3 DEF Mutual, Shape, Timed
    <3>2. CASE x # c
      <4>1. cs[x].other # NoConn => cs[x].other \in Conns \ {c}
        BY <3>2, NoneAssumption DEF Good, Mutual, Connection
      <4>2. Mutual(q(b), x) BY <3>2, <4>1, <2>1 DEF Good, Mutual
      <4> QED BY <3>2, <4>2, <2>1 DEF Good, Shape, Timed
    <3> QED BY <3>1, <3>2
  <2>6. Step(cs, q(b))
    BY <2>1, <2>3 DEF Step, Moves, Serves, Waits
  <2>7. Lone(cs, {}) => Lone(q(b), {})
    BY <2>1, <2>3 DEF Lone
  <2> QED BY <2>3, <2>4, <2>5, <2>6, <2>7 DEF Good
<1>2. CASE r = q(TRUE) BY <1>1, <1>2
<1>3. CASE r \in SendError(q(FALSE), c)
  <2>1. Good(q(FALSE)) /\ Step(cs, q(FALSE)) /\ q(FALSE)[c].phase = "live"
        /\ q(FALSE)[c].other = NoConn
        /\ (Lone(cs, {}) => Lone(q(FALSE), {}))
    BY <1>1
  <2> HIDE DEF q
  <2>2. Good(r) /\ Step(q(FALSE), r) /\ (Lone(q(FALSE), {c}) => Lone(r, {}))
    BY <1>3, <2>1, SendErrorGood
  <2>3. Moves(cs, r) /\ Serves(cs, r)
    BY <2>1, <2>2 DEF Step, Moves, Serves
  <2>4. \A x \in Conns : r[x].other # NoConn =>
          /\ r[x].other = q(FALSE)[x].other /\ r[x].type = q(FALSE)[x].type
          /\ r[x].dev = q(FALSE)[x].dev
    BY <1>3, <2>1, SendErrorKeeps DEF Good
  <2>5. Waits(cs, r) BY <2>1, <2>4 DEF Step, Waits
  <2>6. Lone(q(FALSE), {}) => Lone(q(FALSE), {c}) BY DEF Lone
  <2>7. r[c].other = NoConn BY <2>1, <2>4
  <2> QED BY <2>1, <2>2, <2>3, <2>5, <2>6, <2>7 DEF Step
<1> QED BY <1>2, <1>3 DEF RequestNewServer
-----------------------------------------------------------------------------
(***************************************************************************)
(* The pipes.  InPipes is InOnePipe for a given table and given pipes.     *)
(***************************************************************************)
PhaseOf(m) == IF m.kind = "add" THEN "dispatched" ELSE "moving"

InPipes(cs, p) ==
  /\ \A w \in Workers : \A i \in 1 .. Len(p[w]) :
       cs[p[w][i].conn].phase = PhaseOf(p[w][i])
  /\ \A c \in Conns : cs[c].phase \in {"dispatched", "moving"} =>
       \E w \in Workers : \E i \in 1 .. Len(p[w]) : p[w][i].conn = c
  /\ \A v, w \in Workers : \A i \in 1 .. Len(p[v]), j \in 1 .. Len(p[w]) :
       p[v][i].conn = p[w][j].conn => v = w /\ i = j

\* A handler that sends no message touches no connection that is in a pipe.
LEMMA PipesFrame ==
  ASSUME NEW cs, NEW r, NEW p \in [Workers -> Seq(Message)],
         InPipes(cs, p), Moves(cs, r)
  PROVE  InPipes(r, p)
<1>1. ASSUME NEW w \in Workers, NEW i \in 1 .. Len(p[w])
      PROVE  p[w][i].conn \in Conns
  <2>1. p[w][i] \in Message OBVIOUS
  <2> QED BY <2>1 DEF Message
<1>2. \A w \in Workers : \A i \in 1 .. Len(p[w]) :
        r[p[w][i].conn].phase = PhaseOf(p[w][i])
  BY <1>1 DEF InPipes, Moves, PhaseOf
<1>3. \A c \in Conns : r[c].phase \in {"dispatched", "moving"} =>
        cs[c].phase \in {"dispatched", "moving"}
  BY DEF Moves
<1> QED BY <1>2, <1>3 DEF InPipes

\* A connection that enters a pipe.
LEMMA PipesAppend ==
  ASSUME NEW cs, NEW r, NEW p \in [Workers -> Seq(Message)], InPipes(cs, p),
         NEW u \in Workers, NEW m \in Message,
         cs[m.conn].phase \notin {"dispatched", "moving"},
         r[m.conn].phase = PhaseOf(m),
         \A x \in Conns \ {m.conn} : r[x] = cs[x]
  PROVE  InPipes(r, [p EXCEPT ![u] = Append(@, m)])
<1> DEFINE q == [p EXCEPT ![u] = Append(@, m)]
           n == Len(p[u]) + 1
<1>1. Len(p[u]) \in Nat /\ \A w \in Workers : Len(p[w]) \in Nat
  OBVIOUS
<1>2. \A w \in Workers \ {u} : q[w] = p[w]
  OBVIOUS
<1>3. Len(q[u]) = n /\ q[u][n] = m /\ \A i \in 1 .. Len(p[u]) : q[u][i] = p[u][i]
  OBVIOUS
<1>4. ASSUME NEW w \in Workers, NEW i \in 1 .. Len(p[w])
      PROVE  /\ p[w][i].conn \in Conns
             /\ p[w][i].conn # m.conn
             /\ cs[p[w][i].conn].phase = PhaseOf(p[w][i])
  <2>1. p[w][i] \in Message OBVIOUS
  <2> QED BY <2>1 DEF InPipes, Message, PhaseOf
<1>5. ASSUME NEW w \in Workers, NEW i \in 1 .. Len(q[w])
      PROVE  (w = u /\ i = n) \/ (i \in 1 .. Len(p[w]) /\ q[w][i] = p[w][i])
  BY <1>1, <1>2, <1>3
<1> HIDE DEF q, n
<1>6. ASSUME NEW w \in Workers, NEW i \in 1 .. Len(q[w])
      PROVE  r[q[w][i].conn].phase = PhaseOf(q[w][i])
  BY SMTT(30), <1>3, <1>4, <1>5
<1>7. ASSUME NEW c \in Conns, r[c].phase \in {"dispatched", "moving"}
      PROVE  \E w \in Workers : \E i \in 1 .. Len(q[w]) : q[w][i].conn = c
  <2>1. CASE c = m.conn
    <3>1. n \in 1 .. Len(q[u]) BY <1>1, <1>3 DEF n
    <3> QED BY <2>1, <3>1, <1>3
  <2>2. CASE c # m.conn
    <3>1. PICK w \in Workers : \E i \in 1 .. Len(p[w]) : p[w][i].conn = c
      BY <2>2, <1>7 DEF InPipes
    <3>2. PICK i \in 1 .. Len(p[w]) : p[w][i].conn = c
      BY <3>1
    <3>3. i \in 1 .. Len(q[w]) /\ q[w][i] = p[w][i]
      BY <1>1, <1>2, <1>3 DEF n
    <3> QED BY <3>2, <3>3
  <2> QED BY <2>1, <2>2
<1>8. ASSUME NEW v \in Workers, NEW w \in Workers,
             NEW i \in 1 .. Len(q[v]), NEW j \in 1 .. Len(q[w]),
             q[v][i].conn = q[w][j].conn
      PROVE  v = w /\ i = j
  <2>1. CASE (v = u /\ i = n) /\ ~(w = u /\ j = n)
    <3>1. j \in 1 .. Len(p[w]) /\ q[w][j] = p[w][j] BY <2>1, <1>5
    <3> QED BY <2>1, <3>1, <1>3, <1>4, <1>8
  <2>2. CASE ~(v = u /\ i = n) /\ (w = u /\ j = n)
    <3>1. i \in 1 .. Len(p[v]) /\ q[v][i] = p[v][i] BY <2>2, <1>5
    <3> QED BY <2>2, <3>1, <1>3, <1>4, <1>8
  <2>3. CASE ~(v = u /\ i = n) /\ ~(w = u /\ j = n)
    <3>1. /\ i \in 1 .. Len(p[v]) /\ q[v][i] = p[v][i]
          /\ j \in 1 .. Len(p[w]) /\ q[w][j] = p[w][j]
      BY <2>3, <1>5
    <3> QED BY <3>1, <1>8 DEF InPipes
  <2> QED BY <2>1, <2>2, <2>3
<1> QED BY <1>6, <1>7, <1>8 DEF InPipes, q

\* A connection that leaves a pipe.
LEMMA PipesTail ==
  ASSUME NEW cs, NEW r, NEW p \in [Workers -> Seq(Message)], InPipes(cs, p),
         NEW u \in Workers, p[u] # <<>>,
         r[Head(p[u]).conn].phase \notin {"dispatched", "moving"},
         \A x \in Conns \ {Head(p[u]).conn} :
           IF cs[x].phase = "live" THEN r[x].phase \in {"live", "free"}
                                   ELSE r[x] = cs[x]
  PROVE  InPipes(r, [p EXCEPT ![u] = Tail(@)])
<1> DEFINE q == [p EXCEPT ![u] = Tail(@)]
           m == Head(p[u])
<1>1. Len(p[u]) \in Nat \ {0} /\ m = p[u][1] /\ \A w \in Workers : Len(p[w]) \in Nat
  OBVIOUS
<1>2. \A w \in Workers \ {u} : q[w] = p[w]
  OBVIOUS
<1>3. Len(q[u]) = Len(p[u]) - 1 /\ \A i \in 1 .. Len(q[u]) : q[u][i] = p[u][i + 1]
  OBVIOUS
<1>4. ASSUME NEW w \in Workers, NEW i \in 1 .. Len(p[w])
      PROVE  p[w][i].conn \in Conns /\ cs[p[w][i].conn].phase = PhaseOf(p[w][i])
  <2>1. p[w][i] \in Message OBVIOUS
  <2> QED BY <2>1 DEF InPipes, Message
<1> DEFINE at(w, i) == IF w = u THEN i + 1 ELSE i
<1>5. ASSUME NEW w \in Workers, NEW i \in 1 .. Len(q[w])
      PROVE  /\ at(w, i) \in 1 .. Len(p[w]) /\ q[w][i] = p[w][at(w, i)]
             /\ w = u => at(w, i) # 1
  BY <1>1, <1>2, <1>3
<1>6. ASSUME NEW w \in Workers, NEW i \in 1 .. Len(p[w]), ~(w = u /\ i = 1)
      PROVE  \E j \in 1 .. Len(q[w]) : q[w][j] = p[w][i]
  <2>1. CASE w = u
    <3>1. i - 1 \in 1 .. Len(q[w]) /\ q[w][i - 1] = p[w][i]
      BY <2>1, <1>1, <1>3, <1>6
    <3> QED BY <3>1
  <2>2. CASE w # u BY <2>2, <1>2
  <2> QED BY <2>1, <2>2
<1>7. ASSUME NEW w \in Workers, NEW i \in 1 .. Len(p[w]), ~(w = u /\ i = 1)
      PROVE  p[w][i].conn # m.conn
  <2>1. 1 \in 1 .. Len(p[u]) BY <1>1
  <2> QED BY <2>1, <1>1, <1>7 DEF InPipes
<1> HIDE DEF q, m
<1>8. ASSUME NEW w \in Workers, NEW i \in 1 .. Len(q[w])
      PROVE  r[q[w][i].conn].phase = PhaseOf(q[w][i])
  <2>1. /\ at(w, i) \in 1 .. Len(p[w]) /\ q[w][i] = p[w][at(w, i)]
        /\ ~(w = u /\ at(w, i) = 1)
    BY <1>5
  <2>2. q[w][i].conn \in Conns \ {m.conn} /\ cs[q[w][i].conn].phase = PhaseOf(q[w][i])
    BY <2>1, <1>4, <1>7
  <2> QED BY <2>2 DEF PhaseOf, m
<1>9. ASSUME NEW c \in Conns, r[c].phase \in {"dispatched", "moving"}
      PROVE  \E w \in Workers : \E i \in 1 .. Len(q[w]) : q[w][i].conn = c
  <2>1. c # m.conn /\ cs[c].phase \in {"dispatched", "moving"}
    BY <1>9 DEF m
  <2>2. PICK w \in Workers : \E i \in 1 .. Len(p[w]) : p[w][i].conn = c
    BY <2>1 DEF InPipes
  <2>3. PICK i \in 1 .. Len(p[w]) : p[w][i].conn = c
    BY <2>2
  <2>4. ~(w = u /\ i = 1) BY <2>1, <2>3, <1>1
  <2> QED BY <2>3, <2>4, <1>6
<1>10. ASSUME NEW v \in Workers, NEW w \in Workers,
              NEW i \in 1 .. Len(q[v]), NEW j \in 1 .. Len(q[w]),
              q[v][i].conn = q[w][j].conn
       PROVE  v = w /\ i = j
  <2>1. /\ at(v, i) \in 1 .. Len(p[v]) /\ q[v][i] = p[v][at(v, i)]
        /\ at(w, j) \in 1 .. Len(p[w]) /\ q[w][j] = p[w][at(w, j)]
    BY <1>5
  <2> HIDE DEF at
  <2>2. v = w /\ at(v, i) = at(w, j)
    BY <2>1, <1>10 DEF InPipes
  <2>3. i \in Nat /\ j \in Nat BY <1>3
  <2> QED BY <2>2, <2>3 DEF at
<1> QED BY <1>8, <1>9, <1>10 DEF InPipes, q
-----------------------------------------------------------------------------
(***************************************************************************)
(* The inductive invariant.                                                *)
(***************************************************************************)

\* A worker that has built a connection alone is about to attach it.
Building ==
  /\ \A w \in Workers : doing[w].op = "attach" =>
       doing[w].conn \in Conns /\ conn[doing[w].conn].phase = "built"
  /\ \A v, w \in Workers :
       /\ doing[v].op = "attach" /\ doing[w].op = "attach"
       /\ doing[v].conn = doing[w].conn
       => v = w

IInv == /\ TypeOK
        /\ Good(conn)
        /\ Lone(conn, {})
        /\ InPipes(conn, pipe)
        /\ Building

\* What one step of the system guarantees.
After == IInv' /\ Serves(conn, conn') /\ Waits(conn, conn')

LEMMA InitIInv == Init => IInv
<1> SUFFICES ASSUME Init PROVE IInv
  OBVIOUS
<1> USE DEF Init, FreeConn, Loop
<1>1. TypeOK
  BY DEF TypeOK, Connection, Phases, Types, Activity, Faults
<1>2. Good(conn)
  BY <1>1 DEF Good, TypeOK, Mutual, Shape, Timed
<1>3. Lone(conn, {}) BY DEF Lone
<1>4. InPipes(conn, pipe) BY DEF InPipes
<1>5. Building BY DEF Building
<1> QED BY <1>1, <1>2, <1>3, <1>4, <1>5 DEF IInv

LEMMA CrashAfter ==
  ASSUME IInv, NEW why \in Faults, Crash(why)
  PROVE  After
<1> USE DEF Crash
<1>1. TypeOK' BY DEF IInv, TypeOK
<1>2. Good(conn)' /\ Lone(conn, {})' /\ InPipes(conn, pipe)' /\ Building'
  BY DEF IInv, Good, Mutual, Shape, Timed, Lone, InPipes, Building
<1>3. Serves(conn, conn') /\ Waits(conn, conn')
  BY DEF IInv, Serves, Waits
<1> QED BY <1>1, <1>2, <1>3 DEF After, IInv

\* A handler all of whose outcomes are good is good.
LEMMA SettleAfter ==
  ASSUME IInv, NEW css, Settle(css),
         \A cs \in css : Good(cs) /\ Step(conn, cs) /\ Lone(cs, {})
  PROVE  After
<1>1. PICK cs \in css : IF Dangles(cs) THEN Crash("Dangling")
                        ELSE /\ conn' = cs
                             /\ UNCHANGED <<pipe, doing, connectorUp, fault>>
  BY DEF Settle
<1>2. CASE Dangles(cs)
  BY <1>1, <1>2, CrashAfter DEF Faults
<1>3. CASE ~Dangles(cs)
  <2>1. conn' = cs /\ UNCHANGED <<pipe, doing, connectorUp, fault>>
    BY <1>1, <1>3
  <2>2. Good(cs) /\ Moves(conn, cs) /\ Serves(conn, cs) /\ Waits(conn, cs)
        /\ Lone(cs, {})
    BY DEF Step
  <2>3. TypeOK' BY <2>1, <2>2 DEF IInv, TypeOK, Good
  <2>4. Good(conn)' /\ Lone(conn, {})' BY <2>1, <2>2
  <2>5. InPipes(conn, pipe)'
    <3>1. InPipes(cs, pipe) BY <2>2, PipesFrame DEF IInv, TypeOK
    <3> QED BY <2>1, <3>1
  <2>6. Building' BY <2>1, <2>2 DEF IInv, Building, Moves
  <2>7. Serves(conn, conn') /\ Waits(conn, conn') BY <2>1, <2>2
  <2> QED BY <2>3, <2>4, <2>5, <2>6, <2>7 DEF After, IInv
<1> QED BY <1>2, <1>3

LEMMA DispatchAfter ==
  ASSUME IInv, NEW c \in Conns, NEW w \in Workers, Dispatch(c, w)
  PROVE  After
<1> DEFINE m == [kind |-> "add", conn |-> c, dst |-> NoConn]
<1>1. /\ conn[c].phase = "free" /\ conn' = [conn EXCEPT ![c].phase = "dispatched"]
      /\ pipe' = [pipe EXCEPT ![w] = Append(@, m)]
      /\ UNCHANGED <<doing, connectorUp, fault>>
  BY DEF Dispatch
<1>2. conn \in [Conns -> Connection] /\ pipe \in [Workers -> Seq(Message)]
  BY DEF IInv, TypeOK
<1>3. m \in Message BY DEF Message
<1>4. \A x \in Conns \ {c} : conn'[x] = conn[x]
  BY <1>1, <1>2
<1>5. /\ conn'[c].phase = "dispatched" /\ conn'[c].host = conn[c].host
      /\ conn'[c].type = conn[c].type /\ conn'[c].other = conn[c].other
      /\ conn'[c].tmo = conn[c].tmo
  BY <1>1, <1>2 DEF Connection
<1>6. conn' \in [Conns -> Connection]
  <2>1. [conn[c] EXCEPT !.phase = "dispatched"] \in Connection
    BY <1>2 DEF Connection, Phases
  <2> QED BY <1>1, <1>2, <2>1
<1>7. pipe' \in [Workers -> Seq(Message)]
  BY <1>1, <1>2, <1>3
<1>8. TypeOK' BY <1>1, <1>6, <1>7 DEF IInv, TypeOK
<1>9. /\ conn[c].type = "CLIENT" /\ conn[c].other = NoConn
      /\ ~conn[c].tmo /\ conn[c].host = NoWorker
  BY <1>1 DEF IInv, Good, Shape
<1>10. ASSUME NEW x \in Conns
       PROVE  Mutual(conn', x) /\ Shape(conn', x) /\ Timed(conn', x)
  <2>1. CASE x = c BY <2>1, <1>5, <1>9 DEF Mutual, Shape, Timed
  <2>2. CASE x # c
    <3>1. conn[x].other # NoConn => conn[x].other \in Conns \ {c}
      BY <1>1, <1>2 DEF IInv, Good, Mutual, Connection
    <3> QED BY <2>2, <3>1, <1>4 DEF IInv, Good, Mutual, Shape, Timed
  <2> QED BY <2>1, <2>2
<1>11. Good(conn)' BY <1>6, <1>10 DEF Good
<1>12. Lone(conn, {})' BY <1>4, <1>5, <1>9 DEF IInv, Lone
<1>13. InPipes(conn, pipe)'
  <2>1. InPipes(conn', [pipe EXCEPT ![w] = Append(@, m)])
    BY ZenonT(30), <1>1, <1>2, <1>3, <1>4, <1>5, PipesAppend DEF IInv, PhaseOf
  <2> QED BY <2>1, <1>1
<1>14. Building' BY <1>1, <1>4 DEF IInv, Building
<1>15. Serves(conn, conn') /\ Waits(conn, conn')
  BY <1>4, <1>5, <1>9 DEF Serves, Waits
<1> QED BY <1>8, <1>11, <1>12, <1>13, <1>14, <1>15 DEF After, IInv

LEMMA TakeAddAfter ==
  ASSUME IInv, NEW w \in Workers, TakeAdd(w)
  PROVE  After
<1> DEFINE m == Head(pipe[w])
           c == m.conn
<1>1. conn \in [Conns -> Connection] /\ pipe \in [Workers -> Seq(Message)]
      /\ doing \in [Workers -> Activity]
  BY DEF IInv, TypeOK
<1>2. /\ pipe[w] # <<>> /\ m.kind = "add"
      /\ conn' = [conn EXCEPT ![c].phase = "built"]
      /\ doing' = [doing EXCEPT ![w] = [op |-> "attach", conn |-> c]]
      /\ pipe' = [pipe EXCEPT ![w] = Tail(@)]
      /\ UNCHANGED <<connectorUp, fault>>
  BY DEF TakeAdd
<1>3. m \in Message /\ 1 \in 1 .. Len(pipe[w]) /\ m = pipe[w][1]
  BY <1>1, <1>2
<1>4. c \in Conns /\ conn[c].phase = "dispatched"
  BY <1>2, <1>3 DEF IInv, InPipes, PhaseOf, Message
<1> HIDE DEF m, c
<1>5. \A x \in Conns \ {c} : conn'[x] = conn[x]
  BY <1>1, <1>2
<1>6. /\ conn'[c].phase = "built" /\ conn'[c].host = conn[c].host
      /\ conn'[c].type = conn[c].type /\ conn'[c].other = conn[c].other
      /\ conn'[c].tmo = conn[c].tmo
  BY <1>1, <1>2, <1>4 DEF Connection
<1>7. conn' \in [Conns -> Connection]
  <2>1. [conn[c] EXCEPT !.phase = "built"] \in Connection
    BY <1>1, <1>4 DEF Connection, Phases
  <2> QED BY <1>1, <1>2, <2>1
<1>8. pipe' \in [Workers -> Seq(Message)]
  BY <1>1, <1>2
<1>9. doing' \in [Workers -> Activity]
  BY <1>1, <1>2, <1>4 DEF Activity
<1>10. TypeOK' BY <1>2, <1>7, <1>8, <1>9 DEF IInv, TypeOK
<1>11. /\ conn[c].type = "CLIENT" /\ conn[c].other = NoConn
       /\ ~conn[c].tmo /\ conn[c].host = NoWorker
  BY <1>4 DEF IInv, Good, Shape
<1>12. ASSUME NEW x \in Conns
       PROVE  Mutual(conn', x) /\ Shape(conn', x) /\ Timed(conn', x)
  <2>1. CASE x = c BY <2>1, <1>6, <1>11 DEF Mutual, Shape, Timed
  <2>2. CASE x # c
    <3>1. conn[x].other # NoConn => conn[x].other \in Conns \ {c}
      BY <1>1, <1>4 DEF IInv, Good, Mutual, Connection
    <3> QED BY <2>2, <3>1, <1>5 DEF IInv, Good, Mutual, Shape, Timed
  <2> QED BY <2>1, <2>2
<1>13. Good(conn)' BY <1>7, <1>12 DEF Good
<1>14. Lone(conn, {})' BY <1>5, <1>6, <1>11 DEF IInv, Lone
<1>15. InPipes(conn, pipe)'
  <2>1. InPipes(conn', [pipe EXCEPT ![w] = Tail(@)])
    BY <1>1, <1>2, <1>5, <1>6, PipesTail DEF IInv, m, c
  <2> QED BY <2>1, <1>2
<1>16. Building'
  <2>1. \A v \in Workers \ {w} : doing'[v] = doing[v]
    BY <1>1, <1>2
  <2>2. doing'[w].op = "attach" /\ doing'[w].conn = c
    BY <1>1, <1>2
  <2>3. \A v \in Workers : doing[v].op = "attach" => doing[v].conn # c
    BY <1>4 DEF IInv, Building
  <2> QED BY <2>1, <2>2, <2>3, <1>4, <1>5, <1>6 DEF IInv, Building
<1>17. Serves(conn, conn') /\ Waits(conn, conn')
  BY <1>5, <1>6, <1>11 DEF Serves, Waits
<1> QED BY <1>10, <1>13, <1>14, <1>15, <1>16, <1>17 DEF After, IInv

\* What attach() makes of a connection that is in no worker's hands.
LEMMA AttachedGood ==
  ASSUME NEW cs, Good(cs), NEW c \in Conns, NEW w \in Workers,
         cs[c].phase \in {"built", "moving"}
  PROVE  LET r == Attached(cs, c, w)
         IN  /\ Good(r) /\ Serves(cs, r) /\ Waits(cs, r)
             /\ \A x \in Conns \ {c} : r[x] = cs[x]
             /\ r[c].phase = "live" /\ r[c].host = w /\ r[c].type = cs[c].type
             /\ r[c].other = NoConn
<1> DEFINE r == Attached(cs, c, w)
<1>1. \A x \in Conns \ {c} : r[x] = cs[x]
  BY DEF Attached, Good
<1>2. r[c] = [cs[c] EXCEPT !.phase = "live", !.host = w, !.rd = TRUE]
  BY DEF Attached, Good
<1>3. cs[c] \in Connection /\ cs[c].other = NoConn /\ ~cs[c].tmo
  BY DEF Good, Shape
<1>4. r \in [Conns -> Connection]
  <2>1. [cs[c] EXCEPT !.phase = "live", !.host = w, !.rd = TRUE] \in Connection
    BY <1>3 DEF Connection, Phases
  <2> QED BY <2>1 DEF Attached, Good
<1> HIDE DEF r
<1>5. /\ r[c].phase = "live" /\ r[c].host = w /\ r[c].type = cs[c].type
      /\ r[c].other = NoConn /\ r[c].tmo = cs[c].tmo
  BY <1>2, <1>3 DEF Connection
<1>6. ASSUME NEW x \in Conns PROVE Mutual(r, x) /\ Shape(r, x) /\ Timed(r, x)
  <2>1. CASE x = c BY <2>1, <1>3, <1>5 DEF Mutual, Shape, Timed
  <2>2. CASE x # c
    <3>1. cs[x].other # NoConn => cs[x].other \in Conns \ {c}
      BY DEF Good, Mutual, Connection
    <3> QED BY <2>2, <3>1, <1>1 DEF Good, Mutual, Shape, Timed
  <2> QED BY <2>1, <2>2
<1>7. Serves(cs, r) /\ Waits(cs, r)
  BY <1>1, <1>3, <1>5 DEF Serves, Waits
<1> QED BY <1>1, <1>4, <1>5, <1>6, <1>7 DEF Good, r

LEMMA FinishAddAfter ==
  ASSUME IInv, NEW w \in Workers, FinishAdd(w)
  PROVE  After
<1> DEFINE c == doing[w].conn
<1>1. /\ doing[w].op = "attach" /\ conn' = Attached(conn, c, w)
      /\ doing' = [doing EXCEPT ![w] = Loop]
      /\ UNCHANGED <<pipe, connectorUp, fault>>
  BY DEF FinishAdd
<1>2. c \in Conns /\ conn[c].phase = "built" /\ doing \in [Workers -> Activity]
  BY <1>1 DEF IInv, Building, TypeOK
<1>3. /\ Good(conn') /\ Serves(conn, conn') /\ Waits(conn, conn')
      /\ \A x \in Conns \ {c} : conn'[x] = conn[x]
      /\ conn'[c].phase = "live" /\ conn'[c].type = conn[c].type
  BY <1>1, <1>2, AttachedGood DEF IInv
<1>4. doing' \in [Workers -> Activity]
  BY <1>1, <1>2 DEF Loop, Activity
<1>5. TypeOK' BY <1>1, <1>3, <1>4 DEF IInv, TypeOK, Good
<1>6. conn[c].type = "CLIENT" BY <1>2 DEF IInv, Good, Shape
<1>7. Lone(conn, {})' BY <1>3, <1>6 DEF IInv, Lone
<1>8. InPipes(conn, pipe)'
  <2>1. \A v \in Workers : \A i \in 1 .. Len(pipe[v]) : pipe[v][i].conn \in Conns \ {c}
    <3>1. ASSUME NEW v \in Workers, NEW i \in 1 .. Len(pipe[v])
          PROVE  pipe[v][i] \in Message
      BY DEF IInv, TypeOK
    <3> QED BY <3>1, <1>2 DEF IInv, InPipes, PhaseOf, Message
  <2> QED BY <2>1, <1>1, <1>3 DEF IInv, InPipes
<1>9. Building'
  <2>1. \A v \in Workers \ {w} : doing'[v] = doing[v]
    BY <1>1, <1>2
  <2>2. doing'[w].op = "loop" BY <1>1, <1>2 DEF Loop
  <2> QED BY <2>1, <2>2, <1>1, <1>2, <1>3 DEF IInv, Building
<1> QED BY <1>3, <1>5, <1>7, <1>8, <1>9 DEF After, IInv

LEMMA TakeMatchAfter ==
  ASSUME IInv, NEW w \in Workers, TakeMatch(w)
  PROVE  After
<1> DEFINE m == Head(pipe[w])
           s == m.conn
           at == Attached(conn, s, w)
<1>1. conn \in [Conns -> Connection] /\ pipe \in [Workers -> Seq(Message)]
  BY DEF IInv, TypeOK
<1>2. pipe[w] # <<>> /\ m.kind = "match"
  BY DEF TakeMatch
<1>3. PICK cs \in Match(at, s, m.dst) :
        IF Dangles(cs) THEN Crash("Dangling")
        ELSE /\ conn' = cs
             /\ pipe' = [pipe EXCEPT ![w] = Tail(@)]
             /\ UNCHANGED <<doing, connectorUp, fault>>
  BY DEF TakeMatch
<1>4. m \in Message /\ 1 \in 1 .. Len(pipe[w]) /\ m = pipe[w][1]
  BY <1>1, <1>2
<1>5. /\ s \in Conns /\ m.dst \in Conns \cup {NoConn}
      /\ conn[s].phase = "moving" /\ conn[s].type = "IDLE_SERVER"
      /\ conn[s].other = NoConn
  BY <1>2, <1>4 DEF IInv, InPipes, PhaseOf, Message, Good, Shape
<1> HIDE DEF m
<1>6. CASE Dangles(cs)
  BY <1>3, <1>6, CrashAfter DEF Faults
<1>7. CASE ~Dangles(cs)
  <2>1. /\ conn' = cs /\ pipe' = [pipe EXCEPT ![w] = Tail(@)]
        /\ UNCHANGED <<doing, connectorUp, fault>>
    BY <1>3, <1>7
  <2>2. /\ Good(at) /\ Serves(conn, at) /\ Waits(conn, at)
        /\ \A x \in Conns \ {s} : at[x] = conn[x]
        /\ at[s].phase = "live" /\ at[s].host = w
        /\ at[s].type = "IDLE_SERVER" /\ at[s].other = NoConn
    BY <1>5, AttachedGood DEF IInv
  <2>3. Lone(at, {s}) BY <2>2 DEF IInv, Lone
  <2> HIDE DEF at
  <2>4. Good(cs) /\ Step(at, cs) /\ Lone(cs, {})
    BY <1>5, <2>2, <2>3, MatchGood
  <2> HIDE DEF s
  <2>5. pipe' \in [Workers -> Seq(Message)]
    BY <1>1, <1>2, <2>1
  <2>6. TypeOK' BY <2>1, <2>4, <2>5 DEF IInv, TypeOK, Good
  <2>7. Good(conn)' /\ Lone(conn, {})' BY <2>1, <2>4
  <2>8. InPipes(conn, pipe)'
    <3>1. \A x \in Conns \ {s} : IF conn[x].phase = "live"
                                   THEN cs[x].phase \in {"live", "free"}
                                   ELSE cs[x] = conn[x]
      BY <2>2, <2>4 DEF Step, Moves
    <3>2. cs[s].phase \in {"live", "free"}
      BY <1>5, <2>2, <2>4 DEF Step, Moves
    <3>3. InPipes(cs, [pipe EXCEPT ![w] = Tail(@)])
      BY <1>1, <1>2, <3>1, <3>2, PipesTail DEF IInv, m, s
    <3> QED BY <3>3, <2>1
  <2>9. Building'
    <3>1. \A v \in Workers : doing[v].op = "attach" => cs[doing[v].conn].phase = "built"
      BY <1>5, <2>2, <2>4 DEF IInv, Building, Step, Moves
    <3> QED BY <3>1, <2>1 DEF IInv, Building
  <2>10. Serves(conn, cs) /\ Waits(conn, cs)
    <3>1. Serves(conn, cs)
      BY <1>5, <2>2, <2>4 DEF Step, Serves
    <3>2. \A x \in Conns \ {s} : at[x] = conn[x] BY <2>2
    <3>3. Waits(conn, cs)
      BY <1>5, <3>2, <2>4 DEF Step, Waits
    <3> QED BY <3>1, <3>3
  <2> QED BY <2>1, <2>6, <2>7, <2>8, <2>9, <2>10 DEF After, IInv
<1> QED BY <1>6, <1>7

\* The table in which c asks for d and has dismissed its server.
Asks(cs, c, d) ==
  LET queued == [cs EXCEPT ![c].inq = @ \cup {d}]
      alone  == Kill(queued, Pair(queued, c) \ {c})
  IN  [alone EXCEPT ![c] = [@ EXCEPT !.other = NoConn, !.dev = d]]

LEMMA AsksGood ==
  ASSUME NEW cs, Good(cs), NEW c \in Conns, NEW d \in Devs,
         cs[c].phase = "live", cs[c].type = "CLIENT",
         NEW r, r = Asks(cs, c, d)
  PROVE  /\ Good(r) /\ (Lone(cs, {}) => Lone(r, {}))
         /\ r[c].phase = "live" /\ r[c].type = "CLIENT" /\ r[c].other = NoConn
         /\ r[c].dev = d
         /\ \A x \in Conns \ {c} :
              \/ x # cs[c].other /\ r[x] = cs[x]
              \/ /\ x = cs[c].other /\ cs[x].phase = "live" /\ cs[x].type = "BUSY_SERVER"
                 /\ r[x].phase = "free"
<1> DEFINE asked == cs[c].inq \cup {d}
           queued == [cs EXCEPT ![c].inq = asked]
           alone == Kill(queued, Pair(queued, c) \ {c})
           asks == [alone EXCEPT ![c] = [@ EXCEPT !.other = NoConn, !.dev = d]]
<1> USE NoneAssumption
<1>1. asks = r
  <2>1. queued = [cs EXCEPT ![c].inq = @ \cup {d}] OBVIOUS
  <2> HIDE DEF queued, asked
  <2> QED BY <2>1 DEF Asks
<1>2. cs \in [Conns -> Connection] /\ cs[c] \in Connection
  BY DEF Good
<1>3. asked \in SUBSET Devs
  BY <1>2 DEF Connection
<1> HIDE DEF asked
<1>4. queued \in [Conns -> Connection]
  <2>1. [cs[c] EXCEPT !.inq = asked] \in Connection
    BY <1>2, <1>3 DEF Connection
  <2> QED BY <1>2, <2>1
<1>5. queued[c] = [cs[c] EXCEPT !.inq = asked]
      /\ \A x \in Conns \ {c} : queued[x] = cs[x]
  BY <1>2
<1>6. /\ queued[c].phase = "live" /\ queued[c].type = "CLIENT"
      /\ queued[c].other = cs[c].other /\ queued[c].host = cs[c].host
      /\ queued[c].tmo = cs[c].tmo /\ queued[c].armed = cs[c].armed
      /\ queued[c].closing = cs[c].closing /\ queued[c].rd = cs[c].rd
  BY <1>2, <1>5 DEF Connection
<1> HIDE DEF queued
<1>7. alone \in [Conns -> Connection]
  BY <1>4, KillType
<1>8. alone[c] = queued[c]
  BY DEF Kill
<1>9. \A x \in Conns \ {c} :
        IF x = cs[c].other
          THEN alone[x].phase = "free" /\ alone[x].type = "CLIENT"
               /\ alone[x].other = NoConn /\ alone[x].tmo = FALSE
               /\ alone[x].host = NoWorker
          ELSE alone[x] = cs[x]
  BY <1>5, <1>6 DEF Kill, Pair, FreeConn
<1> HIDE DEF alone
<1>10. \A x \in Conns \ {c} : asks[x] = alone[x]
  BY <1>7
<1>11. asks[c] = [alone[c] EXCEPT !.other = NoConn, !.dev = d]
       /\ alone[c] \in Connection
  BY <1>7
<1>12. /\ asks[c].phase = "live" /\ asks[c].type = "CLIENT"
       /\ asks[c].other = NoConn /\ asks[c].dev = d
       /\ asks[c].tmo = cs[c].tmo /\ asks[c].armed = cs[c].armed
       /\ asks[c].closing = cs[c].closing /\ asks[c].rd = cs[c].rd
  <2> HIDE DEF asks
  <2> QED BY <1>6, <1>8, <1>11 DEF Connection
<1>13. asks \in [Conns -> Connection]
  <2>1. [alone[c] EXCEPT !.other = NoConn, !.dev = d] \in Connection
    BY <1>11 DEF Connection
  <2> QED BY <1>7, <2>1
<1> HIDE DEF asks
<1>14. cs[c].other # NoConn =>
         /\ cs[c].other \in Conns \ {c}
         /\ cs[cs[c].other].phase = "live" /\ cs[cs[c].other].other = c
         /\ cs[cs[c].other].type = "BUSY_SERVER"
  BY <1>2 DEF Good, Mutual, Connection
<1>15. ASSUME NEW x \in Conns
       PROVE  Mutual(asks, x) /\ Shape(asks, x) /\ Timed(asks, x)
  <2>1. CASE x = c BY <2>1, <1>12 DEF Good, Mutual, Shape, Timed
  <2>2. CASE x # c /\ x = cs[c].other
    BY <2>2, <1>9, <1>10 DEF Mutual, Shape, Timed
  <2>3. CASE x # c /\ x # cs[c].other
    <3>1. cs[x].other # NoConn =>
            cs[x].other \in Conns \ {c, cs[c].other}
      BY <2>3, <1>2, <1>14 DEF Good, Mutual, Connection
    <3>2. asks[x] = cs[x] BY <2>3, <1>9, <1>10
    <3>3. cs[x].other # NoConn => asks[cs[x].other] = cs[cs[x].other]
      BY <3>1, <1>9, <1>10
    <3>4. Mutual(asks, x) BY <3>2, <3>3 DEF Good, Mutual
    <3> QED BY <3>2, <3>4 DEF Good, Shape, Timed
  <2> QED BY <2>1, <2>2, <2>3
<1>16. Good(asks) BY <1>13, <1>15 DEF Good
<1>17. Lone(cs, {}) => Lone(asks, {}) BY <1>9, <1>10, <1>12 DEF Lone
<1>18. \A x \in Conns \ {c} :
         \/ x # cs[c].other /\ asks[x] = cs[x]
         \/ /\ x = cs[c].other /\ cs[x].phase = "live" /\ cs[x].type = "BUSY_SERVER"
            /\ asks[x].phase = "free"
  BY <1>9, <1>10, <1>14
<1> QED BY <1>1, <1>12, <1>16, <1>17, <1>18

LEMMA ClientRequestAfter ==
  ASSUME IInv, NEW w \in Workers, NEW c \in Conns, NEW d \in Devs,
         ClientRequest(w, c, d)
  PROVE  After
<1>1. conn[c].phase = "live" /\ conn[c].type = "CLIENT" /\ Good(conn) /\ Lone(conn, {})
  BY DEF ClientRequest, Reads, Runs, IInv
<1>2. CASE conn[c].other # NoConn /\ conn[c].dev = d
  <2>1. Settle({conn, CloseWrite(conn, c)})
    BY <1>2 DEF ClientRequest
  <2>2. Step(conn, conn)
    BY <1>1 DEF Step, Moves, Serves, Waits
  <2>3. Lone(conn, {c}) BY <1>1 DEF Lone
  <2> QED BY <1>1, <2>1, <2>2, <2>3, CloseWriteGood, SettleAfter
<1>3. CASE ~(conn[c].other # NoConn /\ conn[c].dev = d)
  <2>1. PICK asks : asks = Asks(conn, c, d) OBVIOUS
  <2>2. Settle(RequestNewServer(asks, c))
    BY <1>3, <2>1 DEF ClientRequest, Asks
  <2>3. /\ Good(asks) /\ Lone(asks, {})
        /\ asks[c].phase = "live" /\ asks[c].type = "CLIENT" /\ asks[c].other = NoConn
        /\ \A x \in Conns \ {c} :
             \/ x # conn[c].other /\ asks[x] = conn[x]
             \/ /\ x = conn[c].other /\ conn[x].phase = "live"
                /\ conn[x].type = "BUSY_SERVER" /\ asks[x].phase = "free"
    BY <1>1, <2>1, AsksGood
  <2>4. ASSUME NEW r \in RequestNewServer(asks, c)
        PROVE  Good(r) /\ Step(conn, r) /\ Lone(r, {})
    <3>1. Good(r) /\ Step(asks, r) /\ Lone(r, {}) /\ r[c].other = NoConn
      BY <2>3, RequestGood
    <3>2. Moves(conn, r)
      <4>1. ASSUME NEW x \in Conns \ {c}, asks[x] = conn[x]
            PROVE  IF conn[x].phase = "live" THEN r[x].phase \in {"live", "free"}
                                            ELSE r[x] = conn[x]
        BY <3>1, <4>1 DEF Step, Moves
      <4>2. ASSUME NEW x \in Conns \ {c}, conn[x].phase = "live", asks[x].phase = "free"
            PROVE  r[x].phase = "free"
        BY <3>1, <4>2 DEF Step, Moves
      <4>3. r[c].phase \in {"live", "free"} BY <2>3, <3>1 DEF Step, Moves
      <4> QED BY <1>1, <2>3, <4>1, <4>2, <4>3 DEF Moves
    <3>3. Serves(conn, r)
      <4>1. \A x \in Conns \ {c} : asks[x] = conn[x] \/ r[x].phase = "free"
        BY <2>3, <3>1 DEF Step, Moves
      <4> QED BY <1>1, <3>1, <4>1 DEF Step, Serves
    <3>4. Waits(conn, r)
      <4>1. \A x \in Conns \ {c} : asks[x] = conn[x] \/ r[x].phase = "free"
        BY <2>3, <3>1 DEF Step, Moves
      <4> QED BY <3>1, <4>1 DEF Step, Waits, Good, Shape
    <3> QED BY <3>1, <3>2, <3>3, <3>4 DEF Step
  <2> QED BY <2>2, <2>4, SettleAfter
<1> QED BY <1>2, <1>3

\* The table in which c has declared to be the device d.
Declared(cs, c, d) == [cs EXCEPT ![c] = [@ EXCEPT !.type = "IDLE_SERVER", !.dev = d]]

LEMMA DeclaredGood ==
  ASSUME NEW cs, Good(cs), NEW c \in Conns, NEW d \in Devs,
         cs[c].phase = "live", cs[c].type = "CLIENT", cs[c].other = NoConn
  PROVE  LET r == Declared(cs, c, d)
         IN  /\ Good(r) /\ \A x \in Conns \ {c} : r[x] = cs[x]
             /\ r[c].phase = "live" /\ r[c].host = cs[c].host
             /\ r[c].type = "IDLE_SERVER" /\ r[c].other = NoConn /\ r[c].dev = d
<1> DEFINE r == Declared(cs, c, d)
<1> USE NoneAssumption
<1>1. cs \in [Conns -> Connection] /\ cs[c] \in Connection BY DEF Good
<1>2. \A x \in Conns \ {c} : r[x] = cs[x]
  BY <1>1 DEF Declared
<1>3. r[c] = [cs[c] EXCEPT !.type = "IDLE_SERVER", !.dev = d]
  BY <1>1 DEF Declared
<1>4. r \in [Conns -> Connection]
  <2>1. [cs[c] EXCEPT !.type = "IDLE_SERVER", !.dev = d] \in Connection
    BY <1>1 DEF Connection, Types
  <2> QED BY <1>1, <2>1 DEF Declared
<1> HIDE DEF r
<1>5. /\ r[c].phase = "live" /\ r[c].host = cs[c].host /\ r[c].type = "IDLE_SERVER"
      /\ r[c].other = NoConn /\ r[c].dev = d /\ r[c].tmo = cs[c].tmo
      /\ r[c].armed = cs[c].armed /\ r[c].closing = cs[c].closing
      /\ r[c].rd = cs[c].rd
  BY <1>1, <1>3 DEF Connection
<1>6. ASSUME NEW x \in Conns PROVE Mutual(r, x) /\ Shape(r, x) /\ Timed(r, x)
  <2>1. CASE x = c BY <2>1, <1>5 DEF Good, Mutual, Shape, Timed
  <2>2. CASE x # c
    <3>1. cs[x].other # NoConn => cs[x].other \in Conns \ {c}
      BY <1>1 DEF Good, Mutual, Connection
    <3>2. Mutual(r, x) BY <2>2, <3>1, <1>2 DEF Good, Mutual
    <3> QED BY <2>2, <3>2, <1>2 DEF Good, Shape, Timed
  <2> QED BY <2>1, <2>2
<1>7. Good(r) BY <1>4, <1>6 DEF Good
<1> QED BY <1>2, <1>5, <1>7 DEF r

LEMMA DeviceResponseAfter ==
  ASSUME IInv, NEW w \in Workers, NEW c \in Conns, NEW d \in Devs,
         NEW k \in Conns, NEW body \in BOOLEAN,
         DeviceResponse(w, c, d, k, body)
  PROVE  After
<1> DEFINE cs == Declared(conn, c, d)
           u == cs[k].host
           m == [kind |-> "match", conn |-> c, dst |-> k]
           act == [op |-> IF body THEN "resume_body" ELSE "resume", conn |-> c]
<1> USE NoneAssumption
<1>1. /\ conn[c].phase = "live" /\ conn[c].host = w /\ conn[c].type = "CLIENT"
      /\ Good(conn) /\ Lone(conn, {c}) /\ conn[c] \in Connection
  BY DEF DeviceResponse, Reads, Runs, IInv, Lone, Good
<1>2. CASE conn[c].other # NoConn
  <2>1. Settle(SendError(conn, c)) BY <1>2 DEF DeviceResponse
  <2> QED BY <1>1, <2>1, SendErrorGood, SettleAfter
<1>3. CASE conn[c].other = NoConn
  <2>1. \/ ~InClientTable(cs, k) /\ Settle(SendError(cs, c))
        \/ Crash("HostAssert")
        \/ Settle(EarlyAnswer(Match(cs, c, k), c))
        \/ /\ InClientTable(cs, k) /\ u # NoWorker
           /\ conn' = Detach(cs, c) /\ pipe' = [pipe EXCEPT ![u] = Append(@, m)]
           /\ doing' = [doing EXCEPT ![w] = act]
           /\ UNCHANGED <<connectorUp, fault>>
    BY <1>3 DEF DeviceResponse, Declared
  <2>2. /\ Good(cs) /\ cs \in [Conns -> Connection] /\ \A x \in Conns \ {c} : cs[x] = conn[x]
        /\ cs[c].phase = "live" /\ cs[c].host = w /\ cs[c].type = "IDLE_SERVER"
        /\ cs[c].other = NoConn /\ cs[c].dev = d
    BY <1>1, <1>3, DeclaredGood DEF Good
  <2>4. cs[c].type = "IDLE_SERVER" /\ cs[c].other = NoConn /\ cs[c].phase = "live"
        /\ cs[c].host = w
    BY <2>2
  <2>5. cs \in [Conns -> Connection] BY <2>2
  <2> HIDE DEF cs
  <2>7. Good(cs) /\ Lone(cs, {c})
    BY <1>1, <2>2 DEF Lone
  <2>8. ASSUME NEW r, Good(r), Step(cs, r)
        PROVE  Step(conn, r)
    <3>1. Moves(conn, r) /\ Serves(conn, r)
      BY <1>1, <2>2, <2>4, <2>8 DEF Step, Moves, Serves
    <3>2. r[c].type # "CLIENT" \/ r[c].other = NoConn
      BY <2>4, <2>8 DEF Step, Serves, Good, Shape
    <3>3. Waits(conn, r) BY <2>2, <2>8, <3>2 DEF Step, Waits
    <3> QED BY <3>1, <3>3 DEF Step
  <2>9. CASE Settle(SendError(cs, c))
    <3>1. \A r \in SendError(cs, c) : Good(r) /\ Step(conn, r) /\ Lone(r, {})
      BY <2>4, <2>7, <2>8, SendErrorGood
    <3> QED BY <2>9, <3>1, SettleAfter
  <2>10. CASE Crash("HostAssert")
    BY <2>10, CrashAfter DEF Faults
  <2>11. CASE Settle(EarlyAnswer(Match(cs, c, k), c))
    <3>1. \A r \in EarlyAnswer(Match(cs, c, k), c) :
            Good(r) /\ Step(conn, r) /\ Lone(r, {})
      BY <2>4, <2>7, <2>8, EarlyAnswerGood
    <3> QED BY <2>11, <3>1, SettleAfter
  <2>12. CASE /\ InClientTable(cs, k) /\ u # NoWorker
              /\ conn' = Detach(cs, c) /\ pipe' = [pipe EXCEPT ![u] = Append(@, m)]
              /\ doing' = [doing EXCEPT ![w] = act]
              /\ UNCHANGED <<connectorUp, fault>>
    <3>1. u \in Workers BY <2>5, <2>12 DEF Connection
    <3>2. m \in Message /\ m.conn = c BY DEF Message
    <3>3. act \in Activity /\ act.op # "attach" BY DEF Activity
    <3>4. \A x \in Conns \ {c} : conn'[x] = conn[x]
      BY <2>2, <2>5, <2>12 DEF Detach
    <3>5. conn'[c] = [cs[c] EXCEPT !.phase = "moving", !.rd = FALSE, !.tmo = FALSE,
                                   !.armed = cs[c].armed /\ ~cs[c].tmo]
      BY <2>5, <2>12 DEF Detach
    <3>6. /\ conn'[c].phase = "moving" /\ conn'[c].type = "IDLE_SERVER"
          /\ conn'[c].other = NoConn /\ conn'[c].tmo = FALSE
      BY <2>4, <2>5, <3>5 DEF Connection
    <3>7. conn' \in [Conns -> Connection]
      <4>1. cs[c] \in Connection /\ (cs[c].armed /\ ~cs[c].tmo) \in BOOLEAN
        BY <2>5 DEF Connection
      <4>2. conn'[c] \in Connection
        BY <3>5, <4>1 DEF Connection, Phases
      <4>3. \A x \in Conns : conn'[x] \in Connection
        BY <3>4, <4>2, <1>1 DEF Good
      <4>4. DOMAIN conn' = Conns /\ conn' = [x \in Conns |-> conn'[x]]
        BY <2>5, <2>12 DEF Detach
      <4> QED BY <4>3, <4>4
    <3> HIDE DEF m, act, u
    <3>8. pipe' \in [Workers -> Seq(Message)] /\ doing' \in [Workers -> Activity]
      BY <2>12, <3>1, <3>2, <3>3 DEF IInv, TypeOK
    <3>9. TypeOK' BY <2>12, <3>7, <3>8 DEF IInv, TypeOK
    <3>10. ASSUME NEW x \in Conns
           PROVE  Mutual(conn', x) /\ Shape(conn', x) /\ Timed(conn', x)
      <4>1. CASE x = c BY <4>1, <3>6 DEF Mutual, Shape, Timed
      <4>2. CASE x # c
        <5>1. conn[x].other # NoConn => conn[x].other \in Conns \ {c}
          BY <1>1, <1>3 DEF Good, Mutual, Connection
        <5>2. Mutual(conn', x) BY <4>2, <5>1, <1>1, <3>4 DEF Good, Mutual
        <5> QED BY <4>2, <5>2, <1>1, <3>4 DEF Good, Shape, Timed
      <4> QED BY <4>1, <4>2
    <3>11. Good(conn)' /\ Lone(conn, {})'
      BY <1>1, <3>4, <3>6, <3>7, <3>10 DEF Good, Lone
    <3>12. InPipes(conn, pipe)'
      <4>1. conn'[m.conn].phase = PhaseOf(m)
        BY <3>6 DEF PhaseOf, m
      <4>2. pipe \in [Workers -> Seq(Message)] /\ InPipes(conn, pipe)
        BY DEF IInv, TypeOK
      <4>3. InPipes(conn', [pipe EXCEPT ![u] = Append(@, m)])
        BY <1>1, <3>1, <3>2, <3>4, <4>1, <4>2, PipesAppend
      <4> QED BY <2>12, <4>3
    <3>13. Building'
      <4>1. \A v \in Workers \ {w} : doing'[v] = doing[v]
        BY <2>12 DEF IInv, TypeOK
      <4>2. doing'[w].op # "attach"
        BY <2>12, <3>3 DEF IInv, TypeOK
      <4> QED BY <1>1, <4>1, <4>2, <3>4 DEF IInv, Building
    <3>14. Serves(conn, conn') /\ Waits(conn, conn')
      BY <1>1, <3>4, <3>6 DEF Serves, Waits
    <3> QED BY <3>9, <3>11, <3>12, <3>13, <3>14 DEF After, IInv
  <2> QED BY <2>1, <2>9, <2>10, <2>11, <2>12
<1> QED BY <1>2, <1>3

LEMMA ResumeAfter ==
  ASSUME IInv, NEW w \in Workers, Resume(w)
  PROVE  After
<1>1. CASE Crash("WrongThread") \/ Crash("Dangling")
  BY <1>1, CrashAfter DEF Faults
<1>2. CASE /\ doing' = [doing EXCEPT ![w] = Loop]
           /\ UNCHANGED <<conn, pipe, connectorUp, fault>>
  <2>1. doing' \in [Workers -> Activity]
    BY <1>2 DEF IInv, TypeOK, Loop, Activity
  <2>2. TypeOK' BY <1>2, <2>1 DEF IInv, TypeOK
  <2>3. Good(conn)' /\ Lone(conn, {})' /\ InPipes(conn, pipe)'
    BY <1>2 DEF IInv, Good, Mutual, Shape, Timed, Lone, InPipes
  <2>4. Building' BY <1>2 DEF IInv, TypeOK, Building, Loop
  <2>5. Serves(conn, conn') /\ Waits(conn, conn')
    BY <1>2 DEF Serves, Waits
  <2> QED BY <2>2, <2>3, <2>4, <2>5 DEF After, IInv
<1> QED BY <1>1, <1>2 DEF Resume

\* The handlers that close or answer an error.
LEMMA ClosingAfter ==
  ASSUME IInv, NEW w \in Workers, NEW c \in Conns,
         \/ BadRequest(w, c) \/ ReadFail(w, c)
         \/ RelayFail(w, c) \/ IdleTimeout(w, c)
  PROVE  After
<1>1. Good(conn) /\ Lone(conn, {c}) /\ conn[c].phase = "live"
  BY DEF BadRequest, ReadFail, RelayFail, IdleTimeout, Reads, Runs, IInv, Lone
<1>2. CASE Settle(SendError(conn, c)) BY <1>1, <1>2, SendErrorGood, SettleAfter
<1>3. CASE Settle(CloseRead(conn, c)) BY <1>1, <1>3, CloseReadGood, SettleAfter
<1>4. CASE Settle({CloseWrite(conn, c)})
  BY <1>1, <1>4, CloseWriteGood, SettleAfter
<1> QED BY <1>2, <1>3, <1>4 DEF BadRequest, ReadFail, RelayFail, IdleTimeout

LEMMA SpecialRequestAfter ==
  ASSUME IInv, NEW w \in Workers, NEW c \in Conns, SpecialRequest(w, c)
  PROVE  After
<1> DEFINE q == [conn EXCEPT ![c].closing = FALSE]
<1> USE NoneAssumption
<1>1. /\ Good(conn) /\ Lone(conn, {}) /\ conn[c].phase = "live" /\ conn[c].rd
      /\ conn[c].type = "CLIENT" /\ conn[c] \in Connection
      /\ Settle({CloseWrite(conn, c), q})
  BY DEF SpecialRequest, Reads, Runs, IInv, Good
<1>2. \A x \in Conns \ {c} : q[x] = conn[x]
  BY <1>1 DEF Good
<1>3. q[c] = [conn[c] EXCEPT !.closing = FALSE]
  BY <1>1 DEF Good
<1>4. q \in [Conns -> Connection]
  <2>1. [conn[c] EXCEPT !.closing = FALSE] \in Connection
    BY <1>1 DEF Connection
  <2> QED BY <1>1, <2>1 DEF Good
<1> HIDE DEF q
<1>5. /\ q[c].phase = "live" /\ q[c].host = conn[c].host /\ q[c].type = "CLIENT"
      /\ q[c].other = conn[c].other /\ q[c].dev = conn[c].dev
      /\ q[c].tmo = conn[c].tmo /\ q[c].armed = conn[c].armed
  BY <1>1, <1>3 DEF Connection
<1>6. ASSUME NEW x \in Conns PROVE Mutual(q, x) /\ Shape(q, x) /\ Timed(q, x)
  <2>1. conn[x].other # NoConn => conn[x].other \in Conns
    BY <1>1 DEF Good, Connection
  <2>2. Mutual(q, x) BY <1>1, <1>2, <1>5, <2>1 DEF Good, Mutual
  <2>3. Shape(q, x) /\ Timed(q, x) BY <1>1, <1>2, <1>5 DEF Good, Shape, Timed
  <2> QED BY <2>2, <2>3
<1>7. Step(conn, q) /\ Lone(q, {})
  BY <1>1, <1>2, <1>5 DEF Step, Moves, Serves, Waits, Lone
<1>8. Lone(conn, {c}) BY <1>1 DEF Lone
<1>9. Good(q) BY <1>4, <1>6 DEF Good
<1> QED BY <1>1, <1>7, <1>8, <1>9, CloseWriteGood, SettleAfter

\* A server that has lost its client is closing (Lone), so that it does not
\* become idle when it has sent all.
LEMMA WriteReadyAfter ==
  ASSUME IInv, NEW w \in Workers, NEW c \in Conns, WriteReady(w, c)
  PROVE  After
<1>1. Good(conn) /\ Lone(conn, {}) /\ conn[c].phase = "live"
  BY DEF WriteReady, Runs, IInv
<1>2. ~(conn[c].type = "BUSY_SERVER" /\ conn[c].other = NoConn /\ ~conn[c].closing)
  BY <1>1 DEF Lone
<1>3. Settle({CloseWrite(conn, c), conn})
  BY <1>2 DEF WriteReady
<1>4. Step(conn, conn) /\ Lone(conn, {c})
  BY <1>1 DEF Step, Moves, Serves, Waits, Lone
<1> QED BY <1>1, <1>3, <1>4, CloseWriteGood, SettleAfter

\* The timer that has fired is no longer armed: the client stops reading.
LEMMA TimeoutAfter ==
  ASSUME IInv, NEW w \in Workers, NEW c \in Conns, Timeout(w, c)
  PROVE  After
<1> DEFINE fired == [conn EXCEPT ![c].armed = FALSE]
           q == [fired EXCEPT ![c] = [@ EXCEPT !.closing = TRUE, !.rd = FALSE]]
<1> USE NoneAssumption
<1>1. /\ Good(conn) /\ Lone(conn, {}) /\ conn[c].phase = "live"
      /\ conn[c] \in Connection
  BY DEF Timeout, Runs, IInv, Good
<1>2. CASE Crash("PairedTimer") \/ Crash("StrayTimer")
  BY <1>2, CrashAfter DEF Faults
<1>3. CASE conn[c].other = NoConn /\ conn[c].tmo /\ Settle(SendError(fired, c))
  <2>1. \A x \in Conns \ {c} : fired[x] = conn[x]
    BY <1>1 DEF Good
  <2>2. fired[c] = [conn[c] EXCEPT !.armed = FALSE] /\ DOMAIN fired = Conns
    BY <1>1 DEF Good
  <2>3. fired \in [Conns -> Connection]
    <3>1. [conn[c] EXCEPT !.armed = FALSE] \in Connection
      BY <1>1 DEF Connection
    <3> QED BY <1>1, <3>1 DEF Good
  <2>4. q[c] = [fired[c] EXCEPT !.closing = TRUE, !.rd = FALSE]
        /\ \A x \in Conns \ {c} : q[x] = fired[x]
    BY <2>3
  <2>5. q \in [Conns -> Connection]
    <3>1. [fired[c] EXCEPT !.closing = TRUE, !.rd = FALSE] \in Connection
      <4> HIDE DEF fired
      <4> QED BY <2>3 DEF Connection
    <3> QED BY <2>3, <3>1
  <2>6. SendError(fired, c) = {CloseWrite(fired, c), q}
    BY DEF SendError
  <2> HIDE DEF q, fired
  <2>7. fired[c].other = NoConn /\ fired[c].tmo /\ fired[c].armed = FALSE
        /\ fired[c].phase = "live" /\ fired[c].type = conn[c].type
        /\ fired[c].dev = conn[c].dev
    BY <1>1, <1>3, <2>2 DEF Connection
  <2>8. /\ q[c].phase = "live" /\ q[c].type = conn[c].type
        /\ q[c].other = NoConn /\ q[c].dev = conn[c].dev
        /\ q[c].closing = TRUE /\ q[c].rd = FALSE
    BY <2>3, <2>4, <2>7 DEF Connection
  <2>9. CloseWrite(fired, c) = CloseWrite(conn, c)
    <3>1. Pair(fired, c) = {c} /\ Pair(conn, c) = {c}
      BY <1>3, <2>7 DEF Pair
    <3>2. \A x \in {c} : (fired[x].armed /\ ~fired[x].tmo)
                           = (conn[x].armed /\ ~conn[x].tmo)
      BY <1>3, <2>7
    <3> QED BY <2>1, <3>1, <3>2 DEF CloseWrite, Kill
  <2>10. ASSUME NEW x \in Conns PROVE Mutual(q, x) /\ Shape(q, x) /\ Timed(q, x)
    <3>1. CASE x = c BY <3>1, <2>8 DEF Mutual, Shape, Timed
    <3>2. CASE x # c
      <4>1. conn[x].other # NoConn => conn[x].other \in Conns \ {c}
        BY <1>1, <1>3 DEF Good, Mutual, Connection
      <4>2. q[x] = conn[x] BY <3>2, <2>1, <2>4
      <4>3. conn[x].other # NoConn => q[conn[x].other] = conn[conn[x].other]
        BY <4>1, <2>1, <2>4
      <4>4. Mutual(q, x) BY <4>2, <4>3, <1>1 DEF Good, Mutual
      <4> QED BY <4>2, <4>4, <1>1 DEF Good, Shape, Timed
    <3> QED BY <3>1, <3>2
  <2>11. Good(q) BY <2>5, <2>10 DEF Good
  <2>12. Step(conn, q) /\ Lone(q, {}) /\ Lone(conn, {c})
    <3>1. (\A x \in Conns \ {c} : q[x] = conn[x]) /\ conn[c].other = NoConn
      BY <1>3, <2>1, <2>4
    <3>2. Moves(conn, q) BY <1>1, <3>1, <2>8 DEF Moves
    <3>3. Serves(conn, q) BY <1>1, <3>1, <2>8 DEF Serves
    <3>4. Waits(conn, q) BY <3>1, <2>8 DEF Waits
    <3>5. Lone(q, {}) /\ Lone(conn, {c}) BY <1>1, <3>1, <2>8 DEF Lone
    <3> QED BY <3>2, <3>3, <3>4, <3>5 DEF Step
  <2>13. Settle({CloseWrite(conn, c), q}) BY <1>3, <2>6, <2>9
  <2> QED BY <1>1, <2>11, <2>12, <2>13, CloseWriteGood, SettleAfter
<1> QED BY <1>2, <1>3 DEF Timeout, fired

LEMMA NextAfter == IInv /\ [Next]_vars => After
<1> SUFFICES ASSUME IInv, [Next]_vars PROVE After
  OBVIOUS
<1>1. ASSUME NEW c \in Conns, NEW w \in Workers, Dispatch(c, w) PROVE After
  BY <1>1, DispatchAfter
<1>2. CASE StopConnector \/ Halted \/ UNCHANGED vars
  <2>1. UNCHANGED <<conn, pipe, doing, fault>> /\ connectorUp' \in BOOLEAN
    BY <1>2 DEF StopConnector, Halted, vars, IInv, TypeOK
  <2>2. TypeOK' BY <2>1 DEF IInv, TypeOK
  <2>3. Good(conn)' /\ Lone(conn, {})' /\ InPipes(conn, pipe)' /\ Building'
    BY <2>1 DEF IInv, Good, Mutual, Shape, Timed, Lone, InPipes, Building
  <2>4. Serves(conn, conn') /\ Waits(conn, conn')
    BY <2>1 DEF Serves, Waits
  <2> QED BY <2>2, <2>3, <2>4 DEF After, IInv
<1>3. ASSUME NEW w \in Workers, Worker(w) PROVE After
  BY <1>3, TakeAddAfter, FinishAddAfter, TakeMatchAfter, ResumeAfter DEF Worker
<1>4. ASSUME NEW w \in Workers, NEW c \in Conns, Handler(w, c) PROVE After
  <2>0. (\E d \in Devs : ClientRequest(w, c, d)) \/ Happens(w, c)
    BY <1>4 DEF Handler, Requests
  <2>1. CASE \E d \in Devs : ClientRequest(w, c, d)
    BY <2>1, ClientRequestAfter
  <2>2. CASE \E d \in Devs, k \in Conns, body \in BOOLEAN :
               DeviceResponse(w, c, d, k, body)
    BY <2>2, DeviceResponseAfter
  <2>3. CASE \/ BadRequest(w, c) \/ ReadFail(w, c)
             \/ RelayFail(w, c) \/ IdleTimeout(w, c)
    BY <2>3, ClosingAfter
  <2>4. CASE SpecialRequest(w, c) BY <2>4, SpecialRequestAfter
  <2>5. CASE WriteReady(w, c) BY <2>5, WriteReadyAfter
  <2>6. CASE Timeout(w, c) BY <2>6, TimeoutAfter
  <2> QED BY <2>0, <2>1, <2>2, <2>3, <2>4, <2>5, <2>6 DEF Happens
<1> QED BY <1>1, <1>2, <1>3, <1>4 DEF Next
-----------------------------------------------------------------------------
LEMMA Inductive == Spec => []IInv
<1>1. IInv /\ [Next]_vars => IInv' BY NextAfter DEF After
<1> QED BY <1>1, InitIInv, PTL DEF Spec

\* Every handler, pipe message and timer keeps the fields of all connections,
\* pipes and workers within their types, for any number of each.
THEOREM TypeCorrect == Spec => []TypeOK
<1>1. IInv => TypeOK BY DEF IInv
<1> QED BY <1>1, Inductive, PTL

\* connection::match and the paths that undo it (close, handle_uri, the
\* timing wheel) keep the two other_ pointers of a pair in agreement, so no
\* handler follows a pointer to a deleted or foreign connection.
THEOREM PairingIsMutual == Spec => []PairingMutual
<1>1. IInv => PairingMutual BY DEF IInv, Good, Mutual, PairingMutual
<1> QED BY <1>1, Inductive, PTL

\* A socket or detached connection is in exactly one message of one pipe
\* (notify_add_conn, notify_match_conn): a worker takes it once and alive.
THEOREM PipesOwnTheirConnections == Spec => []InOnePipe
<1>1. IInv => InOnePipe BY DEF IInv, InPipes, PhaseOf, InOnePipe
<1> QED BY <1>1, Inductive, PTL

\* A client that waits for its device has a timer pending or is being closed
\* (request_new_server, match, handle_timeout), and is not paired meanwhile.
THEOREM WaitingIsTimed == Spec => []WaitingClientTimed
<1>1. IInv => WaitingClientTimed BY DEF IInv, Good, Timed, WaitingClientTimed
<1> QED BY <1>1, Inductive, PTL

\* Between handlers a server without a client is closing (match_client,
\* match, close): no idle server is ever left in server_conn_table.
THEOREM LoneServersClose == Spec => []LoneServerCloses
<1>1. IInv => LoneServerCloses BY DEF IInv, Lone, LoneServerCloses
<1> QED BY <1>1, Inductive, PTL

\* A busy server never becomes idle and never gets a second client: reuse of
\* servers is off in match_server and close.
THEOREM ServersServeOneClient == Spec => ServesOneClient
<1> DEFINE A == \A c \in Conns :
                  conn[c].type = "BUSY_SERVER" =>
                    \/ conn'[c].phase = "free"
                    \/ /\ conn'[c].type = "BUSY_SERVER"
                       /\ conn'[c].other \in {conn[c].other, NoConn}
<1>1. IInv /\ [Next]_vars => A
  BY NextAfter DEF After, Serves
<1> QED BY <1>1, Inductive, PTL DEF Spec, ServesOneClient

\* match pairs a client only while its timer runs, with a server of the
\* device its last request named.
THEOREM ClientsArePairedWhileWaiting == Spec => PairedWhileWaiting
<1> DEFINE A == \A c \in Conns :
                  LET o == conn'[c].other
                  IN  conn[c].type = "CLIENT" /\ conn[c].other = NoConn
                        /\ o # NoConn /\ conn'[c].type = "CLIENT"
                      => conn[c].tmo /\ conn'[o].dev = conn[c].dev
<1>1. IInv /\ [Next]_vars => A
  <2> SUFFICES ASSUME IInv, [Next]_vars, NEW c \in Conns,
                      conn[c].type = "CLIENT", conn[c].other = NoConn,
                      conn'[c].other # NoConn, conn'[c].type = "CLIENT"
               PROVE  conn[c].tmo /\ conn'[conn'[c].other].dev = conn[c].dev
    OBVIOUS
  <2>1. IInv' /\ Waits(conn, conn') BY NextAfter DEF After
  <2>2. conn[c].tmo /\ conn'[c].dev = conn[c].dev BY <2>1 DEF Waits
  <2>3. conn'[conn'[c].other].dev = conn'[c].dev
    BY <2>1 DEF IInv, Good, Mutual
  <2> QED BY <2>2, <2>3
<1> QED BY <1>1, Inductive, PTL DEF Spec, PairedWhileWaiting
-----------------------------------------------------------------------------
(***************************************************************************)
(* ConnMatch implements Rendezvous.  View(cs) is what the ends of a table  *)
(* are to each other; the lemmas say what the pieces of a handler make of  *)
(* it, and Becomes(v, w) that a step of Rendezvous, or none, makes w of v. *)
(***************************************************************************)
View(cs) == [c \in Conns |-> EndOf(cs[c])]

\* Meeting!Without for any ends.
Gone(v, S) == [x \in Conns |-> IF x \in S THEN Meeting!Out
                               ELSE IF v[x].with \in S \ {NoConn}
                                    THEN [v[x] EXCEPT !.with = NoConn]
                                    ELSE v[x]]

\* k may meet s.
Suited(v, k, s) == /\ v[k].role = "asking" /\ s # k /\ v[s].with = NoConn
                   /\ \/ v[s].role = "idle" /\ v[s].dev = v[k].dev
                      \/ v[s].role \in {"client", "asking"}

Met(v, k, s) == [v EXCEPT ![k] = Meeting!Client(s),
                          ![s] = Meeting!Busy(v[k].dev, k)]
Missed(v, k, s, left) == [v EXCEPT ![k] = left, ![s] = Meeting!Out]

Becomes(v, w) ==
  \/ w = v
  \/ \E x \in Conns : v[x].role = "out" /\ w = [v EXCEPT ![x] = Meeting!Client(NoConn)]
  \/ \E x \in Conns : /\ v[x].role \in {"client", "asking"}
                      /\ \E now \in {Meeting!Client(NoConn)} \cup {Meeting!Asking(d) : d \in Devs} :
                           w = [Gone(v, {v[x].with}) EXCEPT ![x] = now]
  \/ \E x \in Conns, d \in Devs : /\ v[x].role \in {"client", "asking"} /\ v[x].with = NoConn
                                 /\ w = [v EXCEPT ![x] = Meeting!Idle(d)]
  \/ \E k, s \in Conns : /\ Suited(v, k, s)
                         /\ \/ w = Met(v, k, s)
                            \/ \E left \in {Meeting!Client(NoConn), Meeting!Out} : w = Missed(v, k, s, left)
  \/ \E x \in Conns : /\ v[x].role # "out"
                      /\ \E S \in {{x}, {x, v[x].with}} : w = Gone(v, S)

LEMMA BecomesStep ==
  ASSUME Becomes(View(conn), View(conn'))
  PROVE  Meeting!Next \/ View(conn') = View(conn)
<1> DEFINE v == View(conn)
           w == View(conn')
<1>1. CASE \E x \in Conns : v[x].role = "out" /\ w = [v EXCEPT ![x] = Meeting!Client(NoConn)]
  BY <1>1 DEF View, Meeting!Next, Meeting!Come
<1>2. CASE \E x \in Conns : /\ v[x].role \in {"client", "asking"}
                      /\ \E now \in {Meeting!Client(NoConn)} \cup {Meeting!Asking(d) : d \in Devs} :
                           w = [Gone(v, {v[x].with}) EXCEPT ![x] = now]
  BY <1>2 DEF View, Gone, Meeting!Next, Meeting!Ask, Meeting!Without
<1>3. CASE \E x \in Conns, d \in Devs : /\ v[x].role \in {"client", "asking"} /\ v[x].with = NoConn
                                 /\ w = [v EXCEPT ![x] = Meeting!Idle(d)]
  BY <1>3 DEF View, Meeting!Next, Meeting!Offer
<1>4. CASE \E k, s \in Conns : Suited(v, k, s) /\ w = Met(v, k, s)
  BY <1>4 DEF View, Suited, Met, Meeting!Next, Meeting!Meet, Meeting!Suits
<1>5. CASE \E k, s \in Conns : /\ Suited(v, k, s)
                              /\ \E left \in {Meeting!Client(NoConn), Meeting!Out} :
                                   w = Missed(v, k, s, left)
  BY <1>5 DEF View, Suited, Missed, Meeting!Next, Meeting!Miss, Meeting!Suits
<1>6. CASE \E x \in Conns : /\ v[x].role # "out"
                      /\ \E S \in {{x}, {x, v[x].with}} : w = Gone(v, S)
  BY <1>6 DEF View, Gone, Meeting!Next, Meeting!Leave, Meeting!Without
<1> QED BY <1>1, <1>2, <1>3, <1>4, <1>5, <1>6 DEF Becomes

\* The fields Rendezvous does not see.
LEMMA SameEnd ==
  ASSUME NEW k, NEW l, k.phase = "free" <=> l.phase = "free", k.type = l.type,
         k.tmo = l.tmo, k.dev = l.dev, k.other = l.other
  PROVE  EndOf(k) = EndOf(l)
BY DEF EndOf

LEMMA FreeEnd ==
  ASSUME NEW k, k.phase = "free", k.type = "CLIENT", k.tmo = FALSE, k.other = NoConn
  PROVE  EndOf(k) = Meeting!Out
BY DEF EndOf, Meeting!Out

LEMMA DeletedEnd ==
  ASSUME NEW k, NEW b, k = [FreeConn EXCEPT !.armed = b]
  PROVE  EndOf(k) = Meeting!Out
<1>1. k.phase = "free" /\ k.type = "CLIENT" /\ k.tmo = FALSE /\ k.other = NoConn
  BY DEF FreeConn
<1> QED BY <1>1, FreeEnd

LEMMA ClientEnd ==
  ASSUME NEW k, k.phase # "free", k.type = "CLIENT", k.tmo = FALSE
  PROVE  EndOf(k) = Meeting!Client(k.other)
BY DEF EndOf, RoleOf, Meeting!Client

LEMMA EndIs ==
  ASSUME NEW k \in Connection
  PROVE  /\ EndOf(k) = [role |-> EndOf(k).role, dev |-> EndOf(k).dev, with |-> EndOf(k).with]
         /\ EndOf(k).with = k.other
         /\ k.phase = "free" <=> EndOf(k).role = "out"
         /\ k.phase # "free" /\ k.type = "CLIENT" <=> EndOf(k).role \in {"client", "asking"}
         /\ k.phase # "free" /\ k.type = "CLIENT" /\ k.tmo => EndOf(k).role = "asking" /\ EndOf(k).dev = k.dev
         /\ k.phase # "free" /\ k.type = "CLIENT" /\ ~k.tmo => EndOf(k).role = "client" /\ EndOf(k).dev = NoDev
         /\ k.phase # "free" /\ k.type = "IDLE_SERVER" => EndOf(k).role = "idle" /\ EndOf(k).dev = k.dev
         /\ k.phase # "free" /\ k.type = "BUSY_SERVER" => EndOf(k).role = "busy" /\ EndOf(k).dev = k.dev
BY DEF EndOf, RoleOf, Connection, Types

LEMMA SameView ==
  ASSUME NEW a, NEW b, \A x \in Conns : EndOf(a[x]) = EndOf(b[x])
  PROVE  View(a) = View(b)
BY DEF View

\* close(SELF_WR_ERROR): both go.
LEMMA CloseWriteView ==
  ASSUME NEW cs, Good(cs), NEW c \in Conns, cs[c].phase = "live"
  PROVE  View(CloseWrite(cs, c)) = Gone(View(cs), {c, View(cs)[c].with})
<1> DEFINE r == CloseWrite(cs, c)
           o == cs[c].other
<1> USE NoneAssumption
<1>1. cs \in [Conns -> Connection] BY DEF Good
<1>2. \A x \in Conns : View(cs)[x] = EndOf(cs[x]) /\ EndOf(cs[x]).with = cs[x].other
  BY <1>1, EndIs DEF View
<1>3. \A x \in Conns : r[x] = IF x \in {c, o} \ {NoConn}
                               THEN [FreeConn EXCEPT !.armed = cs[x].armed /\ ~cs[x].tmo]
                               ELSE cs[x]
  BY DEF CloseWrite, Kill, Pair
<1> HIDE DEF r
<1>4. ASSUME NEW x \in Conns, x \in {c, o} PROVE EndOf(r[x]) = Meeting!Out
  <2>1. r[x] = [FreeConn EXCEPT !.armed = cs[x].armed /\ ~cs[x].tmo]
    BY <1>3, <1>4
  <2> QED BY <2>1, DeletedEnd
<1>5. ASSUME NEW x \in Conns, x \notin {c, o}
      PROVE  EndOf(r[x]) = EndOf(cs[x]) /\ cs[x].other \notin {c, o} \ {NoConn}
  <2>1. cs[x].other = NoConn \/ (cs[x].other \in Conns /\ cs[cs[x].other].other = x)
    BY <1>1 DEF Good, Mutual, Connection
  <2>2. o # NoConn => cs[o].other = c BY DEF Good, Mutual
  <2> QED BY <1>3, <1>5, <2>1, <2>2
<1>6. \A x \in Conns : EndOf(r[x]) = Gone(View(cs), {c, o})[x]
  BY <1>2, <1>4, <1>5 DEF Gone
<1>7. View(r) = Gone(View(cs), {c, o})
  BY <1>6 DEF View, Gone
<1> QED BY <1>2, <1>7 DEF r

\* send_error: both go, or nothing is seen of it.
LEMMA SendErrorView ==
  ASSUME NEW cs, Good(cs), NEW c \in Conns, cs[c].phase = "live",
         NEW r \in SendError(cs, c)
  PROVE  View(r) \in {View(cs), Gone(View(cs), {c, View(cs)[c].with})}
<1> DEFINE q == [cs EXCEPT ![c] = [@ EXCEPT !.closing = TRUE, !.rd = FALSE]]
<1>1. CASE r = CloseWrite(cs, c)
  BY <1>1, CloseWriteView
<1>2. CASE r = q
  <2>1. cs \in [Conns -> Connection] /\ cs[c] \in Connection BY DEF Good
  <2>2. \A x \in Conns \ {c} : q[x] = cs[x] BY <2>1
  <2>3. q[c] = [cs[c] EXCEPT !.closing = TRUE, !.rd = FALSE] BY <2>1
  <2> HIDE DEF q
  <2>4. EndOf(q[c]) = EndOf(cs[c])
    BY <2>1, <2>3, SameEnd DEF Connection
  <2> QED BY <1>2, <2>2, <2>4, SameView
<1> QED BY <1>1, <1>2 DEF SendError

\* close(SELF_RD_ERROR): both go, or c alone.
LEMMA CloseReadView ==
  ASSUME NEW cs, Good(cs), NEW c \in Conns, cs[c].phase = "live",
         NEW r \in CloseRead(cs, c)
  PROVE  View(r) \in {Gone(View(cs), {c}), Gone(View(cs), {c, View(cs)[c].with})}
<1> DEFINE o == cs[c].other
           left == [cs EXCEPT ![o] = [@ EXCEPT !.closing = TRUE, !.other = NoConn]]
<1> USE NoneAssumption
<1>1. CASE r = CloseWrite(cs, c)
  BY <1>1, CloseWriteView
<1>2. CASE o # NoConn /\ r = Kill(left, {c})
  <2>1. cs \in [Conns -> Connection] /\ o \in Conns /\ o # c /\ cs[o].other = c
        /\ cs[o].phase = "live"
    BY <1>2 DEF Good, Mutual, Connection
  <2>2. \A x \in Conns \ {c, o} : r[x] = cs[x]
    BY <1>2, <2>1 DEF Kill
  <2>3. r[o] = [cs[o] EXCEPT !.closing = TRUE, !.other = NoConn]
    BY <1>2, <2>1 DEF Kill
  <2>4. r[c] = [FreeConn EXCEPT !.armed = left[c].armed /\ ~left[c].tmo]
    BY <1>2 DEF Kill
  <2>5. EndOf(r[c]) = Meeting!Out
    BY <2>4, DeletedEnd
  <2>6. \A x \in Conns : View(cs)[x] = EndOf(cs[x]) /\ EndOf(cs[x]).with = cs[x].other
    BY <2>1, EndIs DEF View
  <2>7. EndOf(r[o]) = [EndOf(cs[o]) EXCEPT !.with = NoConn]
    <3>1. cs[o] \in Connection BY <2>1
    <3>2. /\ r[o].phase = cs[o].phase /\ r[o].type = cs[o].type /\ r[o].tmo = cs[o].tmo
          /\ r[o].dev = cs[o].dev /\ r[o].other = NoConn
      BY <2>3, <3>1 DEF Connection
    <3> QED BY <3>2 DEF EndOf
  <2>8. ASSUME NEW x \in Conns, x \notin {c, o} PROVE cs[x].other # c
    BY <2>8, <2>1, <1>2 DEF Good, Mutual
  <2>9. ASSUME NEW x \in Conns PROVE EndOf(r[x]) = Gone(View(cs), {c})[x]
    <3>1. CASE x = c BY <3>1, <2>5 DEF Gone
    <3>2. CASE x = o
      <4>1. View(cs)[o] = EndOf(cs[o]) /\ View(cs)[o].with = c BY <2>1, <2>6
      <4> QED BY <3>2, <4>1, <2>1, <2>7 DEF Gone
    <3>3. CASE x \notin {c, o}
      <4>1. View(cs)[x] = EndOf(cs[x]) /\ View(cs)[x].with # c BY <3>3, <2>6, <2>8
      <4> QED BY <3>3, <4>1, <2>2 DEF Gone
    <3> QED BY <3>1, <3>2, <3>3
  <2> QED BY <2>9 DEF View, Gone
<1> QED BY <1>1, <1>2 DEF CloseRead

\* request_new_server: c asks, may not ask, or goes.
LEMMA RequestView ==
  ASSUME NEW cs, Good(cs), NEW c \in Conns, cs[c].phase = "live",
         cs[c].type = "CLIENT", cs[c].other = NoConn, NEW r \in RequestNewServer(cs, c)
  PROVE  View(r) \in {[View(cs) EXCEPT ![c] = Meeting!Asking(cs[c].dev)],
                      [View(cs) EXCEPT ![c] = Meeting!Client(NoConn)], Gone(View(cs), {c})}
<1> DEFINE q(b) == [cs EXCEPT ![c] = [@ EXCEPT !.tmo = b, !.armed = TRUE]]
           o == NoConn
<1> USE NoneAssumption
<1>1. cs \in [Conns -> Connection] /\ cs[c] \in Connection BY DEF Good
<1>2. ASSUME NEW b \in BOOLEAN
      PROVE  View(q(b)) = [View(cs) EXCEPT ![c] = IF b THEN Meeting!Asking(cs[c].dev) ELSE Meeting!Client(NoConn)]
  <2>1. \A x \in Conns \ {c} : q(b)[x] = cs[x] BY <1>1
  <2>2. q(b)[c] = [cs[c] EXCEPT !.tmo = b, !.armed = TRUE] BY <1>1
  <2> HIDE DEF q
  <2>3. /\ q(b)[c].phase = "live" /\ q(b)[c].type = "CLIENT" /\ q(b)[c].tmo = b
        /\ q(b)[c].dev = cs[c].dev /\ q(b)[c].other = NoConn
    BY <1>1, <2>2 DEF Connection
  <2>4. EndOf(q(b)[c]) = IF b THEN Meeting!Asking(cs[c].dev) ELSE Meeting!Client(NoConn)
    BY <2>3 DEF EndOf, RoleOf, Meeting!Asking, Meeting!Client
  <2> QED BY <2>1, <2>4 DEF View
<1>3. CASE r = q(TRUE) BY <1>2, <1>3
<1>4. CASE r \in SendError(q(FALSE), c)
  <2>1. CASE r = [q(FALSE) EXCEPT ![c] = [@ EXCEPT !.closing = TRUE, !.rd = FALSE]]
    <3>1. q(FALSE) \in [Conns -> Connection]
      <4>1. [cs[c] EXCEPT !.tmo = FALSE, !.armed = TRUE] \in Connection BY <1>1 DEF Connection
      <4> QED BY <1>1, <4>1
    <3> HIDE DEF q
    <3>2. \A x \in Conns \ {c} : r[x] = q(FALSE)[x] BY <2>1, <3>1
    <3>3. r[c] = [q(FALSE)[c] EXCEPT !.closing = TRUE, !.rd = FALSE] /\ q(FALSE)[c] \in Connection
      BY <2>1, <3>1
    <3>4. EndOf(r[c]) = EndOf(q(FALSE)[c])
      <4>1. PICK k \in Connection : k = q(FALSE)[c] BY <3>3
      <4>2. r[c] = [k EXCEPT !.closing = TRUE, !.rd = FALSE] BY <3>3, <4>1
      <4>3. /\ r[c].phase = k.phase /\ r[c].type = k.type /\ r[c].tmo = k.tmo
            /\ r[c].dev = k.dev /\ r[c].other = k.other
        BY <4>1, <4>2 DEF Connection
      <4> QED BY <4>1, <4>3, SameEnd
    <3>5. View(r) = View(q(FALSE)) BY <3>2, <3>4, SameView
    <3> QED BY <1>2, <3>5
  <2>2. CASE r = CloseWrite(q(FALSE), c)
    <3>1. q(FALSE)[c].other = NoConn /\ \A x \in Conns \ {c} : q(FALSE)[x] = cs[x]
      BY <1>1 DEF Connection
    <3> HIDE DEF q
    <3>2. \A x \in Conns \ {c} : r[x] = cs[x]
      BY <2>2, <3>1 DEF CloseWrite, Kill, Pair
    <3>3. r[c] = [FreeConn EXCEPT !.armed = q(FALSE)[c].armed /\ ~q(FALSE)[c].tmo]
      BY <2>2 DEF CloseWrite, Kill, Pair
    <3>4. EndOf(r[c]) = Meeting!Out BY <3>3, DeletedEnd
    <3>5. \A x \in Conns : View(cs)[x] = EndOf(cs[x]) /\ EndOf(cs[x]).with = cs[x].other
      BY <1>1, EndIs DEF View
    <3>6. \A x \in Conns : cs[x].other # c BY DEF Good, Mutual
    <3>7. \A x \in Conns : EndOf(r[x]) = Gone(View(cs), {c})[x]
      BY <3>2, <3>4, <3>5, <3>6 DEF Gone
    <3> QED BY <3>7 DEF View, Gone
  <2> QED BY <1>4, <2>1, <2>2 DEF SendError
<1> QED BY <1>3, <1>4 DEF RequestNewServer

\* match(conn,true): s and k meet, or s is lost.
LEMMA PairedView ==
  ASSUME NEW cs, Good(cs), NEW s \in Conns, NEW k \in Conns,
         cs[s].phase = "live", cs[s].type = "IDLE_SERVER", cs[s].other = NoConn,
         ~Refused(cs, s, k), NEW r \in Paired(cs, s, k)
  PROVE  /\ Suited(View(cs), k, s)
         /\ View(r) \in {Met(View(cs), k, s), Missed(View(cs), k, s, Meeting!Client(NoConn))}
<1> DEFINE taken == [cs EXCEPT ![k] = [@ EXCEPT !.tmo = FALSE, !.armed = FALSE,
                                                !.inq = {}]]
           both == [taken EXCEPT
                      ![s] = [@ EXCEPT !.type = "BUSY_SERVER", !.other = k],
                      ![k] = [@ EXCEPT !.other = s]]
           v == View(cs)
<1> USE NoneAssumption
<1>1. /\ cs[k].type = "CLIENT" /\ cs[k].phase = "live" /\ cs[k].other = NoConn
      /\ cs[k].dev = cs[s].dev /\ cs[k].tmo /\ s # k
      /\ cs[s] \in Connection /\ cs[k] \in Connection /\ cs \in [Conns -> Connection]
  BY DEF Refused, InClientTable, Good, Shape
<1>2. \A x \in Conns : v[x] = EndOf(cs[x])
  BY DEF View
<1>3. /\ v[k].role = "asking" /\ v[k].dev = cs[s].dev
      /\ v[s].role = "idle" /\ v[s].dev = cs[s].dev /\ v[s].with = NoConn
  <2>1. v[k] = EndOf(cs[k]) /\ v[s] = EndOf(cs[s]) BY <1>2
  <2> HIDE DEF v
  <2>2. EndOf(cs[k]).role = "asking" /\ EndOf(cs[k]).dev = cs[k].dev BY <1>1, EndIs
  <2>3. EndOf(cs[s]).role = "idle" /\ EndOf(cs[s]).dev = cs[s].dev /\ EndOf(cs[s]).with = NoConn
    BY <1>1, EndIs
  <2> QED BY <1>1, <2>1, <2>2, <2>3
<1>4. Suited(v, k, s) BY <1>1, <1>3 DEF Suited
<1>5. /\ \A x \in Conns \ {k} : taken[x] = cs[x]
      /\ taken[k] = [cs[k] EXCEPT !.tmo = FALSE, !.armed = FALSE, !.inq = {}]
      /\ DOMAIN taken = Conns
  BY <1>1
<1>6. CASE r = CloseWrite(taken, s)
  <2> HIDE DEF taken, v
  <2>1. taken[s].other = NoConn BY <1>1, <1>5
  <2>2. \A x \in Conns \ {s} : r[x] = taken[x]
    BY <1>6, <2>1 DEF CloseWrite, Kill, Pair
  <2>3. r[s] = [FreeConn EXCEPT !.armed = taken[s].armed /\ ~taken[s].tmo]
    BY <1>6, <2>1 DEF CloseWrite, Kill, Pair
  <2>4. EndOf(r[s]) = Meeting!Out BY <2>3, DeletedEnd
  <2>5. r[k].phase = "live" /\ r[k].type = "CLIENT" /\ r[k].tmo = FALSE /\ r[k].other = NoConn
    <3>1. r[k] = [cs[k] EXCEPT !.tmo = FALSE, !.armed = FALSE, !.inq = {}]
      BY <1>1, <1>5, <2>2
    <3> QED BY <1>1, <3>1 DEF Connection
  <2>6. EndOf(r[k]) = Meeting!Client(NoConn)
    BY <2>5, ClientEnd
  <2>7. \A x \in Conns : EndOf(r[x]) = Missed(v, k, s, Meeting!Client(NoConn))[x]
    <3>1. v \in [Conns -> {v[x] : x \in Conns}] BY DEF View, v
    <3>2. /\ Missed(v, k, s, Meeting!Client(NoConn))[k] = Meeting!Client(NoConn)
          /\ Missed(v, k, s, Meeting!Client(NoConn))[s] = Meeting!Out
          /\ \A x \in Conns \ {k, s} : Missed(v, k, s, Meeting!Client(NoConn))[x] = v[x]
      BY <1>1, <3>1 DEF Missed
    <3>3. \A x \in Conns \ {k, s} : EndOf(r[x]) = v[x]
      <4>1. ASSUME NEW x \in Conns \ {k, s} PROVE EndOf(r[x]) = v[x]
        <5>1. r[x] = taken[x] /\ taken[x] = cs[x] BY <1>5, <2>2
        <5>2. v[x] = EndOf(cs[x]) BY <1>2
        <5> QED BY <5>1, <5>2
      <4> QED BY <4>1
    <3> QED BY <2>4, <2>6, <3>2, <3>3
  <2>8. View(r) = Missed(v, k, s, Meeting!Client(NoConn))
    BY <2>7 DEF View, Missed, v
  <2> QED BY <1>4, <2>8 DEF v
<1>7. CASE r = both
  <2>1. /\ \A x \in Conns \ {s, k} : both[x] = cs[x]
        /\ both[s] = [cs[s] EXCEPT !.type = "BUSY_SERVER", !.other = k]
        /\ both[k] = [taken[k] EXCEPT !.other = s]
    BY <1>1, <1>5
  <2> HIDE DEF both, taken, v
  <2>2. /\ both[k].phase = "live" /\ both[k].type = "CLIENT" /\ both[k].tmo = FALSE
        /\ both[k].other = s
    BY <1>1, <1>5, <2>1 DEF Connection
  <2>3. EndOf(both[k]) = Meeting!Client(s)
    BY <2>2, ClientEnd
  <2>4. /\ both[s].phase = "live" /\ both[s].type = "BUSY_SERVER"
        /\ both[s].other = k /\ both[s].dev = cs[s].dev
    BY <1>1, <2>1 DEF Connection
  <2>5. EndOf(both[s]) = Meeting!Busy(v[k].dev, k)
    BY <1>3, <2>4 DEF EndOf, RoleOf, Meeting!Busy
  <2>6. \A x \in Conns : EndOf(both[x]) = Met(v, k, s)[x]
    BY <1>1, <1>2, <2>1, <2>3, <2>5 DEF Met, View, v
  <2>7. View(r) = Met(v, k, s)
    BY <1>7, <2>6 DEF View, Met, v
  <2> QED BY <1>4, <2>7 DEF v
<1> QED BY <1>6, <1>7 DEF Paired

\* match(sock,true): refused, as send_error, or not.
LEMMA MatchView ==
  ASSUME NEW cs, Good(cs), NEW s \in Conns, NEW k \in Conns \cup {NoConn},
         cs[s].phase = "live", cs[s].type = "IDLE_SERVER", cs[s].other = NoConn,
         NEW r \in Match(cs, s, k)
  PROVE  \/ View(r) \in {View(cs), Gone(View(cs), {s, View(cs)[s].with})}
         \/ /\ k \in Conns /\ Suited(View(cs), k, s)
            /\ View(r) \in {Met(View(cs), k, s), Missed(View(cs), k, s, Meeting!Client(NoConn))}
<1>1. CASE Refused(cs, s, k) BY <1>1, SendErrorView DEF Match
<1>2. CASE ~Refused(cs, s, k)
  <2>1. k \in Conns BY <1>2 DEF Refused, InClientTable
  <2> QED BY <1>2, <2>1, PairedView DEF Match
<1> QED BY <1>1, <1>2

\* The two that have met go at once.
LEMMA MetGone ==
  ASSUME NEW cs, Good(cs), NEW s \in Conns, NEW k \in Conns, s # k,
         cs[s].other = NoConn, cs[k].other = NoConn
  PROVE  Gone(Met(View(cs), k, s), {s, Met(View(cs), k, s)[s].with})
           = Missed(View(cs), k, s, Meeting!Out)
<1> DEFINE v == View(cs)
           t == Met(v, k, s)
<1> USE NoneAssumption
<1>1. \A x \in Conns : v[x] = EndOf(cs[x]) /\ v[x].with = cs[x].other
  BY DEF View, EndOf
<1>2. \A x \in Conns \ {s, k} : v[x].with \notin {s, k}
  <2>1. \A x \in Conns : cs[x].other # NoConn => cs[cs[x].other].other = x
    BY DEF Good, Mutual
  <2>2. \A x \in Conns : cs[x].other \notin {s, k}
    BY <2>1
  <2> HIDE DEF v
  <2> QED BY <1>1, <2>2
<1>3. DOMAIN v = Conns BY DEF View
<1> HIDE DEF v
<1>4. t[s].with = k /\ DOMAIN t = Conns /\ \A x \in Conns \ {s, k} : t[x] = v[x]
  BY <1>3 DEF Met, Meeting!Busy
<1>5. \A x \in Conns : Gone(t, {s, k})[x] = Missed(v, k, s, Meeting!Out)[x]
  BY <1>2, <1>3, <1>4 DEF Gone, Missed
<1>6. DOMAIN Missed(v, k, s, Meeting!Out) = Conns BY <1>3 DEF Missed
<1>7. Missed(v, k, s, Meeting!Out) = [x \in Conns |-> Missed(v, k, s, Meeting!Out)[x]]
  BY <1>3 DEF Missed
<1>8. Gone(t, {s, k}) = Missed(v, k, s, Meeting!Out)
  BY <1>5, <1>7 DEF Gone
<1> QED BY <1>4, <1>8 DEF v

\* A match in the worker that reads on.
LEMMA EarlyAnswerView ==
  ASSUME NEW cs, Good(cs), NEW s \in Conns, NEW k \in Conns \cup {NoConn},
         cs[s].phase = "live", cs[s].host \in Workers,
         cs[s].type = "IDLE_SERVER", cs[s].other = NoConn,
         NEW r \in EarlyAnswer(Match(cs, s, k), s)
  PROVE  \/ View(r) \in {View(cs), Gone(View(cs), {s, View(cs)[s].with})}
         \/ /\ k \in Conns /\ Suited(View(cs), k, s)
            /\ \/ View(r) = Met(View(cs), k, s)
               \/ \E left \in {Meeting!Client(NoConn), Meeting!Out} :
                    View(r) = Missed(View(cs), k, s, left)
<1> USE NoneAssumption
<1>1. CASE r \in Match(cs, s, k) BY <1>1, MatchView
<1>2. ASSUME NEW t \in Match(cs, s, k), t[s].other # NoConn, r \in SendError(t, s)
      PROVE  /\ k \in Conns /\ Suited(View(cs), k, s)
             /\ View(r) \in {Met(View(cs), k, s), Missed(View(cs), k, s, Meeting!Out)}
  <2>1. Good(t) BY MatchGood
  <2>2. t[s].phase = "live" BY <1>2, <2>1 DEF Good, Mutual
  <2>3. View(r) \in {View(t), Gone(View(t), {s, View(t)[s].with})}
    BY <1>2, <2>1, <2>2, SendErrorView
  <2>4. View(t)[s].with # NoConn /\ View(cs)[s].with = NoConn
    BY <1>2 DEF View, EndOf
  <2>5. Gone(View(cs), {s, View(cs)[s].with})[s].with = NoConn
    BY DEF Gone, Meeting!Out
  <2>6. Missed(View(cs), k, s, Meeting!Client(NoConn))[s].with = NoConn
    BY DEF Missed, Meeting!Out, View
  <2>7. k \in Conns /\ Suited(View(cs), k, s) /\ View(t) = Met(View(cs), k, s)
    BY MatchView, <2>4, <2>5, <2>6
  <2>8. s # k /\ cs[k].other = NoConn
    <3>1. View(cs)[k].role = "asking" /\ s # k /\ cs[k] \in Connection
      BY <2>7 DEF Suited, Good
    <3>2. cs[k].type = "CLIENT" /\ cs[k].tmo
      BY <2>7, <3>1, EndIs DEF View, EndOf, RoleOf, Connection, Types
    <3> QED BY <3>1, <3>2, <2>7 DEF Good, Timed
  <2> QED BY <2>3, <2>7, <2>8, MetGone
<1> QED BY <1>1, <1>2 DEF EarlyAnswer

\* attach and the constructor: nothing is seen of them.
LEMMA PhaseUnseen ==
  ASSUME NEW cs \in [Conns -> Connection], NEW r, NEW c \in Conns,
         \A x \in Conns \ {c} : r[x] = cs[x], cs[c].phase # "free", r[c].phase # "free",
         r[c].type = cs[c].type, r[c].tmo = cs[c].tmo, r[c].dev = cs[c].dev,
         r[c].other = cs[c].other
  PROVE  View(r) = View(cs)
<1>1. EndOf(r[c]) = EndOf(cs[c]) BY SameEnd
<1> QED BY <1>1, SameView

LEMMA AttachedView ==
  ASSUME NEW cs \in [Conns -> Connection], NEW c \in Conns, NEW w, cs[c].phase # "free"
  PROVE  View(Attached(cs, c, w)) = View(cs)
<1> DEFINE r == Attached(cs, c, w)
<1>1. \A x \in Conns \ {c} : r[x] = cs[x] BY DEF Attached
<1>2. r[c] = [cs[c] EXCEPT !.phase = "live", !.host = w, !.rd = TRUE] BY DEF Attached
<1>3. cs[c] \in Connection OBVIOUS
<1> HIDE DEF r
<1>4. /\ r[c].phase = "live" /\ r[c].type = cs[c].type /\ r[c].tmo = cs[c].tmo
      /\ r[c].dev = cs[c].dev /\ r[c].other = cs[c].other
  BY <1>2, <1>3 DEF Connection
<1>5. View(r) = View(cs) BY <1>1, <1>4, PhaseUnseen
<1> QED BY <1>5 DEF r

\* The table in which c has dismissed its server and asks, is refused or goes.
LEMMA AsksView ==
  ASSUME NEW cs, Good(cs), NEW c \in Conns, NEW d \in Devs,
         cs[c].phase = "live", cs[c].type = "CLIENT",
         NEW r \in RequestNewServer(Asks(cs, c, d), c)
  PROVE  View(r) \in {[Gone(View(cs), {View(cs)[c].with}) EXCEPT ![c] = Meeting!Asking(d)],
                      [Gone(View(cs), {View(cs)[c].with}) EXCEPT ![c] = Meeting!Client(NoConn)],
                      Gone(View(cs), {c, View(cs)[c].with})}
<1> DEFINE o == cs[c].other
           v == View(cs)
<1> USE NoneAssumption
<1>1. PICK t : t = Asks(cs, c, d) OBVIOUS
<1>2. /\ Good(t) /\ t[c].phase = "live" /\ t[c].type = "CLIENT" /\ t[c].other = NoConn
      /\ t[c].dev = d
      /\ \A x \in Conns \ {c} :
           \/ x # o /\ t[x] = cs[x]
           \/ x = o /\ t[x].phase = "free"
  BY <1>1, AsksGood
<1>3. View(r) \in {[View(t) EXCEPT ![c] = Meeting!Asking(d)],
                   [View(t) EXCEPT ![c] = Meeting!Client(NoConn)], Gone(View(t), {c})}
  BY <1>1, <1>2, RequestView
<1>4. \A x \in Conns : v[x] = EndOf(cs[x]) /\ v[x].with = cs[x].other
  BY DEF View, EndOf
<1>5. ASSUME NEW x \in Conns \ {c}, x # o
      PROVE  View(t)[x] = v[x] /\ v[x].with # c /\ (v[x].with # NoConn => v[x].with # o)
  <2>1. View(t)[x] = EndOf(cs[x]) BY <1>2, <1>5 DEF View
  <2>2. cs[x].other # NoConn => cs[cs[x].other].other = x BY DEF Good, Mutual
  <2>3. o # NoConn => cs[o].other = c BY DEF Good, Mutual
  <2> QED BY <1>4, <1>5, <2>1, <2>2, <2>3
<1>6. ASSUME NEW x \in Conns \ {c}, x = o
      PROVE  View(t)[x] = Meeting!Out
  <2>1. t[x].phase = "free" BY <1>2, <1>6
  <2>2. t[x].type = "CLIENT" /\ t[x].other = NoConn /\ t[x].tmo = FALSE
    BY <1>2, <2>1 DEF Good, Shape, Connection
  <2> QED BY <2>1, <2>2, FreeEnd DEF View
<1>7. v[c].with = o BY <1>4
<1>8. o # c BY DEF Good, Mutual
<1> HIDE DEF v, o
<1>9. \A now : [View(t) EXCEPT ![c] = now] = [Gone(v, {o}) EXCEPT ![c] = now]
  <2>1. \A x \in Conns \ {c} : View(t)[x] = Gone(v, {o})[x]
    BY <1>5, <1>6 DEF Gone
  <2> QED BY <2>1 DEF View, Gone
<1>10. Gone(View(t), {c}) = Gone(v, {c, o})
  <2>1. \A x \in Conns : Gone(View(t), {c})[x] = Gone(v, {c, o})[x]
    <3>1. Meeting!Out.with = NoConn BY DEF Meeting!Out
    <3> QED BY <1>5, <1>6, <3>1 DEF Gone
  <2> QED BY <2>1 DEF Gone
<1> QED BY <1>3, <1>7, <1>9, <1>10 DEF v

LEMMA SettleView ==
  ASSUME NEW css, Settle(css), \A cs \in css : Becomes(View(conn), View(cs))
  PROVE  Becomes(View(conn), View(conn'))
<1>1. PICK cs \in css : IF Dangles(cs) THEN Crash("Dangling")
                        ELSE /\ conn' = cs
                             /\ UNCHANGED <<pipe, doing, connectorUp, fault>>
  BY DEF Settle
<1>2. CASE conn' = conn BY <1>2 DEF Becomes
<1> QED BY <1>1, <1>2 DEF Crash

\* An end goes, with the other one or without.
LEMMA GoneBecomes ==
  ASSUME Good(conn), NEW c \in Conns, conn[c].phase = "live",
         NEW S \in {{c}, {c, View(conn)[c].with}}
  PROVE  Becomes(View(conn), Gone(View(conn), S))
<1>1. View(conn)[c].role # "out"
  BY EndIs DEF View, Good
<1> QED BY <1>1 DEF Becomes

\* The main thread and the pipe.
LEMMA DispatchView ==
  ASSUME IInv, NEW c \in Conns, NEW w \in Workers, Dispatch(c, w)
  PROVE  Becomes(View(conn), View(conn'))
<1> DEFINE v == View(conn)
<1>1. /\ conn[c].phase = "free" /\ conn' = [conn EXCEPT ![c].phase = "dispatched"]
      /\ conn \in [Conns -> Connection] /\ conn[c] \in Connection
  BY DEF Dispatch, IInv, TypeOK
<1>2. conn[c].type = "CLIENT" /\ conn[c].other = NoConn /\ conn[c].tmo = FALSE
  BY <1>1 DEF IInv, Good, Shape, Connection
<1>3. /\ \A x \in Conns \ {c} : conn'[x] = conn[x]
      /\ conn'[c].phase = "dispatched" /\ conn'[c].type = "CLIENT"
      /\ conn'[c].other = NoConn /\ conn'[c].tmo = FALSE
  BY <1>1, <1>2 DEF Connection
<1>4. EndOf(conn'[c]) = Meeting!Client(NoConn)
  BY <1>3, ClientEnd
<1>5. \A x \in Conns : EndOf(conn'[x]) = [v EXCEPT ![c] = Meeting!Client(NoConn)][x]
  BY <1>3, <1>4 DEF View
<1>6. View(conn') = [v EXCEPT ![c] = Meeting!Client(NoConn)]
  BY <1>5 DEF View
<1>7. v[c].role = "out" BY <1>1, EndIs DEF View
<1> QED BY <1>6, <1>7 DEF Becomes

LEMMA TakeAddView ==
  ASSUME IInv, NEW w \in Workers, TakeAdd(w) \/ FinishAdd(w)
  PROVE  View(conn') = View(conn)
<1>1. conn \in [Conns -> Connection] /\ pipe \in [Workers -> Seq(Message)]
      /\ doing \in [Workers -> Activity]
  BY DEF IInv, TypeOK
<1>2. CASE TakeAdd(w)
  <2> DEFINE m == Head(pipe[w])
  <2>1. m \in Message /\ 1 \in 1 .. Len(pipe[w]) /\ m = pipe[w][1] /\ m.kind = "add"
    BY <1>1, <1>2 DEF TakeAdd
  <2>2. PICK c : c = m.conn OBVIOUS
  <2>3. c \in Conns /\ conn[c].phase = "dispatched"
    BY <2>1, <2>2 DEF IInv, InPipes, PhaseOf, Message
  <2>4. conn' = [conn EXCEPT ![c].phase = "built"] BY <1>2, <2>2 DEF TakeAdd
  <2> HIDE DEF m
  <2>5. conn[c] \in Connection BY <1>1, <2>3
  <2>6. /\ \A x \in Conns \ {c} : conn'[x] = conn[x]
        /\ conn'[c].phase = "built" /\ conn'[c].type = conn[c].type
        /\ conn'[c].tmo = conn[c].tmo /\ conn'[c].dev = conn[c].dev
        /\ conn'[c].other = conn[c].other
    BY <1>1, <2>3, <2>4, <2>5 DEF Connection
  <2> QED BY <1>1, <2>3, <2>6, PhaseUnseen
<1>3. CASE FinishAdd(w)
  <2>1. doing[w].conn \in Conns /\ conn[doing[w].conn].phase = "built"
    BY <1>3 DEF FinishAdd, IInv, Building
  <2>2. conn' = Attached(conn, doing[w].conn, w) BY <1>3 DEF FinishAdd
  <2> QED BY <1>1, <2>1, <2>2, AttachedView
<1> QED BY <1>2, <1>3

LEMMA TakeMatchView ==
  ASSUME IInv, NEW w \in Workers, TakeMatch(w)
  PROVE  Becomes(View(conn), View(conn'))
<1> DEFINE m == Head(pipe[w])
<1>1. conn \in [Conns -> Connection] /\ pipe \in [Workers -> Seq(Message)]
  BY DEF IInv, TypeOK
<1>2. m \in Message /\ 1 \in 1 .. Len(pipe[w]) /\ m = pipe[w][1] /\ m.kind = "match"
  BY <1>1 DEF TakeMatch
<1>3. PICK s : s = m.conn OBVIOUS
<1>4. PICK k : k = m.dst OBVIOUS
<1>5. /\ s \in Conns /\ k \in Conns \cup {NoConn} /\ conn[s].phase = "moving"
      /\ conn[s].type = "IDLE_SERVER"
  BY <1>2, <1>3, <1>4 DEF IInv, InPipes, PhaseOf, Message, Good, Shape
<1>6. PICK cs \in Match(Attached(conn, s, w), s, k) : conn' = cs \/ conn' = conn
  BY <1>3, <1>4 DEF TakeMatch, Crash
<1> HIDE DEF m
<1>7. PICK t : t = Attached(conn, s, w) OBVIOUS
<1>8. /\ Good(t) /\ t[s].phase = "live" /\ t[s].type = "IDLE_SERVER" /\ t[s].other = NoConn
  BY <1>5, <1>7, AttachedGood DEF IInv
<1>9. View(t) = View(conn) BY <1>1, <1>5, <1>7, AttachedView
<1>10. View(conn)[s].role # "out"
  BY <1>1, <1>5, EndIs DEF View
<1>11. \/ View(cs) \in {View(conn), Gone(View(conn), {s, View(conn)[s].with})}
       \/ /\ k \in Conns /\ Suited(View(conn), k, s)
          /\ View(cs) \in {Met(View(conn), k, s), Missed(View(conn), k, s, Meeting!Client(NoConn))}
  BY <1>5, <1>6, <1>7, <1>8, <1>9, MatchView
<1> QED BY <1>5, <1>6, <1>10, <1>11 DEF Becomes

\* Requests.
LEMMA ClientRequestView ==
  ASSUME IInv, NEW w \in Workers, NEW c \in Conns, NEW d \in Devs,
         ClientRequest(w, c, d)
  PROVE  Becomes(View(conn), View(conn'))
<1>1. /\ conn[c].phase = "live" /\ conn[c].type = "CLIENT" /\ Good(conn)
      /\ conn[c] \in Connection
  BY DEF ClientRequest, Reads, Runs, IInv, Good
<1>2. CASE Settle({conn, CloseWrite(conn, c)})
  <2>1. Becomes(View(conn), View(CloseWrite(conn, c)))
    BY <1>1, CloseWriteView, GoneBecomes
  <2>2. Becomes(View(conn), View(conn)) BY DEF Becomes
  <2> QED BY <1>2, <2>1, <2>2, SettleView
<1>3. CASE Settle(RequestNewServer(Asks(conn, c, d), c))
  <2>1. View(conn)[c].role \in {"client", "asking"}
    BY <1>1, EndIs DEF View
  <2>2. ASSUME NEW r \in RequestNewServer(Asks(conn, c, d), c)
        PROVE  Becomes(View(conn), View(r))
    <3>1. View(r) \in {[Gone(View(conn), {View(conn)[c].with}) EXCEPT ![c] = Meeting!Asking(d)],
                      [Gone(View(conn), {View(conn)[c].with}) EXCEPT ![c] = Meeting!Client(NoConn)],
                      Gone(View(conn), {c, View(conn)[c].with})}
      BY <1>1, AsksView
    <3>2. CASE View(r) = Gone(View(conn), {c, View(conn)[c].with})
      BY <1>1, <3>2, GoneBecomes
    <3>3. CASE \E now \in {Meeting!Client(NoConn)} \cup {Meeting!Asking(e) : e \in Devs} :
                 View(r) = [Gone(View(conn), {View(conn)[c].with}) EXCEPT ![c] = now]
      BY <2>1, <3>3 DEF Becomes
    <3> QED BY <3>1, <3>2, <3>3
  <2> QED BY <1>3, <2>2, SettleView
<1> QED BY <1>2, <1>3 DEF ClientRequest, Asks

\* The device that c declares to be meets its client in the table before, too.
LEMMA DeclaredView ==
  ASSUME Good(conn), NEW c \in Conns, NEW d \in Devs, NEW k \in Conns,
         conn[c].phase = "live", conn[c].type = "CLIENT", conn[c].other = NoConn,
         NEW t, t = Declared(conn, c, d), NEW r,
         \/ View(r) \in {View(t), Gone(View(t), {c, View(t)[c].with})}
         \/ /\ Suited(View(t), k, c)
            /\ \/ View(r) = Met(View(t), k, c)
               \/ \E left \in {Meeting!Client(NoConn), Meeting!Out} :
                    View(r) = Missed(View(t), k, c, left)
  PROVE  Becomes(View(conn), View(r))
<1> DEFINE v == View(conn)
<1> USE NoneAssumption
<1>1. /\ Good(t) /\ \A x \in Conns \ {c} : t[x] = conn[x]
      /\ t[c].phase = "live" /\ t[c].type = "IDLE_SERVER"
      /\ t[c].other = NoConn /\ t[c].dev = d
  BY DeclaredGood
<1>2. EndOf(t[c]) = Meeting!Idle(d)
  BY <1>1 DEF EndOf, RoleOf, Meeting!Idle
<1>3. View(t) = [v EXCEPT ![c] = Meeting!Idle(d)]
  BY <1>1, <1>2 DEF View
<1>4. v[c].role \in {"client", "asking"} /\ v[c].with = NoConn
  BY EndIs DEF View, Good
<1>5. CASE View(r) = View(t)
  <2>1. View(r) = [v EXCEPT ![c] = Meeting!Idle(d)] BY <1>3, <1>5
  <2> HIDE DEF v
  <2>2. \E x \in Conns, e \in Devs : /\ v[x].role \in {"client", "asking"} /\ v[x].with = NoConn
                                     /\ View(r) = [v EXCEPT ![x] = Meeting!Idle(e)]
    BY <1>4, <2>1
  <2>3. Becomes(v, View(r)) BY <2>2 DEF Becomes
  <2> QED BY <2>3 DEF v
<1>6. DOMAIN v = Conns BY DEF View
<1>7. View(t)[c] = Meeting!Idle(d) /\ Meeting!Idle(d).with = NoConn
      /\ \A x \in Conns \ {c} : View(t)[x] = v[x]
  BY <1>3, <1>6 DEF Meeting!Idle
<1> HIDE DEF v
<1>8. CASE View(r) = Gone(View(t), {c, View(t)[c].with})
  <2>1. Gone(View(t), {c, NoConn}) = Gone(v, {c, NoConn})
    BY <1>7 DEF Gone
  <2>2. View(r) = Gone(v, {c, v[c].with}) BY <1>4, <1>7, <1>8, <2>1
  <2> QED BY <2>2, GoneBecomes DEF v
<1>9. CASE /\ Suited(View(t), k, c)
           /\ \/ View(r) = Met(View(t), k, c)
              \/ \E left \in {Meeting!Client(NoConn), Meeting!Out} :
                   View(r) = Missed(View(t), k, c, left)
  <2>1. k # c /\ View(t)[k] = v[k] BY <1>7, <1>9 DEF Suited
  <2>2. Suited(v, k, c) BY <1>4, <1>9, <2>1 DEF Suited
  <2>3. Met(View(t), k, c) = Met(v, k, c)
    BY <1>3, <1>6, <2>1 DEF Met
  <2>4. \A left : Missed(View(t), k, c, left) = Missed(v, k, c, left)
    BY <1>3, <1>6, <2>1 DEF Missed
  <2> QED BY <1>9, <2>2, <2>3, <2>4 DEF Becomes, v
<1> QED BY <1>5, <1>8, <1>9

LEMMA DeviceResponseView ==
  ASSUME IInv, NEW w \in Workers, NEW c \in Conns, NEW d \in Devs,
         NEW k \in Conns, NEW body \in BOOLEAN,
         DeviceResponse(w, c, d, k, body)
  PROVE  Becomes(View(conn), View(conn'))
<1> USE NoneAssumption
<1>1. /\ conn[c].phase = "live" /\ conn[c].host = w /\ conn[c].type = "CLIENT"
      /\ Good(conn) /\ conn \in [Conns -> Connection]
  BY DEF DeviceResponse, Reads, Runs, IInv, Good
<1>2. CASE conn[c].other # NoConn
  <2>1. Settle(SendError(conn, c)) BY <1>2 DEF DeviceResponse
  <2>2. Becomes(View(conn), View(conn)) BY DEF Becomes
  <2> QED BY <1>1, <2>1, <2>2, SendErrorView, GoneBecomes, SettleView
<1>3. CASE conn[c].other = NoConn
  <2>0. PICK t : t = Declared(conn, c, d) OBVIOUS
  <2>1. \/ Settle(SendError(t, c))
        \/ Crash("HostAssert")
        \/ Settle(EarlyAnswer(Match(t, c, k), c))
        \/ conn' = Detach(t, c)
    BY <1>3, <2>0 DEF DeviceResponse, Declared
  <2>2. /\ Good(t) /\ t[c].phase = "live" /\ t[c].host = w
        /\ t[c].type = "IDLE_SERVER" /\ t[c].other = NoConn
    BY <1>1, <1>3, <2>0, DeclaredGood
  <2>3. CASE Settle(SendError(t, c))
    <3>1. \A r \in SendError(t, c) : Becomes(View(conn), View(r))
      BY <1>1, <1>3, <2>0, <2>2, SendErrorView, DeclaredView
    <3> QED BY <2>3, <3>1, SettleView
  <2>4. CASE Crash("HostAssert")
    BY <2>4 DEF Crash, Becomes
  <2>5. CASE Settle(EarlyAnswer(Match(t, c, k), c))
    <3>1. ASSUME NEW r \in EarlyAnswer(Match(t, c, k), c) PROVE Becomes(View(conn), View(r))
      <4>1. \/ View(r) \in {View(t), Gone(View(t), {c, View(t)[c].with})}
            \/ /\ Suited(View(t), k, c)
               /\ \/ View(r) = Met(View(t), k, c)
                  \/ \E left \in {Meeting!Client(NoConn), Meeting!Out} :
                       View(r) = Missed(View(t), k, c, left)
        BY <2>2, EarlyAnswerView
      <4> QED BY <1>1, <1>3, <2>0, <4>1, DeclaredView
    <3> QED BY <2>5, <3>1, SettleView
  <2>6. CASE conn' = Detach(t, c)
    <3>1. t \in [Conns -> Connection] /\ t[c] \in Connection BY <2>2 DEF Good
    <3>2. \A x \in Conns \ {c} : conn'[x] = t[x]
      BY <2>6, <3>1 DEF Detach
    <3>3. conn'[c] = [t[c] EXCEPT !.phase = "moving", !.rd = FALSE, !.tmo = FALSE,
                                  !.armed = t[c].armed /\ ~t[c].tmo]
      BY <2>6, <3>1 DEF Detach
    <3>4. /\ conn'[c].phase = "moving" /\ conn'[c].type = "IDLE_SERVER"
          /\ conn'[c].dev = t[c].dev /\ conn'[c].other = NoConn
      BY <2>2, <3>1, <3>3 DEF Connection
    <3>5. EndOf(conn'[c]) = EndOf(t[c])
      BY <2>2, <3>4 DEF EndOf
    <3>6. View(conn') = View(t) BY <3>2, <3>5, SameView
    <3> QED BY <1>1, <1>3, <2>0, <3>6, DeclaredView
  <2> QED BY <2>1, <2>3, <2>4, <2>5, <2>6
<1> QED BY <1>2, <1>3

\* The handlers that close, answer an error or answer here.
LEMMA ClosingView ==
  ASSUME IInv, NEW w \in Workers, NEW c \in Conns,
         \/ BadRequest(w, c) \/ ReadFail(w, c)
         \/ RelayFail(w, c) \/ IdleTimeout(w, c)
  PROVE  Becomes(View(conn), View(conn'))
<1>1. Good(conn) /\ conn[c].phase = "live"
  BY DEF BadRequest, ReadFail, RelayFail, IdleTimeout, Reads, Runs, IInv
<1>2. Becomes(View(conn), View(conn)) BY DEF Becomes
<1>3. \A r \in SendError(conn, c) : Becomes(View(conn), View(r))
  BY <1>1, <1>2, SendErrorView, GoneBecomes
<1>4. \A r \in CloseRead(conn, c) : Becomes(View(conn), View(r))
  BY <1>1, CloseReadView, GoneBecomes
<1>5. \A r \in {CloseWrite(conn, c)} : Becomes(View(conn), View(r))
  BY <1>1, CloseWriteView, GoneBecomes
<1>6. \/ Settle(SendError(conn, c)) \/ Settle(CloseRead(conn, c))
      \/ Settle({CloseWrite(conn, c)})
  BY DEF BadRequest, ReadFail, RelayFail, IdleTimeout
<1> QED BY <1>3, <1>4, <1>5, <1>6, SettleView

LEMMA SpecialRequestView ==
  ASSUME IInv, NEW w \in Workers, NEW c \in Conns, SpecialRequest(w, c)
  PROVE  Becomes(View(conn), View(conn'))
<1>1. PICK q : q = [conn EXCEPT ![c].closing = FALSE] OBVIOUS
<1>2. /\ Good(conn) /\ conn \in [Conns -> Connection] /\ conn[c] \in Connection
      /\ conn[c].phase = "live" /\ Settle({CloseWrite(conn, c), q})
  BY <1>1 DEF SpecialRequest, Reads, Runs, IInv, Good
<1>3. \A x \in Conns \ {c} : q[x] = conn[x] BY <1>1, <1>2
<1>4. q[c] = [conn[c] EXCEPT !.closing = FALSE] BY <1>1, <1>2
<1>5. /\ q[c].phase = conn[c].phase /\ q[c].type = conn[c].type /\ q[c].tmo = conn[c].tmo
      /\ q[c].dev = conn[c].dev /\ q[c].other = conn[c].other
  BY <1>2, <1>4 DEF Connection
<1>6. View(q) = View(conn) BY <1>2, <1>3, <1>5, PhaseUnseen
<1>7. Becomes(View(conn), View(q)) BY <1>6 DEF Becomes
<1>8. Becomes(View(conn), View(CloseWrite(conn, c)))
  BY <1>2, CloseWriteView, GoneBecomes
<1> QED BY <1>2, <1>7, <1>8, SettleView

\* The server that has lost its client is closing: it is not idle again.
LEMMA WriteReadyView ==
  ASSUME IInv, NEW w \in Workers, NEW c \in Conns, WriteReady(w, c)
  PROVE  Becomes(View(conn), View(conn'))
<1>1. Good(conn) /\ Lone(conn, {}) /\ conn[c].phase = "live"
  BY DEF WriteReady, Runs, IInv
<1>2. ~(conn[c].type = "BUSY_SERVER" /\ conn[c].other = NoConn /\ ~conn[c].closing)
  BY <1>1 DEF Lone
<1>3. Settle({CloseWrite(conn, c), conn})
  BY <1>2 DEF WriteReady
<1>4. Becomes(View(conn), View(conn)) BY DEF Becomes
<1>5. Becomes(View(conn), View(CloseWrite(conn, c)))
  BY <1>1, CloseWriteView, GoneBecomes
<1> QED BY <1>3, <1>4, <1>5, SettleView

\* The client that nobody has answered is told, and may still meet its device
\* until its answer is sent.
LEMMA TimeoutView ==
  ASSUME IInv, NEW w \in Workers, NEW c \in Conns, Timeout(w, c)
  PROVE  Becomes(View(conn), View(conn'))
<1> USE NoneAssumption
<1>1. /\ Good(conn) /\ conn[c].phase = "live" /\ conn \in [Conns -> Connection]
      /\ conn[c] \in Connection
  BY DEF Timeout, Runs, IInv, Good
<1>2. CASE Crash("PairedTimer") \/ Crash("StrayTimer")
  BY <1>2 DEF Crash, Becomes
<1>3. PICK t : t = [conn EXCEPT ![c].armed = FALSE] OBVIOUS
<1>4. CASE conn[c].other = NoConn /\ conn[c].tmo /\ Settle(SendError(t, c))
  <2>1. /\ \A x \in Conns \ {c} : t[x] = conn[x]
        /\ t[c] = [conn[c] EXCEPT !.armed = FALSE] /\ t \in [Conns -> Connection]
    <3>1. [conn[c] EXCEPT !.armed = FALSE] \in Connection BY <1>1 DEF Connection
    <3> QED BY <1>1, <1>3, <3>1
  <2>2. /\ t[c].phase = conn[c].phase /\ t[c].type = conn[c].type
        /\ t[c].tmo = conn[c].tmo /\ t[c].dev = conn[c].dev
        /\ t[c].other = conn[c].other /\ t[c] \in Connection
    BY <1>1, <2>1 DEF Connection
  <2>3. ASSUME NEW r, r = CloseWrite(t, c) PROVE Becomes(View(conn), View(r))
    <3>1. \A x \in Conns \ {c} : r[x] = CloseWrite(conn, c)[x]
      BY <1>4, <2>1, <2>2, <2>3 DEF CloseWrite, Kill, Pair
    <3>2. /\ r[c] = [FreeConn EXCEPT !.armed = t[c].armed /\ ~t[c].tmo]
          /\ CloseWrite(conn, c)[c] = [FreeConn EXCEPT !.armed = conn[c].armed /\ ~conn[c].tmo]
      BY <2>3 DEF CloseWrite, Kill, Pair
    <3>3. EndOf(r[c]) = EndOf(CloseWrite(conn, c)[c])
      <4>1. EndOf(r[c]) = Meeting!Out BY <3>2, DeletedEnd
      <4>2. EndOf(CloseWrite(conn, c)[c]) = Meeting!Out BY <3>2, DeletedEnd
      <4> QED BY <4>1, <4>2
    <3>4. View(r) = View(CloseWrite(conn, c)) BY <3>1, <3>3, SameView
    <3> QED BY <1>1, <3>4, CloseWriteView, GoneBecomes
  <2>4. ASSUME NEW r, r = [t EXCEPT ![c] = [@ EXCEPT !.closing = TRUE, !.rd = FALSE]]
        PROVE  Becomes(View(conn), View(r))
    <3>1. (\A x \in Conns \ {c} : r[x] = t[x])
          /\ r[c] = [t[c] EXCEPT !.closing = TRUE, !.rd = FALSE]
      BY <2>1, <2>4
    <3>2. /\ r[c].phase = t[c].phase /\ r[c].type = t[c].type /\ r[c].tmo = t[c].tmo
          /\ r[c].dev = t[c].dev /\ r[c].other = t[c].other
      BY <2>2, <3>1 DEF Connection
    <3>3. View(r) = View(conn)
      <4>1. (\A x \in Conns \ {c} : r[x] = conn[x]) /\ r[c].phase = "live"
        BY <1>1, <2>1, <2>2, <3>1, <3>2
      <4>2. /\ r[c].type = conn[c].type /\ r[c].tmo = conn[c].tmo
            /\ r[c].dev = conn[c].dev /\ r[c].other = conn[c].other
        BY <2>2, <3>2
      <4> QED BY <1>1, <4>1, <4>2, PhaseUnseen
    <3> QED BY <3>3 DEF Becomes
  <2>5. \A r \in SendError(t, c) : Becomes(View(conn), View(r))
    BY <2>3, <2>4 DEF SendError
  <2> QED BY <1>4, <2>5, SettleView
<1> QED BY <1>2, <1>3, <1>4 DEF Timeout

LEMMA NextView == ASSUME IInv, [Next]_vars PROVE Becomes(View(conn), View(conn'))
<1>1. CASE conn' = conn BY <1>1 DEF Becomes
<1>2. CASE View(conn') = View(conn) BY <1>2 DEF Becomes
<1>3. ASSUME NEW c \in Conns, NEW w \in Workers, Dispatch(c, w)
      PROVE  Becomes(View(conn), View(conn'))
  BY <1>3, DispatchView
<1>4. ASSUME NEW w \in Workers, Worker(w) PROVE Becomes(View(conn), View(conn'))
  <2>1. CASE Resume(w) BY <1>1, <2>1 DEF Resume, Crash
  <2> QED BY <1>2, <1>4, <2>1, TakeAddView, TakeMatchView DEF Worker
<1>5. ASSUME NEW w \in Workers, NEW c \in Conns, Handler(w, c)
      PROVE  Becomes(View(conn), View(conn'))
  <2>0. (\E d \in Devs : ClientRequest(w, c, d)) \/ Happens(w, c)
    BY <1>5 DEF Handler, Requests
  <2>1. CASE \E d \in Devs : ClientRequest(w, c, d)
    BY <2>1, ClientRequestView
  <2>2. CASE \E d \in Devs, k \in Conns, body \in BOOLEAN : DeviceResponse(w, c, d, k, body)
    BY <2>2, DeviceResponseView
  <2>3. CASE \/ BadRequest(w, c) \/ ReadFail(w, c) \/ RelayFail(w, c) \/ IdleTimeout(w, c)
    BY <2>3, ClosingView
  <2> QED
    BY <2>0, <2>1, <2>2, <2>3, SpecialRequestView, WriteReadyView, TimeoutView
    DEF Happens
<1>6. CASE StopConnector \/ Halted \/ UNCHANGED vars
  BY <1>1, <1>6 DEF StopConnector, Halted, vars
<1> QED BY <1>3, <1>4, <1>5, <1>6 DEF Next

\* The whole of the pairing, accepted sockets, two threads' pipes, timers and
\* every form of close, is a rendezvous: a client meets one server of the device
\* it asked for, or nobody, and a server that has served never serves again.
THEOREM PairingIsARendezvous == Spec => ImplementsRendezvous
<1>1. Init => Meeting!Init
  BY FreeEnd DEF Init, FreeConn, Meeting!Init, EndOf, Meeting!Out
<1>2. IInv /\ [Next]_vars => [Meeting!Next]_[c \in Conns |-> EndOf(conn[c])]
  <2> SUFFICES ASSUME IInv, [Next]_vars
               PROVE  Meeting!Next \/ View(conn') = View(conn)
    BY DEF View
  <2> QED BY NextView, BecomesStep
<1> QED BY <1>1, <1>2, Inductive, PTL DEF Spec, ImplementsRendezvous, Meeting!Spec
=============================================================================
