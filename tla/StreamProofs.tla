------------------------------ MODULE StreamProofs ------------------------------
(***************************************************************************)
(* Proofs about one connection and what comes in on it: the two automata   *)
(* of HttpParser on headers of any length, the handlers of TlsConn, and    *)
(* the decoding of a name in RequestUri, whatever its length.              *)
(***************************************************************************)
EXTENDS HttpParser, TlsConn, RequestUri, SequenceTheorems, Induction

\* What the automaton has seen of CR LF CR LF in each of its states, but for
\* the word that it does not know.
Seen(s, l, n) ==
  /\ s = "start" => n = IF l = "first" THEN 0 ELSE 2
  /\ s = "almost_done" => n = 1
  /\ s = "header_almost_done" => n = 3
  /\ s = "done" => n = 4
  /\ s \notin {"start", "almost_done", "header_almost_done", "done", "check", "bad"} => n = 0

OfHeader == {"header_lws", "header_name", "done", "space_before_header_value",
             "header_value", "header_almost_done"}

Rows(l, s) == IF l = "first" THEN FirstLine(s) ELSE HeaderLine(s)

\* Where a row leads: to the end of a line by CR, of which the next byte is LF.
Leads(l, s, b, n) ==
  /\ n \in States \ {"bad"} /\ b \in Bytes
  /\ n \in OfHeader \/ n = "header_almost_done" => l = "header"
  /\ n = "start" <=> s = "almost_done"
  /\ s = "almost_done" => b = "lf"
  /\ n = "done" <=> s = "header_almost_done"
  /\ s = "header_almost_done" => b = "lf"
  /\ n = "almost_done" => b = "cr" /\ s \notin {"start", "check"}
  /\ n = "header_almost_done" => b = "cr" /\ s = "start"
  /\ n = "check" => l = "first" /\ s \in {"start", "check"}
  /\ n \notin {"start", "done", "almost_done", "header_almost_done", "check"} =>
       b \notin {"cr", "lf"}

LEMMA FirstLineLeads ==
  ASSUME NEW s \in States \ (OfHeader \cup {"bad"}), NEW r \in FirstLine(s), NEW b \in r[1]
  PROVE  Leads("first", s, b, r[2])
<1> USE DEF Ctl, Special, Token, Bytes, Leads, OfHeader, States
<1>1. CASE s = "start" BY <1>1 DEF FirstLine
<1>2. CASE s = "check" BY <1>2 DEF FirstLine
<1>3. CASE s = "space_before_uri" BY <1>3 DEF FirstLine
<1>4. CASE s = "uri" BY <1>4 DEF FirstLine, UriRows
<1>5. CASE s = "almost_done" BY <1>5 DEF FirstLine
<1>6. CASE s = "http_version_h" BY <1>6 DEF FirstLine, VersionRows
<1>7. CASE s = "http_version_slash" BY <1>7 DEF FirstLine, VersionRows
<1>8. CASE s = "http_version_major" BY <1>8 DEF FirstLine, VersionRows
<1>9. CASE s = "http_version_minor" BY <1>9 DEF FirstLine, VersionRows
<1>10. CASE s = "status_code" BY <1>10 DEF FirstLine, VersionRows
<1>11. CASE s = "status_text" BY <1>11 DEF FirstLine, VersionRows
<1> QED BY <1>1, <1>2, <1>3, <1>4, <1>5, <1>6, <1>7, <1>8, <1>9, <1>10, <1>11

LEMMA HeaderLineLeads ==
  ASSUME NEW s \in (OfHeader \ {"done"}) \cup {"start", "almost_done"},
         NEW r \in HeaderLine(s), NEW b \in r[1]
  PROVE  Leads("header", s, b, r[2]) /\ r[2] \in OfHeader \cup {"start", "almost_done"}
<1> USE DEF Ctl, Special, Token, Bytes, Leads, OfHeader, States
<1>1. CASE s = "start"
  <2>1. \/ r = <<{"cr"}, "header_almost_done">>
        \/ r = <<Token, "header_name">>
        \/ r = <<{"space", "tab"}, "header_lws">>
    <3> HIDE DEF Token
    <3> QED BY <1>1 DEF HeaderLine
  <2>2. CASE r = <<{"cr"}, "header_almost_done">> BY <1>1, <2>2
  <2>3. CASE r = <<Token, "header_name">> BY <1>1, <2>3
  <2>4. CASE r = <<{"space", "tab"}, "header_lws">> BY <1>1, <2>4
  <2> QED BY <2>1, <2>2, <2>3, <2>4
<1>2. CASE s = "almost_done" BY <1>2 DEF HeaderLine, HeaderRows
<1>3. CASE s = "header_lws" BY <1>3 DEF HeaderLine, HeaderRows
<1>4. CASE s = "header_name" BY <1>4 DEF HeaderLine, HeaderRows
<1>5. CASE s = "space_before_header_value" BY <1>5 DEF HeaderLine, HeaderRows
<1>6. CASE s = "header_value" BY <1>6 DEF HeaderLine, HeaderRows
<1>7. CASE s = "header_almost_done" BY <1>7 DEF HeaderLine, HeaderRows
<1> QED BY <1>1, <1>2, <1>3, <1>4, <1>5, <1>6, <1>7

OfLine(l) == IF l = "first" THEN States \ OfHeader
             ELSE OfHeader \cup {"start", "almost_done", "bad"}

\* What a byte makes of the automaton: it has returned, it refuses the byte, or
\* it goes where one of the rows leads.
LEMMA ParseLeads ==
  ASSUME line \in {"first", "header"}, st \in OfLine(line), NEW b \in Bytes
  PROVE  \/ st \in {"done", "bad"} /\ Parse(st, b) = st
         \/ st \notin {"done", "bad"} /\ Parse(st, b) = "bad"
         \/ /\ st \notin {"done", "bad"} /\ Leads(line, st, b, Parse(st, b))
            /\ line = "header" => Parse(st, b) \in OfHeader \cup {"start", "almost_done"}
<1> DEFINE rows == IF line = "first" THEN FirstLine(st) ELSE HeaderLine(st)
           taken == {r \in rows : b \in r[1]}
<1>1. Parse(st, b) = IF st \in {"done", "bad"} THEN st
                     ELSE IF taken = {} THEN "bad"
                     ELSE (CHOOSE r \in taken : TRUE)[2]
  BY DEF Parse
<1>2. CASE st \in {"done", "bad"} \/ taken = {}
  <2> HIDE DEF taken
  <2> QED BY <1>1, <1>2
<1>3. CASE st \notin {"done", "bad"} /\ taken # {}
  <2>1. PICK r : r = CHOOSE x \in taken : TRUE OBVIOUS
  <2>2. r \in taken
    <3> HIDE DEF taken
    <3> QED BY <1>3, <2>1
  <2>3. r \in rows /\ b \in r[1] BY <2>2
  <2>4. Parse(st, b) = r[2]
    <3> HIDE DEF taken
    <3> QED BY <1>1, <1>3, <2>1
  <2> HIDE DEF taken
  <2>5. CASE line = "first"
    <3>1. r \in FirstLine(st) BY <2>3, <2>5
    <3>2. st \in States \ (OfHeader \cup {"bad"}) BY <1>3, <2>5 DEF OfLine, OfHeader
    <3>3. Leads("first", st, b, r[2])
      <4> HIDE DEF rows
      <4> QED BY <2>3, <3>1, <3>2, FirstLineLeads
    <3> HIDE DEF rows
    <3> QED BY <1>3, <2>4, <2>5, <3>3
  <2>6. CASE line = "header"
    <3>1. r \in HeaderLine(st) BY <2>3, <2>6
    <3>2. st \in (OfHeader \ {"done"}) \cup {"start", "almost_done"}
      BY <1>3, <2>6 DEF OfLine, OfHeader
    <3>3. Leads("header", st, b, r[2]) /\ r[2] \in OfHeader \cup {"start", "almost_done"}
      <4> HIDE DEF rows
      <4> QED BY <2>3, <3>1, <3>2, HeaderLineLeads
    <3> HIDE DEF rows
    <3> QED BY <1>3, <2>4, <2>6, <3>3
  <2> QED BY <2>5, <2>6
<1> QED BY <1>2, <1>3

(***************************************************************************)
(* What holds of the two automata together: what one has seen of the end   *)
(* of the header is what the state of the other says.                      *)
(***************************************************************************)
ParserInv ==
  /\ ParserTypeOK
  /\ HeaderIsDecided
  /\ st \in OfLine(line)
  /\ Seen(st, line, eol)
  /\ verdict = "more" => follows = "header"

LEMMA ParserInitInv == ParserInit => ParserInv
<1> SUFFICES ASSUME ParserInit PROVE ParserInv OBVIOUS
<1> USE DEF ParserInit
<1>1. ParserTypeOK
  <2>1. named \in BOOLEAN /\ ~named OBVIOUS
  <2>2. eol \in 0..4 /\ st \in States BY DEF States
  <2> QED BY <2>1, <2>2 DEF ParserTypeOK
<1>2. HeaderIsDecided BY DEF HeaderIsDecided
<1>3. st \in OfLine(line) BY DEF OfLine, States, OfHeader
<1>4. Seen(st, line, eol) BY DEF Seen
<1> QED BY <1>1, <1>2, <1>3, <1>4 DEF ParserInv

\* The automaton and the count of CR LF CR LF go on together.
LEMMA ByteKeepsPace ==
  ASSUME ParserInv, NEW b \in Bytes, ReadByte(b)
  PROVE  /\ st' \in OfLine(line') /\ Seen(st', line', eol')
         /\ line' \in {"first", "header"} /\ eol' \in 0..4
         /\ named' \in BOOLEAN /\ (named' => line' = "header")
         /\ eol' = 4 => st' \in {"done", "bad", "check"}
         /\ st' = "done" => eol' = 4
<1> USE DEF ParserInv
<1>1. /\ line \in {"first", "header"} /\ st \in OfLine(line) /\ Seen(st, line, eol)
      /\ eol \in 0..4 /\ st # "done" /\ verdict = "more"
      /\ named \in BOOLEAN /\ (named => line = "header")
  BY DEF ParserTypeOK, HeaderIsDecided, ReadByte
<1>2. /\ st' = Parse(st, b) /\ eol' = EndOfLines(b)
      /\ line' = IF st = "almost_done" /\ b = "lf" THEN "header" ELSE line
      /\ named' = (named \/ st' = "header_name")
  BY DEF ReadByte
<1>3. eol' \in 0..4 /\ (eol' = 4 => b = "lf" /\ eol = 3)
  BY <1>1, <1>2 DEF EndOfLines
<1>4. CASE st' = "bad"
  BY <1>1, <1>2, <1>3, <1>4 DEF OfLine, States, Seen, OfHeader
<1>5. CASE st' # "bad"
  <2>1. /\ Leads(line, st, b, st') /\ st \notin {"done", "bad"}
        /\ line = "header" => st' \in OfHeader \cup {"start", "almost_done"}
    BY <1>1, <1>2, <1>5, ParseLeads
  <2>2. st' \in OfLine(line')
    BY <1>1, <1>2, <2>1 DEF OfLine, Leads, OfHeader
  <2>3. Seen(st', line', eol')
    <3>1. CASE st' = "start"
      BY <1>1, <1>2, <2>1, <3>1 DEF Leads, Seen, EndOfLines
    <3>2. CASE st' = "almost_done"
      BY <1>1, <1>2, <2>1, <3>2 DEF Leads, Seen, EndOfLines, OfLine, OfHeader, States
    <3>3. CASE st' = "header_almost_done"
      BY <1>1, <1>2, <2>1, <3>3 DEF Leads, Seen, EndOfLines, OfHeader
    <3>4. CASE st' = "done"
      BY <1>1, <1>2, <2>1, <3>4 DEF Leads, Seen, EndOfLines
    <3>5. CASE st' \notin {"start", "almost_done", "header_almost_done", "done"}
      BY <1>2, <2>1, <3>5 DEF Leads, Seen, EndOfLines
    <3> QED BY <3>1, <3>2, <3>3, <3>4, <3>5
  <2>4. eol' = 4 => st' \in {"done", "bad", "check"}
    BY <1>1, <1>3, <2>1 DEF Leads, Seen
  <2>5. st' = "done" => eol' = 4 BY <2>3 DEF Seen
  <2>6. named' => line' = "header"
    BY <1>1, <1>2, <2>1 DEF Leads, OfHeader
  <2>7. line' \in {"first", "header"} /\ named' \in BOOLEAN BY <1>1, <1>2
  <2> QED BY <1>3, <2>2, <2>3, <2>4, <2>5, <2>6, <2>7
<1> QED BY <1>4, <1>5

LEMMA OfLineIs ==
  ASSUME NEW l \in {"first", "header"}, NEW s \in OfLine(l)
  PROVE  s \in States /\ (l = "first" => s \notin OfHeader)
BY DEF OfLine, States, OfHeader

LEMMA ByteKeepsInv ==
  ASSUME ParserInv, NEW b \in Bytes, ReadByte(b)
  PROVE  ParserInv'
<1>1. /\ st' \in OfLine(line') /\ Seen(st', line', eol')
      /\ line' \in {"first", "header"} /\ eol' \in 0..4
      /\ named' \in BOOLEAN /\ (named' => line' = "header")
      /\ eol' = 4 => st' \in {"done", "bad", "check"}
      /\ st' = "done" => eol' = 4
  BY ByteKeepsPace
<1>2. st' \in States /\ (line' = "first" => st' \notin OfHeader) BY <1>1, OfLineIs
<1>3. verdict = "more" /\ follows = "header" BY DEF ReadByte
<1>4. CASE eol' = 4 /\ st' = "done"
  <2>1. \E h \in Headers : /\ verdict' = IF Refused(h) THEN "refused" ELSE "ok"
                           /\ follows' = IF Refused(h) THEN "header" ELSE Follows(h)
    BY <1>4 DEF ReadByte
  <2>2. /\ verdict' \in {"ok", "refused"}
        /\ follows' \in {"header", "content", "chunks"}
    BY <2>1 DEF Follows
  <2> QED BY <1>1, <1>2, <1>4, <2>2 DEF ParserInv, ParserTypeOK, HeaderIsDecided, OfHeader
<1>5. CASE eol' = 4 /\ st' = "bad"
  <2>1. verdict' = "refused" /\ follows' = follows BY <1>5 DEF ReadByte
  <2> QED BY <1>1, <1>2, <1>3, <1>5, <2>1
          DEF ParserInv, ParserTypeOK, HeaderIsDecided, OfHeader
<1>6. CASE eol' = 4 /\ st' = "check"
  <2>1. verdict' = "assert" /\ follows' = follows BY <1>6 DEF ReadByte
  <2> QED BY <1>1, <1>2, <1>3, <1>6, <2>1
          DEF ParserInv, ParserTypeOK, HeaderIsDecided, OfHeader
<1>7. CASE eol' # 4
  <2>1. verdict' \in {"more", "refused"} /\ follows' = follows BY <1>7 DEF ReadByte
  <2> QED BY <1>1, <1>2, <1>3, <1>7, <2>1
          DEF ParserInv, ParserTypeOK, HeaderIsDecided, OfHeader
<1> QED BY <1>1, <1>4, <1>5, <1>6, <1>7

LEMMA ParserNextInv == ParserInv /\ [ParserNext]_parserVars => ParserInv'
<1> SUFFICES ASSUME ParserInv, [ParserNext]_parserVars PROVE ParserInv' OBVIOUS
<1>1. ASSUME NEW b \in Bytes, ReadByte(b) PROVE ParserInv' BY <1>1, ByteKeepsInv
<1> USE DEF ParserInv, ParserTypeOK, HeaderIsDecided
<1>2. CASE ReadContent BY <1>2 DEF ReadContent
<1>3. CASE ReadChunk BY <1>3 DEF ReadChunk
<1>4. CASE ReadTrailer BY <1>4 DEF ReadTrailer
<1>5. CASE Again
  <2>1. ParserInit' BY <1>5 DEF Again, ParserInit
  <2>2. /\ st' = "start" /\ line' = "first" /\ eol' = 0 /\ verdict' = "more"
        /\ follows' = "header" /\ named' \in BOOLEAN /\ ~named'
    BY <1>5 DEF Again
  <2>3. st' \in States /\ eol' \in 0..4 BY <2>2 DEF States
  <2>4. st' \in OfLine(line') /\ Seen(st', line', eol')
    BY <2>1 DEF ParserInit, OfLine, States, OfHeader, Seen
  <2> QED BY <2>2, <2>3, <2>4
<1>6. CASE UNCHANGED parserVars BY <1>6 DEF parserVars
<1> QED BY <1>1, <1>2, <1>3, <1>4, <1>5, <1>6 DEF ParserNext

LEMMA ParserInvariance == ParserSpec => []ParserInv
BY ParserInitInv, ParserNextInv, PTL DEF ParserSpec

\* The automaton is in a state of the line that it reads.
THEOREM ParserTypeCorrect == ParserSpec => []ParserTypeOK
<1>1. ParserInv => ParserTypeOK BY DEF ParserInv
<1> QED BY <1>1, ParserInvariance, PTL

\* read_header's CR LF CR LF and http_parser's end of a header are one: the
\* assertion after parse fails for a first line that begins with no word the
\* parser knows, and no other way, however long the header is.
THEOREM HeadersAreDecided == ParserSpec => []HeaderIsDecided
<1>1. ParserInv => HeaderIsDecided BY DEF ParserInv
<1> QED BY <1>1, ParserInvariance, PTL

-----------------------------------------------------------------------------
(* TlsConn *)

\* The handlers of a connection that is on: those of the handshake, then those
\* of reading and writing, each of which may be exchanged for one that repeats
\* the call of the other.
Shaking(c) ==
  /\ c.shake # "done" /\ c.recv = "none" /\ c.send = "none"
  /\ c.oldR = "none" /\ c.oldW = "none" /\ ~c.out /\ ~c.held
  /\ c.rh = IF c.shake = "write" THEN "empty" ELSE "handshake"
  /\ c.wh = IF c.shake = "write" THEN "handshake" ELSE "empty"

Working(c) ==
  /\ c.shake = "done"
  /\ c.rh = IF c.oldR = "none" THEN "read" ELSE "viaRead"
  /\ c.wh = IF c.oldW = "none" THEN "write" ELSE "viaWrite"
  /\ c.recv = "write" => c.oldW # "none"
  /\ c.send = "read" => c.oldR # "none"

\* What can be read, or waits to be sent, has an event among E or a call that
\* waits for the socket.
ReadReady(c, E) ==
  c.rh = "read" /\ c.unread /\ ~c.held /\ c.recv # "write" => "read" \in E
WriteReady(c, E) ==
  c.wh = "write" /\ c.out /\ c.room /\ c.send # "read" => "write" \in E

\* From c to d neither is lost: what d has activated is one of the events.
KeepsRead(c, d) == \A E : ReadReady(c, E \cup c.again) => ReadReady(d, E \cup d.again)
KeepsWrite(c, d) == \A E : WriteReady(c, E \cup c.again) => WriteReady(d, E \cup d.again)

Works(c) == c \in Conn /\ c.life = "on" /\ Working(c)

Shut(c) == /\ c \in Conn /\ c.life # "on"
           /\ c.life = "closing" => c.rh = "shutdown" /\ c.wh = "shutdown"

LEMMA Names ==
  /\ {"handshake", "empty", "read", "write", "viaRead", "viaWrite", "shutdown"} \subseteq Handlers
  /\ {"none", "read", "write"} \subseteq Wants
BY DEF Handlers, Wants

\* shutdown leaves no connection that is on.
LEMMA ShutdownIs ==
  ASSUME NEW c \in Conn, NEW d \in Shutdown(c)
  PROVE  Shut(d)
<1>1. CASE d = [c EXCEPT !.life = "gone"] BY <1>1 DEF Conn, Shut
<1>2. ASSUME NEW want \in {"read", "write"}, d = Deferred(c, want)
      PROVE  Shut(d)
  <2> DEFINE t == c.timer \/ want = "read"
             u == c.unread /\ want # "read"
             v == c.room /\ want # "write"
  <2>1. t \in BOOLEAN /\ u \in BOOLEAN /\ v \in BOOLEAN BY DEF Conn
  <2>2. d = [c EXCEPT !.rh = "shutdown", !.wh = "shutdown", !.life = "closing",
                      !.timer = t, !.unread = u, !.room = v]
    BY <1>2 DEF Deferred
  <2> HIDE DEF t, u, v
  <2>3. d \in Conn BY <2>1, <2>2, Names DEF Conn
  <2>4. d.life = "closing" /\ d.rh = "shutdown" /\ d.wh = "shutdown" BY <2>2 DEF Conn
  <2> QED BY <2>3, <2>4, Names DEF Shut
<1> QED BY <1>1, <1>2 DEF Shutdown

LEMMA EndsIs ==
  ASSUME NEW c \in Conn, NEW d \in Ends(c) \cup ShutdownQuietly(c)
  PROVE  Shut(d)
<1>1. [c EXCEPT !.quiet = TRUE] \in Conn BY DEF Conn
<1> QED BY <1>1, ShutdownIs DEF Ends, ShutdownQuietly

\* A call of OpenSSL had to wait: the socket gives no more, or takes no more.
Waits(c, want) ==
  [c EXCEPT !.unread = @ /\ want # "read", !.room = @ /\ want # "write"]

LEMMA WaitsIs ==
  ASSUME NEW c \in Conn, NEW want \in {"read", "write"}
  PROVE  LET d == Waits(c, want)
         IN /\ d = [c EXCEPT !.unread = d.unread, !.room = d.room]
            /\ d.unread \in BOOLEAN /\ d.room \in BOOLEAN
            /\ d.unread => c.unread
            /\ d.room => c.room
            /\ want = "read" => ~d.unread
            /\ want = "write" => ~d.room
<1> DEFINE u == c.unread /\ want # "read"
           v == c.room /\ want # "write"
<1>1. u \in BOOLEAN /\ v \in BOOLEAN BY DEF Conn
<1>2. Waits(c, want) = [c EXCEPT !.unread = u, !.room = v] BY DEF Waits
<1>3. /\ u => c.unread
      /\ v => c.room
      /\ want = "read" => ~u
      /\ want = "write" => ~v
  OBVIOUS
<1> HIDE DEF u, v
<1> QED BY <1>1, <1>2, <1>3 DEF Conn

\* send: the call of the other direction is put back with its event.
LEMMA SendDataIs ==
  ASSUME NEW c, Works(c)
  PROVE  LET d == SendData(c)
         IN Works(d) /\ d.send = "none" /\ KeepsRead(c, d)
<1> USE DEF Works, KeepsRead
<1>1. CASE c.oldR = "none"
  <2> DEFINE d == [c EXCEPT !.send = "none"]
  <2>1. SendData(c) = d BY <1>1 DEF SendData
  <2>2. d \in Conn BY Names DEF Conn
  <2>3. /\ d.life = c.life /\ d.send = "none" /\ d.held = c.held
        /\ d.again = c.again /\ d.rh = c.rh /\ d.wh = c.wh /\ d.oldR = c.oldR
        /\ d.oldW = c.oldW /\ d.unread = c.unread /\ d.recv = c.recv /\ d.shake = c.shake
    BY DEF Conn
  <2> HIDE DEF d
  <2> QED BY <2>1, <2>2, <2>3 DEF Working, ReadReady
<1>2. CASE c.oldR # "none"
  <2> DEFINE d == [c EXCEPT !.rh = c.oldR, !.oldR = "none", !.send = "none",
                            !.again = @ \cup {"read"}]
  <2>1. SendData(c) = d BY <1>2 DEF SendData
  <2>2. c.oldR = "read" BY <1>2 DEF Conn
  <2>3. d \in Conn BY <2>2, Names DEF Conn
  <2>4. /\ d.life = c.life /\ d.send = "none"
        /\ d.again = c.again \cup {"read"} /\ d.rh = "read" /\ d.wh = c.wh
        /\ d.oldR = "none" /\ d.oldW = c.oldW /\ d.recv = c.recv /\ d.shake = c.shake
    BY <2>2 DEF Conn
  <2> HIDE DEF d
  <2> QED BY <2>1, <2>3, <2>4 DEF Working, ReadReady
<1> QED BY <1>1, <1>2

LEMMA SendBlockedIs ==
  ASSUME NEW c, Works(c), NEW want \in {"read", "write"}
  PROVE  LET d == SendBlocked(c, want)
         IN Works(d) /\ KeepsRead(c, d) /\ \A E : WriteReady(d, E)
<1> DEFINE u == Waits(c, want).unread
           v == Waits(c, want).room
           e == [c EXCEPT !.send = want, !.unread = u, !.room = v]
           f == [c EXCEPT !.send = want, !.unread = u, !.room = v,
                          !.oldR = c.rh, !.rh = "viaRead"]
<1> USE DEF Works
<1>1. /\ u \in BOOLEAN /\ v \in BOOLEAN /\ (u => c.unread)
      /\ (want = "write" => ~v)
  BY WaitsIs
<1>2. SendBlocked(c, want) = IF want = "write" \/ c.oldR # "none" THEN e ELSE f
  BY DEF SendBlocked, Waits, Conn
<1> HIDE DEF u, v
<1>3. CASE want = "write" \/ c.oldR # "none"
  <2>1. e \in Conn BY <1>1, Names DEF Conn
  <2>2. /\ e.life = c.life /\ e.again = c.again /\ e.send = want /\ e.unread = u
        /\ e.room = v /\ e.rh = c.rh /\ e.wh = c.wh /\ e.oldR = c.oldR
        /\ e.oldW = c.oldW /\ e.recv = c.recv /\ e.shake = c.shake /\ e.held = c.held
    BY DEF Conn
  <2>3. SendBlocked(c, want) = e BY <1>2, <1>3
  <2> HIDE DEF e
  <2>4. \A E : WriteReady(e, E) BY <1>1, <2>2 DEF WriteReady
  <2>5. KeepsRead(c, e) BY <1>1, <2>2 DEF ReadReady, KeepsRead
  <2>6. Working(e) BY <1>3, <2>2 DEF Working
  <2> QED BY <2>1, <2>2, <2>3, <2>4, <2>5, <2>6
<1>4. CASE want = "read" /\ c.oldR = "none"
  <2>1. c.rh = "read" BY <1>4 DEF Working
  <2>2. f \in Conn BY <1>1, <2>1, Names DEF Conn
  <2>3. /\ f.life = c.life /\ f.again = c.again /\ f.send = want
        /\ f.rh = "viaRead" /\ f.wh = c.wh /\ f.oldR = "read"
        /\ f.oldW = c.oldW /\ f.recv = c.recv /\ f.shake = c.shake
    BY <2>1 DEF Conn
  <2>4. SendBlocked(c, want) = f BY <1>2, <1>4
  <2> HIDE DEF f
  <2>5. Working(f) BY <1>4, <2>3 DEF Working
  <2> QED BY <1>4, <2>2, <2>3, <2>4, <2>5 DEF ReadReady, WriteReady, KeepsRead
<1> QED BY <1>3, <1>4

\* recv: the call of the other direction is put back with its event.
LEMMA RecvDataIs ==
  ASSUME NEW c, Works(c)
  PROVE  LET d == RecvData(c)
         IN Works(d) /\ d.recv = "none" /\ KeepsWrite(c, d)
<1> USE DEF Works, KeepsWrite
<1>1. CASE c.oldW = "none"
  <2> DEFINE d == [c EXCEPT !.recv = "none"]
  <2>1. RecvData(c) = d BY <1>1 DEF RecvData
  <2>2. d \in Conn BY Names DEF Conn
  <2>3. /\ d.life = c.life /\ d.recv = "none" /\ d.out = c.out
        /\ d.again = c.again /\ d.wh = c.wh /\ d.rh = c.rh /\ d.oldW = c.oldW
        /\ d.oldR = c.oldR /\ d.room = c.room /\ d.send = c.send /\ d.shake = c.shake
    BY DEF Conn
  <2> HIDE DEF d
  <2> QED BY <2>1, <2>2, <2>3 DEF Working, WriteReady
<1>2. CASE c.oldW # "none"
  <2> DEFINE d == [c EXCEPT !.wh = c.oldW, !.oldW = "none", !.recv = "none",
                            !.again = @ \cup {"write"}]
  <2>1. RecvData(c) = d BY <1>2 DEF RecvData
  <2>2. c.oldW = "write" BY <1>2 DEF Conn
  <2>3. d \in Conn BY <2>2, Names DEF Conn
  <2>4. /\ d.life = c.life /\ d.recv = "none"
        /\ d.again = c.again \cup {"write"} /\ d.wh = "write" /\ d.rh = c.rh
        /\ d.oldW = "none" /\ d.oldR = c.oldR /\ d.send = c.send /\ d.shake = c.shake
    BY <2>2 DEF Conn
  <2> HIDE DEF d
  <2> QED BY <2>1, <2>3, <2>4 DEF Working, WriteReady
<1> QED BY <1>1, <1>2

LEMMA RecvBlockedIs ==
  ASSUME NEW c, Works(c), NEW want \in {"read", "write"}
  PROVE  LET d == RecvBlocked(c, want)
         IN Works(d) /\ KeepsWrite(c, d) /\ \A E : ReadReady(d, E)
<1> DEFINE u == Waits(c, want).room
           v == Waits(c, want).unread
           e == [c EXCEPT !.recv = want, !.room = u, !.unread = v]
           f == [c EXCEPT !.recv = want, !.room = u, !.unread = v,
                          !.oldW = c.wh, !.wh = "viaWrite"]
<1> USE DEF Works
<1>1. /\ u \in BOOLEAN /\ v \in BOOLEAN /\ (u => c.room)
      /\ (want = "read" => ~v)
  BY WaitsIs
<1>2. RecvBlocked(c, want) = IF want = "read" \/ c.oldW # "none" THEN e ELSE f
  BY DEF RecvBlocked, Waits, Conn
<1> HIDE DEF u, v
<1>3. CASE want = "read" \/ c.oldW # "none"
  <2>1. e \in Conn BY <1>1, Names DEF Conn
  <2>2. /\ e.life = c.life /\ e.again = c.again /\ e.recv = want /\ e.room = u
        /\ e.unread = v /\ e.wh = c.wh /\ e.rh = c.rh /\ e.oldW = c.oldW
        /\ e.oldR = c.oldR /\ e.send = c.send /\ e.shake = c.shake /\ e.out = c.out
    BY DEF Conn
  <2>3. RecvBlocked(c, want) = e BY <1>2, <1>3
  <2> HIDE DEF e
  <2>4. \A E : ReadReady(e, E) BY <1>1, <2>2 DEF ReadReady
  <2>5. KeepsWrite(c, e) BY <1>1, <2>2 DEF WriteReady, KeepsWrite
  <2>6. Working(e) BY <1>3, <2>2 DEF Working
  <2> QED BY <2>1, <2>2, <2>3, <2>4, <2>5, <2>6
<1>4. CASE want = "write" /\ c.oldW = "none"
  <2>1. c.wh = "write" BY <1>4 DEF Working
  <2>2. f \in Conn BY <1>1, <2>1, Names DEF Conn
  <2>3. /\ f.life = c.life /\ f.again = c.again /\ f.recv = want
        /\ f.wh = "viaWrite" /\ f.rh = c.rh /\ f.oldW = "write"
        /\ f.oldR = c.oldR /\ f.send = c.send /\ f.shake = c.shake
    BY <2>1 DEF Conn
  <2>4. RecvBlocked(c, want) = f BY <1>2, <1>4
  <2> HIDE DEF f
  <2>5. Working(f) BY <1>4, <2>3 DEF Working
  <2> QED BY <1>4, <2>2, <2>3, <2>4, <2>5 DEF WriteReady, ReadReady, KeepsWrite
<1> QED BY <1>3, <1>4

\* async_send takes out all that waits, or leaves it to a call that waits.
LEMMA SendIs ==
  ASSUME NEW c, Works(c), NEW d \in Send(c)
  PROVE  Shut(d) \/ (Works(d) /\ KeepsRead(c, d) /\ \A E : WriteReady(d, E))
<1>1. Works(SendData(c)) /\ KeepsRead(c, SendData(c)) BY SendDataIs
<1>2. CASE ~c.out /\ d = c BY <1>2 DEF KeepsRead, WriteReady
<1>3. CASE d = [SendData(c) EXCEPT !.out = FALSE]
  <2>1. PICK e : e = SendData(c) OBVIOUS
  <2>2. Works(e) /\ KeepsRead(c, e) /\ d = [e EXCEPT !.out = FALSE] BY <1>1, <1>3, <2>1
  <2>3. d \in Conn BY <2>2 DEF Works, Conn
  <2>4. /\ d.life = e.life /\ d.again = e.again /\ d.rh = e.rh /\ d.wh = e.wh
        /\ d.oldR = e.oldR /\ d.oldW = e.oldW /\ d.recv = e.recv /\ d.send = e.send
        /\ d.shake = e.shake /\ d.unread = e.unread /\ d.held = e.held /\ ~d.out
    BY <2>2 DEF Works, Conn
  <2> QED BY <2>2, <2>3, <2>4 DEF Works, Working, KeepsRead, ReadReady, WriteReady
<1>4. ASSUME NEW e \in {c, SendData(c)}, NEW want \in {"read", "write"}, d = SendBlocked(e, want)
      PROVE  Works(d) /\ KeepsRead(c, d) /\ \A E : WriteReady(d, E)
  <2>1. Works(e) /\ KeepsRead(c, e) BY <1>1, <1>4 DEF KeepsRead
  <2>2. Works(d) /\ KeepsRead(e, d) /\ \A E : WriteReady(d, E) BY <1>4, <2>1, SendBlockedIs
  <2> QED BY <2>1, <2>2 DEF KeepsRead
<1>5. CASE d \in Ends(c)
  <2>1. c \in Conn BY DEF Works
  <2> QED BY <1>5, <2>1, EndsIs
<1> QED BY <1>2, <1>3, <1>4, <1>5 DEF Send

\* What has something to send works as before.
LEMMA ToSend ==
  ASSUME NEW c, Works(c)
  PROVE  LET d == [c EXCEPT !.out = TRUE] IN Works(d) /\ KeepsRead(c, d)
<1> DEFINE d == [c EXCEPT !.out = TRUE]
<1>1. d \in Conn BY DEF Works, Conn
<1>2. /\ d.life = c.life /\ d.again = c.again /\ d.rh = c.rh /\ d.wh = c.wh
      /\ d.oldR = c.oldR /\ d.oldW = c.oldW /\ d.recv = c.recv /\ d.send = c.send
      /\ d.shake = c.shake /\ d.unread = c.unread /\ d.held = c.held
  BY DEF Works, Conn
<1> HIDE DEF d
<1>3. Works(d) /\ KeepsRead(c, d) BY <1>1, <1>2 DEF Works, Working, KeepsRead, ReadReady
<1> QED BY <1>3 DEF d

\* handle_read leaves nothing that can be read but to a call that waits, or to
\* enable_read.
LEMMA ReadIs ==
  ASSUME NEW c, Works(c), NEW d \in Read(c)
  PROVE  Shut(d) \/ (Works(d) /\ KeepsWrite(c, d) /\ \A E : ReadReady(d, E))
<1>1. Works(RecvData(c)) /\ KeepsWrite(c, RecvData(c)) BY RecvDataIs
<1> DEFINE more == {e \in Send([RecvData(c) EXCEPT !.out = TRUE]) : e.life = "on"}
           some == {c, RecvData(c)} \cup more
<1>2. ASSUME NEW e \in some PROVE Works(e) /\ KeepsWrite(c, e)
  <2>1. CASE e = c BY <2>1 DEF KeepsWrite
  <2>2. CASE e = RecvData(c) BY <1>1, <2>2
  <2>3. CASE e \in more
    <3>1. Works([RecvData(c) EXCEPT !.out = TRUE]) BY <1>1, ToSend
    <3>2. Works(e) /\ \A E : WriteReady(e, E) BY <2>3, <3>1, SendIs DEF Shut
    <3> QED BY <3>2 DEF KeepsWrite
  <2> QED BY <2>1, <2>2, <2>3
<1>3. \/ c.held /\ d = c
      \/ \E e \in some, want \in {"read", "write"} : d = RecvBlocked(e, want)
      \/ d = [RecvData(c) EXCEPT !.held = TRUE]
      \/ \E e \in some : d \in Ends(e)
  <2>1. Read(c) = IF c.held THEN {c}
                  ELSE {RecvBlocked(e, want) : e \in some, want \in {"read", "write"}}
                       \cup {[RecvData(c) EXCEPT !.held = TRUE]}
                       \cup UNION {Ends(e) : e \in some}
    BY DEF Read
  <2> HIDE DEF some
  <2>2. CASE c.held BY <2>1, <2>2
  <2>3. CASE ~c.held BY <2>1, <2>3
  <2> QED BY <2>2, <2>3
<1> HIDE DEF some
<1>4. CASE c.held /\ d = c BY <1>4 DEF KeepsWrite, ReadReady
<1>5. CASE \E e \in some, want \in {"read", "write"} : d = RecvBlocked(e, want)
  <2>1. PICK e \in some, want \in {"read", "write"} : d = RecvBlocked(e, want) BY <1>5
  <2>2. Works(e) /\ KeepsWrite(c, e) BY <1>2
  <2>3. Works(d) /\ KeepsWrite(e, d) /\ \A E : ReadReady(d, E) BY <2>1, <2>2, RecvBlockedIs
  <2> QED BY <2>2, <2>3 DEF KeepsWrite
<1>6. CASE d = [RecvData(c) EXCEPT !.held = TRUE]
  <2>1. PICK e : e = RecvData(c) OBVIOUS
  <2>2. Works(e) /\ KeepsWrite(c, e) /\ d = [e EXCEPT !.held = TRUE] BY <1>1, <1>6, <2>1
  <2>3. d \in Conn BY <2>2 DEF Works, Conn
  <2>4. /\ d.life = e.life /\ d.again = e.again /\ d.rh = e.rh /\ d.wh = e.wh
        /\ d.oldR = e.oldR /\ d.oldW = e.oldW /\ d.recv = e.recv /\ d.send = e.send
        /\ d.shake = e.shake /\ d.room = e.room /\ d.out = e.out /\ d.held
    BY <2>2 DEF Works, Conn
  <2> QED BY <2>2, <2>3, <2>4 DEF Works, Working, KeepsWrite, WriteReady, ReadReady
<1>7. CASE \E e \in some : d \in Ends(e)
  <2>1. PICK e \in some : d \in Ends(e) BY <1>7
  <2>2. e \in Conn BY <1>2 DEF Works
  <2> QED BY <2>1, <2>2, EndsIs
<1> QED BY <1>3, <1>4, <1>5, <1>6, <1>7

\* A connection that is on, and the events E that it waits for.
Fine(c, E) == /\ c \in Conn /\ c.life = "on" /\ (Shaking(c) \/ Working(c))
              /\ ReadReady(c, E) /\ WriteReady(c, E)

LEMMA HandshakeIs ==
  ASSUME NEW c \in Conn, c.life = "on", Shaking(c), NEW d \in Handshake(c), NEW E
  PROVE  Shut(d) \/ Fine(d, E \cup d.again)
<1> DEFINE e == [c EXCEPT !.shake = "done", !.rh = "read", !.wh = "write"]
           r == [c EXCEPT !.shake = "read", !.rh = "handshake", !.wh = "empty", !.unread = FALSE]
           w == [c EXCEPT !.shake = "write", !.rh = "empty", !.wh = "handshake", !.room = FALSE]
<1>1. CASE d \in Read(e)
  <2>1. e \in Conn BY Names DEF Conn
  <2>2. /\ e.life = "on" /\ e.shake = "done" /\ e.rh = "read" /\ e.wh = "write"
        /\ e.oldR = "none" /\ e.oldW = "none" /\ e.recv = "none" /\ e.send = "none" /\ ~e.out
    BY DEF Conn, Shaking
  <2> HIDE DEF e
  <2>3. Works(e) BY <2>1, <2>2 DEF Works, Working
  <2>4. WriteReady(e, E \cup e.again) BY <2>2 DEF WriteReady
  <2>5. Shut(d) \/ (Works(d) /\ KeepsWrite(e, d) /\ \A F : ReadReady(d, F))
    BY <1>1, <2>3, ReadIs
  <2> QED BY <2>4, <2>5 DEF KeepsWrite, Works, Fine
<1>2. CASE d = r
  <2>1. d \in Conn BY <1>2, Names DEF Conn
  <2>2. /\ d.life = "on" /\ d.shake = "read" /\ d.rh = "handshake" /\ d.wh = "empty"
        /\ d.oldR = c.oldR /\ d.oldW = c.oldW /\ d.recv = c.recv /\ d.send = c.send
        /\ d.out = c.out /\ d.held = c.held
    BY <1>2 DEF Conn
  <2> HIDE DEF r
  <2> QED BY <2>1, <2>2 DEF Fine, Shaking, ReadReady, WriteReady
<1>3. CASE d = w
  <2>1. d \in Conn BY <1>3, Names DEF Conn
  <2>2. /\ d.life = "on" /\ d.shake = "write" /\ d.rh = "empty" /\ d.wh = "handshake"
        /\ d.oldR = c.oldR /\ d.oldW = c.oldW /\ d.recv = c.recv /\ d.send = c.send
        /\ d.out = c.out /\ d.held = c.held
    BY <1>3 DEF Conn
  <2> HIDE DEF w
  <2> QED BY <2>1, <2>2 DEF Fine, Shaking, ReadReady, WriteReady
<1>4. CASE d \in ShutdownQuietly(c) BY <1>4, EndsIs
<1>5. Handshake(c) = Read(e) \cup {r, w} \cup ShutdownQuietly(c) BY DEF Handshake
<1> HIDE DEF e, r, w
<1> QED BY <1>1, <1>2, <1>3, <1>4, <1>5

(***************************************************************************)
(* A connection that is not on has nothing to repeat and nothing to lose;  *)
(* one that waits for its shutdown has no other handler.                   *)
(***************************************************************************)
TlsInv == /\ tls.again = {} /\ ev \subseteq {"read", "write", "timeout"}
          /\ Shut(tls) \/ Fine(tls, ev)

LEMMA TlsInitInv == TlsInit => TlsInv
<1> SUFFICES ASSUME TlsInit PROVE TlsInv OBVIOUS
<1>1. /\ tls.shake = "none" /\ tls.recv = "none" /\ tls.send = "none" /\ tls.oldR = "none"
      /\ tls.oldW = "none" /\ tls.rh = "handshake" /\ tls.wh = "empty" /\ tls.life = "on"
      /\ tls.again = {} /\ ~tls.out /\ ~tls.held
  BY DEF TlsInit, Fresh
<1>2. tls \in Conn BY Names DEF TlsInit, Fresh, Conn
<1>3. ev = {} BY DEF TlsInit
<1> QED BY <1>1, <1>2, <1>3 DEF TlsInv, Fine, Shaking, ReadReady, WriteReady

LEMMA BecomeInv ==
  ASSUME NEW C, NEW E \in SUBSET {"read", "write", "timeout"}, Become(C, E),
         \A d \in C : Shut(d) \/ Fine(d, E \cup d.again)
  PROVE  TlsInv'
<1>1. PICK d \in C : tls' = [d EXCEPT !.again = {}] /\ ev' = E \cup d.again BY DEF Become
<1>2. d \in Conn BY DEF Shut, Fine
<1>3. ev' \subseteq {"read", "write", "timeout"} BY <1>1, <1>2 DEF Conn
<1>4. tls' \in Conn BY <1>1, <1>2 DEF Conn
<1>5. /\ tls'.again = {} /\ tls'.life = d.life /\ tls'.rh = d.rh /\ tls'.wh = d.wh
      /\ tls'.oldR = d.oldR /\ tls'.oldW = d.oldW /\ tls'.recv = d.recv /\ tls'.send = d.send
      /\ tls'.shake = d.shake /\ tls'.unread = d.unread /\ tls'.room = d.room
      /\ tls'.out = d.out /\ tls'.held = d.held
  BY <1>1, <1>2 DEF Conn
<1>6. CASE Shut(d) BY <1>3, <1>4, <1>5, <1>6 DEF TlsInv, Shut
<1>7. CASE Fine(d, ev')
  <2>1. Shaking(tls') \/ Working(tls') BY <1>5, <1>7 DEF Fine, Shaking, Working
  <2>2. ReadReady(tls', ev') /\ WriteReady(tls', ev')
    BY <1>5, <1>7 DEF Fine, ReadReady, WriteReady
  <2> QED BY <1>3, <1>4, <1>5, <1>7, <2>1, <2>2 DEF TlsInv, Fine
<1> QED BY <1>1, <1>6, <1>7

\* The handlers that repeat each other's call: none of them returns.
LEMMA NestedIs ==
  ASSUME NEW c \in Conn, NEW timeout,
         NEW h \in {"viaRead", "viaWrite"}, NEW d \in Handled(c, h, timeout)
  PROVE  Shut(d)
<1>1. d = [c EXCEPT !.life = "nested"] BY DEF Handled
<1> QED BY <1>1 DEF Shut, Conn

\* The read event goes to one of the calls, and is used up.
LEMMA ReadHandled ==
  ASSUME TlsInv, tls.life = "on", "read" \in ev, NEW timeout,
         NEW d \in Handled(tls, Dispatched(tls.rh), timeout)
  PROVE  Shut(d) \/ Fine(d, (ev \ {"read", "timeout"}) \cup d.again)
<1> DEFINE E == ev \ {"read", "timeout"}
<1>1. Fine(tls, ev) /\ tls.again = {} /\ tls \in Conn BY DEF TlsInv, Shut, Fine
<1>2. CASE Shaking(tls)
  <2>1. tls.rh \in {"handshake", "empty"} BY <1>2 DEF Shaking
  <2>2. CASE tls.rh = "handshake"
    <3>1. d \in Handshake(tls) BY <2>2 DEF Handled, Dispatched
    <3> QED BY <1>1, <1>2, <3>1, HandshakeIs DEF Fine
  <2>3. CASE tls.rh = "empty"
    <3>1. d = tls BY <2>3 DEF Handled, Dispatched
    <3> QED BY <1>1, <1>2, <3>1 DEF Fine, Shaking, ReadReady, WriteReady
  <2> QED BY <2>1, <2>2, <2>3
<1>3. CASE Working(tls)
  <2>1. Works(tls) BY <1>1, <1>3 DEF Works
  <2>2. CASE tls.rh = "read"
    <3>1. d \in Read(tls) BY <2>2 DEF Handled, Dispatched
    <3>2. WriteReady(tls, E \cup tls.again) BY <1>1 DEF Fine, WriteReady
    <3>3. Shut(d) \/ (Works(d) /\ KeepsWrite(tls, d) /\ \A F : ReadReady(d, F))
      BY <2>1, <3>1, ReadIs
    <3> QED BY <3>2, <3>3 DEF KeepsWrite, Works, Fine
  <2>3. CASE tls.rh = "viaRead" /\ tls.wh = "write"
    <3>1. d \in Send(tls) BY <2>3 DEF Handled, Dispatched
    <3>2. ReadReady(tls, E \cup tls.again) BY <2>3 DEF ReadReady
    <3>3. Shut(d) \/ (Works(d) /\ KeepsRead(tls, d) /\ \A F : WriteReady(d, F))
      BY <2>1, <3>1, SendIs
    <3> QED BY <3>2, <3>3 DEF KeepsRead, Works, Fine
  <2>4. CASE tls.rh = "viaRead" /\ tls.wh = "viaWrite"
    <3>1. Dispatched(tls.rh) = "viaWrite" BY <2>4 DEF Dispatched
    <3> QED BY <1>1, <3>1, NestedIs
  <2>5. tls.rh \in {"read", "viaRead"} /\ tls.wh \in {"write", "viaWrite"}
    BY <1>3 DEF Working
  <2> QED BY <2>2, <2>3, <2>4, <2>5
<1> QED BY <1>1, <1>2, <1>3 DEF Fine

\* So does the write event.
LEMMA WriteHandled ==
  ASSUME TlsInv, tls.life = "on", NEW timeout,
         NEW d \in Handled(tls, Dispatched(tls.wh), timeout)
  PROVE  Shut(d) \/ Fine(d, (ev \ {"write"}) \cup d.again)
<1> DEFINE E == ev \ {"write"}
<1>1. Fine(tls, ev) /\ tls.again = {} /\ tls \in Conn BY DEF TlsInv, Shut, Fine
<1>2. CASE Shaking(tls)
  <2>1. tls.wh \in {"handshake", "empty"} BY <1>2 DEF Shaking
  <2>2. CASE tls.wh = "handshake"
    <3>1. d \in Handshake(tls) BY <2>2 DEF Handled, Dispatched
    <3> QED BY <1>1, <1>2, <3>1, HandshakeIs DEF Fine
  <2>3. CASE tls.wh = "empty"
    <3>1. d = tls BY <2>3 DEF Handled, Dispatched
    <3> QED BY <1>1, <1>2, <3>1 DEF Fine, Shaking, ReadReady, WriteReady
  <2> QED BY <2>1, <2>2, <2>3
<1>3. CASE Working(tls)
  <2>1. Works(tls) BY <1>1, <1>3 DEF Works
  <2>2. CASE tls.wh = "write"
    <3>1. d \in Send(tls) BY <2>2 DEF Handled, Dispatched
    <3>2. ReadReady(tls, E \cup tls.again) BY <1>1 DEF Fine, ReadReady
    <3>3. Shut(d) \/ (Works(d) /\ KeepsRead(tls, d) /\ \A F : WriteReady(d, F))
      BY <2>1, <3>1, SendIs
    <3> QED BY <3>2, <3>3 DEF KeepsRead, Works, Fine
  <2>3. CASE tls.wh = "viaWrite" /\ tls.rh = "read"
    <3>1. d \in Read(tls) BY <2>3 DEF Handled, Dispatched
    <3>2. WriteReady(tls, E \cup tls.again) BY <2>3 DEF WriteReady
    <3>3. Shut(d) \/ (Works(d) /\ KeepsWrite(tls, d) /\ \A F : ReadReady(d, F))
      BY <2>1, <3>1, ReadIs
    <3> QED BY <3>2, <3>3 DEF KeepsWrite, Works, Fine
  <2>4. CASE tls.wh = "viaWrite" /\ tls.rh = "viaRead"
    <3>1. Dispatched(tls.wh) = "viaRead" BY <2>4 DEF Dispatched
    <3> QED BY <1>1, <3>1, NestedIs
  <2>5. tls.rh \in {"read", "viaRead"} /\ tls.wh \in {"write", "viaWrite"}
    BY <1>3 DEF Working
  <2> QED BY <2>2, <2>3, <2>4, <2>5
<1> QED BY <1>1, <1>2, <1>3 DEF Fine

\* A connection that waits for its shutdown goes on with it.
LEMMA ShutHandled ==
  ASSUME Shut(tls), Open, NEW timeout,
         NEW d \in Handled(tls, Dispatched(tls.rh), timeout)
                   \cup Handled(tls, Dispatched(tls.wh), timeout)
  PROVE  Shut(d)
<1>1. tls \in Conn /\ tls.rh = "shutdown" /\ tls.wh = "shutdown" BY DEF Shut, Open
<1>2. d \in Shutdown(tls) \cup ShutdownQuietly(tls) BY <1>1 DEF Handled, Dispatched
<1> QED BY <1>1, <1>2, ShutdownIs, EndsIs

LEMMA TlsNextInv == TlsInv /\ [TlsNext]_tlsVars => TlsInv'
<1> SUFFICES ASSUME TlsInv, [TlsNext]_tlsVars PROVE TlsInv' OBVIOUS
<1>1. tls \in Conn /\ tls.again = {} /\ ev \subseteq {"read", "write", "timeout"}
  BY DEF TlsInv, Shut, Fine
<1>2. tls.life = "on" => Fine(tls, ev) BY DEF TlsInv, Shut
<1>3. tls.life # "on" => Shut(tls) BY DEF TlsInv, Fine
<1>4. CASE Readable
  <2>1. /\ tls' \in Conn /\ tls'.life = tls.life /\ tls'.again = tls.again
        /\ tls'.rh = tls.rh /\ tls'.wh = tls.wh /\ tls'.oldR = tls.oldR /\ tls'.oldW = tls.oldW
        /\ tls'.recv = tls.recv /\ tls'.send = tls.send /\ tls'.shake = tls.shake
        /\ tls'.room = tls.room /\ tls'.out = tls.out /\ tls'.held = tls.held
    BY <1>1, <1>4 DEF Readable, Conn
  <2>2. ev' = ev \cup {"read"} BY <1>4 DEF Readable
  <2>3. CASE tls.life = "on"
    BY <1>1, <1>2, <2>1, <2>2, <2>3
       DEF TlsInv, Fine, Shaking, Working, ReadReady, WriteReady
  <2>4. CASE tls.life # "on" BY <1>1, <1>3, <2>1, <2>2, <2>4 DEF TlsInv, Shut
  <2> QED BY <2>3, <2>4
<1>5. CASE Writable
  <2>1. /\ tls' \in Conn /\ tls'.life = tls.life /\ tls'.again = tls.again
        /\ tls'.rh = tls.rh /\ tls'.wh = tls.wh /\ tls'.oldR = tls.oldR /\ tls'.oldW = tls.oldW
        /\ tls'.recv = tls.recv /\ tls'.send = tls.send /\ tls'.shake = tls.shake
        /\ tls'.unread = tls.unread /\ tls'.out = tls.out /\ tls'.held = tls.held
    BY <1>1, <1>5 DEF Writable, Conn
  <2>2. ev' = ev \cup {"write"} BY <1>5 DEF Writable
  <2>3. CASE tls.life = "on"
    BY <1>1, <1>2, <2>1, <2>2, <2>3
       DEF TlsInv, Fine, Shaking, Working, ReadReady, WriteReady
  <2>4. CASE tls.life # "on" BY <1>1, <1>3, <2>1, <2>2, <2>4 DEF TlsInv, Shut
  <2> QED BY <2>3, <2>4
<1>6. CASE EnableRead
  <2>1. /\ tls' \in Conn /\ tls'.life = tls.life /\ tls'.again = tls.again
        /\ tls'.rh = tls.rh /\ tls'.wh = tls.wh /\ tls'.oldR = tls.oldR /\ tls'.oldW = tls.oldW
        /\ tls'.recv = tls.recv /\ tls'.send = tls.send /\ tls'.shake = tls.shake
        /\ tls'.unread = tls.unread /\ tls'.out = tls.out /\ tls'.room = tls.room
        /\ ~tls'.held
    BY <1>1, <1>6 DEF EnableRead, Conn
  <2>2. ev' = ev \cup {"read"} /\ tls.life = "on" BY <1>6 DEF EnableRead
  <2> QED BY <1>1, <1>2, <2>1, <2>2
          DEF TlsInv, Fine, Shaking, Working, ReadReady, WriteReady
<1>7. CASE Expire
  <2>1. tls' = tls /\ ev' = ev \cup {"timeout"} BY <1>7 DEF Expire
  <2> QED BY <1>1, <1>2, <1>3, <2>1 DEF TlsInv, Fine, ReadReady, WriteReady
<1>8. CASE ReadEvent
  <2> DEFINE rest == ev \ {"read", "timeout"}
             C == Handled(tls, Dispatched(tls.rh), "timeout" \in ev)
  <2>1. CASE "read" \in ev
    <3>1. Become(C, rest) BY <1>8, <2>1 DEF ReadEvent
    <3>2. ASSUME NEW d \in C PROVE Shut(d) \/ Fine(d, rest \cup d.again)
      <4>1. CASE tls.life = "on" BY <2>1, <4>1, ReadHandled
      <4>2. CASE tls.life # "on"
        <5>1. Shut(tls) /\ Open BY <1>3, <1>8, <4>2 DEF ReadEvent
        <5> QED BY <5>1, ShutHandled
      <4> QED BY <4>1, <4>2
    <3>3. rest \in SUBSET {"read", "write", "timeout"} BY <1>1
    <3> HIDE DEF C, rest
    <3> QED BY <3>1, <3>2, <3>3, BecomeInv
  <2>2. CASE "read" \notin ev
    <3>1. tls' = tls /\ ev' = rest BY <1>8, <2>2 DEF ReadEvent
    <3> QED BY <1>1, <1>2, <1>3, <2>2, <3>1 DEF TlsInv, Fine, ReadReady, WriteReady
  <2> QED BY <2>1, <2>2
<1>9. CASE WriteEvent
  <2> DEFINE rest == ev \ {"write"}
             C == Handled(tls, Dispatched(tls.wh), FALSE)
  <2>1. Become(C, rest) /\ Open BY <1>9 DEF WriteEvent
  <2>2. ASSUME NEW d \in C PROVE Shut(d) \/ Fine(d, rest \cup d.again)
    <3>1. CASE tls.life = "on" BY <3>1, WriteHandled
    <3>2. CASE tls.life # "on" BY <1>3, <2>1, <3>2, ShutHandled
    <3> QED BY <3>1, <3>2
  <2>3. rest \in SUBSET {"read", "write", "timeout"} BY <1>1
  <2> HIDE DEF C, rest
  <2> QED BY <2>1, <2>2, <2>3, BecomeInv
<1>10. CASE SendForOther
  <2> DEFINE c == [tls EXCEPT !.out = TRUE]
  <2>1. /\ Become(Send(c), ev) /\ Fine(tls, ev) /\ tls.shake = "done"
    BY <1>2, <1>10 DEF SendForOther
  <2>2. Works(tls) BY <2>1 DEF Fine, Works, Shaking
  <2>3. Works(c) /\ KeepsRead(tls, c) BY <2>2, ToSend
  <2> HIDE DEF c
  <2>4. ReadReady(c, ev \cup c.again) BY <1>1, <2>1, <2>3 DEF Fine, KeepsRead
  <2>5. ASSUME NEW d \in Send(c) PROVE Shut(d) \/ Fine(d, ev \cup d.again)
    <3>1. Shut(d) \/ (Works(d) /\ KeepsRead(c, d) /\ \A E : WriteReady(d, E))
      BY <2>3, SendIs
    <3> QED BY <2>4, <3>1 DEF KeepsRead, Works, Fine
  <2>6. ev \in SUBSET {"read", "write", "timeout"} BY <1>1
  <2> QED BY <2>1, <2>5, <2>6, BecomeInv
<1>11. CASE CloseByOther
  <2>1. Become(Shutdown(tls), ev) BY <1>11 DEF CloseByOther
  <2>2. \A d \in Shutdown(tls) : Shut(d) BY <1>1, ShutdownIs
  <2>3. ev \in SUBSET {"read", "write", "timeout"} BY <1>1
  <2> QED BY <2>1, <2>2, <2>3, BecomeInv
<1>12. CASE UNCHANGED tlsVars
  BY <1>12 DEF tlsVars, TlsInv
<1> QED BY <1>4, <1>5, <1>6, <1>7, <1>8, <1>9, <1>10, <1>11, <1>12 DEF TlsNext

LEMMA TlsInvariance == TlsSpec => []TlsInv
BY TlsInitInv, TlsNextInv, PTL DEF TlsSpec

\* The handlers, the calls and the events are those of ssl_conn.cpp.
THEOREM TlsTypeCorrect == TlsSpec => []TlsTypeOK
<1>1. TlsInv => TlsTypeOK BY DEF TlsInv, TlsTypeOK, Shut, Fine
<1> QED BY <1>1, TlsInvariance, PTL

\* Whichever call OpenSSL makes wait, and for whichever direction: the handler
\* of the direction that it asked for leads to the call, unless both handlers
\* are exchanged for each other.
THEOREM CallsAreRepeated == TlsSpec => []RetriedWhereWanted
<1>1. TlsInv => RetriedWhereWanted
  <2> SUFFICES ASSUME TlsInv, tls.life = "on", ~BothExchanged PROVE RetriedWhereWanted
    BY DEF RetriedWhereWanted
  <2>1. Shaking(tls) \/ Working(tls) BY DEF TlsInv, Shut, Fine
  <2>2. CASE Shaking(tls)
    BY <2>2 DEF RetriedWhereWanted, Shaking, Dispatched
  <2>3. CASE Working(tls)
    <3>1. tls.recv = "write" => tls.wh = "viaWrite" /\ tls.rh = "read"
      BY <2>3 DEF Working, BothExchanged
    <3>2. tls.send = "read" => tls.rh = "viaRead" /\ tls.wh = "write"
      BY <2>3 DEF Working, BothExchanged
    <3> QED BY <2>3, <3>1, <3>2 DEF RetriedWhereWanted, Working, Dispatched
  <2> QED BY <2>1, <2>2, <2>3
<1> QED BY <1>1, TlsInvariance, PTL

\* No exchange of the handlers takes an edge with it: what can be read, and
\* what waits to be sent, has an event or a call that waits for the socket.
THEOREM SwapsKeepEdges == TlsSpec => []EdgesSurviveSwaps
<1>1. TlsInv => EdgesSurviveSwaps
  BY DEF TlsInv, Shut, Fine, ReadReady, WriteReady, EdgesSurviveSwaps
<1> QED BY <1>1, TlsInvariance, PTL

-----------------------------------------------------------------------------
(* RequestUri *)

Tokens == {"%", "2", "5", "byte", "g", " ", "&", Response, DeviceID, ConnectID, "callback="}

LEMMA HexTokens ==
  /\ Hex \subseteq Tokens /\ "%" \notin Hex /\ ConnectID \notin Hex
  /\ \A a, b : ByteOf(a, b) \in Tokens
BY DEF Hex, Tokens, ByteOf, ConnectID

\* What the bytes of s from the i-th on mean, when a is what those from the
\* next on mean, and c is what those behind an escape do.
MeansNext(s, i, a, c) ==
  IF i + 2 <= Len(s) /\ Escape(s, i) THEN <<ByteOf(s[i + 1], s[i + 2])>> \o c
  ELSE <<s[i]>> \o a

LEMMA MeansNextIs ==
  ASSUME NEW s \in Seq(Tokens), NEW i \in 1..Len(s), NEW a \in Seq(Tokens), NEW c \in Seq(Tokens)
  PROVE  MeansNext(s, i, a, c) \in Seq(Tokens)
<1>1. s[i] \in Tokens OBVIOUS
<1>2. <<s[i]>> \in Seq(Tokens) BY <1>1
<1>3. ByteOf(s[i + 1], s[i + 2]) \in Tokens BY HexTokens
<1>4. <<ByteOf(s[i + 1], s[i + 2])>> \in Seq(Tokens) BY <1>3
<1>5. <<s[i]>> \o a \in Seq(Tokens) BY <1>2, ConcatProperties
<1>6. <<ByteOf(s[i + 1], s[i + 2])>> \o c \in Seq(Tokens) BY <1>4, ConcatProperties
<1> QED BY <1>5, <1>6 DEF MeansNext

\* Every name means something: the meanings of its ends are the course of a
\* loop from the last byte to the first, which keeps the three it made last.
LEMMA MeaningFromIs ==
  ASSUME NEW s \in Seq(Tokens)
  PROVE  LET f == MeaningFrom(s)
         IN /\ f[Len(s) + 1] = <<>>
            /\ \A i \in 1..Len(s) : f[i] = MeansNext(s, i, f[i + 1], f[i + 3])
            /\ \A i \in 1..(Len(s) + 1) : f[i] \in Seq(Tokens)
<1> DEFINE n == Len(s)
           W == Seq(Tokens)
           S == [a : W, b : W, c : W]
           e == [a |-> <<>>, b |-> <<>>, c |-> <<>>]
           Next(w, k) == [a |-> MeansNext(s, n + 1 - k, w.a, w.c), b |-> w.a, c |-> w.b]
           F == [z \in S \X (1..n) |-> Next(z[1], z[2])]
           Body(f) == [i \in 1..(n + 1) |->
                         IF i > n THEN <<>>
                         ELSE IF i + 2 <= n /\ Escape(s, i)
                              THEN <<ByteOf(s[i + 1], s[i + 2])>> \o f[i + 3]
                         ELSE <<s[i]>> \o f[i + 1]]
           R(f) == f = Body(f)
<1>1. n \in Nat OBVIOUS
<1>2. e \in S BY EmptySeq
<1>3. ASSUME NEW w \in S, NEW k \in 1..n PROVE Next(w, k) \in S
  <2>1. n + 1 - k \in 1..n BY <1>1
  <2>2. MeansNext(s, n + 1 - k, w.a, w.c) \in W BY <2>1, MeansNextIs
  <2> HIDE DEF W, n
  <2> QED BY <2>2
<1>4. F \in Steps(n, S)
  <2> HIDE DEF S, Next, n
  <2> QED BY <1>3 DEF Steps
<1>5. PICK g : IsCourse(g, n, S, e, F)
  <2> HIDE DEF S, e, F, n
  <2> QED BY <1>1, <1>2, <1>4, Course
<1>6. /\ g \in [0..n -> S] /\ g[0] = e
      /\ \A k \in 1..n : g[k] = Next(g[k - 1], k)
  <2>1. g \in [0..n -> S] /\ g[0] = e /\ \A k \in 1..n : g[k] = F[<<g[k - 1], k>>]
    BY <1>5 DEF IsCourse
  <2> HIDE DEF S, e, Next, n
  <2>2. ASSUME NEW k \in 1..n PROVE g[k] = Next(g[k - 1], k)
    <3>1. k - 1 \in 0..n BY <1>1
    <3>2. <<g[k - 1], k>> \in S \X (1..n) BY <2>1, <3>1
    <3> QED BY <2>1, <3>2
  <2> QED BY <2>1, <2>2
<1>7. /\ g[0].a = <<>>
      /\ \A k \in 1..n : /\ g[k].a = MeansNext(s, n + 1 - k, g[k - 1].a, g[k - 1].c)
                         /\ g[k].b = g[k - 1].a /\ g[k].c = g[k - 1].b
  <2>1. g[0].a = <<>> BY <1>6
  <2>2. ASSUME NEW k \in 1..n
        PROVE  /\ g[k].a = MeansNext(s, n + 1 - k, g[k - 1].a, g[k - 1].c)
               /\ g[k].b = g[k - 1].a /\ g[k].c = g[k - 1].b
    <3>1. g[k] = Next(g[k - 1], k) BY <1>6
    <3> HIDE DEF n
    <3> QED BY <3>1
  <2> QED BY <2>1, <2>2
<1>8. \A k \in 0..n : g[k].a \in W
  <2> HIDE DEF W, n
  <2> QED BY <1>6
<1> HIDE DEF Next, F, S, e
<1> DEFINE h == [i \in 1..(n + 1) |-> g[n + 1 - i].a]
<1>9. ASSUME NEW i \in 1..(n + 1) PROVE h[i] = Body(h)[i]
  <2>1. CASE i = n + 1 BY <1>1, <1>7, <2>1
  <2>2. CASE i # n + 1
    <3> DEFINE k == n + 1 - i
    <3>1. k \in 1..n /\ i = n + 1 - k /\ i \in 1..n /\ i + 1 \in 1..(n + 1)
      BY <1>1, <2>2
    <3>2. h[i] = MeansNext(s, i, g[k - 1].a, g[k - 1].c) BY <1>7, <3>1
    <3>3. h[i + 1] = g[k - 1].a
      <4>1. n + 1 - (i + 1) = k - 1 BY <1>1, <3>1
      <4> QED BY <3>1, <4>1
    <3>4. i + 2 <= n => h[i + 3] = g[k - 1].c
      <4>1. SUFFICES ASSUME i + 2 <= n PROVE h[i + 3] = g[k - 1].c OBVIOUS
      <4>2. /\ k - 1 \in 1..n /\ k - 2 \in 1..n /\ (k - 1) - 1 = k - 2 /\ (k - 2) - 1 = k - 3
            /\ i + 3 \in 1..(n + 1) /\ n + 1 - (i + 3) = k - 3
        BY <1>1, <3>1, <4>1
      <4>3. g[k - 1].c = g[k - 2].b /\ g[k - 2].b = g[k - 3].a BY <1>7, <4>2
      <4> QED BY <4>2, <4>3
    <3> HIDE DEF h, n, k
    <3> QED BY <1>1, <3>1, <3>2, <3>3, <3>4 DEF MeansNext, n
  <2> QED BY <2>1, <2>2
<1>10. R(h)
  <2>1. h = [i \in 1..(n + 1) |-> h[i]] OBVIOUS
  <2> HIDE DEF h, n
  <2> QED BY <1>9, <2>1
<1>11. MeaningFrom(s) = CHOOSE f : R(f) BY DEF MeaningFrom
<1> DEFINE m == MeaningFrom(s)
<1>12. R(m)
  <2> HIDE DEF h, R
  <2> QED BY <1>10, <1>11
<1>13. m = Body(m) BY <1>12
<1> HIDE DEF m
<1>14. m[n + 1] = <<>> BY <1>1, <1>13
<1>15. ASSUME NEW i \in 1..n PROVE m[i] = MeansNext(s, i, m[i + 1], m[i + 3])
  <2>1. m[i] = Body(m)[i] BY <1>13
  <2>2. i \in 1..(n + 1) /\ ~(i > n) BY <1>1
  <2> QED BY <2>1, <2>2 DEF MeansNext
<1> DEFINE T == {k \in 0..n : \A i \in (n + 1 - k)..(n + 1) : m[i] \in W}
<1>16. 0 \in T
  <2>1. \A i \in (n + 1 - 0)..(n + 1) : i = n + 1 BY <1>1
  <2>2. m[n + 1] \in W BY <1>14, EmptySeq
  <2>3. 0 \in 0..n BY <1>1
  <2> QED BY <2>1, <2>2, <2>3
<1>17. ASSUME NEW k \in 0..n, k < n, k \in T PROVE k + 1 \in T
  <2>1. k + 1 \in 0..n BY <1>1, <1>17
  <2>2. ASSUME NEW i \in (n + 1 - (k + 1))..(n + 1) PROVE m[i] \in W
    <3>1. CASE i \in (n + 1 - k)..(n + 1) BY <1>17, <3>1
    <3>2. CASE i \notin (n + 1 - k)..(n + 1)
      <4>1. i = n - k /\ i \in 1..n /\ i + 1 \in (n + 1 - k)..(n + 1)
        BY <1>1, <1>17, <3>2
      <4>2. m[i] = MeansNext(s, i, m[i + 1], m[i + 3]) BY <1>15, <4>1
      <4>3. m[i + 1] \in W BY <1>17, <4>1
      <4>4. CASE i + 2 <= n
        <5>1. i + 3 \in (n + 1 - k)..(n + 1) BY <1>1, <4>1, <4>4
        <5>2. m[i + 3] \in W BY <1>17, <5>1
        <5> QED BY <4>1, <4>2, <4>3, <5>2, MeansNextIs
      <4>5. CASE ~(i + 2 <= n)
        <5>1. m[i] = MeansNext(s, i, m[i + 1], <<>>) BY <4>2, <4>5 DEF MeansNext
        <5> QED BY <4>1, <4>3, <5>1, EmptySeq, MeansNextIs
      <4> QED BY <4>4, <4>5
    <3> QED BY <3>1, <3>2
  <2> QED BY <2>1, <2>2
<1>18. n \in T
  <2> HIDE DEF T, n
  <2>1. \A k \in 0..n : k < n /\ k \in T => k + 1 \in T BY <1>17
  <2>2. \A k \in 0..n : k \in T BY <1>1, <1>16, <2>1, UpTo
  <2> QED BY <1>1, <2>2
<1>19. \A i \in 1..(n + 1) : m[i] \in W
  <2>1. \A i \in (n + 1 - n)..(n + 1) : m[i] \in W BY <1>18
  <2> QED BY <1>1, <2>1
<1> QED BY <1>14, <1>15, <1>19 DEF m

LEMMA UriIsSeq ==
  ASSUME NEW uri \in Uris
  PROVE  uri \in Seq(Tokens)
<1> DEFINE A == {Response, DeviceID, "callback="}
           B == UNION {[1..n -> NameBytes] : n \in 0..IdLen}
           C == {<<>>, <<"&">>, <<ConnectID>>}
           Uri(name, chars, rest) == <<name>> \o chars \o rest
<1>1. PICK name \in A, chars \in B, rest \in C : uri = <<name>> \o chars \o rest
  <2>1. Uris = {Uri(name, chars, rest) : name \in A, chars \in B, rest \in C} BY DEF Uris
  <2> SUFFICES \E name \in A, chars \in B, rest \in C : uri = Uri(name, chars, rest)
    OBVIOUS
  <2> HIDE DEF A, B, C, Uri
  <2> QED BY <2>1
<1>2. NameBytes \subseteq Tokens BY DEF NameBytes, Tokens
<1>3. chars \in Seq(Tokens)
  <2>1. PICK n \in 0..IdLen : chars \in [1..n -> NameBytes] OBVIOUS
  <2>2. n \in Nat BY <2>1, UriAssumption
  <2>3. chars \in [1..n -> Tokens] BY <1>2, <2>1
  <2> QED BY <2>2, <2>3, SeqDef
<1>4. <<name>> \in Seq(Tokens) /\ rest \in Seq(Tokens)
  <2>1. name \in Tokens /\ "&" \in Tokens /\ ConnectID \in Tokens BY DEF Tokens
  <2>2. rest = <<>> \/ rest = <<"&">> \/ rest = <<ConnectID>> OBVIOUS
  <2> HIDE DEF A, B, C, Tokens
  <2>3. <<name>> \in Seq(Tokens) BY <2>1
  <2>4. <<"&">> \in Seq(Tokens) /\ <<ConnectID>> \in Seq(Tokens) BY <2>1
  <2>5. <<>> \in Seq(Tokens) BY EmptySeq
  <2> QED BY <2>2, <2>3, <2>4, <2>5
<1>5. <<name>> \o chars \in Seq(Tokens) BY <1>3, <1>4, ConcatProperties
<1> QED BY <1>1, <1>4, <1>5, ConcatProperties

LEMMA FirstOfIs ==
  ASSUME NEW uri \in Seq(Tokens), NEW tokens, NEW i \in Nat \ {0}
  PROVE  LET k == FirstOf(uri, tokens, i)
         IN k = 0 \/ (k \in i..Len(uri) /\ uri[k] \in tokens)
<1> DEFINE at == {k \in i..Len(uri) : uri[k] \in tokens}
<1>1. CASE at = {} BY <1>1 DEF FirstOf
<1>2. CASE at # {}
  <2>1. at \subseteq Nat OBVIOUS
  <2>2. \E m \in at : \A k \in at : m <= k
    <3> HIDE DEF at
    <3> QED BY <1>2, <2>1, Least
  <2>3. Min(at) \in at
    <3> HIDE DEF at
    <3> QED BY <2>2 DEF Min
  <2>4. FirstOf(uri, tokens, i) = Min(at) BY <1>2 DEF FirstOf
  <2> HIDE DEF FirstOf
  <2> QED BY <2>3, <2>4
<1> QED BY <1>1, <1>2

Infos == [role : {"client", "server"}, beg : Nat, end : Nat]

\* A name lies within the URI, and that of a device ends where ConnectID is.
LEMMA UriInfoIs ==
  ASSUME NEW uri \in Seq(Tokens), NEW post \in BOOLEAN
  PROVE  LET u == UriInfo(uri, post)
         IN /\ u \in Infos /\ u.beg >= 1 /\ u.end <= Len(uri) + 1
            /\ u.role = "server" /\ u.end # 0 => u.end <= Len(uri) /\ uri[u.end] = ConnectID
<1> DEFINE answer == FirstOf(uri, {Response}, 1)
           asked == FirstOf(uri, {Response, DeviceID}, 1)
           ends == FirstOf(uri, {ConnectID}, answer + 1)
           next == FirstOf(uri, {"&", ConnectID}, asked + 1)
<1>1. Len(uri) \in Nat /\ 1 \in Nat \ {0} OBVIOUS
<1>2. answer \in Nat /\ asked \in Nat /\ asked <= Len(uri)
  <2>1. answer = 0 \/ answer \in 1..Len(uri) BY <1>1, FirstOfIs
  <2>2. asked = 0 \/ asked \in 1..Len(uri) BY <1>1, FirstOfIs
  <2> HIDE DEF answer, asked
  <2> QED BY <1>1, <2>1, <2>2
<1>3. ends = 0 \/ (ends \in (answer + 1)..Len(uri) /\ uri[ends] = ConnectID)
  <2>1. answer + 1 \in Nat \ {0} BY <1>2
  <2>2. ends = 0 \/ (ends \in (answer + 1)..Len(uri) /\ uri[ends] \in {ConnectID})
    BY <2>1, FirstOfIs
  <2> HIDE DEF ends
  <2> QED BY <2>2
<1>4. next = 0 \/ next \in (asked + 1)..Len(uri)
  <2>1. asked + 1 \in Nat \ {0} BY <1>2
  <2> QED BY <2>1, FirstOfIs
<1>5. UriInfo(uri, post) =
        IF post /\ answer # 0 THEN [role |-> "server", beg |-> answer + 1, end |-> ends]
        ELSE [role |-> "client", beg |-> asked + 1,
              end |-> IF asked = 0 THEN 0 ELSE OrEnd(uri, next)]
  BY DEF UriInfo
<1> HIDE DEF answer, asked, ends, next
<1>6. CASE post /\ answer # 0
  <2> DEFINE u == [role |-> "server", beg |-> answer + 1, end |-> ends]
  <2>1. UriInfo(uri, post) = u BY <1>5, <1>6
  <2>2. u.role = "server" /\ u.beg = answer + 1 /\ u.end = ends OBVIOUS
  <2>3. ends \in Nat /\ ends <= Len(uri) BY <1>1, <1>2, <1>3
  <2>4. u \in Infos BY <1>2, <2>3 DEF Infos
  <2> HIDE DEF u
  <2> QED BY <1>1, <1>2, <1>3, <2>1, <2>2, <2>3, <2>4
<1>7. CASE ~(post /\ answer # 0)
  <2> DEFINE e == IF asked = 0 THEN 0 ELSE OrEnd(uri, next)
             u == [role |-> "client", beg |-> asked + 1, end |-> e]
  <2>1. UriInfo(uri, post) = u BY <1>5, <1>7
  <2>2. e \in Nat /\ e <= Len(uri) + 1 BY <1>1, <1>2, <1>4 DEF OrEnd
  <2>3. u.role = "client" /\ u.beg = asked + 1 /\ u.end = e OBVIOUS
  <2>4. u \in Infos
    <3> HIDE DEF e
    <3> QED BY <1>2, <2>2 DEF Infos
  <2> HIDE DEF u, e
  <2> QED BY <1>1, <1>2, <2>1, <2>2, <2>3, <2>4
<1> QED BY <1>6, <1>7

IdStates == {"read", "refused", "decode", "done", "overrun"}
Ids == [role : {"none", "client", "server"}, name : Seq(Tokens), mem : Seq(Tokens),
        len : Nat, i : Nat \ {0}, state : IdStates]

\* Behind the name of a device is ConnectID; once an escape has been taken out,
\* it is the end of the name as it was.
Closed(d) ==
  LET L == Len(d.name)
  IN \/ d.len = L /\ d.mem[L + 1] = ConnectID
     \/ d.len + 2 <= L /\ d.mem[d.len + 1] = d.name[L - 1] /\ d.mem[d.len + 2] = d.name[L]

(***************************************************************************)
(* The loop: what is before i, and what the bytes from i on mean, is what  *)
(* the name means; and those bytes are the last of the name.               *)
(***************************************************************************)
Decoding(d) ==
  LET L == Len(d.name)
      from == MeaningFrom(d.name)
      gone == L - d.len
  IN /\ L <= IdMax /\ d.len <= L /\ d.i <= d.len + 1 /\ d.len + 2 <= Len(d.mem)
     /\ SubSeq(d.mem, 1, d.i - 1) \o from[d.i + gone] = from[1]
     /\ \A k \in d.i..d.len : d.mem[k] = d.name[k + gone]
     /\ d.role = "client" \/ (d.role = "server" /\ Closed(d))

UriInv ==
  /\ id \in Ids /\ id.len <= IdMax /\ id.i <= IdMax + 1 /\ id.len <= Len(id.mem)
  /\ id.state = "read" => id = NoId
  /\ id.state = "decode" => Decoding(id)
  /\ IdIsDecoded

LEMMA TokensAssociate ==
  ASSUME NEW a \in Seq(Tokens), NEW b \in Seq(Tokens), NEW c \in Seq(Tokens)
  PROVE  (a \o b) \o c = a \o (b \o c)
BY ConcatAssociative

\* A turn of the loop that passes the byte.
LEMMA PassIs ==
  ASSUME NEW d \in Ids, Decoding(d), d.i <= d.len, ~Escape(d.mem, d.i)
  PROVE  [d EXCEPT !.i = @ + 1] \in Ids /\ Decoding([d EXCEPT !.i = @ + 1])
<1> DEFINE e == [d EXCEPT !.i = @ + 1]
           L == Len(d.name)
           f == MeaningFrom(d.name)
           gone == L - d.len
           i == d.i
           m == d.mem
<1>1. /\ m \in Seq(Tokens) /\ d.name \in Seq(Tokens) /\ L \in Nat /\ Len(m) \in Nat
      /\ d.len \in Nat /\ i \in Nat \ {0}
  BY DEF Ids
<1>2. e \in Ids BY DEF Ids
<1>3. /\ e.role = d.role /\ e.name = d.name /\ e.mem = m /\ e.len = d.len /\ e.i = i + 1
  BY DEF Ids
<1>4. /\ L <= IdMax /\ d.len <= L /\ i <= d.len + 1 /\ d.len + 2 <= Len(m)
      /\ SubSeq(m, 1, i - 1) \o f[i + gone] = f[1]
      /\ \A k \in i..d.len : m[k] = d.name[k + gone]
      /\ d.role = "client" \/ (d.role = "server" /\ Closed(d))
  BY DEF Decoding
<1>5. gone = L - d.len /\ i <= d.len OBVIOUS
<1> HIDE DEF e, f, L, gone, i, m
<1> DEFINE p == i + gone
<1>6. p \in 1..L /\ gone \in Nat
  <2>1. /\ L \in Nat /\ d.len \in Nat /\ i \in Nat \ {0} /\ d.len <= L
        /\ gone = L - d.len /\ i <= d.len
    BY <1>1, <1>4, <1>5
  <2> QED BY <2>1
<1>7. /\ f[p] = MeansNext(d.name, p, f[p + 1], f[p + 3])
      /\ f[p + 1] \in Seq(Tokens)
  BY <1>1, <1>6, MeaningFromIs DEF f, L
<1>8. ~(p + 2 <= L /\ Escape(d.name, p))
  <2>1. SUFFICES ASSUME p + 2 <= L, Escape(d.name, p) PROVE Escape(m, i) BY DEF m, i
  <2>2. i \in i..d.len /\ i + 1 \in i..d.len /\ i + 2 \in i..d.len
    <3>1. i \in Nat /\ d.len \in Nat /\ L \in Nat /\ gone = L - d.len BY <1>1, <1>5
    <3>2. (i + gone) + 2 <= L BY <2>1
    <3>3. i + 2 <= d.len BY <3>1, <3>2
    <3> QED BY <3>1, <3>3
  <2>3. m[i] = d.name[p] /\ m[i + 1] = d.name[p + 1] /\ m[i + 2] = d.name[p + 2]
    <3>1. i + gone = p /\ (i + 1) + gone = p + 1 /\ (i + 2) + gone = p + 2 BY <1>1, <1>6
    <3> QED BY <1>4, <2>2, <3>1
  <2> QED BY <2>1, <2>3 DEF Escape
<1>9. f[p] = <<m[i]>> \o f[p + 1]
  <2>1. m[i] = d.name[p] BY <1>1, <1>4, <1>5
  <2> QED BY <1>7, <1>8, <2>1 DEF MeansNext, L
<1>10. SubSeq(m, 1, i) = SubSeq(m, 1, i - 1) \o <<m[i]>>
  <2>1. 1 \in 1..Len(m) /\ i \in 1..Len(m) BY <1>1, <1>4, <1>5
  <2> QED BY <1>1, <2>1, SubSeqRecursiveSecond
<1>11. SubSeq(m, 1, i) \o f[p + 1] = f[1]
  <2>1. SubSeq(m, 1, i - 1) \in Seq(Tokens)
    <3>1. \A k \in 1..(i - 1) : m[k] \in Tokens BY <1>1, <1>4, <1>5
    <3>2. i - 1 \in Int /\ 1 \in Int BY <1>1
    <3> QED BY <3>1, <3>2, SubSeqProperties
  <2>2. <<m[i]>> \in Seq(Tokens)
    <3>1. m[i] \in Tokens BY <1>1, <1>4, <1>5
    <3> QED BY <3>1
  <2>3. (SubSeq(m, 1, i - 1) \o <<m[i]>>) \o f[p + 1] = SubSeq(m, 1, i - 1) \o (<<m[i]>> \o f[p + 1])
    <3> DEFINE a == SubSeq(m, 1, i - 1)
               b == <<m[i]>>
               c == f[p + 1]
    <3>1. a \in Seq(Tokens) /\ b \in Seq(Tokens) /\ c \in Seq(Tokens) BY <1>7, <2>1, <2>2
    <3> HIDE DEF a, b, c
    <3>2. (a \o b) \o c = a \o (b \o c) BY <3>1, TokensAssociate
    <3> QED BY <3>2 DEF a, b, c
  <2> QED BY <1>4, <1>9, <1>10, <2>3
<1>12. Closed(d) => Closed(e) BY <1>3 DEF Closed, m
<1>13. Decoding(e)
  <2>1. (i + 1) - 1 = i /\ (i + 1) + gone = p + 1 BY <1>1, <1>6
  <2>2. i + 1 <= d.len + 1 BY <1>1, <1>5
  <2>3. \A k \in (i + 1)..d.len : k \in i..d.len BY <1>1
  <2> QED BY <1>3, <1>4, <1>11, <1>12, <2>1, <2>2, <2>3 DEF Decoding, f, L, gone, m, i
<1> QED BY <1>2, <1>13 DEF e, i

\* memmove keeps the length, and brings n bytes up by two.
LEMMA MovedUpIs ==
  ASSUME NEW m \in Seq(Tokens), NEW i \in Nat \ {0}, NEW n \in Nat, i + n + 2 <= Len(m),
         NEW b \in Tokens
  PROVE  LET w == [MovedUp(m, i, n) EXCEPT ![i] = b]
         IN /\ w \in Seq(Tokens) /\ Len(w) = Len(m)
            /\ w[i] = b
            /\ \A k \in 1..Len(m) : k # i =>
                 w[k] = IF k > i /\ k <= i + n THEN m[k + 2] ELSE m[k]
<1> DEFINE L == Len(m)
           v == MovedUp(m, i, n)
           w == [v EXCEPT ![i] = b]
<1>1. L \in Nat /\ DOMAIN m = 1..L BY LenProperties
<1>2. v = [k \in 1..L |-> IF k > i /\ k <= i + n THEN m[k + 2] ELSE m[k]]
  BY <1>1 DEF MovedUp
<1>3. ASSUME NEW k \in 1..L
      PROVE  (IF k > i /\ k <= i + n THEN m[k + 2] ELSE m[k]) \in Tokens
  <2>1. m[k] \in Tokens BY <1>1, ElementOfSeq
  <2>2. CASE k > i /\ k <= i + n
    <3>1. k + 2 \in 1..L BY <1>1, <2>2
    <3>2. m[k + 2] \in Tokens BY <3>1, ElementOfSeq
    <3> QED BY <2>2, <3>2
  <2> QED BY <2>1, <2>2
<1> HIDE DEF v, L
<1>4. v \in [1..L -> Tokens] BY <1>2, <1>3
<1>5. v \in Seq(Tokens) BY <1>1, <1>4, SeqDef
<1>6. Len(v) = L BY <1>1, <1>4, <1>5, LenProperties
<1>7. i \in 1..L BY <1>1 DEF L
<1>8. /\ w \in Seq(Tokens) /\ Len(w) = L
      /\ \A j \in 1..L : w[j] = IF j = i THEN b ELSE v[j]
  BY <1>5, <1>6, <1>7, ExceptSeq
<1> HIDE DEF w
<1>9. \A k \in 1..L : k # i => w[k] = IF k > i /\ k <= i + n THEN m[k + 2] ELSE m[k]
  BY <1>2, <1>8
<1> QED BY <1>7, <1>8, <1>9 DEF w, v, L

\* A turn of the loop that takes an escape out of the name.
LEMMA TakeOutIs ==
  ASSUME NEW d \in Ids, Decoding(d), Escape(d.mem, d.i), d.i + 2 <= d.len
  PROVE  Decode(d) \in Ids /\ Decoding(Decode(d))
<1> DEFINE e == Decode(d)
           L == Len(d.name)
           f == MeaningFrom(d.name)
           gone == L - d.len
           i == d.i
           m == d.mem
           len == d.len
           n == len - i - 2
           b == ByteOf(m[i + 1], m[i + 2])
           w == [MovedUp(m, i, n) EXCEPT ![i] = b]
<1>1. /\ m \in Seq(Tokens) /\ d.name \in Seq(Tokens) /\ L \in Nat /\ Len(m) \in Nat
      /\ len \in Nat /\ i \in Nat \ {0} /\ b \in Tokens
  BY HexTokens DEF Ids
<1>2. /\ L <= IdMax /\ len <= L /\ i <= len + 1 /\ len + 2 <= Len(m)
      /\ SubSeq(m, 1, i - 1) \o f[i + gone] = f[1]
      /\ \A k \in i..len : m[k] = d.name[k + gone]
      /\ d.role = "client" \/ (d.role = "server" /\ Closed(d))
  BY DEF Decoding
<1>3. gone = L - len /\ i + 2 <= len /\ n = len - i - 2 /\ Escape(m, i) OBVIOUS
<1>4. e = [d EXCEPT !.mem = w, !.len = @ - 2, !.i = @ + 1]
  BY DEF Decode, Unescaped, Ids
<1> HIDE DEF e, f, L, gone, i, m, len, n, b, w
<1>5. n \in Nat /\ gone \in Nat /\ i + n + 2 <= Len(m) /\ i + n = len - 2
  BY <1>1, <1>2, <1>3
<1>6. /\ w \in Seq(Tokens) /\ Len(w) = Len(m) /\ w[i] = b
      /\ \A k \in 1..Len(m) : k # i =>
           w[k] = IF k > i /\ k <= i + n THEN m[k + 2] ELSE m[k]
  BY <1>1, <1>5, MovedUpIs DEF w
<1>7. len - 2 \in Nat /\ i + 1 \in Nat \ {0} BY <1>1, <1>3
<1>8. /\ e \in Ids /\ e.role = d.role /\ e.name = d.name /\ e.mem = w /\ e.len = len - 2
      /\ e.i = i + 1
  BY <1>4, <1>6, <1>7 DEF Ids, len, i
<1> DEFINE p == i + gone
<1>9. p \in 1..L /\ p + 2 \in 1..L /\ p + 2 <= L BY <1>1, <1>2, <1>3
<1>10. f[p] = MeansNext(d.name, p, f[p + 1], f[p + 3]) /\ f[p + 3] \in Seq(Tokens)
  <2>1. p + 3 \in 1..(L + 1) BY <1>1, <1>9
  <2> QED BY <1>1, <1>9, <2>1, MeaningFromIs DEF f, L
<1>11. m[i] = d.name[p] /\ m[i + 1] = d.name[p + 1] /\ m[i + 2] = d.name[p + 2]
  <2>1. i \in i..len /\ i + 1 \in i..len /\ i + 2 \in i..len BY <1>1, <1>3
  <2>2. i + gone = p /\ (i + 1) + gone = p + 1 /\ (i + 2) + gone = p + 2 BY <1>1, <1>5
  <2> QED BY <1>2, <2>1, <2>2
<1>12. f[p] = <<b>> \o f[p + 3]
  <2>1. Escape(d.name, p) BY <1>3, <1>11 DEF Escape
  <2> QED BY <1>9, <1>10, <1>11, <2>1 DEF MeansNext, b, L
<1>13. SubSeq(w, 1, i) \o f[p + 3] = f[1]
  <2> DEFINE a == SubSeq(m, 1, i - 1)
             c == SubSeq(w, 1, i - 1)
  <2>1. i - 1 \in Int /\ 1 \in Int /\ 1 \in 1..Len(w) /\ i \in 1..Len(w)
    BY <1>1, <1>2, <1>3, <1>6
  <2>2. \A k \in 1..(i - 1) : m[k] \in Tokens /\ w[k] = m[k] BY <1>1, <1>2, <1>3, <1>6
  <2>3. /\ a \in Seq(Tokens) /\ Len(a) = (IF 1 <= i - 1 THEN (i - 1) - 1 + 1 ELSE 0)
        /\ \A k \in 1..((i - 1) - 1 + 1) : a[k] = m[1 + k - 1]
    BY <2>1, <2>2, SubSeqProperties
  <2>4. /\ c \in Seq(Tokens) /\ Len(c) = (IF 1 <= i - 1 THEN (i - 1) - 1 + 1 ELSE 0)
        /\ \A k \in 1..((i - 1) - 1 + 1) : c[k] = w[1 + k - 1]
    BY <2>1, <2>2, SubSeqProperties
  <2>5. SubSeq(w, 1, i) = c \o <<w[i]>> BY <1>6, <2>1, SubSeqRecursiveSecond
  <2>6. a \o f[p] = f[1] BY <1>2
  <2> HIDE DEF a, c
  <2>7. a = c
    <3>1. Len(a) = i - 1 /\ Len(c) = i - 1 BY <1>1, <2>3, <2>4
    <3>2. ASSUME NEW k \in 1..Len(a) PROVE a[k] = c[k]
      <4>1. k \in 1..(i - 1) /\ k \in 1..((i - 1) - 1 + 1) /\ 1 + k - 1 = k BY <1>1, <3>1
      <4> QED BY <2>2, <2>3, <2>4, <4>1
    <3> QED BY <2>3, <2>4, <3>1, <3>2, SeqEqual
  <2>8. <<b>> \in Seq(Tokens) BY <1>1
  <2>9. (a \o <<b>>) \o f[p + 3] = a \o (<<b>> \o f[p + 3])
    <3> DEFINE x == <<b>>
               y == f[p + 3]
    <3>1. x \in Seq(Tokens) /\ y \in Seq(Tokens) BY <1>10, <2>8
    <3> HIDE DEF x, y
    <3>2. (a \o x) \o y = a \o (x \o y) BY <2>3, <3>1, TokensAssociate
    <3> QED BY <3>2 DEF x, y
  <2> QED BY <1>6, <1>12, <2>5, <2>6, <2>7, <2>9
<1>14. ASSUME NEW k \in (i + 1)..(len - 2) PROVE w[k] = d.name[k + (gone + 2)]
  <2>1. k \in 1..Len(m) /\ k # i /\ k > i /\ k <= i + n /\ k + 2 \in i..len
    BY <1>1, <1>2, <1>3, <1>5
  <2>2. w[k] = m[k + 2] BY <1>6, <2>1
  <2>3. (k + 2) + gone = k + (gone + 2) BY <1>1, <1>5
  <2> QED BY <1>2, <2>1, <2>2, <2>3
<1>15. Closed(e)
  <2>1. len - 1 \in 1..Len(m) /\ len \in 1..Len(m) /\ len - 1 # i /\ len # i
        /\ ~(len - 1 <= i + n) /\ ~(len <= i + n) /\ len - 1 \in i..len /\ len \in i..len
    BY <1>1, <1>2, <1>3, <1>5
  <2>2. w[len - 1] = m[len - 1] /\ w[len] = m[len] BY <1>6, <2>1
  <2>3. (len - 1) + gone = L - 1 /\ len + gone = L BY <1>1, <1>3, <1>5
  <2>4. w[len - 1] = d.name[L - 1] /\ w[len] = d.name[L] BY <1>2, <2>1, <2>2, <2>3
  <2>5. (len - 2) + 2 <= L /\ (len - 2) + 1 = len - 1 /\ (len - 2) + 2 = len BY <1>1, <1>2
  <2> QED BY <1>8, <2>4, <2>5 DEF Closed, L
<1>16. Decoding(e)
  <2>1. L - (len - 2) = gone + 2 BY <1>1, <1>3
  <2>2. (i + 1) - 1 = i /\ (i + 1) + (gone + 2) = p + 3 BY <1>1, <1>5
  <2>3. len - 2 <= L BY <1>1, <1>2
  <2>4. i + 1 <= (len - 2) + 1 BY <1>1, <1>3
  <2>5. (len - 2) + 2 <= Len(w) BY <1>1, <1>2, <1>6
  <2> QED BY <1>2, <1>8, <1>13, <1>14, <1>15, <2>1, <2>2, <2>3, <2>4, <2>5
          DEF Decoding, f, L
<1> QED BY <1>8, <1>16 DEF e

\* The loop goes beyond the name only when the name ends within an escape, and
\* when it finds the rest of it behind the name.
LEMMA OverrunIs ==
  ASSUME NEW d \in Ids, Decoding(d), Escape(d.mem, d.i), d.i <= d.len, d.len < d.i + 2
  PROVE  Unfinished(d.name) /\ d.role = "client"
<1> DEFINE L == Len(d.name)
           gone == L - d.len
           i == d.i
           m == d.mem
           len == d.len
           s == d.name
           p == i + gone
<1>1. L \in Nat /\ len \in Nat /\ i \in Nat \ {0} BY DEF Ids
<1>2. /\ len <= L
      /\ \A k \in i..len : m[k] = s[k + gone]
      /\ d.role = "client" \/ (d.role = "server" /\ Closed(d))
  BY DEF Decoding
<1>3. /\ gone = L - len /\ i <= len /\ len < i + 2
      /\ m[i] = "%" /\ m[i + 1] \in Hex /\ m[i + 2] \in Hex
  BY DEF Escape
<1>4. Closed(d) => \/ len = L /\ m[L + 1] = ConnectID
                   \/ len + 2 <= L /\ m[len + 1] = s[L - 1] /\ m[len + 2] = s[L]
  BY DEF Closed
<1> HIDE DEF L, gone, i, m, len, s
<1>5. p \in Nat /\ p > 0 /\ i + gone = p /\ len + gone = L BY <1>1, <1>2, <1>3
<1>6. s[p] = "%"
  <2>1. i \in i..len BY <1>1, <1>3
  <2> QED BY <1>2, <1>3, <1>5, <2>1
<1>7. CASE i = len
  <2>1. p = L BY <1>5, <1>7
  <2>2. \A j \in (p + 1)..L : FALSE BY <1>1, <2>1
  <2>3. Unfinished(s) BY <1>5, <1>6, <2>1, <2>2 DEF Unfinished, L, s
  <2>4. ~Closed(d)
    <3>1. L + 1 = i + 1 \/ len # L BY <1>7
    <3>2. m[len + 2] \in Hex /\ s[L] \notin Hex BY <1>3, <1>6, <1>7, <2>1, HexTokens
    <3> QED BY <1>3, <1>4, <3>1, <3>2, HexTokens
  <2> QED BY <1>2, <2>3, <2>4 DEF s
<1>8. CASE i = len - 1
  <2>1. p = L - 1 /\ i + 1 = len /\ i + 2 = len + 1 BY <1>1, <1>3, <1>8
  <2>2. \A j \in (p + 1)..L : j = L BY <1>1, <2>1
  <2>3. s[L] \in Hex
    <3>1. len \in i..len BY <1>1, <1>3
    <3>2. s[len + gone] = m[len] BY <1>2, <3>1
    <3> QED BY <1>3, <1>5, <2>1, <3>2
  <2>4. Unfinished(s) BY <1>5, <1>6, <2>1, <2>2, <2>3 DEF Unfinished, L, s
  <2>5. m[len + 1] \in Hex /\ s[L - 1] \notin Hex BY <1>3, <1>6, <2>1, HexTokens
  <2>6. ~Closed(d) BY <1>4, <2>5, HexTokens
  <2> QED BY <1>2, <2>4, <2>6 DEF s
<1>9. i = len \/ i = len - 1 BY <1>1, <1>3
<1> QED BY <1>7, <1>8, <1>9

LEMMA DecodedInv ==
  ASSUME UriInv, Decoded
  PROVE  UriInv'
<1> DEFINE L == Len(id.name)
           f == MeaningFrom(id.name)
<1>1. id \in Ids /\ Decoding(id) /\ id.i > id.len /\ id' = [id EXCEPT !.state = "done"]
  BY DEF UriInv, Decoded
<1>2. /\ id.len \in Nat /\ id.i \in Nat \ {0} /\ L \in Nat /\ id.name \in Seq(Tokens)
      /\ id.mem \in Seq(Tokens) /\ Len(id.mem) \in Nat
  BY <1>1 DEF Ids
<1>3. id.i = id.len + 1 /\ id.i - 1 = id.len /\ id.i + (L - id.len) = L + 1
  <2>1. id.i <= id.len + 1 BY <1>1 DEF Decoding
  <2> HIDE DEF L
  <2> QED BY <1>1, <1>2, <2>1
<1>4. SubSeq(id.mem, 1, id.len) \o f[L + 1] = f[1] BY <1>1, <1>3 DEF Decoding
<1>5. f[L + 1] = <<>> BY <1>2, MeaningFromIs
<1>6. SubSeq(id.mem, 1, id.len) \in Seq(Tokens)
  <2>1. id.len + 2 <= Len(id.mem) BY <1>1 DEF Decoding
  <2>2. \A k \in 1..id.len : id.mem[k] \in Tokens BY <1>2, <2>1
  <2>3. 1 \in Int /\ id.len \in Int BY <1>2
  <2> QED BY <2>2, <2>3, SubSeqProperties
<1> HIDE DEF f
<1>7. SubSeq(id.mem, 1, id.len) = Meaning(id.name)
  BY <1>4, <1>5, <1>6, ConcatEmptySeq DEF Meaning, f
<1>8. /\ id' \in Ids /\ id'.mem = id.mem /\ id'.len = id.len /\ id'.name = id.name
      /\ id'.i = id.i /\ id'.state = "done"
  BY <1>1 DEF Ids, IdStates
<1> QED BY <1>7, <1>8 DEF UriInv, IdIsDecoded

LEMMA DecodeByteInv ==
  ASSUME UriInv, DecodeByte
  PROVE  UriInv'
<1>1. /\ id \in Ids /\ Decoding(id) /\ id.i <= id.len /\ id.state = "decode"
      /\ id.len <= IdMax /\ id.len <= Len(id.mem)
  BY DEF UriInv, DecodeByte
<1>2. ASSUME id' \in Ids, Decoding(id'), id'.state = "decode" PROVE UriInv'
  <2>1. /\ id'.len \in Nat /\ id'.i \in Nat /\ Len(id'.name) \in Nat /\ Len(id'.mem) \in Nat
    BY <1>2 DEF Ids
  <2>2. /\ Len(id'.name) <= IdMax /\ id'.len <= Len(id'.name)
        /\ id'.i <= id'.len + 1 /\ id'.len + 2 <= Len(id'.mem)
    BY <1>2 DEF Decoding
  <2>3. id'.len <= IdMax /\ id'.i <= IdMax + 1 /\ id'.len <= Len(id'.mem)
    BY <2>1, <2>2, UriAssumption
  <2> QED BY <1>2, <2>3 DEF UriInv, IdIsDecoded
<1>3. CASE ~Escape(id.mem, id.i)
  <2>1. id' = [id EXCEPT !.i = @ + 1] BY <1>3 DEF DecodeByte
  <2>2. id' \in Ids /\ Decoding(id') BY <1>1, <1>3, <2>1, PassIs
  <2>3. id'.state = "decode" BY <1>1, <2>1 DEF Ids
  <2> QED BY <1>2, <2>2, <2>3
<1>4. CASE Escape(id.mem, id.i) /\ id.len < id.i + 2
  <2>1. id' = [id EXCEPT !.state = "overrun"] BY <1>4 DEF DecodeByte
  <2>2. Unfinished(id.name) /\ id.role = "client" BY <1>1, <1>4, OverrunIs
  <2>3. /\ id' \in Ids /\ id'.mem = id.mem /\ id'.len = id.len /\ id'.name = id.name
        /\ id'.i = id.i /\ id'.role = id.role /\ id'.state = "overrun"
    BY <1>1, <2>1 DEF Ids, IdStates
  <2>4. id.i <= IdMax + 1 BY DEF UriInv
  <2> QED BY <1>1, <2>2, <2>3, <2>4 DEF UriInv, IdIsDecoded
<1>5. CASE Escape(id.mem, id.i) /\ ~(id.len < id.i + 2)
  <2>1. id' = Decode(id) BY <1>5 DEF DecodeByte
  <2>2. id.i + 2 <= id.len BY <1>1, <1>5 DEF Ids
  <2>3. id' \in Ids /\ Decoding(id') BY <1>1, <1>5, <2>1, <2>2, TakeOutIs
  <2>4. id'.state = "decode" BY <1>1, <2>1 DEF Decode, Unescaped, Ids
  <2> QED BY <1>2, <2>3, <2>4
<1> QED BY <1>3, <1>4, <1>5

\* A name that is copied or found in the request is all still to be decoded.
LEMMA BeginsDecoding ==
  ASSUME NEW name \in Seq(Tokens), NEW rest \in Seq(Tokens), Len(name) <= IdMax, Len(rest) >= 2,
         NEW role \in {"client", "server"}, role = "server" => rest[1] = ConnectID
  PROVE  LET d == [role |-> role, name |-> name, mem |-> name \o rest, len |-> Len(name),
                   i |-> 1, state |-> "decode"]
         IN d \in Ids /\ Decoding(d)
<1> DEFINE L == Len(name)
           m == name \o rest
           f == MeaningFrom(name)
           d == [role |-> role, name |-> name, mem |-> m, len |-> L, i |-> 1, state |-> "decode"]
<1>1. /\ m \in Seq(Tokens) /\ Len(m) = L + Len(rest)
      /\ \A k \in 1..(L + Len(rest)) : m[k] = IF k <= L THEN name[k] ELSE rest[k - L]
  BY ConcatProperties
<1>2. L \in Nat /\ Len(rest) \in Nat /\ L <= IdMax /\ Len(rest) >= 2 OBVIOUS
<1>3. SubSeq(m, 1, 0) = <<>> BY SubSeqEmpty
<1>4. f[1] \in Seq(Tokens) /\ <<>> \o f[1] = f[1]
  <2>1. 1 \in 1..(L + 1) BY <1>2
  <2>2. f[1] \in Seq(Tokens) BY <2>1, MeaningFromIs
  <2> HIDE DEF f
  <2> QED BY <2>2, ConcatEmptySeq
<1>5. \A k \in 1..L : m[k] = name[k] BY <1>1, <1>2
<1>6. m[L + 1] = rest[1]
  <2>1. L + 1 \in 1..(L + Len(rest)) /\ ~(L + 1 <= L) /\ (L + 1) - L = 1 BY <1>2
  <2> QED BY <1>1, <2>1
<1> HIDE DEF m, f, L
<1>7. d \in Ids
  <2>1. 1 \in Nat \ {0} OBVIOUS
  <2> QED BY <1>1, <1>2, <2>1 DEF Ids, IdStates
<1>8. /\ d.role = role /\ d.name = name /\ d.mem = m /\ d.len = L /\ d.i = 1 OBVIOUS
<1> HIDE DEF d
<1>9. role = "server" => Closed(d) BY <1>6, <1>8 DEF Closed, L
<1>10. Decoding(d)
  <2>1. 1 - 1 = 0 /\ L - L = 0 /\ 1 + 0 = 1 /\ L <= L /\ 1 <= L + 1 /\ L + 2 <= Len(m)
    BY <1>1, <1>2
  <2>2. \A k \in 1..L : k + 0 = k BY <1>2
  <2>3. SubSeq(m, 1, 0) \o f[1] = f[1] BY <1>3, <1>4
  <2>4. \A k \in 1..L : m[k] = name[k + 0] BY <1>5, <2>2
  <2>5. Len(d.name) = L /\ MeaningFrom(d.name) = f BY <1>8 DEF L, f
  <2> QED BY <1>2, <1>8, <1>9, <2>1, <2>3, <2>4, <2>5 DEF Decoding
<1> QED BY <1>7, <1>10 DEF d, m, L

\* What is behind the name of a client is memory that nobody has set; that of
\* a device is followed by the rest of the URI.
LEMMA BehindClient ==
  ASSUME NEW rest \in [1..2 -> {"2", "g"}]
  PROVE  rest \in Seq(Tokens) /\ Len(rest) >= 2
<1>1. rest \in [1..2 -> Tokens] BY DEF Tokens
<1>2. rest \in Seq(Tokens) BY <1>1, SeqDef
<1>3. Len(rest) \in Nat /\ DOMAIN rest = 1..Len(rest) BY <1>2, LenProperties
<1>4. 1..Len(rest) = 1..2 BY <1>1, <1>3
<1> QED BY <1>2, <1>3, <1>4

LEMMA BehindDevice ==
  ASSUME NEW uri \in Seq(Tokens), NEW end \in 1..Len(uri), uri[end] = ConnectID
  PROVE  LET rest == SubSeq(uri, end, Len(uri)) \o <<" ", "g">>
         IN rest \in Seq(Tokens) /\ Len(rest) >= 2 /\ rest[1] = ConnectID
<1> DEFINE a == SubSeq(uri, end, Len(uri))
           b == <<" ", "g">>
<1>1. Len(uri) \in Nat /\ end \in Int /\ Len(uri) \in Int OBVIOUS
<1>2. \A k \in end..Len(uri) : uri[k] \in Tokens BY ElementOfSeq
<1>3. /\ a \in Seq(Tokens) /\ Len(a) = (IF end <= Len(uri) THEN Len(uri) - end + 1 ELSE 0)
      /\ \A k \in 1..(Len(uri) - end + 1) : a[k] = uri[end + k - 1]
  BY <1>1, <1>2, SubSeqProperties
<1>4. b \in Seq(Tokens) /\ Len(b) = 2
  <2>1. " " \in Tokens /\ "g" \in Tokens BY DEF Tokens
  <2> HIDE DEF Tokens
  <2>2. ASSUME NEW x \in Tokens, NEW y \in Tokens
        PROVE  <<x, y>> \in Seq(Tokens) /\ Len(<<x, y>>) = 2
    OBVIOUS
  <2> QED BY <2>1, <2>2
<1> HIDE DEF a, b
<1>5. 1 \in 1..(Len(uri) - end + 1) /\ end + 1 - 1 = end BY <1>1
<1>6. Len(a) \in Nat /\ Len(a) >= 1 /\ a[1] = ConnectID BY <1>1, <1>3, <1>5
<1>7. /\ a \o b \in Seq(Tokens) /\ Len(a \o b) = Len(a) + Len(b)
      /\ \A k \in 1..(Len(a) + Len(b)) : (a \o b)[k] = IF k <= Len(a) THEN a[k] ELSE b[k - Len(a)]
  BY <1>3, <1>4, ConcatProperties
<1>8. 1 \in 1..(Len(a) + Len(b)) /\ Len(a) + Len(b) >= 2 BY <1>4, <1>6
<1> QED BY <1>6, <1>7, <1>8 DEF a, b

LEMMA HandleUriInv ==
  ASSUME UriInv, NEW uri \in Uris, NEW post \in BOOLEAN, HandleUri(uri, post)
  PROVE  UriInv'
<1> DEFINE u == UriInfo(uri, post)
           name == SubSeq(uri, u.beg, u.end - 1)
<1>1. uri \in Seq(Tokens) /\ Len(uri) \in Nat BY UriIsSeq
<1>2. /\ u \in Infos /\ u.beg >= 1 /\ u.end <= Len(uri) + 1
      /\ u.role = "server" /\ u.end # 0 => u.end <= Len(uri) /\ uri[u.end] = ConnectID
  BY <1>1, UriInfoIs
<1>3. id.state = "read" /\ id = NoId BY DEF HandleUri, UriInv
<1>4. id.i = 1 /\ id.role = "none" /\ id.name = <<>> /\ id.mem = <<>> /\ id.len = 0
  BY <1>3 DEF NoId
<1> DEFINE behind == IF u.role = "client" THEN [1..2 -> {"2", "g"}]
                     ELSE {SubSeq(uri, u.end, Len(uri)) \o <<" ", "g">>}
<1>5. IF u.end = 0 \/ name = <<>> \/ Len(name) > IdMax
      THEN id' = [id EXCEPT !.state = "refused"]
      ELSE \E rest \in behind :
             id' = [id EXCEPT !.role = u.role, !.name = name, !.mem = name \o rest,
                              !.len = Len(name), !.state = "decode"]
  BY DEF HandleUri
<1>6. name \in Seq(Tokens)
  <2>1. u.beg \in Int /\ u.end - 1 \in Int BY <1>2 DEF Infos
  <2>2. \A k \in u.beg..(u.end - 1) : uri[k] \in Tokens BY <1>1, <1>2 DEF Infos
  <2> HIDE DEF u
  <2> QED BY <2>1, <2>2, SubSeqProperties
<1>7. ASSUME u.end # 0, NEW rest \in behind
      PROVE  /\ rest \in Seq(Tokens) /\ Len(rest) >= 2
             /\ u.role = "server" => rest[1] = ConnectID
  <2>1. u.role \in {"client", "server"} /\ u.end \in Nat BY <1>2 DEF Infos
  <2>2. CASE u.role = "client"
    <3>1. rest \in [1..2 -> {"2", "g"}] BY <1>7, <2>2
    <3> HIDE DEF u, behind
    <3> QED BY <2>2, <3>1, BehindClient
  <2>3. CASE u.role = "server"
    <3>1. rest = SubSeq(uri, u.end, Len(uri)) \o <<" ", "g">> BY <1>7, <2>3
    <3> HIDE DEF u, behind
    <3>2. u.end \in 1..Len(uri) /\ uri[u.end] = ConnectID BY <1>1, <1>2, <1>7, <2>1, <2>3
    <3> QED BY <1>1, <3>1, <3>2, BehindDevice
  <2> QED BY <2>1, <2>2, <2>3
<1> HIDE DEF behind, u, name
<1>8. CASE u.end = 0 \/ name = <<>> \/ Len(name) > IdMax
  <2>1. id' = [id EXCEPT !.state = "refused"] BY <1>5, <1>8
  <2>2. id \in Ids /\ id.len <= IdMax /\ id.i <= IdMax + 1 /\ id.len <= Len(id.mem) BY DEF UriInv
  <2>3. /\ id' \in Ids /\ id'.mem = id.mem /\ id'.len = id.len /\ id'.i = id.i
        /\ id'.state = "refused"
    BY <2>1, <2>2 DEF Ids, IdStates
  <2> QED BY <2>2, <2>3 DEF UriInv, IdIsDecoded
<1>9. CASE ~(u.end = 0 \/ name = <<>> \/ Len(name) > IdMax)
  <2>1. PICK rest \in behind :
          id' = [id EXCEPT !.role = u.role, !.name = name, !.mem = name \o rest,
                           !.len = Len(name), !.state = "decode"]
    BY <1>5, <1>9
  <2>2. id' = [role |-> u.role, name |-> name, mem |-> name \o rest, len |-> Len(name),
               i |-> 1, state |-> "decode"]
    BY <1>3, <2>1 DEF NoId
  <2>3. /\ rest \in Seq(Tokens) /\ Len(rest) >= 2
        /\ u.role = "server" => rest[1] = ConnectID
    BY <1>7, <1>9
  <2>4. Len(name) <= IdMax /\ Len(name) \in Nat BY <1>6, <1>9, UriAssumption
  <2>5. u.role \in {"client", "server"} BY <1>2 DEF Infos
  <2>6. id' \in Ids /\ Decoding(id') BY <1>6, <2>2, <2>3, <2>4, <2>5, BeginsDecoding
  <2>7. id'.len = Len(name) /\ id'.i = 1 /\ id'.state = "decode" /\ id'.mem = name \o rest BY <2>2
  <2>8. id'.len <= Len(id'.mem)
    <3>1. Len(name \o rest) = Len(name) + Len(rest) /\ Len(rest) \in Nat
      BY <1>6, <2>3, ConcatProperties
    <3> QED BY <2>4, <2>7, <3>1
  <2>9. id'.i <= IdMax + 1 BY <2>7, UriAssumption
  <2> QED BY <2>4, <2>6, <2>7, <2>8, <2>9 DEF UriInv, IdIsDecoded
<1> QED BY <1>8, <1>9

LEMMA UriInvariance == UriSpec => []UriInv
<1>1. UriInit => UriInv
  <2> SUFFICES ASSUME UriInit PROVE UriInv OBVIOUS
  <2>1. /\ id = NoId /\ id.i = 1 /\ id.role = "none" /\ id.name = <<>> /\ id.mem = <<>>
        /\ id.len = 0 /\ id.state = "read"
    BY DEF UriInit, NoId
  <2>2. id \in Ids
    <3>1. <<>> \in Seq(Tokens) BY EmptySeq
    <3>2. 1 \in Nat \ {0} OBVIOUS
    <3> QED BY <3>1, <3>2 DEF UriInit, NoId, Ids, IdStates
  <2> QED BY <2>1, <2>2, EmptySeq, UriAssumption DEF UriInv, IdIsDecoded
<1>2. UriInv /\ [UriNext]_id => UriInv'
  <2> SUFFICES ASSUME UriInv, [UriNext]_id PROVE UriInv' OBVIOUS
  <2>1. CASE UNCHANGED id BY <2>1 DEF UriInv, IdIsDecoded, Decoding, Closed
  <2> QED BY <2>1, HandleUriInv, DecodeByteInv, DecodedInv DEF UriNext
<1> QED BY <1>1, <1>2, PTL DEF UriSpec

\* The place in the loop and the name stay within the memory that holds it.
THEOREM UriTypeCorrect == UriSpec => []UriTypeOK
<1>1. UriInv => UriTypeOK
  <2> SUFFICES ASSUME UriInv PROVE UriTypeOK OBVIOUS
  <2>1. id \in Ids /\ id.len <= IdMax /\ id.i <= IdMax + 1 /\ id.len <= Len(id.mem) BY DEF UriInv
  <2>2. id.len \in 0..IdMax /\ id.i \in 1..(IdMax + 1) BY <2>1, UriAssumption DEF Ids
  <2> QED BY <2>1, <2>2 DEF UriTypeOK, Ids, IdStates
<1> QED BY <1>1, UriInvariance, PTL

\* http_decode_uri in place, whatever the name and whatever its length: it
\* becomes what it means, and only an unfinished escape at the end of a
\* client's name lets the loop go beyond it.
THEOREM NamesAreDecoded == UriSpec => []IdIsDecoded
<1>1. UriInv => IdIsDecoded BY DEF UriInv
<1> QED BY <1>1, UriInvariance, PTL
=============================================================================
