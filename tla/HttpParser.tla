---------------------------- MODULE HttpParser ----------------------------
(***************************************************************************)
(* How a request is read: http_stream::read_header takes one byte          *)
(* at a time, looks for CR LF CR LF by itself, and gives what it has       *)
(* collected to http_parser, an automaton with a different idea of where a *)
(* header ends.  Here both run side by side, over headers of any length.   *)
(* A byte is its class; the methods and HTTP are read as one word, since a *)
(* part of one is refused by the state that expects it.  What follows the  *)
(* header, as get_body_info says, is read in larger steps: its bytes are   *)
(* the business of Relay.                                                  *)
(***************************************************************************)
EXTENDS Naturals

VARIABLES
  st,       \* state_ of http_parser, "done" and "bad" once it has returned
  line,     \* which of the two functions is at work: "first" or "header"
  named,    \* name_beg_ is set: a header line came before this one
  eol,      \* how much of CR LF CR LF the last bytes are
  verdict,  \* what the stream makes of it: "more" is still to come
  follows   \* state_ and body_type_: what is read now

parserVars == <<st, line, named, eol, verdict, follows>>

Ctl     == {"tab", "cr", "lf", "ctl"}
Special == {"slash", "colon", "special", "space", "tab"}
Token   == {"METHOD", "HTTP", "letter", "digit", "dot"}
Bytes   == Token \cup Ctl \cup Special \cup {"high"}

States == {"start", "check", "space_before_uri", "uri", "http_version_h",
           "http_version_slash", "http_version_major", "http_version_minor",
           "status_code", "status_text", "header_lws", "header_name",
           "space_before_header_value", "header_value", "almost_done",
           "header_almost_done", "done", "bad"}

(***************************************************************************)
(* The automaton: for each state the bytes it takes and where they lead.   *)
(* A byte that no row takes is refused.                                    *)
(***************************************************************************)
UriRowsWithControls == {<<{"space"}, "http_version_h">>,
                        <<Bytes \ {"space"}, "uri">>}

UriRows == {<<{"space"}, "http_version_h">>,
            <<Bytes \ (Ctl \cup {"space"}), "uri">>}

VersionRows ==
  [http_version_h     |-> {<<{"HTTP"}, "http_version_slash">>},
   http_version_slash |-> {<<{"slash"}, "http_version_major">>},
   http_version_major |-> {<<{"digit"}, "http_version_major">>,
                           <<{"dot"}, "http_version_minor">>},
   http_version_minor |-> {<<{"digit"}, "http_version_minor">>,
                           <<{"cr"}, "almost_done">>,
                           <<{"space"}, "status_code">>},
   status_code        |-> {<<{"digit"}, "status_code">>,
                           <<{"space"}, "status_text">>},
   status_text        |-> {<<{"cr"}, "almost_done">>,
                           <<Bytes \ Ctl, "status_text">>}]

FirstLine(s) ==
  CASE s = "start" -> {<<{"METHOD"}, "space_before_uri">>,
                       <<{"HTTP"}, "http_version_slash">>,
                       <<Token \ {"METHOD", "HTTP"}, "check">>}
    [] s = "check" -> {<<Bytes \ {"space"}, "check">>}
    [] s = "space_before_uri" -> {<<{"space"}, "uri">>}
    [] s = "uri" -> UriRows
    [] s = "almost_done" -> {<<{"lf"}, "start">>}
    [] OTHER -> VersionRows[s]

HeaderRows ==
  [header_lws   |-> {<<{"cr"}, "almost_done">>,
                     <<{"space", "tab"}, "header_lws">>,
                     <<Bytes \ (Ctl \cup {"space"}), "header_value">>},
   header_name  |-> {<<{"colon"}, "space_before_header_value">>,
                     <<Token, "header_name">>},
   space_before_header_value |-> {<<{"space"}, "header_value">>},
   header_value |-> {<<{"cr"}, "almost_done">>,
                     <<Bytes \ Ctl, "header_value">>},
   almost_done  |-> {<<{"lf"}, "start">>},
   header_almost_done |-> {<<{"lf"}, "done">>}]

HeaderLine(s) ==
  IF s = "start"
  THEN {<<{"cr"}, "header_almost_done">>, <<Token, "header_name">>}
         \cup (IF named THEN {<<{"space", "tab"}, "header_lws">>} ELSE {})
  ELSE HeaderRows[s]

\* Once the parser has returned, nothing more of this header is given to it.
Parse(s, b) ==
  LET rows  == IF line = "first" THEN FirstLine(s) ELSE HeaderLine(s)
      taken == {r \in rows : b \in r[1]}
  IN  IF s \in {"done", "bad"} THEN s
      ELSE IF taken = {} THEN "bad"
      ELSE (CHOOSE r \in taken : TRUE)[2]

EndOfLines(b) == CASE b = "cr" -> IF eol = 2 THEN 3 ELSE 1
                   [] b = "lf" -> IF eol \in {1, 3} THEN eol + 1 ELSE 0
                   [] OTHER -> 0

ParserInit == /\ st = "start" /\ line = "first" /\ named = FALSE
              /\ eol = 0 /\ verdict = "more" /\ follows = "header"

-----------------------------------------------------------------------------
(***************************************************************************)
(* What get_body_info finds: whether Transfer-Encoding is chunked, what    *)
(* Content-Length is, whether the method needs a body, and what Except     *)
(* (sic) asks of a request of HTTP/1.1.                                    *)
(***************************************************************************)
Headers == [request : BOOLEAN, chunked : BOOLEAN, needs : BOOLEAN,
            length : {"absent", "wrong", "zero", "number"},
            expects : {"absent", "100-Continue", "other"}]

BodyType(h) == IF h.chunked THEN "chunks"
               ELSE IF h.length = "absent" THEN "none" ELSE "content"

Refused(h) == \/ ~h.chunked /\ h.length = "wrong"
              \/ h.request /\ h.needs /\ BodyType(h) = "none"
              \/ h.request /\ h.expects = "other"

\* A body of length 0 is none.
Follows(h) == IF BodyType(h) = "chunks" THEN "chunks"
              ELSE IF BodyType(h) = "content" /\ h.length = "number" THEN "content"
              ELSE "header"

-----------------------------------------------------------------------------
(***************************************************************************)
(* One byte is received.  At CR LF CR LF the header goes to the parser;    *)
(* before that, it may have grown past http_max_header_size.               *)
(***************************************************************************)
ReadByte(b) ==
  /\ verdict = "more" /\ follows = "header"
  /\ st' = Parse(st, b)
  /\ eol' = EndOfLines(b)
  /\ line' = IF st = "almost_done" /\ b = "lf" THEN "header" ELSE line
  /\ named' = (named \/ st' = "header_name")
  /\ IF eol' = 4
     THEN CASE st' = "done" -> \E h \in Headers :
                 /\ verdict' = IF Refused(h) THEN "refused" ELSE "ok"
                 /\ follows' = IF Refused(h) THEN "header" ELSE Follows(h)
            [] st' = "bad" -> verdict' = "refused" /\ UNCHANGED follows
            [] OTHER -> verdict' = "assert" /\ UNCHANGED follows
     ELSE verdict' \in {"more", "refused"} /\ UNCHANGED follows

\* The whole of a body of known length.
ReadContent == /\ verdict = "ok" /\ follows = "content"
               /\ follows' = "header"
               /\ UNCHANGED <<st, line, named, eol, verdict>>

\* A size, and what it is the size of; or a size that is none, or too long.
ReadChunk ==
  /\ verdict = "ok" /\ follows = "chunks"
  /\ \/ UNCHANGED <<follows, verdict>>
     \/ follows' = "trailer" /\ UNCHANGED verdict
     \/ verdict' = "refused" /\ UNCHANGED follows
  /\ UNCHANGED <<st, line, named, eol>>

\* read_trailer gives the first line it has to the parser as the header left
\* it: in header_almost_done and off_ bytes on, though the buffer is a new
\* one.  A line that is shorter is never looked at, a longer one only from
\* there on, where one byte is right.
ReadTrailer ==
  /\ verdict = "ok" /\ follows = "trailer"
  /\ \/ verdict' = "assert" /\ UNCHANGED follows
     \/ verdict' = "refused" /\ UNCHANGED follows
     \/ follows' = "header" /\ UNCHANGED verdict
  /\ UNCHANGED <<st, line, named, eol>>

\* The next header of a connection that is kept: reset().
Again == /\ verdict = "ok" /\ follows = "header"
         /\ st' = "start" /\ line' = "first" /\ named' = FALSE
         /\ eol' = 0 /\ verdict' = "more" /\ UNCHANGED follows

ParserNext == \/ ReadContent \/ ReadChunk \/ ReadTrailer \/ Again
              \/ \E b \in Bytes : ReadByte(b)

ParserSpec == ParserInit /\ [][ParserNext]_parserVars

----------------------------------------------------------------------------

\* The states of the automaton are the parser's, each in its own function.
ParserTypeOK ==
  /\ st \in States /\ line \in {"first", "header"} /\ named \in BOOLEAN
  /\ eol \in 0..4 /\ verdict \in {"more", "ok", "refused", "assert"}
  /\ follows \in {"header", "content", "chunks", "trailer"}
  /\ named => line = "header"
  /\ line = "first" => st \notin {"header_lws", "header_name", "done",
        "space_before_header_value", "header_value", "header_almost_done"}

\* read_header's assert(false) says that the parser has made up its mind when
\* CR LF CR LF is there.  It has, and it takes a header to end there and
\* nowhere else (http.cpp, read_header), but for a first line whose first word
\* is none that parse_first_line knows: it waits in check for the rest of it.
\* A body is read after a header that the parser has ended, and no other.
HeaderIsDecided ==
  /\ st = "done" => eol = 4 /\ verdict # "more"
  /\ verdict = "ok" \/ follows # "header" => st = "done"
  /\ verdict = "assert" => st = "check" \/ follows = "trailer"
=============================================================================
