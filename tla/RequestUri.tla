------------------------------- MODULE RequestUri -------------------------------
(***************************************************************************)
(* What the URI of a request says: whether a device answers or a client    *)
(* asks, and the device's name, which is decoded where it stands           *)
(* (connection::handle_uri, get_uri_info in core/connection.cpp,           *)
(* http_decode_uri in core/http.cpp).  What follows from the role and the  *)
(* name is the business of ConnMatch.                                      *)
(*                                                                         *)
(* A URI is a sequence of tokens: the strings that are looked for, and the *)
(* bytes of a name: "%" and two hexadecimal digits.                        *)
(***************************************************************************)
EXTENDS Naturals, Sequences, FiniteSets, FiniteSetsExt, SequencesExt

CONSTANTS IdLen,     \* bound: tokens of a name
          IdMax      \* DEV_ID_MAX_LEN

ASSUME UriAssumption == IdLen \in Nat /\ IdMax \in Nat

VARIABLE id        \* the name while it is decoded

\* "/proxy/response?Ver=1&Cmd=2&DeviceID=", which holds "DeviceID=" too
Response == "response?DeviceID="
DeviceID == "DeviceID="
ConnectID == "&ConnectID="
NameBytes == {"%", "2", "5"}
Hex == {"2", "5"}

Uris == {<<name>> \o chars \o rest :
           name \in {Response, DeviceID, "callback="},
           chars \in UNION {[1..n -> NameBytes] : n \in 0..IdLen},
           rest \in {<<>>, <<"&">>, <<ConnectID>>}}

\* A name in mem, the bytes behind it included: its first len bytes are the
\* name, the turn of the loop is for byte i.
NoId == [role |-> "none", name |-> <<>>, mem |-> <<>>, len |-> 0, i |-> 1, state |-> "read"]

UriInit == id = NoId

-----------------------------------------------------------------------------

\* The first place of one of the tokens in the URI at or after i, or 0.
FirstOf(uri, tokens, i) ==
  LET at == {k \in i..Len(uri) : uri[k] \in tokens}
  IN IF at = {} THEN 0 ELSE Min(at)

OrEnd(uri, k) == IF k = 0 THEN Len(uri) + 1 ELSE k

\* get_uri_info: a POST to the path of an answer is a device's, whose name
\* ends at ConnectID or not at all; all else is a client's.
UriInfo(uri, post) ==
  LET answer == FirstOf(uri, {Response}, 1)
      asked  == FirstOf(uri, {Response, DeviceID}, 1)
  IN IF post /\ answer # 0
     THEN [role |-> "server", beg |-> answer + 1, end |-> FirstOf(uri, {ConnectID}, answer + 1)]
     ELSE [role |-> "client", beg |-> asked + 1,
           end |-> IF asked = 0 THEN 0
                   ELSE OrEnd(uri, FirstOf(uri, {"&", ConnectID}, asked + 1))]

\* handle_uri: the name of a client is copied to memory that nobody has set,
\* that of a device stays in the request, where the URI goes on behind it.
HandleUri(uri, post) ==
  /\ id.state = "read"
  /\ LET u == UriInfo(uri, post)
         name == SubSeq(uri, u.beg, u.end - 1)
         behind == IF u.role = "client" THEN [1..2 -> {"2", "g"}]
                   ELSE {SubSeq(uri, u.end, Len(uri)) \o <<" ", "g">>}
     IN IF u.end = 0 \/ name = <<>> \/ Len(name) > IdMax
        THEN id' = [id EXCEPT !.state = "refused"]
        ELSE \E rest \in behind :
               id' = [id EXCEPT !.role = u.role, !.name = name, !.mem = name \o rest,
                                !.len = Len(name), !.state = "decode"]

\* The byte that two digits stand for.
ByteOf(a, b) == IF <<a, b>> = <<"2", "5">> THEN "%" ELSE "byte"

Escape(m, i) == m[i] = "%" /\ m[i + 1] \in Hex /\ m[i + 2] \in Hex

\* memmove: n bytes come up by two; what is behind them stays.
MovedUp(m, i, n) == [k \in DOMAIN m |-> IF k > i /\ k <= i + n THEN m[k + 2] ELSE m[k]]

\* The digits are taken out.
Unescaped(d) == [d EXCEPT !.mem = [MovedUp(@, d.i, d.len - d.i - 2)
                                     EXCEPT ![d.i] = ByteOf(d.mem[d.i + 1], d.mem[d.i + 2])],
                          !.len = @ - 2]

\* Slip: the byte is looked at again.
DecodeAgain(d) == Unescaped(d)

\* The byte is passed.
Decode(d) == [Unescaped(d) EXCEPT !.i = @ + 1]

\* A turn of http_decode_uri, which looks at two bytes after the one it is at.
\* With less than that in the name the length to move is below 0.
DecodeByte ==
  /\ id.state = "decode" /\ id.i <= id.len
  /\ id' = IF ~Escape(id.mem, id.i)   THEN [id EXCEPT !.i = @ + 1]
           ELSE IF id.len < id.i + 2  THEN [id EXCEPT !.state = "overrun"]
           ELSE Decode(id)

Decoded ==
  /\ id.state = "decode" /\ id.i > id.len
  /\ id' = [id EXCEPT !.state = "done"]

UriNext == (\E uri \in Uris, post \in BOOLEAN : HandleUri(uri, post))
        \/ DecodeByte \/ Decoded

UriSpec == UriInit /\ [][UriNext]_id

-----------------------------------------------------------------------------
(* Properties *)

UriTypeOK ==
  /\ id.role \in {"none", "client", "server"}
  /\ id.len \in 0..IdMax /\ id.i \in 1..(IdMax + 1) /\ id.len <= Len(id.mem)
  /\ id.state \in {"read", "refused", "decode", "done", "overrun"}

\* What a name means from each of its bytes on: escapes that are whole, from
\* left to right.
MeaningFrom(s) ==
  LET from[i \in 1..(Len(s) + 1)] ==
        IF i > Len(s) THEN <<>>
        ELSE IF i + 2 <= Len(s) /\ Escape(s, i)
             THEN <<ByteOf(s[i + 1], s[i + 2])>> \o from[i + 3]
        ELSE <<s[i]>> \o from[i + 1]
  IN from

Meaning(s) == MeaningFrom(s)[1]

Unfinished(s) == \E k \in {Len(s) - 1, Len(s)} :
                   k > 0 /\ s[k] = "%" /\ \A j \in (k + 1)..Len(s) : s[j] \in Hex

\* http_decode_uri in place: the name becomes what it means, whatever is
\* behind it and however many escapes have been taken out before; what it
\* finds behind the name can mislead it only at an unfinished escape, and not
\* for a device, whose name is followed by ConnectID.
IdIsDecoded ==
  /\ id.state = "done" => SubSeq(id.mem, 1, id.len) = Meaning(id.name)
  /\ id.state = "overrun" => Unfinished(id.name) /\ id.role = "client"
=============================================================================
