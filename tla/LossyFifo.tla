----------------------------- MODULE LossyFifo -----------------------------
(***************************************************************************)
(* What the workers may rely on when they give the connector a request for *)
(* the STUN server: requests leave in the order they were given, each at   *)
(* most once; any of them may be lost.                                     *)
(***************************************************************************)
EXTENDS Naturals, Sequences

CONSTANT Reqs          \* requests, each given once

VARIABLES given,       \* the requests given so far
          queue,       \* those on their way
          delivered    \* those the server got

vars == <<given, queue, delivered>>

Init == given = {} /\ queue = <<>> /\ delivered = <<>>

\* A request is given; it is lost at once when the channel is closed.
Give(r) == /\ r \notin given
           /\ given' = given \cup {r}
           /\ queue' \in {queue, Append(queue, r)}
           /\ UNCHANGED delivered

\* A prefix of the queue leaves: a run of it is delivered, what comes before
\* and after the run is lost.
Leave == \E n \in 1 .. Len(queue) :
  /\ queue' = SubSeq(queue, n + 1, Len(queue))
  /\ \E i \in 1 .. n + 1, j \in 0 .. n :
       delivered' = delivered \o SubSeq(queue, i, j)
  /\ UNCHANGED given

Next == (\E r \in Reqs : Give(r)) \/ Leave

Spec == Init /\ [][Next]_vars
=============================================================================
