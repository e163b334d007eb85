--------------------------------- MODULE Wheel ---------------------------------
(***************************************************************************)
(* The timing wheel of a worker: a full ring of N = timeout_idle_ buckets  *)
(* (base/circle_buffer.h), one of which is given up every second.  A       *)
(* connection sits in the bucket of the second in which it last read or    *)
(* sent (connection::update); a bucket that is given up closes what is     *)
(* still in it (conn_bucket::clear), except a client whose device is still *)
(* connected: its device drops it.                                         *)
(***************************************************************************)
EXTENDS Naturals, Sequences, FiniteSets, SequencesExt, FiniteSetsExt

CONSTANTS Socks,    \* connections
          N         \* g_conf.timeout_idle_, in seconds

VARIABLES ring,     \* data_: the bucket in each slot of cb_
          front,    \* front_
          back,     \* back_
          tail,     \* cb_tail_ of each connection
          kind,     \* "gone", "client" or "server"
          peer,     \* other_
          idle,     \* seconds since the last read or send, at most N
          spared,   \* clients left open when their bucket was given up
          stray     \* clear() has gone on from an erased connection

wheelVars == <<ring, front, back, tail, kind, peer, idle, spared, stray>>

Slots == 0..(N - 1)
Nobody == "nobody"

\* circle_buffer has no front() nor back() without a slot.
ASSUME WheelAssumption == IsFiniteSet(Socks) /\ Nobody \notin Socks /\ N \in Nat \ {0}

Live == {c \in Socks : kind[c] # "gone"}

WheelInit == /\ ring = [i \in Slots |-> {}]
             /\ front = 0 /\ back = N - 1
             /\ tail = [c \in Socks |-> 0]
             /\ kind = [c \in Socks |-> "gone"]
             /\ peer = [c \in Socks |-> Nobody]
             /\ idle = [c \in Socks |-> 0]
             /\ spared = {} /\ stray = FALSE

-----------------------------------------------------------------------------

\* update(): only a connection of an older second is moved.  One whose slot
\* has been given up, and is now the last, counts as being there.
Moved(C) == {c \in C : tail[c] # back}

Update(C) ==
  /\ ring' = [i \in Slots |-> IF i = back THEN ring[i] \cup Moved(C)
                                          ELSE ring[i] \ Moved(C)]
  /\ tail' = [c \in Socks |-> IF c \in C THEN back ELSE tail[c]]
  /\ idle' = [c \in Socks |-> IF c \in C THEN 0 ELSE idle[c]]
  /\ spared' = spared \ Moved(C)
  /\ UNCHANGED <<front, back, stray>>

\* What is deleted, or handed to another worker, leaves its bucket.
Leave(C) ==
  /\ ring' = [i \in Slots |-> ring[i] \ C]
  /\ kind' = [c \in Socks |-> IF c \in C THEN "gone" ELSE kind[c]]
  /\ peer' = [c \in Socks |-> IF c \in C \/ peer[c] \in C THEN Nobody ELSE peer[c]]
  /\ spared' = spared \ C

Attach(c) ==
  /\ kind[c] = "gone"
  /\ kind' = [kind EXCEPT ![c] = "client"]
  /\ tail' = [tail EXCEPT ![c] = back]
  /\ ring' = [ring EXCEPT ![back] = @ \cup {c}]
  /\ idle' = [idle EXCEPT ![c] = 0]
  /\ UNCHANGED <<front, back, peer, spared, stray>>

\* An event that concerns one end only: a read that finds nothing, or its
\* own queue going out.
Active(c) == c \in Live /\ Update({c}) /\ UNCHANGED <<kind, peer>>

\* What one end reads the other sends.
Relays(c) ==
  /\ c \in Live /\ peer[c] # Nobody
  /\ Update({c, peer[c]})
  /\ UNCHANGED <<kind, peer>>

\* A connection answers as the device a waiting client has asked for.  The
\* client itself neither reads nor sends.
Answers(s, c) ==
  /\ s # c /\ {s, c} \subseteq Live
  /\ peer[s] = Nobody /\ peer[c] = Nobody
  /\ kind[s] = "client" /\ kind[c] = "client"
  /\ kind' = [kind EXCEPT ![s] = "server"]
  /\ peer' = [peer EXCEPT ![s] = c, ![c] = s]
  /\ Update({s})

\* close(): the socket failed, or there is nothing to wait for.  The other
\* end goes with it.
CloseBoth(c) ==
  /\ c \in Live
  /\ Leave({c} \cup ({peer[c]} \ {Nobody}))
  /\ UNCHANGED <<front, back, tail, idle, stray>>

\* The other end is left to send what it has: that is a send.
CloseOne(c) ==
  /\ c \in Live /\ peer[c] # Nobody
  /\ LET o == peer[c]
         moved == Moved({o})
     IN /\ ring' = [i \in Slots |-> (IF i = back THEN ring[i] \cup moved
                                                 ELSE ring[i] \ moved) \ {c}]
        /\ tail' = [tail EXCEPT ![o] = back]
        /\ idle' = [idle EXCEPT ![o] = 0]
        /\ spared' = spared \ (moved \cup {c})
        /\ kind' = [kind EXCEPT ![c] = "gone"]
        /\ peer' = [peer EXCEPT ![c] = Nobody, ![o] = Nobody]
        /\ UNCHANGED <<front, back, stray>>

-----------------------------------------------------------------------------

\* The walk of clear() over a bucket that iterates as `order`: `at` is where
\* the iterator stands, `out` what has been closed, `lost` that it stood on
\* an erased connection.
FirstFrom(order, i, out) ==
  LET rest == {j \in i..Len(order) : order[j] \notin out}
  IN IF rest = {} THEN Len(order) + 1 ELSE Min(rest)

\* Slips: a device is closed and its client forgotten; a client takes its
\* device with it; the iterator moves past the device only.
ClosesOne(c) == IF kind[c] = "server" \/ peer[c] = Nobody THEN {c} ELSE {}
ClosesPair(c) == {c} \cup ({peer[c]} \ {Nobody})
StepOverOne(w, order, out) ==
  [at |-> FirstFrom(order, w.at + 1, w.out \cup {order[w.at]}), out |-> out, lost |-> w.lost]

\* close(IDLE_TIMEOUT) of a connection, and of the client it served.
Closes(c) == IF peer[c] = Nobody THEN {c}
             ELSE IF kind[c] = "server" THEN {c, peer[c]} ELSE {}

\* The iterator steps over a client that is closed under it.
StepOver(w, order, out) ==
  [at |-> FirstFrom(order, w.at + 1, out), out |-> out, lost |-> w.lost]

ClearStep(w, order) ==
  IF w.at > Len(order) THEN w
  ELSE LET c == order[w.at]
       IN IF c \in w.out THEN [w EXCEPT !.at = Len(order) + 1, !.lost = TRUE]
          ELSE StepOver(w, order, w.out \cup Closes(c))

\* One turn of the loop for each connection is enough.
Walk(order) ==
  LET walk[k \in 0..Len(order)] ==
        IF k = 0 THEN [at |-> 1, out |-> {}, lost |-> FALSE] ELSE ClearStep(walk[k - 1], order)
  IN walk

Cleared(order) == Walk(order)[Len(order)]

\* handle_timeout: push_back(conn_bucket()) gives up the bucket in front.
\* Connections deleted here leave whichever bucket they are in.
Tick ==
  /\ \E w \in {Cleared(order) : order \in SetToSeqs(ring[front])} :
       /\ ring' = [i \in Slots |-> IF i = front THEN {} ELSE ring[i] \ w.out]
       /\ kind' = [c \in Socks |-> IF c \in w.out THEN "gone" ELSE kind[c]]
       /\ peer' = [c \in Socks |-> IF c \in w.out \/ peer[c] \in w.out
                                   THEN Nobody ELSE peer[c]]
       /\ spared' = (spared \ w.out) \cup {c \in ring[front] : peer'[c] # Nobody}
       /\ stray' = w.lost
  /\ idle' = [c \in Socks |-> IF kind[c] # "gone" /\ idle[c] < N
                              THEN idle[c] + 1 ELSE idle[c]]
  /\ back' = front
  /\ front' = IF front + 1 < N THEN front + 1 ELSE 0
  /\ UNCHANGED tail

WheelNext == \/ \E c \in Socks : Attach(c) \/ Active(c) \/ Relays(c) \/ CloseBoth(c) \/ CloseOne(c)
             \/ \E s, c \in Socks : Answers(s, c)
             \/ Tick

WheelSpec == WheelInit /\ [][WheelNext]_wheelVars

-----------------------------------------------------------------------------
(* Properties *)

WheelTypeOK ==
  /\ ring \in [Slots -> SUBSET Socks]
  /\ front \in Slots /\ back \in Slots
  /\ tail \in [Socks -> Slots]
  /\ kind \in [Socks -> {"gone", "client", "server"}]
  /\ peer \in [Socks -> Socks \cup {Nobody}]
  /\ idle \in [Socks -> 0..N]
  /\ spared \subseteq Live /\ stray \in BOOLEAN

\* worker.cpp:31, conn_bucket::clear: what has neither read nor sent for N
\* seconds is closed, with one exception: a client that was left to its
\* device, when its bucket was given up.
IdleEnds == \A c \in Live : idle[c] = N => c \in spared

\* circle_buffer::push_back overwrites the slot in front: what a tick closes
\* has been idle for the whole ring, or its device has.
DroppedWasIdle ==
  [][\A c \in Live \ Live' : back' # back =>
       \/ idle'[c] = N
       \/ kind[c] = "client" /\ peer[c] # Nobody /\ idle'[peer[c]] = N]_wheelVars

\* conn_bucket::clear: closing a device closes its client in the same
\* bucket; the walk never stands on a connection that is gone.
ClearKeepsItsPlace == ~stray

=============================================================================
