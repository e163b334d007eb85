------------------------------ MODULE LogServer ------------------------------
(***************************************************************************)
(* The log: a thread of the proxy sends each message as a frame (length,   *)
(* body) through a FIFO of its own (log/log_send.cpp, ipc/fifo_tls.cpp);   *)
(* the log server learns the name of that FIFO from its acceptor FIFO,     *)
(* opens it for reading and writes what it gets to a file                  *)
(* (logsrv/fifo_srv.cpp, log/log_file.cpp).  Its event loop is a select()  *)
(* over a heap of events (logsrv/select_reactor.cpp).                      *)
(*                                                                         *)
(* A thread blocks in open() until the server has opened the same FIFO,    *)
(* and in write() while the FIFO is full.  The server, and the process of  *)
(* the threads, may stop, crash and come back.                             *)
(***************************************************************************)
EXTENDS Naturals, Sequences, FiniteSets, FiniteSetsExt, SequencesExt

CONSTANTS Threads,   \* threads that log
          Msgs,      \* bound: calls of log_send by all threads
          Cap,       \* what a FIFO holds, in heads and bodies
          RbSize,    \* rbsize of the log file, in records
          Restarts   \* bound: lives of the server

ASSUME LogAssumption ==
  /\ IsFiniteSet(Threads) /\ {"acc", "sig", "server"} \cap Threads = {}
  /\ {Msgs, Cap, RbSize, Restarts} \subseteq Nat
  /\ Cap > 0 /\ Restarts > 0

VARIABLES tls,     \* the thread-local fifo, and where in log_send a thread is
          calls,   \* calls of log_send that have returned
          kept,    \* messages a call has returned true for, in this life
          fifo,    \* what each thread's FIFO holds
          up,      \* the server runs; it has been started `lives` times
          lives,
          acc,     \* the acceptor's FIFO
          wedged,  \* the acceptor is stuck in its body state
          client,  \* the fifo_client of each thread
          heap,    \* ev_heap_
          rset,    \* rset_
          pass,    \* where run() is in its loop over the heap
          logfd,   \* lf->fd # -1
          size,    \* records in the log file
          logged,  \* all records ever written
          fault    \* what must not happen in a handler

threadVars == <<tls, calls, kept, fifo>>
reactor == <<heap, rset, pass>>
file == <<logfd, size, logged>>
vars == <<threadVars, up, lives, acc, wedged, client, reactor, file, fault>>

\* Descriptors of the server: its log file, the signal pipe, the acceptor,
\* and then the lowest free one for each client.
LogFd == 1
SigFd == 2
AccFd == 3
Fds == 1..(3 + Cardinality(Threads))
NoClient == [fd |-> 0, body |-> FALSE, met |-> FALSE]
HasClient(t) == client[t].fd # 0

\* What waits in open(), is open, or is in the middle of a frame.
Writes(t) == tls[t] \in {"opening", "calling", "open", "half"}

\* An event of the heap: its descriptor and whose handler it calls.
Ev(f, who) == [fd |-> f, who |-> who]
Base == <<Ev(AccFd, "acc"), Ev(SigFd, "sig")>>
NoPass == [at |-> 0, num |-> 0, ready |-> {}]

Idle == /\ client = [t \in Threads |-> NoClient]
        /\ heap = [mem |-> Base, size |-> 2]
        /\ rset = {SigFd, AccFd}
        /\ pass = NoPass

Init == /\ tls = [t \in Threads |-> "none"]
        /\ calls = [t \in Threads |-> 0]
        /\ kept = {}
        /\ fifo = [t \in Threads |-> <<>>]
        /\ up = TRUE /\ lives = 1
        /\ acc = <<>> /\ wedged = FALSE
        /\ Idle
        /\ logfd = TRUE /\ size = 0 /\ logged = <<>>
        /\ fault = "none"

-----------------------------------------------------------------------------
(***************************************************************************)
(* The threads.                                                            *)
(***************************************************************************)

Returned(t) == calls' = [calls EXCEPT ![t] = @ + 1]
MayCall == Cardinality({c \in Threads \X (1..Msgs) : c[2] <= calls[c[1]]}) < Msgs
Becomes(t, s) == tls' = [tls EXCEPT ![t] = s]

\* fifo_make: a new FIFO is empty; one left by this name is gone.
MakeFifo(t) == fifo' = [fifo EXCEPT ![t] = <<>>]

\* tls_fifo_destroy: what the FIFO held is lost with it.
DestroyFifo(t) == fifo' = [fifo EXCEPT ![t] = <<>>] /\ Becomes(t, "none")

\* tls_fifo_create: a FIFO is made and its name goes to the server, or the
\* call fails, always so while there is no server.
Ask(t) ==
  /\ tls[t] = "none" /\ MayCall
  /\ \/ /\ up
        /\ Becomes(t, "asking")
        /\ MakeFifo(t)
        /\ acc' = Append(acc, t)
        /\ UNCHANGED calls
     \/ Returned(t) /\ UNCHANGED <<tls, fifo, acc>>
  /\ UNCHANGED <<kept, up, lives, wedged, client, reactor, file, fault>>

\* ... and is opened, which waits until the server has opened it too.
OpenFifo(t) ==
  /\ tls[t] = "asking"
  /\ IF HasClient(t)
       THEN Becomes(t, "calling") /\ client' = [client EXCEPT ![t].met = TRUE]
       ELSE Becomes(t, "opening") /\ UNCHANGED client
  /\ UNCHANGED <<calls, kept, fifo, up, lives, acc, wedged, reactor, file,
                 fault>>

\* tls_fifo_writevn: the frame is written at once, or its head before there is
\* room for the rest; without a reader the FIFO is given up, and the message.
Write(t) ==
  /\ \/ tls[t] = "calling"
     \/ tls[t] = "open" /\ MayCall
  /\ LET n == calls[t] + 1
         put(items, s) == /\ Len(fifo[t]) + Len(items) <= Cap
                          /\ fifo' = [fifo EXCEPT ![t] = @ \o items]
                          /\ Becomes(t, s)
     IN  \/ /\ HasClient(t)
            /\ put(<<<<"head", n>>, <<"body", n>>>>, "open")
            /\ kept' = kept \cup {<<t, n>>}
            /\ Returned(t)
         \/ /\ HasClient(t)
            /\ put(<<<<"head", n>>>>, "half")
            /\ UNCHANGED <<kept, calls>>
         \/ /\ ~HasClient(t)
            /\ DestroyFifo(t) /\ Returned(t)
            /\ UNCHANGED kept
  /\ UNCHANGED <<up, lives, acc, wedged, client, reactor, file, fault>>

\* The rest of a frame, when there is room for it or no reader any more.
WriteRest(t) ==
  /\ tls[t] = "half"
  /\ LET n == calls[t] + 1
     IN  IF HasClient(t)
           THEN /\ Len(fifo[t]) < Cap
                /\ fifo' = [fifo EXCEPT ![t] = Append(@, <<"body", n>>)]
                /\ kept' = kept \cup {<<t, n>>}
                /\ Becomes(t, "open")
           ELSE DestroyFifo(t) /\ UNCHANGED kept
  /\ Returned(t)
  /\ UNCHANGED <<up, lives, acc, wedged, client, reactor, file, fault>>

\* The thread ends: delete_key closes the FIFO and removes its name.  The
\* bound on threads: no other thread has the same name.
Exit(t) ==
  /\ tls[t] \in {"none", "open"}
  /\ Becomes(t, "gone")
  /\ UNCHANGED <<calls, kept, fifo, up, lives, acc, wedged, client, reactor,
                 file, fault>>

\* The process of the threads is killed, in the middle of whatever they do.
Kill ==
  /\ \E t \in Threads : tls[t] # "gone"
  /\ tls' = [t \in Threads |-> "gone"]
  /\ UNCHANGED <<calls, kept, fifo, up, lives, acc, wedged, client, reactor,
                 file, fault>>

-----------------------------------------------------------------------------
(***************************************************************************)
(* ev_heap_: a vector whose memory keeps what was behind its end.  A server*)
(* is [client, heap, rset], as a handler finds and leaves it.              *)
(***************************************************************************)

Swap(m, i, j) == [m EXCEPT ![i] = m[j], ![j] = m[i]]

\* push_heap: an event goes up while it is larger than the one above.
Rise(h) ==
  IF h.at > 1 /\ h.mem[h.at \div 2].fd < h.mem[h.at].fd
    THEN [mem |-> Swap(h.mem, h.at, h.at \div 2), at |-> h.at \div 2] ELSE h

SiftUp(m, i) ==
  LET rises[k \in 0..(i \div 2)] == IF k = 0 THEN [mem |-> m, at |-> i] ELSE Rise(rises[k - 1])
  IN  rises[i \div 2].mem

LargerChild(m, n, i) ==
  IF 2 * i + 1 <= n /\ m[2 * i].fd < m[2 * i + 1].fd THEN 2 * i + 1 ELSE 2 * i

\* A step of make_heap: an event goes down among the first n.
Sink(h, n) ==
  LET c == LargerChild(h.mem, n, h.at)
  IN  IF c <= n /\ h.mem[h.at].fd < h.mem[c].fd
        THEN [mem |-> Swap(h.mem, h.at, c), at |-> c] ELSE h

SiftDown(m, n, i) ==
  LET down[k \in 0..(n \div 2)] == IF k = 0 THEN [mem |-> m, at |-> i] ELSE Sink(down[k - 1], n)
  IN  down[n \div 2].mem

MakeHeap(m, n) ==
  LET half == n \div 2
      heaps[k \in 0..half] == IF k = 0 THEN m ELSE SiftDown(heaps[k - 1], n, half + 1 - k)
  IN  heaps[half]

\* A slip of AddEvent: the event is not moved to its place.
AddEventLast(s, ev) ==
  LET n == s.heap.size + 1
      m == [i \in 1..Max({Len(s.heap.mem), n}) |->
              IF i = n THEN ev ELSE s.heap.mem[i]]
  IN  [s EXCEPT !.rset = @ \cup {ev.fd}, !.heap = [mem |-> m, size |-> n]]

\* add_event
AddEvent(s, ev) ==
  LET n == s.heap.size + 1
      m == [i \in 1..Max({Len(s.heap.mem), n}) |->
              IF i = n THEN ev ELSE s.heap.mem[i]]
  IN  [s EXCEPT !.rset = @ \cup {ev.fd},
                !.heap = [mem |-> SiftUp(m, n), size |-> n]]

\* A slip of DelEvent: select() goes on watching the descriptor.
DelEventKeepsBit(s, f) ==
  LET n == s.heap.size
      k == CHOOSE i \in 1..n : s.heap.mem[i].fd = f
      m == [i \in 1..Len(s.heap.mem) |->
              IF k <= i /\ i < n THEN s.heap.mem[i + 1] ELSE s.heap.mem[i]]
  IN  [s EXCEPT !.heap = [mem |-> MakeHeap(m, n - 1), size |-> n - 1]]

\* del_event: what follows moves up, and the last one stays behind the end.
DelEvent(s, f) ==
  LET n == s.heap.size
      k == CHOOSE i \in 1..n : s.heap.mem[i].fd = f
      m == [i \in 1..Len(s.heap.mem) |->
              IF k <= i /\ i < n THEN s.heap.mem[i + 1] ELSE s.heap.mem[i]]
  IN  [s EXCEPT !.rset = @ \ {f},
                !.heap = [mem |-> MakeHeap(m, n - 1), size |-> n - 1]]

-----------------------------------------------------------------------------
(***************************************************************************)
(* The handlers of the server.                                             *)
(***************************************************************************)

\* open() returns the lowest free descriptor.
FreeFd(s) ==
  Min(Fds \ ({SigFd, AccFd} \cup {s.client[t].fd : t \in Threads}
             \cup (IF logfd THEN {LogFd} ELSE {})))

\* new fifo_client: its FIFO is opened and watched.
NewClient(s, t) ==
  LET f == FreeFd(s)
  IN  AddEvent([s EXCEPT !.client[t] =
                  [fd |-> f, body |-> FALSE, met |-> tls[t] = "opening"]],
               Ev(f, t))

\* A client for each of `new`, one after the other.
NewClients(s, new) ==
  LET made[k \in 0..Len(new)] == IF k = 0 THEN s ELSE NewClient(made[k - 1], new[k])
  IN  made[Len(new)]

Server == [client |-> client, heap |-> heap, rset |-> rset]
Becomes2(s) == client' = s.client /\ heap' = s.heap /\ rset' = s.rset

\* A slip of Recorded: the file is opened again without O_TRUNC.
RecordedKeeping(f, r) ==
  IF f.fd THEN [f EXCEPT !.size = @ + 1, !.logged = Append(@, r)] ELSE f

\* log_write: a file over its size is reopened empty before the next record;
\* when that fails the log is closed for ever.
Recorded(f, r) ==
  LET roll == f.size > RbSize
      new  == IF roll THEN 0 ELSE f.size
  IN  IF ~f.fd \/ (roll /\ ~f.works) THEN [f EXCEPT !.fd = FALSE]
      ELSE [f EXCEPT !.size = new + 1, !.logged = Append(@, r)]

Recordeds(f, rs) ==
  LET written[k \in 0..Len(rs)] == IF k = 0 THEN f ELSE Recorded(written[k - 1], rs[k])
  IN  written[Len(rs)]

Records(rs) ==
  \E works \in BOOLEAN :
    LET f == Recordeds([fd |-> logfd, size |-> size, logged |-> logged, works |-> works], rs)
    IN  logfd' = f.fd /\ size' = f.size /\ logged' = f.logged

\* A slip of AcceptClients: one read, one name; what else came is dropped.
AcceptFirst ==
  /\ acc # <<>> /\ ~wedged
  /\ Becomes2(NewClient(Server, acc[1]))
  /\ tls' = [tls EXCEPT ![acc[1]] = IF @ = "opening" THEN "calling" ELSE @]
  /\ acc' = <<>>
  /\ UNCHANGED <<wedged, calls, kept, fifo, file, fault>>

\* fifo_acceptor: a client for each name that came.  When one cannot be made
\* the exception is logged and leaves the acceptor in its body state with
\* nothing more to read into; it never gets out of it.
AcceptClients ==
  /\ \E k \in 0..Len(acc) :
       /\ wedged => k = 0
       /\ LET new == SubSeq(acc, 1, k)
          IN  /\ Becomes2(NewClients(Server, new))
              /\ tls' = [t \in Threads |->
                           IF tls[t] = "opening" /\ t \in {new[i] : i \in 1..k}
                             THEN "calling" ELSE tls[t]]
              /\ acc' = IF wedged THEN acc
                        ELSE SubSeq(acc, IF k = Len(acc) THEN k + 1 ELSE k + 2,
                                    Len(acc))
              /\ wedged' = (wedged \/ k < Len(acc))
              /\ IF wedged \/ k = Len(acc) THEN UNCHANGED file
                                           ELSE Records(<<<<"server">>>>)
  /\ UNCHANGED <<calls, kept, fifo, fault>>

\* A slip of Bodies: a frame that was read is not taken from the buffer.
BodiesAgain(t) ==
  LET got == SelectSeq(fifo[t], LAMBDA x : x[1] = "body")
  IN  [i \in 1..Len(got) |-> <<t, got[1][2]>>]

\* The frames that async_read_msg completes with what the FIFO holds.
Bodies(t) ==
  LET got[k \in 0..Len(fifo[t])] ==
        IF k = 0 THEN <<>>
        ELSE IF fifo[t][k][1] = "body" THEN Append(got[k - 1], <<t, fifo[t][k][2]>>)
        ELSE got[k - 1]
  IN  got[Len(fifo[t])]

\* A slip of ReadClient: after a body it waits for another one.
ReadClientStays(t) ==
  /\ Records(Bodies(t))
  /\ fifo' = [fifo EXCEPT ![t] = <<>>]
  /\ IF Writes(t)
       THEN /\ client' = [client EXCEPT ![t].body = @ \/ fifo[t] # <<>>]
            /\ UNCHANGED <<heap, rset>>
       ELSE Becomes2(DelEvent([Server EXCEPT !.client[t] = NoClient],
                              client[t].fd))
  /\ UNCHANGED <<tls, calls, kept, acc, wedged, fault>>

\* A slip of ReadClient: the end is noticed between frames only.
ReadClientWhole(t) ==
  /\ Records(Bodies(t))
  /\ fifo' = [fifo EXCEPT ![t] = <<>>]
  /\ LET half == IF fifo[t] = <<>> THEN client[t].body
                 ELSE Last(fifo[t])[1] = "head"
     IN  IF Writes(t) \/ half
           THEN /\ client' = [client EXCEPT ![t].body = half]
                /\ UNCHANGED <<heap, rset>>
           ELSE Becomes2(DelEvent([Server EXCEPT !.client[t] = NoClient],
                                  client[t].fd))
  /\ UNCHANGED <<tls, calls, kept, acc, wedged, fault>>

\* async_read_msg of a client: all there is is read; when nobody has the FIFO
\* open for writing the client is deleted.
ReadClient(t) ==
  /\ Records(Bodies(t))
  /\ fifo' = [fifo EXCEPT ![t] = <<>>]
  /\ IF Writes(t)
       THEN /\ client' = [client EXCEPT ![t].body =
                            IF fifo[t] = <<>> THEN @
                            ELSE Last(fifo[t])[1] = "head"]
            /\ UNCHANGED <<heap, rset>>
       ELSE Becomes2(DelEvent([Server EXCEPT !.client[t] = NoClient],
                              client[t].fd))
  /\ UNCHANGED <<tls, calls, kept, acc, wedged, fault>>

-----------------------------------------------------------------------------
(***************************************************************************)
(* run(): select() and the walk over the heap it had then.                 *)
(***************************************************************************)

Readable ==
  (IF acc # <<>> THEN {AccFd} ELSE {})
    \cup {client[t].fd : t \in {u \in Threads :
            HasClient(u) /\ (fifo[u] # <<>> \/ (client[u].met /\ ~Writes(u)))}}

\* max_fd() is the top of the heap; a signal may have come.
Select ==
  /\ up /\ pass = NoPass
  /\ \E sig \in SUBSET {SigFd} :
       LET ready == ((Readable \cap rset) \cap 1..heap.mem[1].fd) \cup sig
       IN  /\ ready # {}
           /\ pass' = [at |-> 1, num |-> heap.size, ready |-> ready]
  /\ UNCHANGED <<threadVars, up, lives, acc, wedged, client, heap, rset, file,
                 fault>>

Turn == heap.mem[pass.at]
AtTurn(who) == up /\ pass # NoPass /\ Turn.fd \in pass.ready /\ Turn.who = who
NextTurn == pass' = IF pass.at = pass.num THEN NoPass
                    ELSE [pass EXCEPT !.at = @ + 1]

\* What the end of the server takes along.
Down == /\ up' = FALSE
        /\ acc' = <<>> /\ wedged' = FALSE
        /\ client' = [t \in Threads |-> NoClient]
        /\ heap' = [mem |-> Base, size |-> 2]
        /\ rset' = {SigFd, AccFd}
        /\ pass' = NoPass
        /\ fifo' = [t \in Threads |-> <<>>]
        /\ kept' = {}
        /\ UNCHANGED <<tls, calls, lives, fault>>

HandleNothing ==
  /\ up /\ pass # NoPass /\ Turn.fd \notin pass.ready
  /\ NextTurn
  /\ UNCHANGED <<threadVars, up, lives, acc, wedged, client, heap, rset, file,
                 fault>>

HandleAcceptor == /\ AtTurn("acc")
                  /\ AcceptClients
                  /\ NextTurn
                  /\ UNCHANGED <<up, lives>>

HandleClient(t) == /\ AtTurn(t) /\ HasClient(t)
                   /\ ReadClient(t)
                   /\ NextTurn
                   /\ UNCHANGED <<up, lives>>

\* The walk goes on to the size the heap had; behind its end is what was the
\* last event, whose client this pass may have deleted.
HandleDeleted == /\ up /\ pass # NoPass /\ Turn.fd \in pass.ready
                 /\ Turn.who \in Threads /\ ~HasClient(Turn.who)
                 /\ fault' = "DeletedClient"
                 /\ UNCHANGED <<threadVars, up, lives, acc, wedged, client,
                                reactor, file>>

\* handle_signal logs, and run() ends.
HandleSignal == /\ AtTurn("sig")
                /\ Records(<<<<"server">>>>)
                /\ Down

Crash == up /\ Down /\ UNCHANGED file

\* main() again: the log file is appended to.
Start == /\ ~up /\ lives < Restarts
         /\ up' = TRUE /\ lives' = lives + 1
         /\ logfd' = TRUE
         /\ UNCHANGED <<threadVars, acc, wedged, client, reactor, size, logged,
                        fault>>

Serve == \/ Select \/ HandleNothing \/ HandleAcceptor \/ HandleSignal
         \/ HandleDeleted \/ \E t \in Threads : HandleClient(t)

Next == /\ fault = "none"
        /\ \/ Serve \/ Crash \/ Start \/ Kill
           \/ \E t \in Threads : \/ Ask(t) \/ OpenFifo(t) \/ Write(t)
                                 \/ WriteRest(t) \/ Exit(t)

\* Something to read, or the rest of a pass.
Due == fault = "none" /\ up /\ (pass # NoPass \/ Readable \cap rset # {})

\* The server does what is due and the threads in a call go on; new calls,
\* ends, signals and crashes need not come.
Proceed(t) == OpenFifo(t) \/ (tls[t] = "calling" /\ Write(t)) \/ WriteRest(t)
Fairness == WF_vars(Due /\ Serve) /\ \A t \in Threads : WF_vars(Proceed(t))

Spec == Init /\ [][Next]_vars
FairSpec == Spec /\ Fairness

-----------------------------------------------------------------------------
\* The type invariant.
TypeOK ==
  /\ tls \in [Threads -> {"none", "asking", "opening", "calling", "open",
                          "half", "gone"}]
  /\ calls \in [Threads -> 0..Msgs]
  /\ kept \subseteq Threads \X (1..Msgs)
  /\ \A t \in Threads : Len(fifo[t]) <= Cap
  /\ up \in BOOLEAN /\ lives \in 1..Restarts
  /\ acc \in Seq(Threads) /\ wedged \in BOOLEAN
  /\ client \in [Threads -> [fd : 0..Cardinality(Fds), body : BOOLEAN,
                             met : BOOLEAN]]
  /\ heap.size <= Len(heap.mem)
  /\ rset \subseteq Fds
  /\ pass.num <= Len(heap.mem)
  /\ logfd \in BOOLEAN /\ size \in 0..RbSize + 1
  /\ fault \in {"none", "DeletedClient"}

\* The reactor watches exactly what is open: every client once, by a heap
\* whose top is the largest descriptor, which is all select() looks up to
\* (add_event, del_event, max_fd).
WatchesAll ==
  LET live == 1..heap.size
      evs  == {heap.mem[i] : i \in live}
  IN  up => /\ evs = {Ev(AccFd, "acc"), Ev(SigFd, "sig")}
                       \cup {Ev(client[t].fd, t) :
                               t \in {u \in Threads : HasClient(u)}}
            /\ heap.size = Cardinality({e.fd : e \in evs})
            /\ rset = {e.fd : e \in evs}
            /\ \A i \in live : heap.mem[i].fd <= heap.mem[1].fd

\* A message whose call returned true is in the FIFO or in the log as long as
\* the server that took it lives and can write its file (tls_fifo_writevn,
\* async_read_msg, on_error).
KeptIsNotLost ==
  logfd => \A m \in kept : \/ <<"body", m[2]>> \in ToSet(fifo[m[1]])
                           \/ m \in ToSet(logged)

\* The messages of a thread are logged in its order and once, across frames in
\* parts, new FIFOs and new servers.
InOrder ==
  \A i, j \in 1..Len(logged) :
    i < j /\ logged[i] # <<"server">> /\ logged[i][1] = logged[j][1] =>
      logged[i][2] < logged[j][2]

\* The reader is where the writer is: it waits for a body exactly when the next
\* thing in the FIFO is one (to_head, to_body).
InFrame ==
  \A t \in Threads :
    HasClient(t) =>
      IF fifo[t] # <<>> THEN client[t].body <=> Head(fifo[t])[1] = "body"
      ELSE IF tls[t] = "half" THEN client[t].body
      ELSE tls[t] # "gone" => ~client[t].body

\* No event is given to a client that is gone (assert(fio_) of async_read_msg).
NoDeadHandler == fault = "none"

InCall(t) == tls[t] \in {"asking", "opening", "calling", "half"}

\* A new client whose descriptor is one that this pass has closed and still
\* holds for readable.
TakenForOld(t) == /\ HasClient(t) /\ ~client[t].met
                  /\ client[t].fd \in pass.ready

\* A call of log_send whose name has reached the server returns, unless the
\* server goes away, its acceptor is stuck, or the walk takes the new client
\* for an old one: it then finds a FIFO without a writer and deletes the client
\* (run, async_read_msg, on_error).  The thread stays in open() for ever in the
\* last two cases, and in the first even when a new server has come.
CallsReturn ==
  \A t \in Threads :
    InCall(t) /\ up /\ (HasClient(t) \/ t \in ToSet(acc)) ~>
      ~InCall(t) \/ ~up \/ wedged \/ TakenForOld(t) \/ fault # "none"

\* A client whose writer has closed is deleted and its descriptor is free again,
\* whatever else the pass does to the heap.
ClientsEnd ==
  \A t \in Threads :
    HasClient(t) /\ client[t].met /\ ~Writes(t) ~>
      ~HasClient(t) \/ fault # "none"
=============================================================================
