------------------------------- MODULE WorkerPipe -------------------------------
(***************************************************************************)
(* The pipes of the threads: the main thread hands accepted sockets to     *)
(* workers and tells them to exit, a worker hands connections to another   *)
(* worker, and workers give their requests to the connector, which the     *)
(* main thread reads (core/worker.cpp, core/connector.cpp, the stop of     *)
(* core/server.cpp).  Reading is edge triggered and does not block,        *)
(* writing does.  A message is no longer than PIPE_BUF: it is written as   *)
(* a whole, but read as a type and a body.                                 *)
(*                                                                         *)
(* What a message does is the business of ConnMatch and Connector.         *)
(***************************************************************************)
EXTENDS Naturals, Sequences, FiniteSets

CONSTANTS Crew,      \* workers
          Cap,       \* what the pipe of a worker holds, in types and bodies: 2 at least
          AskCap,    \* what the pipe of the connector holds, in requests: 1 at least
          Sends      \* bound: messages and requests that are sent

ASSUME PipeAssumption == {Cap, AskCap, Sends} \subseteq Nat /\ Cap >= 2 /\ AskCap >= 1

VARIABLES pipe,    \* fd_ of each worker
          edge,    \* ev_notify_ is to be dispatched
          at,      \* where a worker is
          rd,      \* s_, pipe_tran_, pipe_size_ and the break of the loop
          asks,    \* requests in the pipe of the connector, which may be closed
          waits,   \* what a thread is blocked in
          main,    \* where the main thread is
          sent,    \* counts up to Sends
          wrong    \* what must not happen

pipeVars == <<pipe, edge, at, rd, asks, waits, main, sent, wrong>>

Main == "main"
Connector == "connector"
Threads == Crew \cup {Main}
None == [on |-> "none", for |-> "nothing"]
Wait(what, w) == [on |-> what, for |-> w]
Waiting(t) == waits[t] # None

PipeInit == /\ pipe = [w \in Crew |-> <<>>]
            /\ edge = [w \in Crew |-> FALSE]
            /\ at = [w \in Crew |-> "events"]
            /\ rd = [w \in Crew |-> [s |-> "prepare", tran |-> 0, size |-> 1, broken |-> FALSE]]
            /\ asks = [num |-> 0, open |-> TRUE]
            /\ waits = [t \in Threads |-> None]
            /\ main = "loop" /\ sent = 0 /\ wrong = "nothing"

-----------------------------------------------------------------------------
(* Writing *)

Units(what) == IF what = "exit" THEN <<"exit">> ELSE <<what, "body">>
Room(w, what) == Len(pipe[w]) + Len(Units(what)) <= Cap
Put(w, what) == /\ pipe' = [pipe EXCEPT ![w] = @ \o Units(what)]
                /\ edge' = [edge EXCEPT ![w] = TRUE]

\* Once it is written, notify_exit is followed by pthread_join.
AfterWrite(what, w) == IF what = "exit" THEN Wait("join", w) ELSE None

\* send_iovec, notify_exit: the thread goes on when all is written.
Write(t, what, w) ==
  /\ \/ at[w] # "deleted" /\ Room(w, what)
        /\ Put(w, what)
        /\ waits' = [waits EXCEPT ![t] = AfterWrite(what, w)]
        /\ UNCHANGED wrong
     \/ at[w] # "deleted" /\ ~Room(w, what)
        /\ waits' = [waits EXCEPT ![t] = Wait(what, w)]
        /\ UNCHANGED <<pipe, edge, wrong>>
     \/ at[w] = "deleted" /\ wrong' = "worker deleted"
        /\ UNCHANGED <<pipe, edge, waits>>
  /\ UNCHANGED <<at, rd, asks>>

\* There is room, or the pipe has been closed and the write fails.
WriteEnds(t) ==
  /\ waits[t].on \in {"add", "match", "exit"}
  /\ LET w == waits[t].for
     IN IF at[w] = "deleted"
        THEN waits' = [waits EXCEPT ![t] = None] /\ UNCHANGED <<pipe, edge>>
        ELSE /\ Room(w, waits[t].on)
             /\ Put(w, waits[t].on)
             /\ waits' = [waits EXCEPT ![t] = AfterWrite(waits[t].on, w)]
  /\ UNCHANGED <<at, rd, asks, main, sent, wrong>>

MaySend == sent < Sends /\ sent' = sent + 1
Handles(w) == at[w] = "events" /\ ~Waiting(w)
MainHandles == main = "loop" /\ ~Waiting(Main)

\* acceptor::dispatch
Dispatch(w) ==
  MainHandles /\ MaySend /\ Write(Main, "add", w) /\ UNCHANGED main

\* match_client finds the client in another worker.
HandOver(v, w) ==
  v # w /\ Handles(v) /\ MaySend /\ Write(v, "match", w) /\ UNCHANGED main

\* connector::async_send of a worker: a closed pipe refuses at once.
Ask(w) ==
  /\ Handles(w) /\ MaySend
  /\ IF asks.open /\ asks.num = AskCap
     THEN waits' = [waits EXCEPT ![w] = Wait("ask", Connector)] /\ UNCHANGED asks
     ELSE asks' = [asks EXCEPT !.num = IF asks.open THEN @ + 1 ELSE @] /\ UNCHANGED waits
  /\ UNCHANGED <<pipe, edge, at, rd, main, wrong>>

AskEnds(w) ==
  /\ waits[w].on = "ask" /\ (asks.num < AskCap \/ ~asks.open)
  /\ asks' = [asks EXCEPT !.num = IF asks.open THEN @ + 1 ELSE @]
  /\ waits' = [waits EXCEPT ![w] = None]
  /\ UNCHANGED <<pipe, edge, at, rd, main, sent, wrong>>

-----------------------------------------------------------------------------
(* Reading *)

\* handle_notify is called: its edge is gone.
Notify(w) ==
  /\ Handles(w) /\ edge[w]
  /\ at' = [at EXCEPT ![w] = "notify"]
  /\ edge' = [edge EXCEPT ![w] = FALSE]
  /\ UNCHANGED <<pipe, rd, asks, waits, main, sent, wrong>>

\* Slips: after a body the next thing is not taken for a type; an exit makes
\* ready for the next message.
StateMachineStays(r, unit) ==
  CASE unit = "add"   -> [r EXCEPT !.s = "add_conn", !.tran = 0]
    [] unit = "match" -> [r EXCEPT !.s = "match_conn", !.tran = 0]
    [] unit = "exit"  -> [r EXCEPT !.tran = 1, !.broken = TRUE]
    [] OTHER          -> [r EXCEPT !.tran = 0]
ReadOnAfterExit(r, unit) ==
  CASE unit = "add"   -> [r EXCEPT !.s = "add_conn", !.tran = 0]
    [] unit = "match" -> [r EXCEPT !.s = "match_conn", !.tran = 0]
    [] unit = "exit"  -> [r EXCEPT !.tran = 0, !.broken = TRUE]
    [] OTHER          -> [r EXCEPT !.s = "prepare", !.tran = 0]

\* state_machine: an exit breaks the loop and leaves pipe_tran_ as it is, at
\* pipe_size_.
StateMachine(r, unit) ==
  CASE unit = "add"   -> [r EXCEPT !.s = "add_conn", !.tran = 0]
    [] unit = "match" -> [r EXCEPT !.s = "match_conn", !.tran = 0]
    [] unit = "exit"  -> [r EXCEPT !.tran = 1, !.broken = TRUE]
    [] OTHER          -> [r EXCEPT !.s = "prepare", !.tran = 0]

\* handle_notify up to the end of what is there.  A read of no bytes, which
\* comes after an exit, returns 0 and ends it as well.
ReadPipe(w) ==
  /\ at[w] = "notify"
  /\ IF pipe[w] = <<>> \/ rd[w].tran = rd[w].size
     THEN /\ at' = [at EXCEPT ![w] = IF rd[w].broken THEN "left" ELSE "events"]
          /\ UNCHANGED <<pipe, rd, wrong>>
     ELSE /\ rd' = [rd EXCEPT ![w] = StateMachine(@, Head(pipe[w]))]
          /\ pipe' = [pipe EXCEPT ![w] = Tail(@)]
          /\ wrong' = IF (rd[w].s = "prepare") = (Head(pipe[w]) = "body")
                      THEN "out of frame" ELSE wrong
          /\ UNCHANGED at
  /\ UNCHANGED <<edge, asks, waits, main, sent>>

\* connector::handle_notify takes a request; Connector has the rest of it.
TakeAsk ==
  /\ MainHandles /\ asks.num > 0
  /\ asks' = [asks EXCEPT !.num = @ - 1]
  /\ UNCHANGED <<pipe, edge, at, rd, waits, main, sent, wrong>>

-----------------------------------------------------------------------------
(* The end: server::run after its loop *)

BreakLoop == /\ MainHandles /\ main' = "connector"
             /\ UNCHANGED <<pipe, edge, at, rd, asks, waits, sent, wrong>>

\* Slip: the pipe stays open though nobody reads it any more.
StopConnectorLater == /\ main = "connector" /\ main' = "workers"
                      /\ UNCHANGED <<pipe, edge, at, rd, asks, waits, sent, wrong>>

StopConnector == /\ main = "connector" /\ main' = "workers"
                 /\ asks' = [num |-> 0, open |-> FALSE]
                 /\ UNCHANGED <<pipe, edge, at, rd, waits, sent, wrong>>

\* stop_workers: one after the other, ~worker and stop().
StopWorker(w) ==
  /\ main = "workers" /\ ~Waiting(Main) /\ at[w] # "deleted"
  /\ Write(Main, "exit", w)
  /\ UNCHANGED <<main, sent>>

Join ==
  /\ waits[Main].on = "join"
  /\ LET w == waits[Main].for
     IN /\ at[w] = "left"
        /\ at' = [at EXCEPT ![w] = "deleted"]
        /\ pipe' = [pipe EXCEPT ![w] = <<>>]
        /\ edge' = [edge EXCEPT ![w] = FALSE]
  /\ waits' = [waits EXCEPT ![Main] = None]
  /\ UNCHANGED <<rd, asks, main, sent, wrong>>

Stops == StopConnector \/ Join \/ \E w \in Crew : StopWorker(w)

PipeNext == /\ wrong = "nothing"
            /\ \/ BreakLoop \/ Stops \/ TakeAsk
               \/ \E t \in Threads : WriteEnds(t)
               \/ \E w \in Crew : \/ Dispatch(w) \/ Ask(w) \/ AskEnds(w)
                                  \/ Notify(w) \/ ReadPipe(w)
                                  \/ \E v \in Crew : HandOver(v, w)

\* What needs nobody outside to come.
Proceed ==
  \/ Stops \/ TakeAsk
  \/ \E t \in Threads : WriteEnds(t)
  \/ \E w \in Crew : AskEnds(w) \/ Notify(w) \/ ReadPipe(w)

\* A thread that is not blocked comes to its pipe and reads it to its end, the
\* main thread goes on stopping, and the kernel wakes who waits for room.
\* With the bound on Sends there is an end to what can proceed, so that none
\* is passed over for ever; nothing else need come.
PipeFairness == WF_pipeVars(wrong = "nothing" /\ Proceed)

PipeSpec == PipeInit /\ [][PipeNext]_pipeVars
FairPipeSpec == PipeSpec /\ PipeFairness

-----------------------------------------------------------------------------
(* Properties *)

PipeTypeOK ==
  /\ \A w \in Crew : Len(pipe[w]) <= Cap
  /\ edge \in [Crew -> BOOLEAN]
  /\ at \in [Crew -> {"events", "notify", "left", "deleted"}]
  /\ rd \in [Crew -> [s : {"prepare", "add_conn", "match_conn"}, tran : 0..1,
                      size : {1}, broken : BOOLEAN]]
  /\ asks.num \in 0..AskCap /\ asks.open \in BOOLEAN
  /\ \A t \in Threads : Waiting(t) => waits[t].for \in Crew \cup {Connector}
  /\ main \in {"loop", "connector", "workers"}
  /\ sent \in 0..Sends
  /\ wrong \in {"nothing", "worker deleted", "out of frame"}

\* worker.cpp, state_machine's assert(false): a type is read as a type and a
\* body as a body, whichever threads write, wait for room and are woken
\* meanwhile; and a reader that has a type finds the body there.
InFrame ==
  /\ wrong # "out of frame"
  /\ \A w \in Crew : at[w] # "deleted" /\ rd[w].s # "prepare" =>
       pipe[w] # <<>> /\ Head(pipe[w]) = "body"

\* worker::handle_notify: once the exit has been read the worker takes no
\* further message, though nothing in the loop looks at whether it was.
NothingAfterExit ==
  [][\A w \in Crew : rd[w].broken /\ at'[w] # "deleted" =>
       Len(pipe'[w]) >= Len(pipe[w])]_pipeVars

\* A thread waits for what another one reads, or for its end.  The requests
\* are read by the main thread, while it is in its loop.
WaitsFor(t, u) ==
  /\ Waiting(t)
  /\ IF waits[t].for = Connector THEN u = Main /\ main = "loop" ELSE u = waits[t].for

\* The thread is in a ring of threads that wait for each other, or waits for
\* one that is.
InRing(t) ==
  \E S \in SUBSET Threads : t \in S /\ \A u \in S : \E v \in S : WaitsFor(u, v)

\* worker.cpp:192, connector.cpp:64, worker::stop: a thread that waits for
\* room in a pipe, or for a worker to end, gets on, also when the reader is
\* stopped meanwhile; the one exception is a ring of threads that wait for
\* each other, which the blocking writes allow.
WaitEnds ==
  \A t \in Threads : Waiting(t) ~> ~Waiting(t) \/ InRing(t) \/ wrong # "nothing"
=============================================================================
