--------------------------------- MODULE Server --------------------------------
(***************************************************************************)
(* The life of the server in its main thread: server::init starts the      *)
(* parts one after the other and undoes them when one fails, the event     *)
(* loop accepts connections and reports the load, a signal reloads the     *)
(* limits or breaks the loop, and server::run stops the parts              *)
(* (core/server.cpp, main.cpp, acceptor.cpp, codgram.cpp, flow_grab.cpp,   *)
(* config.cpp, and the start and stop of worker.cpp and connector.cpp).    *)
(*                                                                         *)
(* A part is what it holds: descriptors, events, a thread.                 *)
(***************************************************************************)
EXTENDS Naturals, Sequences, FiniteSets, SequencesExt

CONSTANTS Workers,   \* what start_workers tries to start
          Backlog    \* bound: connections that wait to be accepted

ASSUME ServerAssumption ==
  /\ IsFiniteSet(Workers) /\ Backlog \in Nat
  /\ Workers \cap {"loop", "connector", "acceptor", "codgram", "flow"} = {}

VARIABLES step,      \* where init or run is
          held,      \* what the parts hold, as <<part, resource>>
          team,      \* workers_
          conf,      \* p2p_enable_, disp_enable_, whether there is a limit, and
                     \* whether a reload has ever lifted it
          listen,    \* the listening socket and its acceptor
          last       \* the worker after last_worker_

serverVars == <<step, held, team, conf, listen, last>>

Parts == {"connector", "acceptor", "codgram", "flow"} \cup Workers
Kind(p) == IF p \in Workers THEN "worker" ELSE p
Base == <<"loop", "base">>

\* What a part takes when it starts, in order, and what its fail path gives
\* back.
Takes == [connector |-> <<"pipe", "notify">>,
          worker    |-> <<"pipe", "base", "notify", "timer", "thread">>,
          acceptor  |-> <<"sock", "event">>,
          codgram   |-> <<"sock", "read", "timer">>,
          flow      |-> <<"pcap", "event">>]
FailGivesBack == [connector |-> {"pipe"},
                  worker    |-> {"pipe", "base", "notify", "timer"},
                  acceptor  |-> {"sock"},
                  codgram   |-> {"sock", "read"},
                  flow      |-> {"pcap"}]

\* Registered with the event loop of the main thread.
Events == {<<"connector", "notify">>, <<"connector", "read">>, <<"connector", "write">>,
           <<"connector", "timer">>, <<"acceptor", "event">>, <<"codgram", "read">>,
           <<"codgram", "timer">>, <<"flow", "event">>}

Has(p) == {x \in held : x[1] = p}
Owned(p, names) == {<<p, r>> : r \in names}
All(p) == Owned(p, ToSet(Takes[Kind(p)]))

\* A start that fails has taken some of it, and given back what the fail
\* path does.
Failures(p) ==
  {Owned(p, ToSet(SubSeq(Takes[Kind(p)], 1, k)) \ FailGivesBack[Kind(p)])
   : k \in 0..(Len(Takes[Kind(p)]) - 1)}

ServerInit == /\ step = "begin" /\ held = {} /\ team = <<>>
              /\ conf \in [p2p : BOOLEAN, disp : BOOLEAN, limit : BOOLEAN, lifted : {FALSE}]
              /\ listen = [waits |-> 0, edge |-> FALSE, on |-> TRUE, gaveUp |-> FALSE]
              /\ last = 0

-----------------------------------------------------------------------------
(* server::init *)

Goes(s) == step' = s
Keeps == UNCHANGED <<conf, listen, last>>

Begin == /\ step = "begin" /\ Goes("connector")
         /\ held' = {Base} /\ UNCHANGED team /\ Keeps

\* The connector counts as started when its socket could not be opened.
StartConnector ==
  /\ step = "connector" /\ UNCHANGED team /\ Keeps
  /\ \/ /\ conf.p2p /\ Goes("workers")
        /\ \E sock \in {{}, {"sock", "read", "write"}, {"sock", "read", "write", "timer"}} :
             held' = held \cup All("connector") \cup Owned("connector", sock)
     \/ /\ conf.p2p /\ Goes("undo loop")
        /\ \E rest \in Failures("connector") : held' = held \cup rest
     \/ ~conf.p2p /\ Goes("workers") /\ UNCHANGED held

\* A worker that does not start is passed over; one is enough.
StartWorkers ==
  /\ step = "workers" /\ Keeps
  /\ \E up \in SUBSET Workers :
       \E rest \in [Workers \ up -> UNION {Failures(w) : w \in Workers \ up}] :
         /\ \A w \in Workers \ up : rest[w] \in Failures(w)
         /\ held' = held \cup (UNION {All(w) : w \in up}) \cup (UNION {rest[w] : w \in Workers \ up})
         /\ team' = SetToSeq(up)
         /\ Goes(IF up = {} THEN "undo connector" ELSE "acceptor")

StartsOr(p, next, undo) ==
  \/ Goes(next) /\ held' = held \cup All(p)
  \/ Goes(undo) /\ \E rest \in Failures(p) : held' = held \cup rest

StartAcceptors == /\ step = "acceptor" /\ StartsOr("acceptor", "codgram", "undo workers")
                  /\ UNCHANGED team /\ Keeps

StartCodgram == /\ step = "codgram" /\ UNCHANGED team /\ Keeps
                /\ \/ conf.disp /\ StartsOr("codgram", "flow", "undo acceptor")
                   \/ ~conf.disp /\ Goes("flow") /\ UNCHANGED held

StartFlowGrab ==
  /\ step = "flow" /\ UNCHANGED team /\ Keeps
  /\ \/ conf.limit /\ StartsOr("flow", "loop", IF conf.disp THEN "undo codgram" ELSE "undo acceptor")
     \/ ~conf.limit /\ Goes("loop") /\ UNCHANGED held

-----------------------------------------------------------------------------
(* The parts are undone in the reverse order, and stopped in another one.  *)

StopsOne(w) == held' = held \ Has(w) /\ team' = Tail(team)

\* Workers are told to exit, joined and deleted one by one.
StopWorkers(from, next) ==
  /\ step = from /\ Keeps
  /\ \/ team # <<>> /\ StopsOne(Head(team)) /\ UNCHANGED step
     \/ team = <<>> /\ Goes(next) /\ UNCHANGED <<held, team>>

Stop(p, from, next) ==
  /\ step = from /\ Goes(next)
  /\ held' = held \ Has(p) /\ UNCHANGED team /\ Keeps

\* connector::close of a connector that was never opened: it closes the two
\* descriptors its memory happens to hold.
StopUnopened ==
  /\ step = "stop connector" /\ ~conf.p2p /\ Goes("stop acceptor")
  /\ \E hit \in SUBSET {x \in held : x[2] \in {"sock", "pipe", "pcap"}} :
       Cardinality(hit) <= 2 /\ held' = held \ hit
  /\ UNCHANGED team /\ Keeps

Undo == \/ Stop("codgram", "undo codgram", "undo acceptor")
        \/ Stop("acceptor", "undo acceptor", "undo workers")
        \/ StopWorkers("undo workers", "undo connector")
        \/ conf.p2p /\ Stop("connector", "undo connector", "undo loop")
        \/ ~conf.p2p /\ step = "undo connector" /\ Goes("undo loop")
           /\ UNCHANGED <<held, team>> /\ Keeps
        \/ Stop("loop", "undo loop", "end")

\* Slip: the packet capture is stopped by what is enabled when it stops.
StopFlowGrabNever == step = "stop flow" /\ Goes("stop loop") /\ UNCHANGED <<held, team>> /\ Keeps

\* stop_flow_grab looks at the limits as they are now.
StopFlowGrab ==
  /\ step = "stop flow" /\ Goes("stop loop") /\ UNCHANGED team /\ Keeps
  /\ held' = IF conf.limit THEN held \ Has("flow") ELSE held

StopAll == \/ conf.p2p /\ Stop("connector", "stop connector", "stop acceptor")
           \/ StopUnopened
           \/ Stop("acceptor", "stop acceptor", "stop workers")
           \/ StopWorkers("stop workers", "stop codgram")
           \/ Stop("codgram", "stop codgram", "stop flow")
           \/ StopFlowGrab
           \/ Stop("loop", "stop loop", "end")

-----------------------------------------------------------------------------
(* The loop *)

\* SIGTERM or SIGINT: before the loop runs a break of it is forgotten.
Terminate == /\ step = "loop" /\ Goes("stop connector")
             /\ UNCHANGED <<held, team>> /\ Keeps

\* SIGHUP: the public address is read first, and ends the reload when it is
\* wrong; a limit that is not in the file is no limit.  The handler is in
\* place before server::init and runs between any two steps.
Reconfigure ==
  /\ step # "end"
  /\ \E l \in BOOLEAN :
       conf' = [conf EXCEPT !.limit = l, !.lifted = @ \/ (conf.limit /\ ~l)]
  /\ UNCHANGED <<step, held, team, listen, last>>

\* codgram::handle_timeout: a rate at its limit closes the acceptors to new
\* connections until the next report.
ReportLoad ==
  /\ step = "loop" /\ Has("codgram") # {}
  /\ \E over \in BOOLEAN : listen' = [listen EXCEPT !.on = ~(conf.limit /\ over)]
  /\ UNCHANGED <<step, held, team, conf, last>>

Connect ==
  /\ Has("acceptor") # {} /\ listen.waits < Backlog
  /\ listen' = [listen EXCEPT !.waits = @ + 1, !.edge = TRUE]
  /\ UNCHANGED <<step, held, team, conf, last>>

\* How far the accept loop gets: through the backlog, or to a failure of
\* accept, of set_block_attr or of the worker's pipe, which leaves the rest.
Through(n, gaveUp) == [taken |-> n, gaveUp |-> gaveUp]

\* Slip: one connection is taken for each event.
AcceptsOne(n) == {Through(IF n = 0 THEN 0 ELSE 1, FALSE)}

Accepts(n) == {Through(n, FALSE)} \cup {Through(k, TRUE) : k \in 0..(n - 1)}

\* Slip: the round does not come back to the first worker.
WorkerAfterOn(given) == last + given

\* Connections go to the workers in turn.
WorkerAfter(given) == (last + given) % Len(team)

\* acceptor::handle_accept, with `given` of the accepted ones dispatched.
HandleAccept ==
  /\ step = "loop" /\ listen.edge
  /\ \E a \in Accepts(listen.waits) :
       /\ listen' = [listen EXCEPT !.waits = @ - a.taken, !.edge = FALSE, !.gaveUp = a.gaveUp]
       /\ \E given \in 0..(IF listen.on THEN a.taken ELSE 0) : last' = WorkerAfter(given)
  /\ UNCHANGED <<step, held, team, conf>>

ServerNext == \/ Begin \/ StartConnector \/ StartWorkers \/ StartAcceptors \/ StartCodgram
              \/ StartFlowGrab \/ Undo \/ StopAll
              \/ Terminate \/ Reconfigure \/ ReportLoad \/ Connect \/ HandleAccept

ServerSpec == ServerInit /\ [][ServerNext]_serverVars

-----------------------------------------------------------------------------
(* Properties *)

Resources == (UNION {All(p) : p \in Parts}) \cup Events \cup {Base, <<"connector", "sock">>}

ServerTypeOK ==
  /\ held \subseteq Resources
  /\ ToSet(team) \subseteq Workers
  /\ conf \in [p2p : BOOLEAN, disp : BOOLEAN, limit : BOOLEAN, lifted : BOOLEAN]
  /\ listen \in [waits : 0..Backlog, edge : BOOLEAN, on : BOOLEAN, gaveUp : BOOLEAN]
  /\ step = "loop" => last \in 0..(Len(team) - 1)

\* server::init and server::run, whichever start fails and whenever the stop
\* comes: in the end no part holds anything, and no event outlives the loop
\* it is registered with.  The packet capture alone stays, when the limits
\* it was started for have been taken back by a reload.
CleanEnd ==
  LET capture == IF conf.lifted THEN Has("flow") ELSE {}
  IN /\ step = "end" => held \subseteq capture
     /\ Base \in held \/ (held \ capture) \cap Events = {}

\* acceptor::handle_accept: events are edge-triggered, so while the server
\* runs a connection that waits has an event, unless the loop gave up on a
\* failure; the next connection brings it back.
BacklogWatched ==
  Has("acceptor") # {} /\ listen.waits > 0 => listen.edge \/ listen.gaveUp
=============================================================================
