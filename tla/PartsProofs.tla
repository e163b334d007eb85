------------------------------ MODULE PartsProofs -------------------------------
(***************************************************************************)
(* Proofs about Server and LoadReport: the life of the main thread for any *)
(* workers that it tries to start, and the limit on the rate for a counter *)
(* of any width.  And about MCParts, which puts the parts together: each   *)
(* of them is there as it is alone, so that what is proved of it alone is  *)
(* true of the specification that is checked.                              *)
(***************************************************************************)
EXTENDS MCParts, WorkerProofs, StreamProofs, FiniteSetTheorems

-----------------------------------------------------------------------------
(* The limit on the rate. *)

\* The counter modulo Width, written without a product.
Around(n) == IF n < Width THEN n ELSE n - Width

\* What has gone out since the last report is where the counter stands from
\* the count that report has kept.
Counted(l) == l.capture /\ ~l.first => l.out = Around(l.last + l.period)

LoadInv == load \in Load /\ Counted(load)

LEMMA AroundIsMod ==
  ASSUME NEW a \in 0..(Width - 1), NEW n \in 0..(Width - 1)
  PROVE  /\ (a + n) % Width = Around(a + n)
         /\ Around(a + n) \in 0..(Width - 1)
BY LoadAssumption DEF Around

LEMMA LoadFields ==
  ASSUME LoadInv
  PROVE  /\ load.out \in 0..(Width - 1) /\ load.last \in 0..(Width - 1)
         /\ load.period \in 0..(Width - 1) /\ Width \in Nat /\ Width > 0
         /\ load.timer \in Nat /\ load.timer > 0 /\ Kilo \in Nat /\ Kilo > 0
<1>1. /\ load.out \in 0..(Width - 1) /\ load.last \in 0..(Width - 1)
      /\ load.period \in 0..(Width - 1) /\ load.timer \in Intervals
  BY DEF LoadInv, Load
<1>2. /\ Width \in Nat /\ Width > 0 /\ Kilo \in Nat /\ Kilo > 0 BY LoadAssumption
<1>3. load.timer \in Nat \ {0} BY <1>1, LoadAssumption, Zenon
<1>4. load.timer \in Nat /\ load.timer > 0 BY <1>3
<1> QED BY <1>1, <1>2, <1>4

LEMMA LoadInitInv == LoadInit => LoadInv
BY DEF LoadInit, LoadInv, Counted

LEMMA PacketInv == ASSUME LoadInv, NEW n \in 1..(Width - 1), Packet(n) PROVE LoadInv'
<1> DEFINE out == IF load.capture THEN (load.out + n) % Width ELSE load.out
           period == load.period + n
<1>1. load' = [load EXCEPT !.out = out, !.period = period] BY DEF Packet
<1>2. n \in 0..(Width - 1) /\ n \in Nat OBVIOUS
<1>3. period \in 0..(Width - 1) BY <1>2, LoadFields DEF Packet
<1>4. (load.out + n) % Width = Around(load.out + n) /\ out \in 0..(Width - 1)
  BY <1>2, AroundIsMod, LoadFields
<1> HIDE DEF out, period
<1>5. load' \in Load BY <1>1, <1>3, <1>4 DEF LoadInv, Load
<1>6. load'.out = out /\ load'.last = load.last /\ load'.period = period
  BY <1>1 DEF LoadInv, Load
<1>7. load'.capture = load.capture /\ load'.first = load.first BY <1>1 DEF LoadInv, Load
<1>8. ASSUME load.capture, ~load.first
      PROVE  out = Around(load.last + period)
  <2>1. load.out = Around(load.last + load.period) BY <1>8 DEF LoadInv, Counted
  <2>2. out = Around(load.out + n) BY <1>4, <1>8 DEF out
  <2> QED BY <1>2, <1>3, <2>1, <2>2, LoadFields DEF Around, period
<1> QED BY <1>5, <1>6, <1>7, <1>8 DEF LoadInv, Counted

LEMMA ReloadInv == ASSUME LoadInv, Reload PROVE LoadInv'
<1>1. PICK limit \in Limits, interval \in Intervals :
        load' = [load EXCEPT !.limit = limit, !.interval = interval]
  BY DEF Reload
<1>2. load' \in Load BY <1>1 DEF LoadInv, Load
<1>3. load'.out = load.out /\ load'.last = load.last /\ load'.period = load.period
  BY <1>1 DEF LoadInv, Load
<1>4. load'.capture = load.capture /\ load'.first = load.first BY <1>1 DEF LoadInv, Load
<1> QED BY <1>2, <1>3, <1>4 DEF LoadInv, Counted

LEMMA ReportInv == ASSUME LoadInv, Report PROVE LoadInv'
<1> DEFINE b == SomeLeft
<1>1. load' = [load EXCEPT !.last = load.out, !.accept = b, !.first = FALSE, !.period = 0]
  BY DEF Report
<1>2. b \in BOOLEAN BY DEF SomeLeft
<1> HIDE DEF b
<1>3. 0 \in 0..(Width - 1) BY LoadFields
<1>4. load' \in Load BY <1>1, <1>2, <1>3 DEF LoadInv, Load
<1>5. load'.out = load.out /\ load'.last = load.out /\ load'.period = 0
  BY <1>1 DEF LoadInv, Load
<1>6. load'.out = Around(load'.last + load'.period) BY <1>5, LoadFields DEF Around
<1> QED BY <1>4, <1>6 DEF LoadInv, Counted

\* What get_left_rate_ratio takes for the bytes since the last report.
LEMMA RateIsRate ==
  ASSUME LoadInv, load.capture, ~load.first, load.interval = load.timer
  PROVE  LET byte == IF load.out < load.last THEN 1 ELSE 0
         IN Rate = (load.period - byte) \div (load.timer * Kilo)
<1> DEFINE bytes == IF load.last <= load.out THEN load.out - load.last
                    ELSE (Width - 1) - (load.last - load.out)
           byte == IF load.out < load.last THEN 1 ELSE 0
<1>1. load.out = Around(load.last + load.period) BY DEF LoadInv, Counted
<1>2. bytes = load.period - byte BY <1>1, LoadFields DEF Around
<1>3. Rate = bytes \div (load.interval * Kilo) BY DEF Rate
<1> QED BY <1>2, <1>3

\* Every step keeps the count, and a report closes or opens the acceptors by it.
LEMMA LoadNextInv ==
  ASSUME LoadInv, [LoadNext]_load
  PROVE  /\ LoadInv'
         /\ load'.period < load.period \/ load'.accept # load.accept =>
              LET byte == IF load.out < load.last THEN 1 ELSE 0
                  rate == (load.period - byte) \div (load.timer * Kilo)
              IN \/ load.first \/ load.interval # load.timer \/ ~load.capture
                 \/ load'.accept = (load.limit = 0 \/ rate < load.limit)
<1>1. ASSUME NEW n \in 1..(Width - 1), Packet(n)
      PROVE  LoadInv' /\ ~(load'.period < load.period) /\ load'.accept = load.accept
  <2>1. LoadInv' BY <1>1, PacketInv
  <2>2. load'.period = load.period + n BY <1>1 DEF Packet, LoadInv, Load
  <2>3. ~(load'.period < load.period) BY <2>2, LoadFields
  <2>4. load'.accept = load.accept BY <1>1 DEF Packet, LoadInv, Load
  <2> QED BY <2>1, <2>3, <2>4
<1>2. CASE Reload
  <2>1. LoadInv' BY <1>2, ReloadInv
  <2>2. load'.period = load.period /\ load'.accept = load.accept
    BY <1>2 DEF Reload, LoadInv, Load
  <2>3. ~(load'.period < load.period) BY <2>2, LoadFields
  <2> QED BY <2>1, <2>2, <2>3
<1>3. CASE Report
  <2>1. LoadInv' BY <1>3, ReportInv
  <2>2. load'.accept = SomeLeft BY <1>3 DEF Report, LoadInv, Load
  <2> QED BY <2>1, <2>2, RateIsRate DEF SomeLeft
<1>4. CASE UNCHANGED load
  <2>1. LoadInv' BY <1>4 DEF LoadInv
  <2>2. ~(load'.period < load.period) BY <1>4, LoadFields
  <2> QED BY <1>4, <2>1, <2>2
<1> QED BY <1>1, <1>2, <1>3, <1>4 DEF LoadNext

\* The counter, the count that is kept and the bytes between two reports stay
\* within what the counter holds.
THEOREM LoadTypeCorrect == LoadSpec => []LoadTypeOK
<1>1. LoadInv => LoadTypeOK BY DEF LoadInv, LoadTypeOK
<1>2. LoadInv /\ [LoadNext]_load => LoadInv' BY LoadNextInv
<1> QED BY <1>1, <1>2, LoadInitInv, PTL DEF LoadSpec

\* A report opens or closes the acceptors by what went out since the last one,
\* however often the counter has wrapped around, but for one byte.
THEOREM AcceptsByRate == LoadSpec => AcceptFollowsRate
<1>1. LoadInv /\ [LoadNext]_load => LoadInv' BY LoadNextInv
<1>2. LoadInv /\ [LoadNext]_load =>
        [load'.period < load.period \/ load'.accept # load.accept =>
           LET byte == IF load.out < load.last THEN 1 ELSE 0
               rate == (load.period - byte) \div (load.timer * Kilo)
           IN \/ load.first \/ load.interval # load.timer \/ ~load.capture
              \/ load'.accept = (load.limit = 0 \/ rate < load.limit)]_load
  BY LoadNextInv
<1> QED BY <1>1, <1>2, LoadInitInv, PTL DEF LoadSpec, AcceptFollowsRate

-----------------------------------------------------------------------------
(* The life of the server.  Spans says at which steps of the life a part   *)
(* may hold something.                                                     *)

Spans == [loop      |-> {"connector", "workers", "acceptor", "codgram", "flow", "loop",
                         "undo codgram", "undo acceptor", "undo workers", "undo connector",
                         "undo loop", "stop connector", "stop acceptor", "stop workers",
                         "stop codgram", "stop flow", "stop loop"},
          connector |-> {"workers", "acceptor", "codgram", "flow", "loop", "undo codgram",
                         "undo acceptor", "undo workers", "undo connector",
                         "stop connector"},
          worker    |-> {"acceptor", "codgram", "flow", "loop", "undo codgram",
                         "undo acceptor", "undo workers", "stop connector",
                         "stop acceptor", "stop workers"},
          acceptor  |-> {"codgram", "flow", "loop", "undo codgram", "undo acceptor",
                         "stop connector", "stop acceptor"},
          codgram   |-> {"flow", "loop", "undo codgram", "stop connector",
                         "stop acceptor", "stop workers", "stop codgram"},
          flow      |-> {"loop", "stop connector", "stop acceptor", "stop workers",
                         "stop codgram", "stop flow", "stop loop", "end"}]

\* A part that holds something has been started and not stopped yet.
Timely(p) == /\ step \in Spans[Kind(p)]
             /\ p = "connector" => conf.p2p
             /\ p \in Workers => p \in ToSet(team)
             /\ p = "codgram" => conf.disp
             /\ p = "flow" => /\ conf.limit \/ conf.lifted
                              /\ step \in {"stop loop", "end"} => conf.lifted

Confs == [p2p : BOOLEAN, disp : BOOLEAN, limit : BOOLEAN, lifted : BOOLEAN]

ServerInv ==
  /\ step \in Spans["loop"] \cup {"begin", "end"}
  /\ held \subseteq Resources
  /\ \A x \in held : Timely(x[1])
  /\ step \in Spans["loop"] => Base \in held
  /\ team \in Seq(Workers)
  /\ step \in {"acceptor", "codgram", "flow", "loop"} => team # <<>>
  /\ conf \in Confs
  /\ listen \in [waits : 0..Backlog, edge : BOOLEAN, on : BOOLEAN, gaveUp : BOOLEAN]
  /\ listen.waits > 0 => listen.edge \/ listen.gaveUp
  /\ step \in {"begin", "connector", "workers", "acceptor", "codgram", "flow"} => last = 0
  /\ step = "loop" => last \in 0..(Len(team) - 1)

\* No worker is taken for another part.
LEMMA PartsDiffer ==
  /\ \A w \in Workers : Kind(w) = "worker"
  /\ \A p \in {"loop", "connector", "acceptor", "codgram", "flow"} :
       p \notin Workers /\ Kind(p) = p
BY ServerAssumption DEF Kind

LEMMA OwnedFirst ==
  ASSUME NEW p, NEW names, NEW x \in Owned(p, names)
  PROVE  x[1] = p /\ \E r \in names : x = <<p, r>>
BY DEF Owned

LEMMA ResourceFirst ==
  ASSUME NEW x \in Resources
  PROVE  x[1] \in Parts \cup {"loop"}
<1>1. ASSUME NEW p \in Parts, x \in All(p) PROVE x[1] = p BY <1>1, OwnedFirst DEF All
<1>2. ASSUME x \in Events \cup {Base, <<"connector", "sock">>} PROVE x[1] \in Parts \cup {"loop"}
  BY <1>2 DEF Events, Base, Parts
<1>3. x \in UNION {All(p) : p \in Parts} \/ x \in Events \cup {Base, <<"connector", "sock">>}
  BY DEF Resources
<1>4. CASE x \in UNION {All(p) : p \in Parts}
  <2>1. PICK p \in Parts : x \in All(p) BY <1>4
  <2> QED BY <2>1, <1>1
<1> QED BY <1>2, <1>3, <1>4

\* A start that fails leaves nothing behind.
LEMMA FailuresLeaveNothing ==
  ASSUME NEW p \in Parts, NEW rest \in Failures(p)
  PROVE  rest = {}
<1> DEFINE T == Takes[Kind(p)]
           F == FailGivesBack[Kind(p)]
<1>1. PICK k \in 0..(Len(T) - 1) : rest = Owned(p, ToSet(SubSeq(T, 1, k)) \ F)
  BY DEF Failures
<1>2. Kind(p) \in {"connector", "worker", "acceptor", "codgram", "flow"}
  BY PartsDiffer DEF Parts
<1>3. \A i \in 1..(Len(T) - 1) : T[i] \in F
  <2>1. CASE Kind(p) = "connector" BY <2>1 DEF Takes, FailGivesBack
  <2>2. CASE Kind(p) = "worker" BY <2>2 DEF Takes, FailGivesBack
  <2>3. CASE Kind(p) = "acceptor" BY <2>3 DEF Takes, FailGivesBack
  <2>4. CASE Kind(p) = "codgram" BY <2>4 DEF Takes, FailGivesBack
  <2>5. CASE Kind(p) = "flow" BY <2>5 DEF Takes, FailGivesBack
  <2> QED BY <1>2, <2>1, <2>2, <2>3, <2>4, <2>5
<1>4. T \in Seq({"pipe", "base", "notify", "timer", "thread", "sock", "event", "read", "pcap"})
  <2>1. CASE Kind(p) = "connector" BY <2>1 DEF Takes
  <2>2. CASE Kind(p) = "worker" BY <2>2 DEF Takes
  <2>3. CASE Kind(p) = "acceptor" BY <2>3 DEF Takes
  <2>4. CASE Kind(p) = "codgram" BY <2>4 DEF Takes
  <2>5. CASE Kind(p) = "flow" BY <2>5 DEF Takes
  <2> QED BY <1>2, <2>1, <2>2, <2>3, <2>4, <2>5
<1> HIDE DEF T, F
<1>5. \A i \in DOMAIN SubSeq(T, 1, k) : SubSeq(T, 1, k)[i] \in F BY <1>3, <1>4
<1>6. ToSet(SubSeq(T, 1, k)) \ F = {} BY <1>5 DEF ToSet
<1> QED BY <1>1, <1>6 DEF Owned

\* The sequence that stands for a finite set holds what the set holds.
LEMMA SequenceOfSet ==
  ASSUME NEW S, IsFiniteSet(S)
  PROVE  /\ SetToSeq(S) \in Seq(S)
         /\ ToSet(SetToSeq(S)) = S
         /\ S # {} => SetToSeq(S) # <<>>
<1> DEFINE n == Cardinality(S)
           f == SetToSeq(S)
<1>1. n \in Nat /\ ExistsBijection(1..n, S) BY FS_CardinalityType
<1>2. PICK g \in [1..n -> S] : IsInjective(g)
  BY <1>1 DEF ExistsBijection, Bijection, Injection
<1>3. f \in [1..n -> S] /\ IsInjective(f) BY <1>2 DEF SetToSeq
<1>4. f \in Injection(1..n, S) BY <1>3 DEF Injection
<1>5. Cardinality(1..n) = n /\ IsFiniteSet(1..n) BY <1>1, FS_Interval
<1> HIDE DEF f, n
<1>6. f \in Surjection(1..n, S)
  <2>1. n = Cardinality(S) BY DEF n
  <2> QED BY <2>1, <1>4, <1>5, FS_Injection
<1>7. f \in Seq(S) BY <1>1, <1>3
<1>8. ToSet(f) = S BY <1>3, <1>6 DEF ToSet, Surjection
<1>9. S # {} => f # <<>> BY <1>8 DEF ToSet
<1> QED BY <1>7, <1>8, <1>9 DEF f
\* Everything that a part takes is one of its resources, and names the part.
LEMMA AllOfPart ==
  ASSUME NEW p \in Parts
  PROVE  All(p) \subseteq Resources /\ \A x \in All(p) : x[1] = p
<1>1. \A x \in All(p) : x[1] = p BY OwnedFirst DEF All
<1>2. \A x \in All(p) : x \in UNION {All(q) : q \in Parts} OBVIOUS
<1>3. All(p) \subseteq Resources BY <1>2 DEF Resources
<1> QED BY <1>1, <1>3

\* Only the part itself and the base of the loop have these names.
LEMMA HasNames ==
  ASSUME NEW x \in held
  PROVE  \A p : x \in Has(p) <=> x[1] = p
BY DEF Has

-----------------------------------------------------------------------------
(* A step of the life that keeps the configuration. *)

\* What a step has to show: the parts hold what they may hold at the next one.
LEMMA StepInv ==
  ASSUME ServerInv, Keeps,
         step' \in Spans["loop"] \cup {"end"},
         held' \subseteq Resources,
         \A x \in held' : Timely(x[1])',
         step' \in Spans["loop"] => Base \in held',
         team' \in Seq(Workers),
         step' \in {"acceptor", "codgram", "flow", "loop"} => team' # <<>>,
         step' \in {"connector", "workers", "acceptor", "codgram", "flow", "loop"} => last = 0
  PROVE  ServerInv'
<1>1. step' = "loop" => last' \in 0..(Len(team') - 1)
  <2>1. HAVE step' = "loop"
  <2>2. last' = 0 BY <2>1 DEF Keeps
  <2>3. Len(team') \in Nat /\ Len(team') # 0 BY <2>1
  <2> QED BY <2>2, <2>3
<1>2. step' \in Spans["loop"] \cup {"begin", "end"} OBVIOUS
<1>3. step' # "begin" BY DEF Spans
<1>4. conf' \in Confs /\ conf' = conf BY DEF ServerInv, Keeps
<1>5. /\ listen' \in [waits : 0..Backlog, edge : BOOLEAN, on : BOOLEAN, gaveUp : BOOLEAN]
      /\ listen'.waits > 0 => listen'.edge \/ listen'.gaveUp
  BY DEF ServerInv, Keeps
<1>6. step' \in {"begin", "connector", "workers", "acceptor", "codgram", "flow"} => last' = 0
  BY <1>3 DEF Keeps
<1> QED BY <1>1, <1>2, <1>4, <1>5, <1>6 DEF ServerInv

\* What is held stays where it is placed when the step goes on within the
\* time of its part.
LEMMA StaysPlaced ==
  ASSUME ServerInv, Keeps, NEW x \in held,
         step \in Spans[Kind(x[1])] => step' \in Spans[Kind(x[1])],
         x[1] \in Workers => x[1] \in ToSet(team'),
         x[1] = "flow" /\ step' \in {"stop loop", "end"} => step = "stop loop" \/ conf.lifted
  PROVE  Timely(x[1])'
<1>1. Timely(x[1]) BY DEF ServerInv
<1>2. conf' = conf BY DEF Keeps
<1>3. Kind(x[1])' = Kind(x[1]) BY DEF Kind
<1> QED BY <1>1, <1>2, <1>3 DEF Timely

LEMMA PartOf ==
  ASSUME ServerInv, NEW x \in held
  PROVE  /\ Timely(x[1])
         /\ x[1] \in Workers \/ x[1] \in {"loop", "connector", "acceptor", "codgram", "flow"}
         /\ x[1] \in Workers => Kind(x[1]) = "worker"
         /\ x[1] \notin Workers => Kind(x[1]) = x[1]
<1>1. x \in Resources BY DEF ServerInv
<1> QED BY <1>1, ResourceFirst DEF ServerInv, Parts, Kind
\* The kinds that may hold something at a step are the ones whose time it is.
LEMMA HeldAt ==
  ASSUME ServerInv, NEW x \in held
  PROVE  \/ Kind(x[1]) = "loop" /\ step \in Spans["loop"]
         \/ Kind(x[1]) = "connector" /\ step \in Spans["connector"]
         \/ Kind(x[1]) = "worker" /\ step \in Spans["worker"]
         \/ Kind(x[1]) = "acceptor" /\ step \in Spans["acceptor"]
         \/ Kind(x[1]) = "codgram" /\ step \in Spans["codgram"]
         \/ Kind(x[1]) = "flow" /\ step \in Spans["flow"]
<1>1. step \in Spans[Kind(x[1])] BY PartOf DEF Timely
<1>2. Kind(x[1]) \in {"loop", "connector", "worker", "acceptor", "codgram", "flow"} BY PartOf
<1> QED BY <1>1, <1>2

LEMMA BeginInv == ASSUME ServerInv, Begin PROVE ServerInv'
<1>1. step = "begin" /\ step' = "connector" /\ held' = {Base} /\ team' = team /\ Keeps
  BY DEF Begin, Goes
<1>2. Base[1] = "loop" /\ Kind("loop") = "loop" /\ "loop" \notin Workers
  BY PartsDiffer DEF Base
<1>3. Timely("loop")' BY <1>1, <1>2 DEF Timely, Spans, Kind
<1>4. Base \in Resources BY DEF Resources
<1>5. \A x \in held' : Timely(x[1])' BY <1>1, <1>2, <1>3
<1>6. team \in Seq(Workers) /\ last = 0 BY <1>1 DEF ServerInv
<1>7. step' \in Spans["loop"] BY <1>1 DEF Spans
<1> QED BY <1>1, <1>4, <1>5, <1>6, <1>7, StepInv

\* What StartConnector leaves behind when it gets the pipe, whatever it gets
\* of the socket.
LEMMA ConnectorInv == ASSUME ServerInv, StartConnector PROVE ServerInv'
<1>1. step = "connector" /\ team' = team /\ Keeps /\ conf' = conf
  BY DEF StartConnector, Keeps
<1>2. Base \in held /\ held \subseteq Resources /\ team \in Seq(Workers) /\ last = 0
  BY <1>1 DEF ServerInv, Spans
<1>3. step' \in {"workers", "undo loop"} BY DEF StartConnector, Goes
<1>4. step' \in Spans["loop"] BY <1>3 DEF Spans
<1>5. ASSUME NEW x \in held PROVE Timely(x[1])'
  <2>1. Kind(x[1]) = "loop" BY <1>1, HeldAt DEF Spans
  <2>2. x[1] = "loop" BY <2>1, PartOf
  <2> QED BY <1>1, <1>4, <2>1, <2>2, StaysPlaced, PartsDiffer
<1>6. ASSUME NEW x \in held' \ held
      PROVE  x \in Resources /\ Timely(x[1])'
  <2>1. \A rest \in Failures("connector") : rest = {} BY FailuresLeaveNothing DEF Parts
  <2>2. PICK sock \in {{}, {"sock", "read", "write"}, {"sock", "read", "write", "timer"}} :
          /\ conf.p2p /\ step' = "workers"
          /\ held' = held \cup All("connector") \cup Owned("connector", sock)
    BY <1>6, <2>1 DEF StartConnector, Goes
  <2>3. All("connector") \subseteq Resources /\ \A y \in All("connector") : y[1] = "connector"
    BY AllOfPart DEF Parts
  <2>4. ASSUME x \in Owned("connector", sock) PROVE x[1] = "connector" /\ x \in Resources
    BY <2>4, <2>2, OwnedFirst DEF Resources, Events
  <2>5. x[1] = "connector" /\ x \in Resources BY <1>6, <2>2, <2>3, <2>4
  <2>6. Timely("connector")' BY <1>1, <2>2, PartsDiffer DEF Timely, Spans, Kind
  <2> QED BY <2>5, <2>6
<1>7. \A x \in held' : Timely(x[1])' /\ x \in Resources BY <1>2, <1>5, <1>6
<1>8. held \subseteq held'
  BY DEF StartConnector
<1>9. step' \notin {"acceptor", "codgram", "flow", "loop"} BY <1>3
<1> QED BY <1>1, <1>2, <1>4, <1>7, <1>8, <1>9, StepInv

\* One worker is enough, and what is in workers_ is what started.
LEMMA WorkersInv == ASSUME ServerInv, StartWorkers PROVE ServerInv'
<1>1. step = "workers" /\ Keeps /\ conf' = conf BY DEF StartWorkers, Keeps
<1>2. Base \in held /\ held \subseteq Resources /\ last = 0
  BY <1>1 DEF ServerInv, Spans
<1>3. PICK up \in SUBSET Workers :
        \E rest \in [Workers \ up -> UNION {Failures(w) : w \in Workers \ up}] :
          /\ \A w \in Workers \ up : rest[w] \in Failures(w)
          /\ held' = held \cup (UNION {All(w) : w \in up}) \cup (UNION {rest[w] : w \in Workers \ up})
          /\ team' = SetToSeq(up)
          /\ step' = IF up = {} THEN "undo connector" ELSE "acceptor"
  BY DEF StartWorkers, Goes
<1>4. PICK rest \in [Workers \ up -> UNION {Failures(w) : w \in Workers \ up}] :
          /\ \A w \in Workers \ up : rest[w] \in Failures(w)
          /\ held' = held \cup (UNION {All(w) : w \in up}) \cup (UNION {rest[w] : w \in Workers \ up})
          /\ team' = SetToSeq(up)
          /\ step' = IF up = {} THEN "undo connector" ELSE "acceptor"
  BY <1>3
<1>5. \A w \in Workers : w \in Parts BY DEF Parts
<1>6. \A w \in Workers \ up : rest[w] = {} BY <1>4, <1>5, FailuresLeaveNothing
<1>7. \A x \in held' : x \in held \/ \E w \in up : x \in All(w) BY <1>4, <1>6
<1>8. IsFiniteSet(up) BY ServerAssumption, FS_Subset
<1>9. team' \in Seq(up) /\ ToSet(team') = up /\ (up # {} => team' # <<>>)
  BY <1>4, <1>8, SequenceOfSet
<1>10. team' \in Seq(Workers) BY <1>9
<1>11. step' \in {"undo connector", "acceptor"} BY <1>4
<1>12. ASSUME NEW x \in held PROVE Timely(x[1])' /\ x \in Resources
  <2>1. Kind(x[1]) \in {"loop", "connector"} BY <1>1, HeldAt DEF Spans
  <2>2. x[1] \in {"loop", "connector"} /\ x[1] \notin Workers BY <2>1, PartOf, PartsDiffer
  <2>3. step' \in Spans["loop"] BY <1>11 DEF Spans
  <2>4. step' \in Spans["connector"] BY <1>11 DEF Spans
  <2>5. step' \in Spans[Kind(x[1])] BY <2>1, <2>3, <2>4
  <2> QED BY <1>1, <1>2, <2>2, <2>5, StaysPlaced
<1>13. ASSUME NEW w \in up, NEW x \in All(w) PROVE Timely(x[1])' /\ x \in Resources
  <2>1. x[1] = w /\ x \in Resources BY <1>5, AllOfPart
  <2>2. step' = "acceptor" BY <1>4
  <2>3. Kind(w) = "worker" /\ w \notin {"connector", "codgram", "flow"} BY PartsDiffer
  <2>4. Timely(w)' BY <1>9, <2>2, <2>3 DEF Timely, Spans, Kind
  <2> QED BY <2>1, <2>4
<1>14. \A x \in held' : Timely(x[1])' /\ x \in Resources BY <1>7, <1>12, <1>13
<1>15. step' \in Spans["loop"] BY <1>11 DEF Spans
<1>16. Base \in held' BY <1>2, <1>4
<1>17. step' \in {"acceptor", "codgram", "flow", "loop"} => team' # <<>> BY <1>4, <1>9
<1> QED BY <1>1, <1>2, <1>10, <1>14, <1>15, <1>16, <1>17, StepInv
\* A part that starts, or fails to, at a step which all that is held allows.
LEMMA StartInv ==
  ASSUME ServerInv, Keeps, team' = team,
         NEW p \in {"acceptor", "codgram", "flow"},
         NEW next \in {"codgram", "flow", "loop"},
         NEW undo \in {"undo workers", "undo acceptor", "undo codgram"},
         StartsOr(p, next, undo),
         step \in {"acceptor", "codgram", "flow"},
         next \in Spans[p],
         p = "codgram" => conf.disp, p = "flow" => conf.limit,
         \A x \in held : /\ next \in Spans[Kind(x[1])]
                         /\ undo \in Spans[Kind(x[1])]
  PROVE  ServerInv'
<1>1. p \in Parts /\ Kind(p) = p /\ p \notin Workers BY PartsDiffer DEF Parts
<1>2. \A rest \in Failures(p) : rest = {} BY <1>1, FailuresLeaveNothing
<1>3. All(p) \subseteq Resources /\ \A x \in All(p) : x[1] = p BY <1>1, AllOfPart
<1>4. /\ Base \in held /\ held \subseteq Resources /\ last = 0
      /\ team \in Seq(Workers) /\ team # <<>>
  BY DEF ServerInv, Spans
<1>5. \/ step' = next /\ held' = held \cup All(p)
      \/ step' = undo /\ held' = held
  BY <1>2 DEF StartsOr, Goes
<1>6. step' \in Spans["loop"] BY <1>5 DEF Spans
<1>7. ASSUME NEW x \in held PROVE Timely(x[1])'
  <2>1. step' \in Spans[Kind(x[1])] BY <1>5
  <2>2. Timely(x[1]) BY DEF ServerInv
  <2>3. x[1] \in Workers => x[1] \in ToSet(team') BY <2>2 DEF Timely
  <2>4. step' \notin {"stop loop", "end"} BY <1>5
  <2> QED BY <2>1, <2>3, <2>4, StaysPlaced
<1>8. ASSUME step' = next PROVE Timely(p)'
  <2>1. conf' = conf BY DEF Keeps
  <2>2. next \notin {"stop loop", "end"} OBVIOUS
  <2> QED BY <1>1, <1>8, <2>1, <2>2 DEF Timely, Kind
<1>9. \A x \in held' : Timely(x[1])' /\ x \in Resources BY <1>3, <1>4, <1>5, <1>7, <1>8
<1>10. Base \in held' BY <1>4, <1>5
<1> QED BY <1>4, <1>6, <1>9, <1>10, StepInv

LEMMA AcceptorsInv == ASSUME ServerInv, StartAcceptors PROVE ServerInv'
<1>1. /\ step = "acceptor" /\ StartsOr("acceptor", "codgram", "undo workers")
      /\ team' = team /\ Keeps
  BY DEF StartAcceptors
<1>2. ASSUME NEW x \in held
      PROVE  "codgram" \in Spans[Kind(x[1])] /\ "undo workers" \in Spans[Kind(x[1])]
  <2>1. Kind(x[1]) \in {"loop", "connector", "worker"} BY <1>1, HeldAt DEF Spans
  <2>2. /\ "codgram" \in Spans["loop"] /\ "undo workers" \in Spans["loop"]
        /\ "codgram" \in Spans["connector"] /\ "undo workers" \in Spans["connector"]
        /\ "codgram" \in Spans["worker"] /\ "undo workers" \in Spans["worker"]
    BY DEF Spans
  <2> QED BY <2>1, <2>2
<1>3. "codgram" \in Spans["acceptor"] BY DEF Spans
<1> QED BY <1>1, <1>2, <1>3, StartInv

LEMMA CodgramInv == ASSUME ServerInv, StartCodgram PROVE ServerInv'
<1>1. step = "codgram" /\ team' = team /\ Keeps BY DEF StartCodgram
<1>2. ASSUME NEW x \in held
      PROVE  "flow" \in Spans[Kind(x[1])] /\ "undo acceptor" \in Spans[Kind(x[1])]
  <2>1. Kind(x[1]) \in {"loop", "connector", "worker", "acceptor"} BY <1>1, HeldAt DEF Spans
  <2>2. /\ "flow" \in Spans["loop"] /\ "undo acceptor" \in Spans["loop"]
        /\ "flow" \in Spans["connector"] /\ "undo acceptor" \in Spans["connector"]
        /\ "flow" \in Spans["worker"] /\ "undo acceptor" \in Spans["worker"]
        /\ "flow" \in Spans["acceptor"] /\ "undo acceptor" \in Spans["acceptor"]
    BY DEF Spans
  <2> QED BY <2>1, <2>2
<1>3. CASE conf.disp /\ StartsOr("codgram", "flow", "undo acceptor")
  <2>1. "flow" \in Spans["codgram"] BY DEF Spans
  <2> QED BY <1>1, <1>2, <1>3, <2>1, StartInv
<1>4. CASE ~conf.disp /\ step' = "flow" /\ held' = held
  <2>1. \A x \in held : x \in Resources /\ Timely(x[1]) BY DEF ServerInv
  <2>2. ASSUME NEW x \in held PROVE Timely(x[1])'
    BY <1>1, <1>2, <1>4, <2>1, StaysPlaced DEF Timely
  <2>3. Base \in held /\ last = 0 /\ team \in Seq(Workers) /\ team # <<>>
    BY <1>1 DEF ServerInv, Spans
  <2>4. step' \in Spans["loop"] BY <1>4 DEF Spans
  <2>5. held' \subseteq Resources BY <1>4, <2>1
  <2>6. \A x \in held' : Timely(x[1])' BY <1>4, <2>2
  <2> QED BY <1>1, <1>4, <2>3, <2>4, <2>5, <2>6, StepInv
<1> QED BY <1>3, <1>4 DEF StartCodgram, Goes
LEMMA FlowGrabInv == ASSUME ServerInv, StartFlowGrab PROVE ServerInv'
<1> DEFINE undo == IF conf.disp THEN "undo codgram" ELSE "undo acceptor"
<1>1. step = "flow" /\ team' = team /\ Keeps BY DEF StartFlowGrab
<1>2. ASSUME NEW x \in held
      PROVE  "loop" \in Spans[Kind(x[1])] /\ undo \in Spans[Kind(x[1])]
  <2>1. Kind(x[1]) \in {"loop", "connector", "worker", "acceptor", "codgram"}
    BY <1>1, HeldAt DEF Spans
  <2>2. /\ "loop" \in Spans["loop"] /\ "undo codgram" \in Spans["loop"] /\ "undo acceptor" \in Spans["loop"]
        /\ "loop" \in Spans["connector"] /\ "undo codgram" \in Spans["connector"] /\ "undo acceptor" \in Spans["connector"]
        /\ "loop" \in Spans["worker"] /\ "undo codgram" \in Spans["worker"] /\ "undo acceptor" \in Spans["worker"]
        /\ "loop" \in Spans["acceptor"] /\ "undo codgram" \in Spans["acceptor"] /\ "undo acceptor" \in Spans["acceptor"]
    BY DEF Spans
  <2>3. "loop" \in Spans["codgram"] /\ "undo codgram" \in Spans["codgram"] BY DEF Spans
  <2>4. Kind(x[1]) = "codgram" => conf.disp
    BY PartOf, PartsDiffer DEF Timely
  <2> QED BY <2>1, <2>2, <2>3, <2>4
<1>3. CASE conf.limit /\ StartsOr("flow", "loop", undo)
  <2>1. "loop" \in Spans["flow"] BY DEF Spans
  <2>2. undo \in {"undo workers", "undo acceptor", "undo codgram"} OBVIOUS
  <2> HIDE DEF undo
  <2> QED BY <1>1, <1>2, <1>3, <2>1, <2>2, StartInv
<1>4. CASE ~conf.limit /\ step' = "loop" /\ held' = held
  <2>1. \A x \in held : x \in Resources /\ Timely(x[1]) BY DEF ServerInv
  <2>2. ASSUME NEW x \in held PROVE Timely(x[1])'
    BY <1>1, <1>2, <1>4, <2>1, StaysPlaced DEF Timely
  <2>3. Base \in held /\ last = 0 /\ team \in Seq(Workers) /\ team # <<>>
    BY <1>1 DEF ServerInv, Spans
  <2>4. step' \in Spans["loop"] BY <1>4 DEF Spans
  <2>5. held' \subseteq Resources BY <1>4, <2>1
  <2>6. \A x \in held' : Timely(x[1])' BY <1>4, <2>2
  <2> QED BY <1>1, <1>4, <2>3, <2>4, <2>5, <2>6, StepInv
<1> QED BY <1>3, <1>4 DEF StartFlowGrab, Goes

-----------------------------------------------------------------------------
(* The parts are undone or stopped. *)

\* A part that is stopped gives back all it holds, and the others have their
\* time at the next step.
LEMMA StopInv ==
  ASSUME ServerInv, NEW p \in {"connector", "acceptor", "codgram"},
         NEW from, NEW next, Stop(p, from, next),
         next \in Spans["loop"] \ {"stop loop"},
         next \notin {"connector", "workers", "acceptor", "codgram", "flow", "loop"},
         from \in Spans["loop"],
         \A x \in held : x[1] = p \/ next \in Spans[Kind(x[1])]
  PROVE  ServerInv'
<1>1. /\ step = from /\ step' = next /\ held' = held \ Has(p)
      /\ team' = team /\ Keeps
  BY DEF Stop, Goes
<1>2. Base \in held /\ held \subseteq Resources /\ team \in Seq(Workers)
  BY <1>1 DEF ServerInv
<1>3. Base[1] # p BY DEF Base
<1>4. ASSUME NEW x \in held' PROVE Timely(x[1])' /\ x \in Resources
  <2>1. x \in held /\ x[1] # p BY <1>1 DEF Has
  <2>2. step' \in Spans[Kind(x[1])] BY <1>1, <2>1
  <2>3. Timely(x[1]) BY <2>1 DEF ServerInv
  <2>4. x[1] \in Workers => x[1] \in ToSet(team') BY <1>1, <2>3 DEF Timely
  <2>5. step' \notin {"stop loop", "end"} BY <1>1 DEF Spans
  <2> QED BY <1>1, <1>2, <2>1, <2>2, <2>4, <2>5, StaysPlaced
<1>5. Base \in held' BY <1>1, <1>2, <1>3 DEF Has
<1> QED BY <1>1, <1>2, <1>4, <1>5, StepInv

\* The loop goes last, when nothing is registered with it.
LEMMA StopLoopInv ==
  ASSUME ServerInv, NEW from \in {"undo loop", "stop loop"}, Stop("loop", from, "end")
  PROVE  ServerInv'
<1>1. /\ step = from /\ step' = "end" /\ held' = held \ Has("loop")
      /\ team' = team /\ Keeps
  BY DEF Stop, Goes
<1>2. held \subseteq Resources /\ team \in Seq(Workers) BY DEF ServerInv
<1>3. ASSUME NEW x \in held' PROVE Timely(x[1])' /\ x \in Resources
  <2>1. x \in held /\ x[1] # "loop" BY <1>1 DEF Has
  <2>2. Kind(x[1]) # "loop" BY <2>1, PartOf
  <2>3. Kind(x[1]) = "flow" /\ step = "stop loop" BY <1>1, <2>1, <2>2, HeldAt DEF Spans
  <2>4. x[1] = "flow" /\ x[1] \notin Workers BY <2>1, <2>3, PartOf, PartsDiffer
  <2>5. "end" \in Spans["flow"] BY DEF Spans
  <2> QED BY <1>1, <1>2, <2>1, <2>3, <2>4, <2>5, StaysPlaced
<1>4. "end" \notin Spans["loop"] BY DEF Spans
<1> QED BY <1>1, <1>2, <1>3, <1>4, StepInv
LEMMA TailKeeps ==
  ASSUME NEW S, NEW s \in Seq(S), s # <<>>, NEW e \in ToSet(s), e # Head(s)
  PROVE  e \in ToSet(Tail(s))
<1>1. PICK i \in DOMAIN s : s[i] = e BY DEF ToSet
<1>2. i \in 2..Len(s) BY <1>1
<1>3. Tail(s) \in Seq(S) /\ Len(Tail(s)) = Len(s) - 1 BY SMT
<1>4. i - 1 \in DOMAIN Tail(s) /\ Tail(s)[i - 1] = e BY <1>1, <1>2, <1>3
<1> QED BY <1>4 DEF ToSet

LEMMA HeadAndTail ==
  ASSUME NEW S, NEW s \in Seq(S), s # <<>>
  PROVE  Head(s) \in S /\ Tail(s) \in Seq(S)
BY SMT

LEMMA NothingInEmpty == ToSet(<<>>) = {}
<1>1. DOMAIN <<>> = 1..0 BY SMT
<1>2. \A i \in 1..0 : FALSE BY SMT
<1> QED BY <1>1, <1>2 DEF ToSet

\* The workers are stopped one by one, and none holds anything at the end.
LEMMA StopWorkersInv ==
  ASSUME ServerInv, NEW from \in {"undo workers", "stop workers"},
         NEW next \in {"undo connector", "stop codgram"},
         StopWorkers(from, next),
         \A x \in held : x[1] \in Workers \/ next \in Spans[Kind(x[1])]
  PROVE  ServerInv'
<1>1. step = from /\ Keeps BY DEF StopWorkers
<1>2. from \in Spans["loop"] /\ next \in Spans["loop"] BY DEF Spans
<1>3. Base \in held /\ held \subseteq Resources /\ team \in Seq(Workers)
  BY <1>1, <1>2 DEF ServerInv
<1>4. CASE team # <<>> /\ StopsOne(Head(team)) /\ step' = step
  <2>1. held' = held \ Has(Head(team)) /\ team' = Tail(team) BY <1>4 DEF StopsOne
  <2>2. Head(team) \in Workers /\ team' \in Seq(Workers) BY <1>3, <1>4, <2>1, HeadAndTail
  <2>3. Base[1] # Head(team) BY <2>2, PartsDiffer DEF Base
  <2>4. Base \in held' BY <1>3, <2>1, <2>3 DEF Has
  <2>5. ASSUME NEW x \in held' PROVE Timely(x[1])' /\ x \in Resources
    <3>1. x \in held /\ x[1] # Head(team) BY <2>1 DEF Has
    <3>2. Timely(x[1]) BY <3>1 DEF ServerInv
    <3>3. x[1] \in Workers => x[1] \in ToSet(team') BY <1>3, <1>4, <2>1, <3>1, <3>2, TailKeeps DEF Timely
    <3> QED BY <1>1, <1>3, <1>4, <3>1, <3>3, StaysPlaced
  <2>6. step' \in Spans["loop"]
        /\ step' \notin {"connector", "workers", "acceptor", "codgram", "flow", "loop"}
    BY <1>1, <1>2, <1>4
  <2> QED BY <1>1, <2>2, <2>4, <2>5, <2>6, StepInv
<1>5. CASE team = <<>> /\ step' = next /\ held' = held /\ team' = team
  <2>1. ASSUME NEW x \in held' PROVE Timely(x[1])' /\ x \in Resources
    <3>1. x \in held /\ Timely(x[1]) BY <1>5 DEF ServerInv
    <3>2. x[1] \notin Workers BY <1>5, <3>1, NothingInEmpty DEF Timely
    <3>3. step' \in Spans[Kind(x[1])] BY <1>5, <3>1, <3>2
    <3> QED BY <1>1, <1>3, <1>5, <3>1, <3>2, <3>3, StaysPlaced
  <2>2. step' \notin {"connector", "workers", "acceptor", "codgram", "flow", "loop"} BY <1>5
  <2> QED BY <1>1, <1>2, <1>3, <1>5, <2>1, <2>2, StepInv
<1> QED BY <1>4, <1>5 DEF StopWorkers, Goes

\* A step that stops nothing because nothing is there to stop.
LEMMA PassInv ==
  ASSUME ServerInv, Keeps, team' = team, held' \subseteq held, Base \in held',
         step' \in Spans["loop"] \ {"stop loop"}, step \in Spans["loop"],
         step' \notin {"connector", "workers", "acceptor", "codgram", "flow", "loop"},
         \A x \in held : step' \in Spans[Kind(x[1])]
  PROVE  ServerInv'
<1>1. team \in Seq(Workers) /\ held \subseteq Resources BY DEF ServerInv
<1>2. ASSUME NEW x \in held' PROVE Timely(x[1])' /\ x \in Resources
  <2>1. x \in held /\ Timely(x[1]) BY DEF ServerInv
  <2>2. x[1] \in Workers => x[1] \in ToSet(team') BY <2>1 DEF Timely
  <2>3. step' \notin {"stop loop", "end"} BY DEF Spans
  <2> QED BY <1>1, <2>1, <2>2, <2>3, StaysPlaced
<1> QED BY <1>1, <1>2, StepInv

LEMMA UndoInv == ASSUME ServerInv, Undo PROVE ServerInv'
<1>1. CASE Stop("codgram", "undo codgram", "undo acceptor")
  <2>1. step = "undo codgram" BY <1>1 DEF Stop
  <2>2. ASSUME NEW x \in held PROVE x[1] = "codgram" \/ "undo acceptor" \in Spans[Kind(x[1])]
    <3>1. Kind(x[1]) \in {"loop", "connector", "worker", "acceptor", "codgram"}
      BY <2>1, HeldAt DEF Spans
    <3>2. /\ "undo acceptor" \in Spans["loop"] /\ "undo acceptor" \in Spans["connector"]
          /\ "undo acceptor" \in Spans["worker"] /\ "undo acceptor" \in Spans["acceptor"]
      BY DEF Spans
    <3> QED BY <3>1, <3>2, PartOf
  <2>3. "undo acceptor" \in Spans["loop"] /\ "undo codgram" \in Spans["loop"] BY DEF Spans
  <2> QED BY <1>1, <2>2, <2>3, StopInv
<1>2. CASE Stop("acceptor", "undo acceptor", "undo workers")
  <2>1. step = "undo acceptor" BY <1>2 DEF Stop
  <2>2. ASSUME NEW x \in held PROVE x[1] = "acceptor" \/ "undo workers" \in Spans[Kind(x[1])]
    <3>1. Kind(x[1]) \in {"loop", "connector", "worker", "acceptor"}
      BY <2>1, HeldAt DEF Spans
    <3>2. /\ "undo workers" \in Spans["loop"] /\ "undo workers" \in Spans["connector"]
          /\ "undo workers" \in Spans["worker"]
      BY DEF Spans
    <3> QED BY <3>1, <3>2, PartOf
  <2>3. "undo workers" \in Spans["loop"] /\ "undo acceptor" \in Spans["loop"] BY DEF Spans
  <2> QED BY <1>2, <2>2, <2>3, StopInv
<1>3. CASE StopWorkers("undo workers", "undo connector")
  <2>1. step = "undo workers" BY <1>3 DEF StopWorkers
  <2>2. ASSUME NEW x \in held PROVE x[1] \in Workers \/ "undo connector" \in Spans[Kind(x[1])]
    <3>1. Kind(x[1]) \in {"loop", "connector", "worker"} BY <2>1, HeldAt DEF Spans
    <3>2. "undo connector" \in Spans["loop"] /\ "undo connector" \in Spans["connector"]
      BY DEF Spans
    <3> QED BY <3>1, <3>2, PartOf
  <2> QED BY <1>3, <2>2, StopWorkersInv
<1>4. CASE Stop("connector", "undo connector", "undo loop")
  <2>1. step = "undo connector" BY <1>4 DEF Stop
  <2>2. ASSUME NEW x \in held PROVE x[1] = "connector" \/ "undo loop" \in Spans[Kind(x[1])]
    <3>1. Kind(x[1]) \in {"loop", "connector"} BY <2>1, HeldAt DEF Spans
    <3>2. "undo loop" \in Spans["loop"] BY DEF Spans
    <3> QED BY <3>1, <3>2, PartOf
  <2>3. "undo loop" \in Spans["loop"] /\ "undo connector" \in Spans["loop"] BY DEF Spans
  <2> QED BY <1>4, <2>2, <2>3, StopInv
<1>5. CASE ~conf.p2p /\ step = "undo connector" /\ step' = "undo loop"
           /\ UNCHANGED <<held, team>> /\ Keeps
  <2>1. ASSUME NEW x \in held PROVE step' \in Spans[Kind(x[1])]
    <3>1. Kind(x[1]) \in {"loop", "connector"} BY <1>5, HeldAt DEF Spans
    <3>2. Kind(x[1]) # "connector" BY <1>5, PartOf, PartsDiffer DEF Timely
    <3>3. step' \in Spans["loop"] BY <1>5 DEF Spans
    <3> QED BY <3>1, <3>2, <3>3
  <2>2. step \in Spans["loop"] /\ step' \in Spans["loop"] BY <1>5 DEF Spans
  <2>3. Base \in held' BY <1>5, <2>2 DEF ServerInv
  <2> QED BY <1>5, <2>1, <2>2, <2>3, PassInv
<1>6. CASE Stop("loop", "undo loop", "end") BY <1>6, StopLoopInv
<1> QED BY <1>1, <1>2, <1>3, <1>4, <1>5, <1>6 DEF Undo, Goes
\* connector::close of a connector that was never opened takes a descriptor
\* from another part, and adds nothing.
LEMMA UnopenedInv == ASSUME ServerInv, StopUnopened PROVE ServerInv'
<1>1. step = "stop connector" /\ ~conf.p2p /\ step' = "stop acceptor" /\ team' = team /\ Keeps
  BY DEF StopUnopened, Goes
<1>2. PICK hit \in SUBSET {x \in held : x[2] \in {"sock", "pipe", "pcap"}} : held' = held \ hit
  BY DEF StopUnopened
<1>3. step \in Spans["loop"] /\ step' \in Spans["loop"] BY <1>1 DEF Spans
<1>4. Base \in held BY <1>3 DEF ServerInv
<1>5. Base \in held' BY <1>2, <1>4 DEF Base
<1>6. ASSUME NEW x \in held PROVE step' \in Spans[Kind(x[1])]
  <2>1. Kind(x[1]) \in {"loop", "connector", "worker", "acceptor", "codgram", "flow"}
    BY PartOf
  <2>2. Kind(x[1]) # "connector" BY <1>1, PartOf, PartsDiffer DEF Timely
  <2>3. /\ step' \in Spans["worker"] /\ step' \in Spans["acceptor"]
        /\ step' \in Spans["codgram"] /\ step' \in Spans["flow"]
    BY <1>1 DEF Spans
  <2> QED BY <1>3, <2>1, <2>2, <2>3
<1> QED BY <1>1, <1>2, <1>3, <1>5, <1>6, PassInv

\* A capture that the limits no longer ask for stays; one that they ask for
\* goes.
LEMMA StopFlowInv == ASSUME ServerInv, StopFlowGrab PROVE ServerInv'
<1>1. step = "stop flow" /\ step' = "stop loop" /\ team' = team /\ Keeps
  BY DEF StopFlowGrab, Goes
<1>2. held' = IF conf.limit THEN held \ Has("flow") ELSE held BY DEF StopFlowGrab
<1>3. "stop flow" \in Spans["loop"] /\ "stop loop" \in Spans["loop"] /\ "stop loop" \in Spans["flow"]
  BY DEF Spans
<1>4. Base \in held /\ held \subseteq Resources /\ team \in Seq(Workers)
  BY <1>1, <1>3 DEF ServerInv
<1>5. Base \in held' BY <1>2, <1>4 DEF Base, Has
<1>6. ASSUME NEW x \in held' PROVE Timely(x[1])' /\ x \in Resources
  <2>1. x \in held /\ Timely(x[1]) BY <1>2 DEF ServerInv
  <2>2. Kind(x[1]) \in {"loop", "flow"} BY <1>1, <2>1, HeldAt DEF Spans
  <2>3. step' \in Spans[Kind(x[1])] BY <1>1, <1>3, <2>2
  <2>4. x[1] \notin Workers BY <2>1, <2>2, PartOf
  <2>5. x[1] = "flow" => conf.lifted BY <1>2, <2>1 DEF Timely, Has
  <2> QED BY <1>1, <1>4, <2>1, <2>3, <2>4, <2>5, StaysPlaced
<1> QED BY <1>1, <1>3, <1>4, <1>5, <1>6, StepInv

LEMMA StopAllInv == ASSUME ServerInv, StopAll PROVE ServerInv'
<1>1. CASE Stop("connector", "stop connector", "stop acceptor")
  <2>1. ASSUME NEW x \in held PROVE x[1] = "connector" \/ "stop acceptor" \in Spans[Kind(x[1])]
    <3>1. Kind(x[1]) \in {"loop", "connector", "worker", "acceptor", "codgram", "flow"}
      BY PartOf
    <3>2. /\ "stop acceptor" \in Spans["loop"] /\ "stop acceptor" \in Spans["worker"]
          /\ "stop acceptor" \in Spans["acceptor"] /\ "stop acceptor" \in Spans["codgram"]
          /\ "stop acceptor" \in Spans["flow"]
      BY DEF Spans
    <3> QED BY <3>1, <3>2, PartOf
  <2>2. "stop acceptor" \in Spans["loop"] /\ "stop connector" \in Spans["loop"] BY DEF Spans
  <2> QED BY <1>1, <2>1, <2>2, StopInv
<1>2. CASE StopUnopened BY <1>2, UnopenedInv
<1>3. CASE Stop("acceptor", "stop acceptor", "stop workers")
  <2>1. step = "stop acceptor" BY <1>3 DEF Stop
  <2>2. ASSUME NEW x \in held PROVE x[1] = "acceptor" \/ "stop workers" \in Spans[Kind(x[1])]
    <3>1. Kind(x[1]) \in {"loop", "worker", "acceptor", "codgram", "flow"}
      BY <2>1, HeldAt DEF Spans
    <3>2. /\ "stop workers" \in Spans["loop"] /\ "stop workers" \in Spans["worker"]
          /\ "stop workers" \in Spans["codgram"] /\ "stop workers" \in Spans["flow"]
      BY DEF Spans
    <3> QED BY <3>1, <3>2, PartOf
  <2>3. "stop workers" \in Spans["loop"] /\ "stop acceptor" \in Spans["loop"] BY DEF Spans
  <2> QED BY <1>3, <2>2, <2>3, StopInv
<1>4. CASE StopWorkers("stop workers", "stop codgram")
  <2>1. step = "stop workers" BY <1>4 DEF StopWorkers
  <2>2. ASSUME NEW x \in held PROVE x[1] \in Workers \/ "stop codgram" \in Spans[Kind(x[1])]
    <3>1. Kind(x[1]) \in {"loop", "worker", "codgram", "flow"} BY <2>1, HeldAt DEF Spans
    <3>2. /\ "stop codgram" \in Spans["loop"] /\ "stop codgram" \in Spans["codgram"]
          /\ "stop codgram" \in Spans["flow"]
      BY DEF Spans
    <3> QED BY <3>1, <3>2, PartOf
  <2> QED BY <1>4, <2>2, StopWorkersInv
<1>5. CASE Stop("codgram", "stop codgram", "stop flow")
  <2>1. step = "stop codgram" BY <1>5 DEF Stop
  <2>2. ASSUME NEW x \in held PROVE x[1] = "codgram" \/ "stop flow" \in Spans[Kind(x[1])]
    <3>1. Kind(x[1]) \in {"loop", "codgram", "flow"} BY <2>1, HeldAt DEF Spans
    <3>2. "stop flow" \in Spans["loop"] /\ "stop flow" \in Spans["flow"] BY DEF Spans
    <3> QED BY <3>1, <3>2, PartOf
  <2>3. "stop flow" \in Spans["loop"] /\ "stop codgram" \in Spans["loop"] BY DEF Spans
  <2> QED BY <1>5, <2>2, <2>3, StopInv
<1>6. CASE StopFlowGrab BY <1>6, StopFlowInv
<1>7. CASE Stop("loop", "stop loop", "end") BY <1>7, StopLoopInv
<1> QED BY <1>1, <1>2, <1>3, <1>4, <1>5, <1>6, <1>7 DEF StopAll

-----------------------------------------------------------------------------
(* The loop *)

LEMMA TerminateInv == ASSUME ServerInv, Terminate PROVE ServerInv'
<1>1. step = "loop" /\ step' = "stop connector" /\ UNCHANGED <<held, team>> /\ Keeps
  BY DEF Terminate, Goes
<1>2. step \in Spans["loop"] /\ step' \in Spans["loop"] BY <1>1 DEF Spans
<1>3. Base \in held' BY <1>1, <1>2 DEF ServerInv
<1>4. ASSUME NEW x \in held PROVE step' \in Spans[Kind(x[1])]
  <2>1. Kind(x[1]) \in {"loop", "connector", "worker", "acceptor", "codgram", "flow"}
    BY PartOf
  <2>2. /\ step' \in Spans["loop"] /\ step' \in Spans["connector"] /\ step' \in Spans["worker"]
        /\ step' \in Spans["acceptor"] /\ step' \in Spans["codgram"] /\ step' \in Spans["flow"]
    BY <1>1 DEF Spans
  <2> QED BY <2>1, <2>2
<1> QED BY <1>1, <1>2, <1>3, <1>4, PassInv

\* A reload that takes a limit back leaves a mark for the capture it strands.
LEMMA ReconfigureInv == ASSUME ServerInv, Reconfigure PROVE ServerInv'
<1>1. UNCHANGED <<step, held, team, listen, last>> BY DEF Reconfigure
<1>2. PICK l \in BOOLEAN :
        conf' = [conf EXCEPT !.limit = l, !.lifted = @ \/ (conf.limit /\ ~l)]
  BY DEF Reconfigure
<1>3. conf \in Confs BY DEF ServerInv
<1>4. conf' \in Confs BY <1>2, <1>3 DEF Confs
<1>5. /\ conf'.p2p = conf.p2p /\ conf'.disp = conf.disp
      /\ conf.lifted => conf'.lifted
      /\ conf.limit \/ conf.lifted => conf'.limit \/ conf'.lifted
  BY <1>2, <1>3 DEF Confs
<1>6. ASSUME NEW x \in held' PROVE Timely(x[1])'
  <2>1. Timely(x[1]) BY <1>1 DEF ServerInv
  <2> QED BY <1>1, <1>5, <2>1 DEF Timely, Kind
<1> QED BY <1>1, <1>4, <1>6 DEF ServerInv

\* The steps of the loop that touch the listening socket alone.
LEMMA ListenInv ==
  ASSUME ServerInv, UNCHANGED <<step, held, team, conf, last>>,
         listen' \in [waits : 0..Backlog, edge : BOOLEAN, on : BOOLEAN, gaveUp : BOOLEAN],
         listen'.waits > 0 => listen'.edge \/ listen'.gaveUp
  PROVE  ServerInv'
<1>1. ASSUME NEW x \in held' PROVE Timely(x[1])' BY DEF ServerInv, Timely, Kind
<1> QED BY <1>1 DEF ServerInv

LEMMA ReportLoadInv == ASSUME ServerInv, ReportLoad PROVE ServerInv'
<1>1. PICK over \in BOOLEAN : listen' = [listen EXCEPT !.on = ~(conf.limit /\ over)]
  BY DEF ReportLoad
<1> DEFINE b == ~(conf.limit /\ over)
<1>2. b \in BOOLEAN OBVIOUS
<1>3. listen' = [listen EXCEPT !.on = b] BY <1>1
<1> HIDE DEF b
<1>4. listen \in [waits : 0..Backlog, edge : BOOLEAN, on : BOOLEAN, gaveUp : BOOLEAN]
  BY DEF ServerInv
<1>5. listen' \in [waits : 0..Backlog, edge : BOOLEAN, on : BOOLEAN, gaveUp : BOOLEAN]
  BY <1>2, <1>3, <1>4
<1>6. listen'.waits = listen.waits /\ listen'.edge = listen.edge /\ listen'.gaveUp = listen.gaveUp
  BY <1>3, <1>4
<1>7. listen.waits > 0 => listen.edge \/ listen.gaveUp BY DEF ServerInv
<1> QED BY <1>5, <1>6, <1>7, ListenInv DEF ReportLoad

LEMMA ConnectInv == ASSUME ServerInv, Connect PROVE ServerInv'
<1>1. listen.waits < Backlog /\ listen' = [listen EXCEPT !.waits = @ + 1, !.edge = TRUE]
  BY DEF Connect
<1>2. listen \in [waits : 0..Backlog, edge : BOOLEAN, on : BOOLEAN, gaveUp : BOOLEAN]
  BY DEF ServerInv
<1> DEFINE n == listen.waits + 1
<1>3. n \in 0..Backlog BY <1>1, <1>2, ServerAssumption
<1>4. listen' = [listen EXCEPT !.waits = n, !.edge = TRUE] BY <1>1
<1> HIDE DEF n
<1>5. listen' \in [waits : 0..Backlog, edge : BOOLEAN, on : BOOLEAN, gaveUp : BOOLEAN]
  BY <1>2, <1>3, <1>4
<1>6. listen'.edge = TRUE BY <1>2, <1>4
<1> QED BY <1>5, <1>6, ListenInv DEF Connect
\* The whole backlog is taken, or the rest stays behind a failure.
LEMMA AcceptInv == ASSUME ServerInv, HandleAccept PROVE ServerInv'
<1>1. PICK a \in Accepts(listen.waits) :
        /\ listen' = [listen EXCEPT !.waits = @ - a.taken, !.edge = FALSE, !.gaveUp = a.gaveUp]
        /\ \E given \in 0..(IF listen.on THEN a.taken ELSE 0) : last' = WorkerAfter(given)
  BY DEF HandleAccept
<1>2. step = "loop" /\ UNCHANGED <<step, held, team, conf>> BY DEF HandleAccept
<1>3. listen \in [waits : 0..Backlog, edge : BOOLEAN, on : BOOLEAN, gaveUp : BOOLEAN]
  BY DEF ServerInv
<1>4. listen.waits \in 0..Backlog /\ Backlog \in Nat BY <1>3, ServerAssumption
<1>5. \/ a.taken = listen.waits /\ a.gaveUp = FALSE
      \/ a.taken \in 0..(listen.waits - 1) /\ a.gaveUp = TRUE
  BY DEF Accepts, Through
<1> DEFINE n == listen.waits - a.taken
           g == a.gaveUp
<1>6. n \in 0..Backlog /\ a.taken \in Nat BY <1>4, <1>5
<1>7. g \in BOOLEAN /\ (n > 0 => g)
  <2>1. g \in BOOLEAN BY <1>5
  <2>2. CASE a.taken = listen.waits
    <3>1. n = 0 BY <2>2, <1>4
    <3> QED BY <2>1, <3>1
  <2>3. CASE a.gaveUp = TRUE BY <2>3
  <2> QED BY <1>5, <2>2, <2>3
<1>8. listen' = [listen EXCEPT !.waits = n, !.edge = FALSE, !.gaveUp = g] BY <1>1
<1>9. PICK given \in 0..(IF listen.on THEN a.taken ELSE 0) : last' = (last + given) % Len(team)
  BY <1>1 DEF WorkerAfter
<1>10. given \in Nat BY <1>6, <1>9
<1> HIDE DEF n, g
<1>11. listen' \in [waits : 0..Backlog, edge : BOOLEAN, on : BOOLEAN, gaveUp : BOOLEAN]
  BY <1>3, <1>6, <1>7, <1>8
<1>12. listen'.waits = n /\ listen'.gaveUp = g BY <1>3, <1>8
<1>13. listen'.waits > 0 => listen'.edge \/ listen'.gaveUp BY <1>7, <1>12
<1>14. last' \in 0..(Len(team') - 1)
  <2>1. last \in 0..(Len(team) - 1) /\ team \in Seq(Workers) BY <1>2 DEF ServerInv
  <2>2. Len(team) \in Nat /\ Len(team) > 0 BY <2>1
  <2> QED BY <1>2, <1>9, <1>10, <2>1, <2>2
<1>15. ASSUME NEW x \in held' PROVE Timely(x[1])'
  BY <1>2 DEF ServerInv, Timely, Kind
<1>16. step' \notin {"begin", "connector", "workers", "acceptor", "codgram", "flow"} BY <1>2
<1> QED BY <1>2, <1>11, <1>13, <1>14, <1>15, <1>16 DEF ServerInv

LEMMA ServerInitInv == ASSUME ServerInit PROVE ServerInv
<1>1. conf \in Confs BY DEF ServerInit, Confs
<1>2. listen \in [waits : 0..Backlog, edge : BOOLEAN, on : BOOLEAN, gaveUp : BOOLEAN]
  BY ServerAssumption DEF ServerInit
<1>3. listen.waits = 0 BY DEF ServerInit
<1>4. team \in Seq(Workers) BY DEF ServerInit
<1>5. step = "begin" /\ held = {} /\ last = 0 BY DEF ServerInit
<1>6. "begin" \notin Spans["loop"] BY DEF Spans
<1> QED BY <1>1, <1>2, <1>3, <1>4, <1>5, <1>6 DEF ServerInv

LEMMA ServerNextInv == ASSUME ServerInv, [ServerNext]_serverVars PROVE ServerInv'
<1>1. CASE UNCHANGED serverVars
  <2>1. UNCHANGED <<step, held, team, conf, listen, last>> BY <1>1 DEF serverVars
  <2> QED BY ZenonT(30), <2>1 DEF ServerInv, Timely, Kind, Confs
<1>2. CASE ServerNext
  BY <1>2, BeginInv, ConnectorInv, WorkersInv, AcceptorsInv, CodgramInv, FlowGrabInv, UndoInv,
     StopAllInv, TerminateInv, ReconfigureInv, ReportLoadInv, ConnectInv, AcceptInv
     DEF ServerNext
<1> QED BY <1>1, <1>2

\* The life of the server keeps every part within its time.
THEOREM ServerInvariance == ServerSpec => []ServerInv
BY ServerInitInv, ServerNextInv, PTL DEF ServerSpec

\* The server's variables keep their types, and connections always go to one
\* of the workers there are.
THEOREM ServerTypeCorrect == ServerSpec => []ServerTypeOK
<1>1. ServerInv => ServerTypeOK
  <2>1. SUFFICES ASSUME ServerInv PROVE ServerTypeOK OBVIOUS
  <2>2. team \in Seq(Workers) BY <2>1 DEF ServerInv
  <2>3. \A i \in DOMAIN team : team[i] \in Workers BY <2>2
  <2>4. ToSet(team) \subseteq Workers BY <2>3 DEF ToSet
  <2> QED BY <2>1, <2>4 DEF ServerInv, ServerTypeOK, Confs
<1> QED BY <1>1, ServerInvariance, PTL

\* Whichever start fails and whenever the stop comes, no part keeps anything
\* in the end but a capture whose limit a reload has taken back, and no event
\* outlives the loop, with any workers.
THEOREM EndsClean == ServerSpec => []CleanEnd
<1>1. ASSUME ServerInv PROVE CleanEnd
  <2> DEFINE capture == IF conf.lifted THEN Has("flow") ELSE {}
  <2>1. ASSUME step = "end" PROVE held \subseteq capture
    <3>1. SUFFICES ASSUME NEW x \in held PROVE x \in capture OBVIOUS
    <3>2. Kind(x[1]) = "flow" BY <1>1, <2>1, HeldAt DEF Spans
    <3>3. x[1] = "flow" BY <1>1, <3>2, PartOf, PartsDiffer
    <3>4. conf.lifted BY <1>1, <2>1, <3>3, PartOf DEF Timely
    <3> QED BY <3>3, <3>4 DEF Has
  <2>2. ASSUME Base \notin held PROVE (held \ capture) \cap Events = {}
    <3>1. step \in {"begin", "end"} BY <1>1, <2>2 DEF ServerInv
    <3>2. ASSUME step = "begin" PROVE held = {}
      <4>1. \A x \in held : FALSE BY <1>1, <3>2, HeldAt DEF Spans
      <4> QED BY <4>1
    <3> QED BY <2>1, <3>1, <3>2
  <2> QED BY <2>1, <2>2 DEF CleanEnd
<1> QED BY <1>1, ServerInvariance, PTL

\* No connection waits at an idle acceptor, for any backlog.
THEOREM BacklogIsWatched == ServerSpec => []BacklogWatched
<1>1. ServerInv => BacklogWatched BY DEF ServerInv, BacklogWatched
<1> QED BY <1>1, ServerInvariance, PTL

-----------------------------------------------------------------------------
(* The parts together. *)

\* A step is one of a part that leaves the variables of the others alone.
LEMMA PartsStep ==
  ASSUME [Next]_partsVars
  PROVE  /\ [WheelNext]_wheelVars /\ [TlsNext]_tlsVars /\ [PoolNext]_poolVars
         /\ [ServerNext]_serverVars /\ [ParserNext]_parserVars /\ [PipeNext]_pipeVars
         /\ [UriNext]_id /\ [LoadNext]_load
<1>1. CASE UNCHANGED partsVars BY <1>1 DEF partsVars
<1>2. CASE Next BY <1>2 DEF Next
<1> QED BY <1>1, <1>2

\* Every behaviour of MCParts is one of each part by its own specification: no
\* part disturbs another.
THEOREM PartsImplemented ==
  Spec => /\ WheelSpec /\ TlsSpec /\ PoolSpec /\ ServerSpec
          /\ ParserSpec /\ PipeSpec /\ UriSpec /\ LoadSpec
<1>1. Init => /\ WheelInit /\ TlsInit /\ PoolInit /\ ServerInit
              /\ ParserInit /\ PipeInit /\ UriInit /\ LoadInit
  BY DEF Init
<1>2. [Next]_partsVars => /\ [WheelNext]_wheelVars /\ [TlsNext]_tlsVars /\ [PoolNext]_poolVars
                          /\ [ServerNext]_serverVars /\ [ParserNext]_parserVars
                          /\ [PipeNext]_pipeVars /\ [UriNext]_id /\ [LoadNext]_load
  BY PartsStep
<1> QED
  BY <1>1, <1>2, PTL
     DEF Spec, WheelSpec, TlsSpec, PoolSpec, ServerSpec, ParserSpec, PipeSpec, UriSpec, LoadSpec

\* Whichever part a behaviour is of, the variables of all have their types.
THEOREM PartsTypeCorrect == Spec => []TypeOK
<1>1. TypeOK <=> /\ WheelTypeOK /\ TlsTypeOK /\ PoolTypeOK /\ ServerTypeOK
                 /\ ParserTypeOK /\ PipeTypeOK /\ UriTypeOK /\ LoadTypeOK
  BY DEF TypeOK
<1> QED
  BY <1>1, PartsImplemented, WheelTypeCorrect, TlsTypeCorrect, PoolTypeCorrect, ServerTypeCorrect,
     ParserTypeCorrect, PipeTypeCorrect, UriTypeCorrect, LoadTypeCorrect, PTL

\* And what each part promises holds where they are checked together.
THEOREM PartsSafe ==
  Spec => /\ [](IdleEnds /\ ClearKeepsItsPlace /\ RetriedWhereWanted /\ EdgesSurviveSwaps)
          /\ [](NoOverlap /\ CleanEnd /\ BacklogWatched /\ HeaderIsDecided)
          /\ [](InFrame /\ IdIsDecoded)
          /\ DroppedWasIdle /\ NothingAfterExit /\ AcceptFollowsRate
BY PartsImplemented, IdleConnectionsEnd, KeepsItsPlace, CallsAreRepeated, SwapsKeepEdges,
   PiecesApart, EndsClean, BacklogIsWatched, HeadersAreDecided, StaysInFrame, NamesAreDecoded,
   DropsTheIdle, ExitIsLast, AcceptsByRate, PTL
=============================================================================
