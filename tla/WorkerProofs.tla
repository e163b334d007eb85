------------------------------ MODULE WorkerProofs ------------------------------
(***************************************************************************)
(* Proofs about what a worker is made of.  Its pipe: for any crew and any  *)
(* capacity that holds a message, a worker reads each message from its     *)
(* type on, and nothing after the exit.  Its timing wheel: for any         *)
(* connections and a ring of any length, what was idle for the whole ring  *)
(* is closed, and what is closed was idle for the whole ring.  The memory  *)
(* pools of its build with _USE_MEM_POOL: for any sizes and any threads,   *)
(* no address is in two blocks, nodes or rests of a chunk.                 *)
(***************************************************************************)
EXTENDS WorkerPipe, Wheel, BasicPool, Induction

-----------------------------------------------------------------------------
(* The pipe *)

Unit == {"add", "match", "exit", "body"}

Reader == [s : {"prepare", "add_conn", "match_conn"}, tran : {0, 1},
           size : {1}, broken : BOOLEAN]

Blocks == {None, Wait("ask", Connector)}
          \cup {Wait(what, w) : what \in {"add", "match", "exit", "join"}, w \in Crew}

\* What is left to read by a reader in state s: a body is there exactly when
\* the unit before it, or what was read last, is the type of one.
Framed(s, p) ==
  \A i \in 0..Len(p) :
    (IF i = 0 THEN s # "prepare" ELSE p[i] \in {"add", "match"})
      <=> i < Len(p) /\ p[i + 1] = "body"

\* Whoever has read an exit stands at pipe_size_, where a read ends the loop.
Stopped(r) == r.broken => r.tran = r.size

PipeInv == /\ pipe \in [Crew -> Seq(Unit)]
           /\ \A w \in Crew : Len(pipe[w]) <= Cap
           /\ edge \in [Crew -> BOOLEAN]
           /\ at \in [Crew -> {"events", "notify", "left", "deleted"}]
           /\ rd \in [Crew -> Reader]
           /\ asks \in [num : 0..AskCap, open : BOOLEAN]
           /\ waits \in [Threads -> Blocks]
           /\ main \in {"loop", "connector", "workers"}
           /\ sent \in 0..Sends
           /\ wrong \in {"nothing", "worker deleted"}
           /\ \A w \in Crew : at[w] # "deleted" => Framed(rd[w].s, pipe[w])
           /\ \A w \in Crew : Stopped(rd[w])

-----------------------------------------------------------------------------
(* Lemmas about sequences of units. *)

LEMMA UnitsFit ==
  ASSUME NEW what \in {"add", "match", "exit"}
  PROVE  /\ Units(what) \in Seq(Unit) /\ Len(Units(what)) \in 1..2
         /\ Units(what)[1] = what
         /\ what = "exit" => Len(Units(what)) = 1
         /\ what # "exit" => Len(Units(what)) = 2 /\ Units(what)[2] = "body"
<1>1. CASE what = "exit" BY <1>1 DEF Units, Unit
<1>2. CASE what # "exit" BY <1>2 DEF Units, Unit
<1> QED BY <1>1, <1>2

\* A message that is written as a whole keeps the frame.
LEMMA FramedAppend ==
  ASSUME NEW s, NEW p \in Seq(Unit), Framed(s, p), NEW what \in {"add", "match", "exit"}
  PROVE  Framed(s, p \o Units(what))
<1> DEFINE u == Units(what)
           q == p \o u
           Before(x, i) == IF i = 0 THEN s # "prepare" ELSE x[i] \in {"add", "match"}
<1>1. /\ u \in Seq(Unit) /\ Len(u) \in 1..2 /\ u[1] = what
      /\ what = "exit" => Len(u) = 1
      /\ what # "exit" => Len(u) = 2 /\ u[2] = "body"
  BY UnitsFit
<1> HIDE DEF u
<1>2. /\ Len(q) = Len(p) + Len(u) /\ Len(p) \in Nat
      /\ \A i \in 1..Len(p) : q[i] = p[i]
      /\ q[Len(p) + 1] = u[1]
      /\ Len(u) = 2 => q[Len(p) + 2] = u[2]
  BY <1>1
<1> HIDE DEF q
<1>3. ASSUME NEW i \in 0..(Len(p) - 1)
      PROVE  Before(q, i) <=> i < Len(q) /\ q[i + 1] = "body"
  <2>1. Before(q, i) <=> Before(p, i) BY <1>2
  <2>2. q[i + 1] = p[i + 1] /\ i < Len(p) /\ i < Len(q) /\ i \in 0..Len(p) BY <1>1, <1>2
  <2> QED BY <2>1, <2>2 DEF Framed
<1>4. Before(q, Len(p)) <=> Len(p) < Len(q) /\ q[Len(p) + 1] = "body"
  <2>1. ~Before(p, Len(p))
    BY <1>2 DEF Framed
  <2>2. ~Before(q, Len(p)) BY <1>2, <2>1
  <2>3. q[Len(p) + 1] # "body" BY <1>1, <1>2
  <2> QED BY <2>2, <2>3
<1>5. CASE what = "exit"
  <2>1. Len(q) = Len(p) + 1 /\ q[Len(p) + 1] = "exit" BY <1>1, <1>2, <1>5
  <2>2. ~Before(q, Len(p) + 1) BY <1>2, <2>1
  <2>3. Framed(s, q) BY <1>2, <1>3, <1>4, <2>1, <2>2 DEF Framed
  <2> QED BY <2>3 DEF q, u
<1>6. CASE what # "exit"
  <2>1. Len(q) = Len(p) + 2 BY <1>1, <1>2, <1>6
  <2>2. q[Len(p) + 1] \in {"add", "match"} /\ q[Len(p) + 2] = "body"
    BY <1>1, <1>2, <1>6
  <2>3. Before(q, Len(p) + 1) /\ ~Before(q, Len(p) + 2) BY <1>2, <2>2
  <2>4. Framed(s, q)
    <3> SUFFICES ASSUME NEW i \in 0..Len(q)
                 PROVE  Before(q, i) <=> i < Len(q) /\ q[i + 1] = "body"
      BY DEF Framed
    <3>1. CASE i \in 0..(Len(p) - 1) BY <1>3, <3>1
    <3>2. CASE i = Len(p) BY <1>4, <3>2
    <3>3. CASE i = Len(p) + 1
      <4>1. i < Len(q) /\ i + 1 = Len(p) + 2 BY <1>2, <2>1, <3>3
      <4> QED BY <2>2, <2>3, <3>3, <4>1
    <3>4. CASE i = Len(p) + 2 BY <1>2, <2>1, <2>3, <3>4
    <3> QED BY <1>2, <2>1, <3>1, <3>2, <3>3, <3>4
  <2> QED BY <2>4 DEF q, u
<1> QED BY <1>5, <1>6

LEMMA StateMachineTurns ==
  ASSUME NEW r \in Reader, NEW unit
  PROVE  /\ unit = "add" => StateMachine(r, unit) = [r EXCEPT !.s = "add_conn", !.tran = 0]
         /\ unit = "match" => StateMachine(r, unit) = [r EXCEPT !.s = "match_conn", !.tran = 0]
         /\ unit = "exit" => StateMachine(r, unit) = [r EXCEPT !.tran = 1, !.broken = TRUE]
         /\ unit = "body" => StateMachine(r, unit) = [r EXCEPT !.s = "prepare", !.tran = 0]
BY DEF StateMachine

\* A reader in frame finds what it waits for and stays in frame.
LEMMA FramedRead ==
  ASSUME NEW r \in Reader, NEW p \in Seq(Unit), Framed(r.s, p), p # <<>>
  PROVE  LET q == StateMachine(r, Head(p))
         IN /\ q \in Reader /\ Framed(q.s, Tail(p))
            /\ r.s # "prepare" <=> Head(p) = "body"
            /\ (~r.broken => Stopped(q))
<1> DEFINE q == StateMachine(r, Head(p))
           t == Tail(p)
<1>1. /\ Len(p) \in Nat /\ Len(p) > 0 /\ p[1] \in Unit /\ Head(p) = p[1]
      /\ t \in Seq(Unit) /\ Len(t) = Len(p) - 1
      /\ \A i \in 1..Len(t) : t[i] = p[i + 1]
  BY DEF Unit
<1> HIDE DEF t
<1>2. r.s # "prepare" <=> p[1] = "body" BY <1>1 DEF Framed
<1>3. q \in Reader /\ (q.s # "prepare" <=> p[1] \in {"add", "match"})
      /\ (~r.broken => Stopped(q))
  <2>1. CASE p[1] = "add"
    <3>1. q = [r EXCEPT !.s = "add_conn", !.tran = 0] BY <1>1, <2>1, StateMachineTurns
    <3> HIDE DEF q
    <3>2. q \in Reader /\ q.s = "add_conn" BY <3>1 DEF Reader
    <3>3. q.broken = r.broken BY <3>1 DEF Reader
    <3> QED BY <2>1, <3>2, <3>3 DEF Stopped
  <2>2. CASE p[1] = "match"
    <3>1. q = [r EXCEPT !.s = "match_conn", !.tran = 0] BY ZenonT(30), <1>1, <2>2, StateMachineTurns
    <3> HIDE DEF q
    <3>2. q \in Reader /\ q.s = "match_conn" BY <3>1 DEF Reader
    <3>3. q.broken = r.broken BY <3>1 DEF Reader
    <3> QED BY <2>2, <3>2, <3>3 DEF Stopped
  <2>3. CASE p[1] = "exit"
    <3>1. q = [r EXCEPT !.tran = 1, !.broken = TRUE] BY <1>1, <2>3, StateMachineTurns
    <3> HIDE DEF q
    <3>2. r.s = "prepare" BY <1>2, <2>3 DEF Reader
    <3>3. q \in Reader /\ q.s = "prepare" BY <3>1, <3>2 DEF Reader
    <3>4. q.tran = 1 /\ q.size = 1 BY <3>1 DEF Reader
    <3> QED BY <2>3, <3>3, <3>4 DEF Stopped
  <2>4. CASE p[1] = "body"
    <3>1. q = [r EXCEPT !.s = "prepare", !.tran = 0] BY ZenonT(30), <1>1, <2>4, StateMachineTurns
    <3> HIDE DEF q
    <3>2. q \in Reader /\ q.s = "prepare" BY <3>1 DEF Reader
    <3>3. q.broken = r.broken BY <3>1 DEF Reader
    <3> QED BY <2>4, <3>2, <3>3 DEF Stopped
  <2> QED BY <1>1, <2>1, <2>2, <2>3, <2>4 DEF Unit
<1> HIDE DEF q
<1>4. Framed(q.s, t)
  <2> SUFFICES ASSUME NEW i \in 0..Len(t)
               PROVE  (IF i = 0 THEN q.s # "prepare" ELSE t[i] \in {"add", "match"})
                        <=> i < Len(t) /\ t[i + 1] = "body"
    BY DEF Framed
  <2>1. i + 1 \in 0..Len(p) /\ i + 1 # 0 BY <1>1
  <2>2. p[i + 1] \in {"add", "match"} <=> i + 1 < Len(p) /\ p[i + 2] = "body"
    BY <2>1 DEF Framed
  <2>3. i < Len(t) <=> i + 1 < Len(p) BY <1>1
  <2>4. i < Len(t) => t[i + 1] = p[i + 2] BY <1>1
  <2>5. i # 0 => t[i] = p[i + 1] BY <1>1
  <2> QED BY <1>3, <2>2, <2>3, <2>4, <2>5
<1> QED BY <1>1, <1>2, <1>3, <1>4 DEF q, t

-----------------------------------------------------------------------------
(* The actions. *)

\* What the invariant says about numbers.
LEMMA PipeCounts ==
  ASSUME PipeInv
  PROVE  /\ \A w \in Crew : Len(pipe[w]) \in Nat /\ Len(pipe[w]) <= Cap
         /\ \A w \in Crew : Len(pipe[w]) >= Len(pipe[w])
         /\ asks.num \in 0..AskCap /\ sent \in 0..Sends
         /\ Cap \in Nat /\ AskCap \in Nat /\ Sends \in Nat
<1>1. pipe \in [Crew -> Seq(Unit)] /\ \A w \in Crew : Len(pipe[w]) <= Cap BY DEF PipeInv
<1>2. \A w \in Crew : Len(pipe[w]) \in Nat BY <1>1
<1>3. \A w \in Crew : Len(pipe[w]) >= Len(pipe[w]) BY <1>2
<1>4. asks \in [num : 0..AskCap, open : BOOLEAN] /\ sent \in 0..Sends BY DEF PipeInv
<1>5. asks.num \in 0..AskCap BY <1>4
<1>6. Cap \in Nat /\ AskCap \in Nat /\ Sends \in Nat BY PipeAssumption
<1> QED BY <1>1, <1>2, <1>3, <1>4, <1>5, <1>6

LEMMA PipeInitInv == PipeInit => PipeInv
<1> SUFFICES ASSUME PipeInit PROVE PipeInv OBVIOUS
<1>1. {Cap, AskCap, Sends} \subseteq Nat BY PipeAssumption
<1>2. pipe \in [Crew -> Seq(Unit)] /\ \A w \in Crew : pipe[w] = <<>> /\ Len(pipe[w]) = 0
  BY DEF PipeInit
<1>3. [s |-> "prepare", tran |-> 0, size |-> 1, broken |-> FALSE] \in Reader BY DEF Reader
<1>4. /\ rd \in [Crew -> Reader]
      /\ \A w \in Crew : rd[w].s = "prepare" /\ ~rd[w].broken
  BY <1>3 DEF PipeInit
<1>5. \A w \in Crew : Framed(rd[w].s, pipe[w]) /\ Stopped(rd[w])
  <2> SUFFICES ASSUME NEW w \in Crew PROVE Framed(rd[w].s, pipe[w]) /\ Stopped(rd[w])
    OBVIOUS
  <2>1. Stopped(rd[w]) BY <1>4 DEF Stopped
  <2>2. ASSUME NEW i \in 0..Len(pipe[w])
        PROVE  i = 0 /\ ~(i < Len(pipe[w]))
    BY <1>2
  <2>3. Framed(rd[w].s, pipe[w]) BY <1>4, <2>2 DEF Framed
  <2> QED BY <2>1, <2>3
<1>6. asks \in [num : 0..AskCap, open : BOOLEAN] BY <1>1 DEF PipeInit
<1>7. waits \in [Threads -> Blocks] BY DEF PipeInit, Blocks
<1>8. 0 \in 0..Sends /\ \A w \in Crew : Len(pipe[w]) <= Cap BY <1>1, <1>2
<1> QED BY <1>2, <1>4, <1>5, <1>6, <1>7, <1>8 DEF PipeInit, PipeInv

\* What is written to a worker's pipe goes in as a whole or not at all.
LEMMA PutInv ==
  ASSUME PipeInv, NEW w \in Crew, NEW what \in {"add", "match", "exit"},
         Room(w, what), Put(w, what)
  PROVE  /\ pipe' \in [Crew -> Seq(Unit)] /\ \A v \in Crew : Len(pipe'[v]) <= Cap
         /\ edge' \in [Crew -> BOOLEAN]
         /\ \A v \in Crew : at[v] # "deleted" => Framed(rd[v].s, pipe'[v])
         /\ \A v \in Crew : Len(pipe'[v]) >= Len(pipe[v])
<1> DEFINE p == pipe[w] \o Units(what)
<1>1. Units(what) \in Seq(Unit) /\ pipe[w] \in Seq(Unit) BY UnitsFit DEF PipeInv
<1>2. p \in Seq(Unit) /\ Len(p) = Len(pipe[w]) + Len(Units(what)) BY <1>1
<1>3. Len(p) <= Cap /\ Len(p) >= Len(pipe[w])
  <2>1. Len(pipe[w]) + Len(Units(what)) <= Cap BY DEF Room
  <2>2. Len(pipe[w]) \in Nat /\ Len(Units(what)) \in Nat BY <1>1
  <2> QED BY <1>2, <2>1, <2>2
<1>4. at[w] # "deleted" => Framed(rd[w].s, p)
  BY <1>1, FramedAppend DEF PipeInv
<1>5. pipe' = [pipe EXCEPT ![w] = p] BY DEF Put
<1> HIDE DEF p
<1>6. pipe'[w] = p /\ \A v \in Crew : v # w => pipe'[v] = pipe[v]
  BY <1>5 DEF PipeInv
<1>7. pipe' \in [Crew -> Seq(Unit)] BY <1>2, <1>5 DEF PipeInv
<1>8. \A v \in Crew : Len(pipe'[v]) <= Cap /\ Len(pipe'[v]) >= Len(pipe[v])
  BY <1>3, <1>6, PipeCounts
<1>9. edge' \in [Crew -> BOOLEAN] BY DEF PipeInv, Put
<1>10. \A v \in Crew : at[v] # "deleted" => Framed(rd[v].s, pipe'[v])
  BY <1>4, <1>6 DEF PipeInv
<1> QED BY <1>7, <1>8, <1>9, <1>10

LEMMA BlocksFor ==
  /\ None \in Blocks /\ None.on = "none" /\ Wait("ask", Connector) \in Blocks
  /\ \A what \in {"add", "match", "exit"}, w \in Crew :
       Wait(what, w) \in Blocks /\ AfterWrite(what, w) \in Blocks
  /\ \A b \in Blocks : b.on \in {"add", "match", "exit", "join"} => b.for \in Crew
<1>1. /\ None \in Blocks /\ Wait("ask", Connector) \in Blocks
      /\ \A what \in {"add", "match", "exit", "join"}, w \in Crew : Wait(what, w) \in Blocks
  BY DEF Blocks
<1>2. None.on = "none" BY DEF None
<1>3. \A what, w : Wait(what, w).on = what /\ Wait(what, w).for = w BY DEF Wait
<1>4. \A what \in {"add", "match", "exit"}, w \in Crew : AfterWrite(what, w) \in Blocks
  BY <1>1 DEF AfterWrite
<1>5. \A b \in Blocks : b.on \in {"add", "match", "exit", "join"} => b.for \in Crew
  BY <1>2, <1>3 DEF Blocks
<1> QED BY <1>1, <1>2, <1>4, <1>5

LEMMA WriteInv ==
  ASSUME PipeInv, NEW t \in Threads, NEW what \in {"add", "match", "exit"}, NEW w \in Crew,
         Write(t, what, w), main' \in {"loop", "connector", "workers"}, sent' \in 0..Sends
  PROVE  PipeInv' /\ \A v \in Crew : Len(pipe'[v]) >= Len(pipe[v])
<1>1. UNCHANGED <<at, rd, asks>> BY DEF Write
<1>2. \A v \in Crew : Len(pipe[v]) >= Len(pipe[v]) BY PipeCounts
<1>3. CASE at[w] # "deleted" /\ Room(w, what) /\ Put(w, what)
           /\ waits' = [waits EXCEPT ![t] = AfterWrite(what, w)] /\ UNCHANGED wrong
  <2>1. waits' \in [Threads -> Blocks] BY <1>3, BlocksFor DEF PipeInv
  <2>2. /\ pipe' \in [Crew -> Seq(Unit)] /\ \A v \in Crew : Len(pipe'[v]) <= Cap
        /\ edge' \in [Crew -> BOOLEAN]
        /\ \A v \in Crew : at[v] # "deleted" => Framed(rd[v].s, pipe'[v])
        /\ \A v \in Crew : Len(pipe'[v]) >= Len(pipe[v])
    BY <1>3, PutInv
  <2> QED BY <1>1, <1>3, <2>1, <2>2 DEF PipeInv
<1>4. CASE waits' = [waits EXCEPT ![t] = Wait(what, w)] /\ UNCHANGED <<pipe, edge, wrong>>
  <2>1. waits' \in [Threads -> Blocks] BY <1>4, BlocksFor DEF PipeInv
  <2> QED BY <1>1, <1>2, <1>4, <2>1 DEF PipeInv
<1>5. CASE wrong' = "worker deleted" /\ UNCHANGED <<pipe, edge, waits>>
  BY <1>1, <1>2, <1>5 DEF PipeInv
<1> QED BY <1>3, <1>4, <1>5 DEF Write

LEMMA WriteEndsInv ==
  ASSUME PipeInv, NEW t \in Threads, WriteEnds(t)
  PROVE  PipeInv' /\ \A v \in Crew : Len(pipe'[v]) >= Len(pipe[v])
<1> DEFINE w == waits[t].for
           what == waits[t].on
<1>1. what \in {"add", "match", "exit"} /\ w \in Crew
  BY BlocksFor DEF WriteEnds, PipeInv
<1>2. UNCHANGED <<at, rd, asks, main, sent, wrong>> BY DEF WriteEnds
<1>3. \A v \in Crew : Len(pipe[v]) >= Len(pipe[v]) BY PipeCounts
<1>4. CASE at[w] = "deleted"
  <2>1. waits' = [waits EXCEPT ![t] = None] /\ UNCHANGED <<pipe, edge>>
    BY <1>4 DEF WriteEnds
  <2>2. waits' \in [Threads -> Blocks] BY <2>1, BlocksFor DEF PipeInv
  <2> QED BY <1>2, <1>3, <2>1, <2>2 DEF PipeInv
<1>5. CASE at[w] # "deleted"
  <2>1. Room(w, what) /\ Put(w, what) /\ waits' = [waits EXCEPT ![t] = AfterWrite(what, w)]
    BY <1>5 DEF WriteEnds
  <2>2. waits' \in [Threads -> Blocks] BY <1>1, <2>1, BlocksFor DEF PipeInv
  <2>3. /\ pipe' \in [Crew -> Seq(Unit)] /\ \A v \in Crew : Len(pipe'[v]) <= Cap
        /\ edge' \in [Crew -> BOOLEAN]
        /\ \A v \in Crew : at[v] # "deleted" => Framed(rd[v].s, pipe'[v])
        /\ \A v \in Crew : Len(pipe'[v]) >= Len(pipe[v])
    BY <1>1, <2>1, PutInv
  <2> QED BY <1>2, <2>1, <2>2, <2>3 DEF PipeInv
<1> QED BY <1>4, <1>5

\* The connector's pipe is a number of requests.
LEMMA AskInv ==
  ASSUME PipeInv, NEW w \in Crew, Ask(w) \/ AskEnds(w)
  PROVE  PipeInv' /\ pipe' = pipe
<1>1. UNCHANGED <<pipe, edge, at, rd, main, wrong>> BY DEF Ask, AskEnds
<1>2. sent' \in 0..Sends BY PipeCounts DEF Ask, AskEnds, MaySend
<1>3. w \in Threads BY DEF Threads
<1>4. waits' \in [Threads -> Blocks] BY <1>3, BlocksFor DEF Ask, AskEnds, PipeInv
<1>5. asks' \in [num : 0..AskCap, open : BOOLEAN]
  <2>1. asks.num \in 0..AskCap /\ AskCap \in Nat BY PipeAssumption DEF PipeInv
  <2>2. CASE UNCHANGED asks BY <2>2 DEF PipeInv
  <2>3. CASE asks' = [asks EXCEPT !.num = IF asks.open THEN @ + 1 ELSE @]
             /\ (asks.open => asks.num # AskCap)
    <3> DEFINE n == IF asks.open THEN asks.num + 1 ELSE asks.num
    <3>1. n \in 0..AskCap BY <2>1, <2>3
    <3>2. asks' = [asks EXCEPT !.num = n] BY <2>3
    <3> HIDE DEF n
    <3> QED BY <3>1, <3>2 DEF PipeInv
  <2> QED BY <2>1, <2>2, <2>3 DEF Ask, AskEnds
<1> QED BY <1>1, <1>2, <1>4, <1>5 DEF PipeInv

LEMMA TakeAskInv == ASSUME PipeInv, TakeAsk PROVE PipeInv' /\ pipe' = pipe
<1>1. UNCHANGED <<pipe, edge, at, rd, waits, main, sent, wrong>> BY DEF TakeAsk
<1> DEFINE n == asks.num - 1
<1>2. n \in 0..AskCap BY PipeCounts DEF TakeAsk
<1>3. asks' = [asks EXCEPT !.num = n] BY DEF TakeAsk
<1> HIDE DEF n
<1>4. asks' \in [num : 0..AskCap, open : BOOLEAN] BY <1>2, <1>3 DEF PipeInv
<1> QED BY <1>1, <1>4 DEF PipeInv

LEMMA NotifyInv == ASSUME PipeInv, NEW w \in Crew, Notify(w) PROVE PipeInv' /\ pipe' = pipe
<1>1. /\ at[w] = "events" /\ at' = [at EXCEPT ![w] = "notify"]
      /\ edge' = [edge EXCEPT ![w] = FALSE]
      /\ UNCHANGED <<pipe, rd, asks, waits, main, sent, wrong>>
  BY DEF Notify, Handles
<1>2. /\ at' \in [Crew -> {"events", "notify", "left", "deleted"}]
      /\ edge' \in [Crew -> BOOLEAN]
      /\ \A v \in Crew : at'[v] # "deleted" => at[v] # "deleted"
  BY <1>1 DEF PipeInv
<1> QED BY <1>1, <1>2 DEF PipeInv

\* handle_notify: what is read is in frame, and nothing is read after an exit.
LEMMA ReadPipeInv ==
  ASSUME PipeInv, NEW w \in Crew, ReadPipe(w)
  PROVE  PipeInv' /\ \A v \in Crew : rd[v].broken => pipe'[v] = pipe[v]
<1>1. at[w] = "notify" /\ UNCHANGED <<edge, asks, waits, main, sent>> BY DEF ReadPipe
<1>2. CASE pipe[w] = <<>> \/ rd[w].tran = rd[w].size
  <2>1. /\ at' = [at EXCEPT ![w] = IF rd[w].broken THEN "left" ELSE "events"]
        /\ UNCHANGED <<pipe, rd, wrong>>
    BY <1>2 DEF ReadPipe
  <2> QED BY <1>1, <2>1 DEF PipeInv
<1>3. CASE ~(pipe[w] = <<>> \/ rd[w].tran = rd[w].size)
  <2> DEFINE q == StateMachine(rd[w], Head(pipe[w]))
  <2>1. /\ rd' = [rd EXCEPT ![w] = q]
        /\ pipe' = [pipe EXCEPT ![w] = Tail(pipe[w])]
        /\ UNCHANGED at
    BY <1>3 DEF ReadPipe
  <2>2. wrong' = IF (rd[w].s = "prepare") = (Head(pipe[w]) = "body")
                 THEN "out of frame" ELSE wrong
    BY <1>3 DEF ReadPipe
  <2>3. /\ rd[w] \in Reader /\ pipe[w] \in Seq(Unit) /\ Framed(rd[w].s, pipe[w])
        /\ Stopped(rd[w])
    BY <1>1 DEF PipeInv
  <2>4. ~rd[w].broken BY <1>3, <2>3 DEF Stopped
  <2>5. /\ q \in Reader /\ Framed(q.s, Tail(pipe[w])) /\ Stopped(q)
        /\ rd[w].s # "prepare" <=> Head(pipe[w]) = "body"
    BY <1>3, <2>3, <2>4, FramedRead
  <2> HIDE DEF q
  <2>6. UNCHANGED wrong BY <2>2, <2>5
  <2>7. /\ Tail(pipe[w]) \in Seq(Unit) /\ Len(Tail(pipe[w])) = Len(pipe[w]) - 1
        /\ Len(pipe[w]) \in Nat
    BY <1>3, <2>3
  <2>8. Len(Tail(pipe[w])) <= Cap BY <1>1, <2>7, PipeCounts
  <2>9. pipe' \in [Crew -> Seq(Unit)] /\ pipe'[w] = Tail(pipe[w])
        /\ \A v \in Crew : v # w => pipe'[v] = pipe[v]
    BY <2>1, <2>7 DEF PipeInv
  <2>10. rd' \in [Crew -> Reader] /\ rd'[w] = q /\ \A v \in Crew : v # w => rd'[v] = rd[v]
    BY <2>1, <2>5 DEF PipeInv
  <2>11. \A v \in Crew : Len(pipe'[v]) <= Cap BY <2>8, <2>9 DEF PipeInv
  <2>12. \A v \in Crew : Stopped(rd'[v]) /\ (at'[v] # "deleted" => Framed(rd'[v].s, pipe'[v]))
    BY <2>1, <2>5, <2>9, <2>10 DEF PipeInv
  <2> QED BY <1>1, <2>1, <2>4, <2>6, <2>9, <2>10, <2>11, <2>12 DEF PipeInv
<1> QED BY <1>2, <1>3

LEMMA JoinInv ==
  ASSUME PipeInv, Join
  PROVE  PipeInv' /\ \A v \in Crew : at'[v] # "deleted" => pipe'[v] = pipe[v]
<1> DEFINE w == waits[Main].for
<1>1. Main \in Threads BY DEF Threads
<1>2. w \in Crew BY <1>1, BlocksFor DEF PipeInv, Join
<1>3. /\ at' = [at EXCEPT ![w] = "deleted"] /\ pipe' = [pipe EXCEPT ![w] = <<>>]
      /\ edge' = [edge EXCEPT ![w] = FALSE] /\ waits' = [waits EXCEPT ![Main] = None]
      /\ UNCHANGED <<rd, asks, main, sent, wrong>>
  BY DEF Join
<1> HIDE DEF w
<1>4. waits' \in [Threads -> Blocks] BY <1>1, <1>3, BlocksFor DEF PipeInv
<1>5. <<>> \in Seq(Unit) /\ Len(<<>>) = 0 /\ 0 <= Cap BY PipeAssumption
<1>6. /\ at' \in [Crew -> {"events", "notify", "left", "deleted"}]
      /\ at'[w] = "deleted" /\ \A v \in Crew : v # w => at'[v] = at[v]
  BY <1>2, <1>3 DEF PipeInv
<1>7. /\ pipe' \in [Crew -> Seq(Unit)] /\ pipe'[w] = <<>>
      /\ \A v \in Crew : v # w => pipe'[v] = pipe[v]
  BY <1>2, <1>3, <1>5 DEF PipeInv
<1>8. edge' \in [Crew -> BOOLEAN] BY <1>3 DEF PipeInv
<1>9. \A v \in Crew : Len(pipe'[v]) <= Cap BY <1>5, <1>7 DEF PipeInv
<1>10. \A v \in Crew : at'[v] # "deleted" => Framed(rd'[v].s, pipe'[v])
  BY <1>3, <1>6, <1>7 DEF PipeInv
<1> QED BY <1>3, <1>4, <1>6, <1>7, <1>8, <1>9, <1>10 DEF PipeInv

LEMMA StopConnectorInv ==
  ASSUME PipeInv, BreakLoop \/ StopConnector
  PROVE  PipeInv' /\ pipe' = pipe
<1>1. UNCHANGED <<pipe, edge, at, rd, waits, sent, wrong>> BY DEF BreakLoop, StopConnector
<1>2. main' \in {"loop", "connector", "workers"} BY DEF BreakLoop, StopConnector
<1>3. asks' \in [num : 0..AskCap, open : BOOLEAN]
  <2>1. CASE UNCHANGED asks BY <2>1 DEF PipeInv
  <2>2. CASE asks' = [num |-> 0, open |-> FALSE] BY <2>2, PipeCounts
  <2> QED BY <2>1, <2>2 DEF BreakLoop, StopConnector
<1> QED BY <1>1, <1>2, <1>3 DEF PipeInv

\* Every step keeps the invariant, and takes nothing from the pipe of a worker
\* that has read its exit, but for the end of that worker.
LEMMA PipeNextInv ==
  ASSUME PipeInv, [PipeNext]_pipeVars
  PROVE  /\ PipeInv'
         /\ \A w \in Crew : rd[w].broken /\ at'[w] # "deleted" => Len(pipe'[w]) >= Len(pipe[w])
<1>0. \A w \in Crew : Len(pipe[w]) >= Len(pipe[w]) BY PipeCounts
<1>1. CASE BreakLoop \/ StopConnector BY <1>0, <1>1, StopConnectorInv
<1>2. CASE TakeAsk BY <1>0, <1>2, TakeAskInv
<1>3. CASE Join BY <1>0, <1>3, JoinInv
<1>4. ASSUME NEW w \in Crew, StopWorker(w)
      PROVE  PipeInv' /\ \A v \in Crew : Len(pipe'[v]) >= Len(pipe[v])
  <2>1. /\ Main \in Threads /\ Write(Main, "exit", w)
        /\ main' \in {"loop", "connector", "workers"} /\ sent' \in 0..Sends
    BY <1>4 DEF StopWorker, Threads, PipeInv
  <2> QED BY <2>1, WriteInv
<1>5. ASSUME NEW w \in Crew, Dispatch(w)
      PROVE  PipeInv' /\ \A v \in Crew : Len(pipe'[v]) >= Len(pipe[v])
  <2>1. /\ Main \in Threads /\ Write(Main, "add", w)
        /\ main' \in {"loop", "connector", "workers"}
    BY <1>5 DEF Dispatch, Threads, PipeInv
  <2>2. sent' \in 0..Sends BY <1>5, PipeCounts DEF Dispatch, MaySend
  <2> QED BY <2>1, <2>2, WriteInv
<1>6. ASSUME NEW v \in Crew, NEW w \in Crew, HandOver(v, w)
      PROVE  PipeInv' /\ \A u \in Crew : Len(pipe'[u]) >= Len(pipe[u])
  <2>1. /\ v \in Threads /\ Write(v, "match", w)
        /\ main' \in {"loop", "connector", "workers"}
    BY <1>6 DEF HandOver, Threads, PipeInv
  <2>2. sent' \in 0..Sends BY <1>6, PipeCounts DEF HandOver, MaySend
  <2> QED BY <2>1, <2>2, WriteInv
<1>7. ASSUME NEW t \in Threads, WriteEnds(t)
      PROVE  PipeInv' /\ \A v \in Crew : Len(pipe'[v]) >= Len(pipe[v])
  BY <1>7, WriteEndsInv
<1>8. ASSUME NEW w \in Crew, Ask(w) \/ AskEnds(w) \/ Notify(w)
      PROVE  PipeInv' /\ pipe' = pipe
  BY <1>8, AskInv, NotifyInv
<1>9. ASSUME NEW w \in Crew, ReadPipe(w)
      PROVE  PipeInv' /\ \A v \in Crew : rd[v].broken => pipe'[v] = pipe[v]
  BY <1>9, ReadPipeInv
<1>10. CASE UNCHANGED pipeVars BY <1>0, <1>10 DEF pipeVars, PipeInv
<1> QED
  BY <1>0, <1>1, <1>2, <1>3, <1>4, <1>5, <1>6, <1>7, <1>8, <1>9, <1>10 DEF PipeNext, Stops

-----------------------------------------------------------------------------
(* The theorems. *)

\* The invariant: the pipes stay in frame whoever writes, waits and reads.
THEOREM PipeInvariance == PipeSpec => []PipeInv
<1>1. PipeInv /\ [PipeNext]_pipeVars => PipeInv' BY PipeNextInv
<1> QED BY <1>1, PipeInitInv, PTL DEF PipeSpec

\* The variables keep their types; above all a pipe never holds more than it
\* has room for, and a thread that waits waits for a worker or the connector.
THEOREM PipeTypeCorrect == PipeSpec => []PipeTypeOK
<1>1. PipeInv => PipeTypeOK
  <2> SUFFICES ASSUME PipeInv PROVE PipeTypeOK OBVIOUS
  <2>1. {0, 1} = 0..1 OBVIOUS
  <2>2. rd \in [Crew -> [s : {"prepare", "add_conn", "match_conn"}, tran : 0..1,
                         size : {1}, broken : BOOLEAN]]
    BY <2>1 DEF PipeInv, Reader
  <2>3. \A t \in Threads : Waiting(t) => waits[t].for \in Crew \cup {Connector}
    <3>1. \A what, w : Wait(what, w).for = w BY DEF Wait
    <3>2. \A b \in Blocks : b # None => b.for \in Crew \cup {Connector}
      BY <3>1 DEF Blocks
    <3>3. \A t \in Threads : waits[t] \in Blocks BY DEF PipeInv
    <3> QED BY <3>2, <3>3 DEF Waiting
  <2> QED BY <2>2, <2>3 DEF PipeInv, PipeTypeOK
<1> QED BY <1>1, PipeInvariance, PTL

\* state_machine reads a type as a type and a body as a body, and finds the
\* body when it waits for one.
THEOREM StaysInFrame == PipeSpec => []InFrame
<1>1. PipeInv => InFrame
  <2> SUFFICES ASSUME PipeInv PROVE InFrame OBVIOUS
  <2>1. wrong # "out of frame" BY DEF PipeInv
  <2>2. ASSUME NEW w \in Crew, at[w] # "deleted", rd[w].s # "prepare"
        PROVE  pipe[w] # <<>> /\ Head(pipe[w]) = "body"
    <3>1. Framed(rd[w].s, pipe[w]) /\ pipe[w] \in Seq(Unit) BY <2>2 DEF PipeInv
    <3>2. 0 < Len(pipe[w]) /\ pipe[w][0 + 1] = "body" BY <2>2, <3>1, PipeCounts DEF Framed
    <3> QED BY <3>1, <3>2
  <2> QED BY <2>1, <2>2 DEF InFrame
<1> QED BY <1>1, PipeInvariance, PTL

\* After its exit a worker takes no message from its pipe, since a read of no
\* bytes ends the loop that nothing else would end.
THEOREM ExitIsLast == PipeSpec => NothingAfterExit
<1>1. PipeInv /\ [PipeNext]_pipeVars =>
        [\A w \in Crew : rd[w].broken /\ at'[w] # "deleted" =>
           Len(pipe'[w]) >= Len(pipe[w])]_pipeVars
  BY PipeNextInv
<1> QED BY <1>1, PipeInvariance, PTL DEF PipeSpec, NothingAfterExit

-----------------------------------------------------------------------------
(* The wheel *)

\* A walk over n connections.
Walks(n) == [at : 1..(n + 1), out : SUBSET Socks, lost : BOOLEAN]

\* The order in which a bucket iterates has each of its connections once.
LEMMA OrderOf ==
  ASSUME NEW S, IsFiniteSet(S), NEW order \in SetToSeqs(S)
  PROVE  /\ Len(order) \in Nat /\ order \in [1..Len(order) -> S]
         /\ \A i, j \in 1..Len(order) : i # j => order[i] # order[j]
         /\ \A c \in S : \E i \in 1..Len(order) : order[i] = c
<1> DEFINE n == Cardinality(S)
<1>1. n \in Nat BY FS_CardinalityType
<1>2. order \in [1..n -> S] /\ \A i, j \in 1..n : i # j => order[i] # order[j]
  BY DEF SetToSeqs
<1>3. Len(order) = n BY <1>1, <1>2
<1>4. order \in Injection(1..n, S) BY <1>2 DEF Injection, IsInjective
<1>5. Cardinality(1..n) = n BY <1>1, FS_Interval
<1> HIDE DEF n
<1>6. order \in Surjection(1..n, S)
  <2>1. n = Cardinality(S) BY DEF n
  <2> QED BY <2>1, <1>4, <1>5, FS_Injection
<1>7. \A c \in S : \E i \in 1..n : order[i] = c BY <1>6 DEF Surjection
<1> QED BY <1>1, <1>2, <1>3, <1>7

\* The iterator comes to the next connection that is still there.
LEMMA FirstFromIs ==
  ASSUME NEW order, Len(order) \in Nat, NEW i \in 1..(Len(order) + 1), NEW out
  PROVE  LET r == FirstFrom(order, i, out)
         IN /\ r \in i..(Len(order) + 1)
            /\ r <= Len(order) => order[r] \notin out
            /\ \A j \in i..(r - 1) : order[j] \in out
<1> DEFINE rest == {j \in i..Len(order) : order[j] \notin out}
           r == FirstFrom(order, i, out)
<1>1. CASE rest = {}
  <2>1. r = Len(order) + 1 BY <1>1 DEF FirstFrom
  <2> QED BY <1>1, <2>1
<1>2. CASE rest # {}
  <2>1. \E m \in rest : \A k \in rest : m <= k
    <3>1. rest \subseteq Nat OBVIOUS
    <3> HIDE DEF rest
    <3> QED BY <1>2, <3>1, Least
  <2>2. r = Min(rest) BY <1>2 DEF FirstFrom
  <2>3. Min(rest) \in rest /\ \A k \in rest : Min(rest) <= k BY <2>1 DEF Min
  <2>4. r \in i..Len(order) /\ order[r] \notin out BY <2>2, <2>3
  <2>5. ASSUME NEW j \in i..(r - 1) PROVE order[j] \in out
    <3>1. j \in i..Len(order) /\ ~(r <= j) BY <2>4
    <3> QED BY <2>2, <2>3, <3>1
  <2> QED BY <2>4, <2>5
<1> QED BY <1>1, <1>2

\* The pairs: each end has the other, and one of the two is the device.
Paired == \A c \in Socks : peer[c] # Nobody =>
            /\ peer[c] \in Socks /\ peer[peer[c]] = c
            /\ kind[c] # "gone"
            /\ kind[c] = "server" <=> kind[peer[c]] = "client"

Kinds == kind \in [Socks -> {"gone", "client", "server"}]

LEMMA ClosesSocks ==
  ASSUME Paired, NEW c \in Socks
  PROVE  Closes(c) \subseteq Socks
BY DEF Paired, Closes

\* What a walk finds erased is a client, which has nothing to close.
LEMMA ErasedCloseNothing ==
  ASSUME Paired, Kinds, NEW c \in Socks, NEW x \in Closes(c), x # c
  PROVE  Closes(x) = {}
<1>1. x = peer[c] /\ kind[c] = "server" /\ peer[c] # Nobody BY DEF Closes
<1>2. x \in Socks /\ peer[x] = c /\ kind[x] = "client" BY <1>1 DEF Paired
<1>3. peer[x] # Nobody BY <1>2, WheelAssumption
<1> QED BY <1>2, <1>3 DEF Closes

-----------------------------------------------------------------------------
(* The walk *)

\* What has been closed is what the connections behind the iterator close, and
\* the iterator stands on one that is still there.
StepsThrough(order, w) ==
  /\ w \in Walks(Len(order)) /\ w.lost = FALSE
  /\ w.at <= Len(order) => order[w.at] \notin w.out
  /\ \A x \in w.out : \E i \in 1..Len(order) : i < w.at /\ x \in Closes(order[i])
  /\ \A i \in 1..Len(order) : i < w.at => Closes(order[i]) \subseteq w.out

LEMMA StepOverIs ==
  ASSUME NEW order, Len(order) \in Nat, NEW w \in Walks(Len(order)), w.at <= Len(order),
         NEW out \in SUBSET Socks
  PROVE  LET v == StepOver(w, order, out)
         IN /\ v \in Walks(Len(order)) /\ v.out = out /\ v.lost = w.lost /\ v.at > w.at
            /\ v.at <= Len(order) => order[v.at] \notin out
            /\ \A j \in (w.at + 1)..(v.at - 1) : order[j] \in out
<1> DEFINE r == FirstFrom(order, w.at + 1, out)
<1>1. w.at \in 1..Len(order) /\ w.lost \in BOOLEAN BY DEF Walks
<1>2. w.at + 1 \in 1..(Len(order) + 1) BY <1>1
<1>3. /\ r \in (w.at + 1)..(Len(order) + 1)
      /\ r <= Len(order) => order[r] \notin out
      /\ \A j \in (w.at + 1)..(r - 1) : order[j] \in out
  BY <1>2, FirstFromIs
<1>4. StepOver(w, order, out) = [at |-> r, out |-> out, lost |-> w.lost] BY DEF StepOver
<1> HIDE DEF r
<1>5. r \in 1..(Len(order) + 1) /\ r > w.at BY <1>1, <1>3
<1> QED BY <1>1, <1>3, <1>4, <1>5 DEF Walks

\* A step keeps to that, and goes on.
LEMMA ClearStepFollows ==
  ASSUME Paired, Kinds,
         NEW order, Len(order) \in Nat, order \in [1..Len(order) -> Socks],
         \A i, j \in 1..Len(order) : i # j => order[i] # order[j],
         NEW w, StepsThrough(order, w)
  PROVE  /\ StepsThrough(order, ClearStep(w, order))
         /\ w.at <= Len(order) => ClearStep(w, order).at > w.at
         /\ w.at > Len(order) => ClearStep(w, order) = w
<1>1. w \in Walks(Len(order)) /\ w.at \in 1..(Len(order) + 1) /\ w.out \in SUBSET Socks
  BY DEF StepsThrough, Walks
<1>2. CASE w.at > Len(order)
  <2>1. ClearStep(w, order) = w BY <1>2 DEF ClearStep
  <2> QED BY <1>1, <1>2, <2>1
<1>3. CASE w.at <= Len(order)
  <2> DEFINE c == order[w.at]
             out == w.out \cup Closes(c)
             v == StepOver(w, order, out)
  <2>1. w.at \in 1..Len(order) /\ c \in Socks BY <1>1, <1>3
  <2>2. c \notin w.out BY <1>3 DEF StepsThrough
  <2>3. ClearStep(w, order) = v BY <1>1, <1>3, <2>2 DEF ClearStep
  <2>4. out \in SUBSET Socks BY <1>1, <2>1, ClosesSocks
  <2>5. /\ v \in Walks(Len(order)) /\ v.out = out /\ v.lost = w.lost /\ v.at > w.at
        /\ v.at <= Len(order) => order[v.at] \notin out
        /\ \A j \in (w.at + 1)..(v.at - 1) : order[j] \in out
    BY <1>1, <1>3, <2>4, StepOverIs
  <2> HIDE DEF v
  <2>6. v.at \in 1..(Len(order) + 1) BY <2>5 DEF Walks
  <2>7. ASSUME NEW x \in out
        PROVE  \E i \in 1..Len(order) : i <= w.at /\ x \in Closes(order[i])
    <3>1. CASE x \in Closes(c) BY <2>1, <3>1
    <3>2. CASE x \in w.out
      <4>1. PICK i \in 1..Len(order) : i < w.at /\ x \in Closes(order[i]) BY <3>2 DEF StepsThrough
      <4>2. i <= w.at BY <4>1, <2>1
      <4> QED BY <4>1, <4>2
    <3> QED BY <3>1, <3>2
  <2>8. ASSUME NEW x \in v.out
        PROVE  \E i \in 1..Len(order) : i < v.at /\ x \in Closes(order[i])
    <3>1. PICK i \in 1..Len(order) : i <= w.at /\ x \in Closes(order[i]) BY <2>5, <2>7
    <3>2. i < v.at BY <2>1, <2>5, <2>6, <3>1
    <3> QED BY <3>1, <3>2
  <2>9. ASSUME NEW i \in 1..Len(order), i < v.at PROVE Closes(order[i]) \subseteq v.out
    <3>1. CASE i < w.at BY <3>1, <2>5 DEF StepsThrough
    <3>2. CASE i = w.at BY <3>2, <2>5
    <3>3. CASE i > w.at
      <4>1. i \in (w.at + 1)..(v.at - 1) BY <3>3, <2>9, <2>1, <2>6
      <4>2. order[i] \in out BY <4>1, <2>5
      <4>3. PICK j \in 1..Len(order) : j <= w.at /\ order[i] \in Closes(order[j]) BY <4>2, <2>7
      <4>4. i # j BY <3>3, <4>3, <2>1
      <4>5. order[i] # order[j] /\ order[j] \in Socks BY <4>4
      <4>6. Closes(order[i]) = {} BY <4>3, <4>5, ErasedCloseNothing
      <4> QED BY <4>6
    <3> QED BY <3>1, <3>2, <3>3, <2>1
  <2>10. v.lost = FALSE BY <2>5 DEF StepsThrough
  <2>11. StepsThrough(order, v) BY <2>5, <2>8, <2>9, <2>10 DEF StepsThrough
  <2> QED BY <1>1, <1>3, <2>3, <2>5, <2>11
<1> QED BY <1>1, <1>2, <1>3

Begins == [at |-> 1, out |-> {}, lost |-> FALSE]

\* The walk is the course of its steps.
LEMMA WalkIs ==
  ASSUME Paired, Kinds,
         NEW order, Len(order) \in Nat, order \in [1..Len(order) -> Socks]
  PROVE  /\ Walk(order)[0] = Begins
         /\ \A k \in 1..Len(order) : Walk(order)[k] = ClearStep(Walk(order)[k - 1], order)
<1> DEFINE n == Len(order)
           F == [p \in Walks(n) \X (1..n) |-> ClearStep(p[1], order)]
<1>1. ASSUME NEW w \in Walks(n) PROVE ClearStep(w, order) \in Walks(n)
  <2>1. w.at \in 1..(n + 1) /\ w.out \in SUBSET Socks /\ w.lost \in BOOLEAN BY DEF Walks
  <2>2. CASE w.at > n BY <2>2, <2>1 DEF ClearStep
  <2>3. CASE w.at <= n /\ order[w.at] \in w.out
    <3>1. ClearStep(w, order) = [w EXCEPT !.at = n + 1, !.lost = TRUE]
      BY <2>1, <2>3 DEF ClearStep
    <3>2. n + 1 \in 1..(n + 1) OBVIOUS
    <3> HIDE DEF n
    <3> QED BY <3>1, <3>2 DEF Walks
  <2>4. CASE w.at <= n /\ order[w.at] \notin w.out
    <3>1. ClearStep(w, order) = StepOver(w, order, w.out \cup Closes(order[w.at]))
      BY <2>1, <2>4 DEF ClearStep
    <3>2. order[w.at] \in Socks BY <2>1, <2>4
    <3>3. w.out \cup Closes(order[w.at]) \in SUBSET Socks BY <2>1, <3>2, ClosesSocks
    <3> QED BY <2>4, <3>1, <3>3, StepOverIs
  <2> QED BY <2>1, <2>2, <2>3, <2>4
<1>2. F \in [Walks(n) \X (1..n) -> Walks(n)] BY <1>1
<1>3. Begins \in Walks(n)
  <2>1. 1 \in 1..(n + 1) OBVIOUS
  <2> QED BY <2>1 DEF Begins, Walks
<1>4. PICK g \in [0..n -> Walks(n)] : g[0] = Begins /\ \A k \in 1..n : g[k] = F[<<g[k - 1], k>>]
  <2>1. F \in Steps(n, Walks(n)) BY <1>2 DEF Steps
  <2> HIDE DEF F
  <2>2. \E g : IsCourse(g, n, Walks(n), Begins, F) BY <1>3, <2>1, Course
  <2> QED BY <2>2 DEF IsCourse
<1>5. \A k \in 1..n : g[k] = ClearStep(g[k - 1], order)
  <2>1. TAKE k \in 1..n
  <2>2. k - 1 \in 0..n OBVIOUS
  <2>3. <<g[k - 1], k>> \in Walks(n) \X (1..n) BY <2>2
  <2> QED BY <1>4, <2>3
<1>6. g = [k \in 0..n |-> IF k = 0 THEN Begins ELSE ClearStep(g[k - 1], order)]
  BY <1>4, <1>5
<1> DEFINE R(h) == h = [k \in 0..n |-> IF k = 0 THEN Begins ELSE ClearStep(h[k - 1], order)]
<1>7. Walk(order) = CHOOSE h : R(h) BY DEF Walk, Begins
<1>8. R(Walk(order)) BY <1>6, <1>7
<1> QED BY <1>8

\* The walk ends behind the last connection, in whatever order the bucket
\* iterates: it has closed what its connections close, and has never stood on
\* one that was gone.
LEMMA ClearedIs ==
  ASSUME Paired, Kinds, NEW S \in SUBSET Socks, NEW order \in SetToSeqs(S)
  PROVE  /\ Cleared(order).lost = FALSE
         /\ Cleared(order).out = UNION {Closes(c) : c \in S}
<1> DEFINE n == Len(order)
           w == Walk(order)
           T == {k \in 0..n : StepsThrough(order, w[k]) /\ (w[k].at > k \/ w[k].at = n + 1)}
<1>1. IsFiniteSet(S) BY WheelAssumption, FS_Subset
<1>2. /\ n \in Nat /\ order \in [1..n -> S]
      /\ \A i, j \in 1..n : i # j => order[i] # order[j]
      /\ \A c \in S : \E i \in 1..n : order[i] = c
  BY <1>1, OrderOf
<1>3. order \in [1..n -> Socks] BY <1>2
<1>4. w[0] = Begins /\ \A k \in 1..n : w[k] = ClearStep(w[k - 1], order)
  BY <1>2, <1>3, WalkIs
<1> HIDE DEF w
<1>5. 0 \in T
  <2>1. Begins \in Walks(n)
    <3>1. 1 \in 1..(n + 1) BY <1>2
    <3> QED BY <3>1 DEF Begins, Walks
  <2>2. Begins.at = 1 /\ Begins.out = {} /\ Begins.lost = FALSE BY DEF Begins
  <2>3. \A i \in 1..n : ~(i < 1) BY <1>2
  <2>4. StepsThrough(order, Begins) BY <2>1, <2>2, <2>3 DEF StepsThrough
  <2>5. 0 \in 0..n /\ 1 > 0 BY <1>2
  <2> QED BY <1>4, <2>2, <2>4, <2>5
<1>6. ASSUME NEW k \in 0..n, k < n, k \in T PROVE k + 1 \in T
  <2>1. k + 1 \in 1..n /\ (k + 1) - 1 = k BY <1>6, <1>2
  <2>2. w[k + 1] = ClearStep(w[k], order) BY <1>4, <2>1
  <2>3. StepsThrough(order, w[k]) /\ (w[k].at > k \/ w[k].at = n + 1) BY <1>6
  <2>4. /\ StepsThrough(order, w[k + 1])
        /\ w[k].at <= n => w[k + 1].at > w[k].at
        /\ w[k].at > n => w[k + 1] = w[k]
    BY <1>2, <1>3, <2>2, <2>3, ClearStepFollows
  <2>5. w[k].at \in 1..(n + 1) /\ w[k + 1].at \in 1..(n + 1)
    BY <2>3, <2>4 DEF StepsThrough, Walks
  <2>6. w[k + 1].at > k + 1 \/ w[k + 1].at = n + 1
    <3>1. CASE w[k].at <= n BY <3>1, <2>3, <2>4, <2>5, <1>2
    <3>2. CASE w[k].at > n
      <4>1. w[k + 1].at = w[k].at BY <3>2, <2>4
      <4> QED BY <4>1, <3>2, <2>5, <1>2
    <3> QED BY <3>1, <3>2, <2>5, <1>2
  <2>7. k + 1 \in 0..n BY <2>1, <1>2
  <2> QED BY <2>4, <2>6, <2>7
<1>7. \A k \in 0..n : k < n /\ k \in T => k + 1 \in T BY <1>6
<1>8. n \in T
  <2>1. n \in 0..n BY <1>2
  <2> HIDE DEF T, n
  <2>2. \A k \in 0..n : k \in T BY <1>2, <1>5, <1>7, UpTo
  <2> QED BY <2>1, <2>2
<1>9. StepsThrough(order, w[n]) /\ w[n].at = n + 1
  <2>1. StepsThrough(order, w[n]) /\ (w[n].at > n \/ w[n].at = n + 1) BY <1>8
  <2>2. w[n].at \in 1..(n + 1) BY <2>1 DEF StepsThrough, Walks
  <2> QED BY <2>1, <2>2, <1>2
<1>10. Cleared(order) = w[n] BY DEF Cleared, w
<1>11. \A i \in 1..n : i < n + 1 BY <1>2
<1>12. \A x \in w[n].out : \E c \in S : x \in Closes(c) BY <1>2, <1>9 DEF StepsThrough
<1>13. \A c \in S : Closes(c) \subseteq w[n].out BY <1>2, <1>9, <1>11 DEF StepsThrough
<1>14. w[n].out = UNION {Closes(c) : c \in S} BY <1>12, <1>13
<1>15. w[n].lost = FALSE BY <1>9 DEF StepsThrough
<1> QED BY <1>10, <1>14, <1>15

-----------------------------------------------------------------------------
(* The wheel *)

\* The age of a slot when b is the last: the seconds since it was that.
Age(b, i) == IF i <= b THEN b - i ELSE (b + N) - i

\* The variables.
Shape == /\ ring \in [Slots -> SUBSET Socks]
         /\ back \in Slots
         /\ front = (IF back + 1 < N THEN back + 1 ELSE 0)
         /\ tail \in [Socks -> Slots]
         /\ peer \in [Socks -> Socks \cup {Nobody}]
         /\ idle \in [Socks -> 0..N]
         /\ spared \subseteq Live /\ stray = FALSE

\* A connection is in the bucket it takes for its own, and as idle as that is
\* old, but for a client whose bucket was given up under it.
Placed == /\ \A i \in Slots : \A c \in ring[i] : c \in Live /\ tail[c] = i /\ c \notin spared
          /\ \A c \in Live : c \notin spared => c \in ring[tail[c]] /\ idle[c] = Age(back, tail[c])

WheelInv == Shape /\ Kinds /\ Paired /\ Placed

LEMMA Counts ==
  ASSUME Shape
  PROVE  /\ N \in Nat /\ N > 0 /\ back \in 0..(N - 1) /\ front \in 0..(N - 1)
         /\ Age(back, back) = 0
         /\ \A i \in Slots : Age(back, i) \in 0..(N - 1) /\ (Age(back, i) = N - 1 <=> i = front)
BY WheelAssumption DEF Shape, Slots, Age

LEMMA WheelInitInv == ASSUME WheelInit PROVE WheelInv
<1>1. 0 \in Slots /\ N - 1 \in Slots /\ N \in Nat BY WheelAssumption DEF Slots
<1>2. Live = {} BY DEF WheelInit, Live
<1>3. front = (IF back + 1 < N THEN back + 1 ELSE 0) BY <1>1 DEF WheelInit, Slots
<1>4. Shape BY <1>1, <1>2, <1>3 DEF WheelInit, Shape
<1>5. Paired /\ Kinds BY DEF WheelInit, Paired, Kinds
<1>6. Placed BY <1>2 DEF WheelInit, Placed
<1> QED BY <1>4, <1>5, <1>6 DEF WheelInv

\* What moves to the last bucket.
LEMMA UpdateInv ==
  ASSUME WheelInv, NEW C \in SUBSET Live, Update(C), Live' = Live,
         peer' \in [Socks -> Socks \cup {Nobody}]
  PROVE  Shape' /\ Placed'
<1> USE DEF WheelInv
<1>1. /\ ring' = [i \in Slots |-> IF i = back THEN ring[i] \cup Moved(C) ELSE ring[i] \ Moved(C)]
      /\ tail' = [c \in Socks |-> IF c \in C THEN back ELSE tail[c]]
      /\ idle' = [c \in Socks |-> IF c \in C THEN 0 ELSE idle[c]]
      /\ spared' = spared \ Moved(C)
      /\ back' = back /\ front' = front /\ stray' = stray
  BY DEF Update
<1>2. Moved(C) = {c \in C : tail[c] # back} BY DEF Moved
<1>3. C \subseteq Socks /\ Live \subseteq Socks BY DEF Live
<1>4. back \in Slots /\ Slots = 0..(N - 1) /\ N \in Nat BY WheelAssumption DEF Shape, Slots
<1>5. Shape'
  <2>1. ring' \in [Slots -> SUBSET Socks] BY <1>1, <1>2, <1>3 DEF Shape
  <2>2. tail' \in [Socks -> Slots] BY <1>1, <1>4 DEF Shape
  <2>3. idle' \in [Socks -> 0..N] BY <1>1, <1>4 DEF Shape
  <2> QED BY <1>1, <2>1, <2>2, <2>3 DEF Shape
<1>7. ASSUME NEW i \in Slots, NEW c \in ring'[i]
      PROVE  c \in Live' /\ tail'[c] = i /\ c \notin spared'
  <2>1. CASE c \in Moved(C) BY <2>1, <1>1, <1>2, <1>3, <1>7
  <2>2. CASE c \notin Moved(C)
    <3>1. c \in ring[i] BY <2>2, <1>1, <1>7
    <3>2. c \in Live /\ tail[c] = i /\ c \notin spared BY <3>1 DEF Placed
    <3>3. tail'[c] = i BY <2>2, <3>2, <1>1, <1>2, <1>3
    <3> QED BY <3>2, <3>3, <1>1
  <2> QED BY <2>1, <2>2
<1>8. ASSUME NEW c \in Live', c \notin spared'
      PROVE  c \in ring'[tail'[c]] /\ idle'[c] = Age(back', tail'[c])
  <2>1. c \in Socks /\ c \in Live BY <1>3
  <2>2. CASE c \in C
    <3>1. tail'[c] = back /\ idle'[c] = 0 BY <2>2, <2>1, <1>1
    <3>2. Age(back, back) = 0 BY Counts
    <3>3. c \in ring'[back]
      <4>1. CASE tail[c] # back BY <4>1, <2>2, <1>1, <1>2, <1>4
      <4>2. CASE tail[c] = back
        <5>1. c \notin spared BY <4>2, <1>1, <1>2, <1>8
        <5>2. c \in ring[back] BY <5>1, <4>2, <2>1 DEF Placed
        <5> QED BY <5>2, <1>1, <1>4
      <4> QED BY <4>1, <4>2
    <3> QED BY <3>1, <3>2, <3>3, <1>1
  <2>3. CASE c \notin C
    <3>1. c \notin Moved(C) /\ tail'[c] = tail[c] /\ idle'[c] = idle[c] BY <2>3, <2>1, <1>1, <1>2
    <3>2. c \notin spared BY <3>1, <1>1, <1>8
    <3>3. c \in ring[tail[c]] /\ idle[c] = Age(back, tail[c]) BY <3>2, <2>1 DEF Placed
    <3>4. tail[c] \in Slots BY <2>1 DEF Shape
    <3>5. c \in ring'[tail[c]] BY <3>1, <3>3, <3>4, <1>1
    <3> QED BY <3>1, <3>3, <3>5, <1>1
  <2> QED BY <2>2, <2>3
<1>9. Placed' BY <1>7, <1>8 DEF Placed
<1> QED BY <1>5, <1>9

\* What leaves takes nothing from the pairs and the buckets of the others.
LEMMA PairsLeft ==
  ASSUME WheelInv, NEW D,
         kind' = [c \in Socks |-> IF c \in D THEN "gone" ELSE kind[c]],
         peer' = [c \in Socks |-> IF c \in D \/ peer[c] \in D THEN Nobody ELSE peer[c]]
  PROVE  Kinds' /\ Paired' /\ peer' \in [Socks -> Socks \cup {Nobody}]
         /\ Live' = Live \ D
<1> USE DEF WheelInv
<1>1. Kinds' BY DEF Kinds
<1>2. peer' \in [Socks -> Socks \cup {Nobody}] BY DEF Shape
<1>3. Live' = Live \ D BY DEF Live
<1>4. ASSUME NEW c \in Socks, peer'[c] # Nobody
      PROVE  /\ peer'[c] \in Socks /\ peer'[peer'[c]] = c
             /\ kind'[c] # "gone"
             /\ kind'[c] = "server" <=> kind'[peer'[c]] = "client"
  <2>1. peer'[c] = peer[c] /\ c \notin D /\ peer[c] \notin D BY <1>4
  <2>2. peer[c] \in Socks /\ peer[peer[c]] = c /\ kind[c] # "gone"
        /\ (kind[c] = "server" <=> kind[peer[c]] = "client")
    BY <2>1, <1>4 DEF Paired
  <2>3. kind'[c] = kind[c] /\ kind'[peer[c]] = kind[peer[c]] /\ peer'[peer[c]] = c
    BY <2>1, <2>2
  <2> QED BY <2>1, <2>2, <2>3
<1>5. Paired' BY <1>4 DEF Paired
<1> QED BY <1>1, <1>2, <1>3, <1>5

LEMMA CloseBothInv ==
  ASSUME WheelInv, NEW c \in Socks, CloseBoth(c)
  PROVE  WheelInv'
<1> DEFINE D == {c} \cup ({peer[c]} \ {Nobody})
<1>1. /\ ring' = [i \in Slots |-> ring[i] \ D]
      /\ kind' = [x \in Socks |-> IF x \in D THEN "gone" ELSE kind[x]]
      /\ peer' = [x \in Socks |-> IF x \in D \/ peer[x] \in D THEN Nobody ELSE peer[x]]
      /\ spared' = spared \ D
      /\ UNCHANGED <<front, back, tail, idle, stray>>
  BY DEF CloseBoth, Leave
<1> HIDE DEF D
<1>2. /\ Kinds' /\ Paired' /\ peer' \in [Socks -> Socks \cup {Nobody}]
      /\ Live' = Live \ D
  BY <1>1, PairsLeft
<1> USE DEF WheelInv
<1>3. Shape'
  <2>1. ring' \in [Slots -> SUBSET Socks] BY <1>1 DEF Shape
  <2>2. spared' \subseteq Live' BY <1>1, <1>2 DEF Shape
  <2> QED BY <1>1, <1>2, <2>1, <2>2 DEF Shape
<1>5. ASSUME NEW i \in Slots, NEW x \in ring'[i]
      PROVE  x \in Live' /\ tail'[x] = i /\ x \notin spared'
  <2>1. x \in ring[i] /\ x \notin D BY <1>1, <1>5
  <2> QED BY <2>1, <1>1, <1>2 DEF Placed
<1>6. ASSUME NEW x \in Live', x \notin spared'
      PROVE  x \in ring'[tail'[x]] /\ idle'[x] = Age(back', tail'[x])
  <2>1. x \in Live /\ x \notin D /\ x \notin spared /\ x \in Socks BY <1>1, <1>2, <1>6 DEF Live
  <2>2. x \in ring[tail[x]] /\ idle[x] = Age(back, tail[x]) BY <2>1 DEF Placed
  <2>3. tail[x] \in Slots BY <2>1 DEF Shape
  <2> QED BY <2>1, <2>2, <2>3, <1>1
<1>7. Placed' BY <1>5, <1>6 DEF Placed
<1> QED BY <1>2, <1>3, <1>7

\* The two ends of a pair are different connections, and both are there.
LEMMA PairEnds ==
  ASSUME WheelInv, NEW c \in Socks, peer[c] # Nobody
  PROVE  /\ peer[c] \in Live /\ c \in Live /\ peer[c] # c /\ peer[peer[c]] = c
         /\ \A x \in Socks : peer[x] = c <=> x = peer[c]
<1>1. peer[c] \in Socks /\ peer[peer[c]] = c /\ kind[c] # "gone"
      /\ (kind[c] = "server" <=> kind[peer[c]] = "client")
  BY DEF WheelInv, Paired
<1>2. peer[peer[c]] # Nobody BY <1>1, WheelAssumption
<1>3. kind[peer[c]] # "gone" BY <1>1, <1>2 DEF WheelInv, Paired
<1>4. peer[c] # c BY <1>1 DEF WheelInv, Kinds
<1>5. ASSUME NEW x \in Socks, peer[x] = c PROVE x = peer[c]
  <2>1. peer[x] # Nobody BY <1>5, WheelAssumption
  <2> QED BY <1>5, <2>1 DEF WheelInv, Paired
<1> QED BY <1>1, <1>3, <1>4, <1>5 DEF Live

LEMMA AttachInv ==
  ASSUME WheelInv, NEW c \in Socks, Attach(c)
  PROVE  WheelInv'
<1> USE DEF WheelInv
<1>1. /\ kind[c] = "gone"
      /\ kind' = [kind EXCEPT ![c] = "client"] /\ tail' = [tail EXCEPT ![c] = back]
      /\ ring' = [ring EXCEPT ![back] = @ \cup {c}] /\ idle' = [idle EXCEPT ![c] = 0]
      /\ UNCHANGED <<front, back, peer, spared, stray>>
  BY DEF Attach
<1>2. back \in Slots /\ Slots = 0..(N - 1) /\ N \in Nat BY WheelAssumption DEF Shape, Slots
<1>3. Kinds' BY <1>1 DEF Kinds
<1>4. Live' = Live \cup {c} /\ c \notin Live BY <1>1 DEF Live, Kinds
<1>5. peer[c] = Nobody BY <1>1 DEF Paired
<1>6. Paired'
  <2>1. SUFFICES ASSUME NEW x \in Socks, peer[x] # Nobody
                 PROVE  /\ peer[x] \in Socks /\ peer[peer[x]] = x
                        /\ kind'[x] # "gone"
                        /\ kind'[x] = "server" <=> kind'[peer[x]] = "client"
    BY <1>1 DEF Paired
  <2>2. x # c /\ peer[x] # c BY <1>4, <1>5, <2>1, PairEnds
  <2>3. kind'[x] = kind[x] /\ kind'[peer[x]] = kind[peer[x]] BY <1>1, <2>2 DEF Kinds
  <2> QED BY <2>1, <2>3 DEF Paired
<1>7. Shape'
  <2>1. ring' \in [Slots -> SUBSET Socks] BY <1>1, <1>2 DEF Shape
  <2>2. tail' \in [Socks -> Slots] BY <1>1, <1>2 DEF Shape
  <2>3. idle' \in [Socks -> 0..N] BY <1>1, <1>2 DEF Shape
  <2>4. spared' \subseteq Live' BY <1>1, <1>4 DEF Shape
  <2> QED BY <1>1, <2>1, <2>2, <2>3, <2>4 DEF Shape
<1>8. c \notin spared BY <1>4 DEF Shape
<1>9. ASSUME NEW i \in Slots, NEW x \in ring'[i]
      PROVE  x \in Live' /\ tail'[x] = i /\ x \notin spared'
  <2>1. CASE x \in ring[i]
    <3>1. x \in Live /\ tail[x] = i /\ x \notin spared BY <2>1 DEF Placed
    <3> QED BY <3>1, <1>1, <1>4 DEF Shape
  <2>2. CASE x \notin ring[i]
    <3>1. x = c /\ i = back BY <2>2, <1>1, <1>9 DEF Shape
    <3> QED BY <3>1, <1>1, <1>4, <1>8 DEF Shape
  <2> QED BY <2>1, <2>2
<1>10. ASSUME NEW x \in Live', x \notin spared'
       PROVE  x \in ring'[tail'[x]] /\ idle'[x] = Age(back', tail'[x])
  <2>1. CASE x = c
    <3>1. tail'[c] = back /\ idle'[c] = 0 /\ c \in ring'[back] BY <1>1, <1>2 DEF Shape
    <3> QED BY <2>1, <3>1, <1>1, Counts
  <2>2. CASE x # c
    <3>1. x \in Live /\ x \in Socks /\ x \notin spared BY <2>2, <1>1, <1>4, <1>10 DEF Live
    <3>2. x \in ring[tail[x]] /\ idle[x] = Age(back, tail[x]) BY <3>1 DEF Placed
    <3>3. tail'[x] = tail[x] /\ idle'[x] = idle[x] /\ tail[x] \in Slots
      BY <2>2, <3>1, <1>1 DEF Shape
    <3>4. x \in ring'[tail[x]] BY <3>2, <3>3, <1>1, <1>2 DEF Shape
    <3> QED BY <3>2, <3>3, <3>4, <1>1
  <2> QED BY <2>1, <2>2
<1>11. Placed' BY <1>9, <1>10 DEF Placed
<1> QED BY <1>3, <1>6, <1>7, <1>11

\* One end goes; the other sends what it has, and is nobody's.
LEMMA CloseOneInv ==
  ASSUME WheelInv, NEW c \in Socks, CloseOne(c)
  PROVE  WheelInv'
<1> USE DEF WheelInv
<1> DEFINE o == peer[c]
           moved == Moved({o})
<1>1. /\ c \in Live /\ o # Nobody
      /\ ring' = [i \in Slots |-> (IF i = back THEN ring[i] \cup moved ELSE ring[i] \ moved) \ {c}]
      /\ tail' = [tail EXCEPT ![o] = back] /\ idle' = [idle EXCEPT ![o] = 0]
      /\ spared' = spared \ (moved \cup {c})
      /\ kind' = [kind EXCEPT ![c] = "gone"]
      /\ peer' = [peer EXCEPT ![c] = Nobody, ![o] = Nobody]
      /\ UNCHANGED <<front, back, stray>>
  BY DEF CloseOne
<1>2. /\ o \in Live /\ o \in Socks /\ o # c /\ \A x \in Socks : peer[x] = c <=> x = o
  BY <1>1, PairEnds DEF Live
<1>3. moved = (IF tail[o] # back THEN {o} ELSE {}) BY DEF Moved
<1> HIDE DEF moved
<1>4. kind' = [x \in Socks |-> IF x \in {c} THEN "gone" ELSE kind[x]] BY <1>1 DEF Kinds
<1>5. peer' = [x \in Socks |-> IF x \in {c} \/ peer[x] \in {c} THEN Nobody ELSE peer[x]]
  BY <1>1, <1>2 DEF Shape
<1>6. /\ Kinds' /\ Paired' /\ peer' \in [Socks -> Socks \cup {Nobody}]
      /\ Live' = Live \ {c}
  BY <1>4, <1>5, PairsLeft
<1>7. back \in Slots /\ Slots = 0..(N - 1) /\ N \in Nat BY WheelAssumption DEF Shape, Slots
<1>8. Shape'
  <2>1. ring' \in [Slots -> SUBSET Socks] BY <1>1, <1>2, <1>3 DEF Shape
  <2>2. tail' \in [Socks -> Slots] BY <1>1, <1>7 DEF Shape
  <2>3. idle' \in [Socks -> 0..N] BY <1>1, <1>7 DEF Shape
  <2>4. spared' \subseteq Live' BY <1>1, <1>6 DEF Shape
  <2> QED BY <1>1, <1>6, <2>1, <2>2, <2>3, <2>4 DEF Shape
<1>9. /\ tail'[o] = back /\ idle'[o] = 0
      /\ \A x \in Socks : x # o => tail'[x] = tail[x] /\ idle'[x] = idle[x]
  BY <1>1, <1>2 DEF Shape
<1>10. ASSUME NEW i \in Slots, NEW x \in ring'[i]
       PROVE  x \in Live' /\ tail'[x] = i /\ x \notin spared'
  <2>1. x # c BY <1>1, <1>10
  <2>2. CASE x \in moved BY <2>1, <2>2, <1>1, <1>2, <1>3, <1>6, <1>9, <1>10
  <2>3. CASE x \notin moved
    <3>1. x \in ring[i] BY <2>3, <1>1, <1>10
    <3>2. x \in Live /\ x \in Socks /\ tail[x] = i /\ x \notin spared BY <3>1 DEF Placed, Live
    <3>3. tail'[x] = i BY <2>3, <3>2, <1>3, <1>9
    <3> QED BY <2>1, <3>2, <3>3, <1>1, <1>6
  <2> QED BY <2>2, <2>3
<1>11. ASSUME NEW x \in Live', x \notin spared'
       PROVE  x \in ring'[tail'[x]] /\ idle'[x] = Age(back', tail'[x])
  <2>1. x \in Live /\ x \in Socks /\ x # c BY <1>6, <1>11 DEF Live
  <2>2. CASE x = o
    <3>1. o \in ring'[back]
      <4>1. CASE tail[o] # back BY <4>1, <1>1, <1>2, <1>3, <1>7
      <4>2. CASE tail[o] = back
        <5>1. o \notin spared BY <4>2, <2>1, <2>2, <1>1, <1>3, <1>11
        <5>2. o \in ring[back] BY <5>1, <4>2, <1>2 DEF Placed
        <5> QED BY <5>2, <1>1, <1>2, <1>7
      <4> QED BY <4>1, <4>2
    <3> QED BY <2>2, <3>1, <1>1, <1>9, Counts
  <2>3. CASE x # o
    <3>1. x \notin moved BY <2>3, <1>3
    <3>2. x \notin spared BY <3>1, <2>1, <1>1, <1>11
    <3>3. x \in ring[tail[x]] /\ idle[x] = Age(back, tail[x]) BY <3>2, <2>1 DEF Placed
    <3>4. tail[x] \in Slots BY <2>1 DEF Shape
    <3>5. x \in ring'[tail[x]] BY <3>1, <3>3, <3>4, <2>1, <1>1
    <3> QED BY <2>1, <2>3, <3>3, <3>5, <1>1, <1>9
  <2> QED BY <2>2, <2>3
<1>12. Placed' BY <1>10, <1>11 DEF Placed
<1> QED BY <1>6, <1>8, <1>12

LEMMA ActiveInv ==
  ASSUME WheelInv, NEW C \in SUBSET Live, Update(C), UNCHANGED <<kind, peer>>
  PROVE  WheelInv'
<1>1. Live' = Live BY DEF Live
<1>2. peer' \in [Socks -> Socks \cup {Nobody}] BY DEF WheelInv, Shape
<1>3. Shape' /\ Placed' BY <1>1, <1>2, UpdateInv
<1>4. Kinds' /\ Paired' BY DEF WheelInv, Kinds, Paired
<1> QED BY <1>3, <1>4 DEF WheelInv

LEMMA AnswersInv ==
  ASSUME WheelInv, NEW s \in Socks, NEW c \in Socks, Answers(s, c)
  PROVE  WheelInv'
<1>1. /\ s # c /\ s \in Live /\ c \in Live /\ peer[s] = Nobody /\ peer[c] = Nobody
      /\ kind[s] = "client" /\ kind[c] = "client"
      /\ kind' = [kind EXCEPT ![s] = "server"]
      /\ peer' = [peer EXCEPT ![s] = c, ![c] = s]
      /\ Update({s})
  BY DEF Answers
<1>2. Kinds' BY <1>1 DEF WheelInv, Kinds
<1>3. Live' = Live BY <1>1 DEF WheelInv, Kinds, Live
<1>4. peer' \in [Socks -> Socks \cup {Nobody}] BY <1>1 DEF WheelInv, Shape
<1>5. Shape' /\ Placed'
  <2> DEFINE C == {s}
  <2>1. C \in SUBSET Live /\ Update(C) BY <1>1
  <2> HIDE DEF C
  <2> QED BY <2>1, <1>3, <1>4, UpdateInv
<1>6. ASSUME NEW x \in Socks, peer'[x] # Nobody
      PROVE  /\ peer'[x] \in Socks /\ peer'[peer'[x]] = x
             /\ kind'[x] # "gone"
             /\ kind'[x] = "server" <=> kind'[peer'[x]] = "client"
  <2>1. /\ peer'[s] = c /\ peer'[c] = s /\ kind'[s] = "server" /\ kind'[c] = "client"
        /\ \A y \in Socks : y # s /\ y # c => peer'[y] = peer[y] /\ kind'[y] = kind[y]
    BY <1>1 DEF WheelInv, Shape, Kinds
  <2>2. CASE x = s \/ x = c BY <2>1, <2>2
  <2>3. CASE x # s /\ x # c
    <3>1. peer'[x] = peer[x] /\ kind'[x] = kind[x] BY <2>1, <2>3
    <3>2. /\ peer[x] \in Socks /\ peer[peer[x]] = x /\ kind[x] # "gone"
          /\ kind[x] = "server" <=> kind[peer[x]] = "client"
      BY <3>1, <1>6 DEF WheelInv, Paired
    <3>3. peer[x] # s /\ peer[x] # c BY <3>2, <1>1, WheelAssumption
    <3> QED BY <2>1, <3>1, <3>2, <3>3
  <2> QED BY <2>2, <2>3
<1>7. Paired' BY <1>6 DEF Paired
<1> QED BY <1>2, <1>5, <1>7 DEF WheelInv

LEMMA Older ==
  ASSUME Shape, NEW i \in Slots, i # front
  PROVE  Age(front, i) = Age(back, i) + 1
BY WheelAssumption DEF Shape, Slots, Age

\* What a tick does, with the outcome of its walk.
LEMMA TickIs ==
  ASSUME WheelInv, Tick
  PROVE  LET D == UNION {Closes(c) : c \in ring[front]}
         IN /\ ring' = [i \in Slots |-> IF i = front THEN {} ELSE ring[i] \ D]
            /\ kind' = [c \in Socks |-> IF c \in D THEN "gone" ELSE kind[c]]
            /\ peer' = [c \in Socks |-> IF c \in D \/ peer[c] \in D THEN Nobody ELSE peer[c]]
            /\ spared' = (spared \ D) \cup {c \in ring[front] : peer'[c] # Nobody}
            /\ stray' = FALSE
            /\ idle' = [c \in Socks |-> IF kind[c] # "gone" /\ idle[c] < N
                                        THEN idle[c] + 1 ELSE idle[c]]
            /\ back' = front /\ tail' = tail
            /\ front' = IF front + 1 < N THEN front + 1 ELSE 0
<1> DEFINE D == UNION {Closes(c) : c \in ring[front]}
<1>1. PICK w \in {Cleared(order) : order \in SetToSeqs(ring[front])} :
        /\ ring' = [i \in Slots |-> IF i = front THEN {} ELSE ring[i] \ w.out]
        /\ kind' = [c \in Socks |-> IF c \in w.out THEN "gone" ELSE kind[c]]
        /\ peer' = [c \in Socks |-> IF c \in w.out \/ peer[c] \in w.out
                                    THEN Nobody ELSE peer[c]]
        /\ spared' = (spared \ w.out) \cup {c \in ring[front] : peer'[c] # Nobody}
        /\ stray' = w.lost
  BY DEF Tick
<1>2. PICK order \in SetToSeqs(ring[front]) : w = Cleared(order) BY <1>1
<1>3. ring[front] \in SUBSET Socks BY Counts DEF WheelInv, Shape, Slots
<1>4. w.lost = FALSE /\ w.out = D BY <1>2, <1>3, ClearedIs DEF WheelInv
<1> HIDE DEF D
<1> QED BY <1>1, <1>4 DEF Tick, D

LEMMA TickInv == ASSUME WheelInv, Tick PROVE WheelInv'
<1> DEFINE D == UNION {Closes(c) : c \in ring[front]}
<1>1. /\ ring' = [i \in Slots |-> IF i = front THEN {} ELSE ring[i] \ D]
      /\ kind' = [c \in Socks |-> IF c \in D THEN "gone" ELSE kind[c]]
      /\ peer' = [c \in Socks |-> IF c \in D \/ peer[c] \in D THEN Nobody ELSE peer[c]]
      /\ spared' = (spared \ D) \cup {c \in ring[front] : peer'[c] # Nobody}
      /\ stray' = FALSE
      /\ idle' = [c \in Socks |-> IF kind[c] # "gone" /\ idle[c] < N
                                  THEN idle[c] + 1 ELSE idle[c]]
      /\ back' = front /\ tail' = tail
      /\ front' = IF front + 1 < N THEN front + 1 ELSE 0
  BY TickIs
<1>2. \A x \in D : \E d \in ring[front] : x \in Closes(d) OBVIOUS
<1>3. \A d \in ring[front] : Closes(d) \subseteq D OBVIOUS
<1> HIDE DEF D
<1>4. /\ Kinds' /\ Paired' /\ peer' \in [Socks -> Socks \cup {Nobody}]
      /\ Live' = Live \ D
  BY <1>1, PairsLeft
<1> USE DEF WheelInv
<1>5. front \in Slots /\ Slots = 0..(N - 1) /\ N \in Nat BY Counts DEF Slots
<1>6. \A x \in ring[front] : x \in Live /\ x \in Socks /\ tail[x] = front /\ x \notin spared
  BY <1>5 DEF Placed, Live
<1>7. Shape'
  <2>1. ring' \in [Slots -> SUBSET Socks] BY <1>1 DEF Shape
  <2>2. idle' \in [Socks -> 0..N] BY <1>1, <1>5 DEF Shape
  <2>3. spared' \subseteq Live'
    <3>1. SUFFICES ASSUME NEW x \in spared' PROVE x \in Live' OBVIOUS
    <3>2. CASE x \in spared \ D BY <3>2, <1>4 DEF Shape
    <3>3. CASE x \in ring[front] /\ peer'[x] # Nobody
      <4>1. x \in Live /\ x \in Socks BY <3>3, <1>6
      <4>2. x \notin D BY <4>1, <3>3, <1>1
      <4> QED BY <4>1, <4>2, <1>4
    <3> QED BY <3>1, <3>2, <3>3, <1>1
  <2> QED BY <1>1, <1>4, <1>5, <2>1, <2>2, <2>3 DEF Shape
<1>8. ASSUME NEW i \in Slots, NEW x \in ring'[i]
      PROVE  x \in Live' /\ tail'[x] = i /\ x \notin spared'
  <2>1. i # front /\ x \in ring[i] /\ x \notin D BY <1>1, <1>8
  <2>2. x \in Live /\ tail[x] = i /\ x \notin spared BY <2>1 DEF Placed
  <2>3. x \notin ring[front] BY <2>1, <2>2, <1>6
  <2> QED BY <2>1, <2>2, <2>3, <1>1, <1>4
<1>9. ASSUME NEW x \in Live', x \notin spared'
      PROVE  x \in ring'[tail'[x]] /\ idle'[x] = Age(back', tail'[x])
  <2>1. x \in Live /\ x \in Socks /\ x \notin D /\ x \notin spared
    BY <1>1, <1>4, <1>9 DEF Live
  <2>2. x \in ring[tail[x]] /\ idle[x] = Age(back, tail[x]) /\ tail[x] \in Slots
    BY <2>1 DEF Placed, Shape
  <2>3. ASSUME tail[x] = front PROVE FALSE
    <3>1. x \in ring[front] BY <2>2, <2>3
    <3>2. x \notin Closes(x) BY <3>1, <2>1, <1>3
    <3>3. peer[x] # Nobody /\ kind[x] # "server" BY <3>2 DEF Closes
    <3>4. kind[x] = "client" BY <3>3, <2>1 DEF Live, Kinds
    <3> DEFINE p == peer[x]
    <3>5. p \in Socks /\ peer[p] = x /\ p # x BY <3>3, <2>1, PairEnds DEF Live
    <3>6. kind[p] = "server" BY <3>4, <3>5, WheelAssumption, <2>1 DEF Paired
    <3>7. p \in D
      <4>1. peer'[x] = Nobody BY <3>1, <1>1, <1>9
      <4> QED BY <4>1, <3>3, <2>1, <1>1
    <3>8. PICK d \in ring[front] : p \in Closes(d) BY <3>7, <1>2
    <3>9. d \in Socks BY <3>8, <1>6
    <3>10. d # p
      <4>1. Closes(p) = {p, x} BY <3>5, <3>6, <2>1, WheelAssumption DEF Closes
      <4> QED BY <4>1, <3>8, <2>1, <1>3
    <3>11. peer[d] = p /\ kind[d] = "server" /\ peer[d] # Nobody BY <3>8, <3>10 DEF Closes
    <3>12. d = x BY <3>5, <3>9, <3>11 DEF Paired
    <3> QED BY <3>11, <3>12, <3>3
  <2>4. x \in ring'[tail[x]] BY <2>1, <2>2, <2>3, <1>1
  <2>5. Age(front, tail[x]) = Age(back, tail[x]) + 1 BY <2>2, <2>3, Older
  <2>6. idle[x] < N /\ kind[x] # "gone" BY <2>1, <2>2, Counts DEF Live
  <2>7. idle'[x] = idle[x] + 1 BY <2>1, <2>6, <1>1
  <2> QED BY <2>2, <2>4, <2>5, <2>7, <1>1
<1>10. Placed' BY <1>8, <1>9 DEF Placed
<1> QED BY <1>4, <1>7, <1>10

\* What a tick closes has been idle for a whole turn of the ring.
LEMMA TickDrops ==
  ASSUME WheelInv, Tick, NEW c \in Live \ Live'
  PROVE  \/ idle'[c] = N
         \/ kind[c] = "client" /\ peer[c] # Nobody /\ idle'[peer[c]] = N
<1> DEFINE D == UNION {Closes(d) : d \in ring[front]}
<1>1. /\ kind' = [x \in Socks |-> IF x \in D THEN "gone" ELSE kind[x]]
      /\ idle' = [x \in Socks |-> IF kind[x] # "gone" /\ idle[x] < N
                                  THEN idle[x] + 1 ELSE idle[x]]
  BY TickIs
<1>2. c \in D BY <1>1 DEF Live
<1>3. PICK d \in ring[front] : c \in Closes(d) BY <1>2
<1>4. front \in Slots BY Counts DEF WheelInv, Slots
<1>5. d \in Live /\ d \in Socks /\ tail[d] = front /\ d \notin spared
  BY <1>3, <1>4 DEF WheelInv, Placed, Live
<1>6. idle[d] = Age(back, front) BY <1>5 DEF WheelInv, Placed
<1>7. idle[d] = N - 1 /\ N \in Nat BY <1>4, <1>6, Counts DEF WheelInv
<1>8. idle'[d] = N BY <1>1, <1>5, <1>7 DEF Live
<1>9. CASE c = d BY <1>8, <1>9
<1>10. CASE c # d
  <2>1. c = peer[d] /\ kind[d] = "server" /\ peer[d] # Nobody BY <1>3, <1>10 DEF Closes
  <2>2. peer[c] = d /\ kind[c] = "client" BY <2>1, <1>5 DEF WheelInv, Paired
  <2> QED BY <2>2, <1>5, <1>8, WheelAssumption
<1> QED BY <1>9, <1>10

LEMMA WheelNextInv ==
  ASSUME WheelInv, [WheelNext]_wheelVars
  PROVE  /\ WheelInv'
         /\ \A c \in Live \ Live' : back' # back =>
              \/ idle'[c] = N
              \/ kind[c] = "client" /\ peer[c] # Nobody /\ idle'[peer[c]] = N
<1>1. CASE UNCHANGED wheelVars
  BY <1>1 DEF wheelVars, WheelInv, Shape, Kinds, Paired, Placed, Live
<1>2. ASSUME NEW c \in Socks, Attach(c) PROVE WheelInv' /\ back' = back
  BY <1>2, AttachInv DEF Attach
<1>3. ASSUME NEW c \in Socks, Active(c) PROVE WheelInv' /\ back' = back
  <2> DEFINE C == {c}
  <2>1. C \in SUBSET Live /\ Update(C) /\ UNCHANGED <<kind, peer>> BY <1>3 DEF Active
  <2> HIDE DEF C
  <2> QED BY <2>1, ActiveInv DEF Update
<1>4. ASSUME NEW c \in Socks, Relays(c) PROVE WheelInv' /\ back' = back
  <2> DEFINE C == {c, peer[c]}
  <2>1. C \in SUBSET Live BY <1>4, PairEnds DEF Relays
  <2>2. Update(C) /\ UNCHANGED <<kind, peer>> BY <1>4 DEF Relays
  <2> HIDE DEF C
  <2> QED BY <2>1, <2>2, ActiveInv DEF Update
<1>5. ASSUME NEW c \in Socks, CloseBoth(c) PROVE WheelInv' /\ back' = back
  BY <1>5, CloseBothInv DEF CloseBoth
<1>6. ASSUME NEW c \in Socks, CloseOne(c) PROVE WheelInv' /\ back' = back
  BY <1>6, CloseOneInv DEF CloseOne
<1>7. ASSUME NEW s \in Socks, NEW c \in Socks, Answers(s, c) PROVE WheelInv' /\ back' = back
  BY <1>7, AnswersInv DEF Answers, Update
<1>8. CASE Tick BY <1>8, TickInv, TickDrops
<1>9. CASE WheelNext BY <1>2, <1>3, <1>4, <1>5, <1>6, <1>7, <1>8, <1>9 DEF WheelNext
<1> QED BY <1>1, <1>9

\* The wheel keeps its order, for any connections and a ring of any length.
THEOREM WheelInvariance == WheelSpec => []WheelInv
BY WheelInitInv, WheelNextInv, PTL DEF WheelSpec

\* The wheel's variables keep their types.
THEOREM WheelTypeCorrect == WheelSpec => []WheelTypeOK
<1>1. ASSUME WheelInv PROVE WheelTypeOK
  BY <1>1, Counts DEF WheelInv, Shape, Kinds, WheelTypeOK, Slots
<1> QED BY <1>1, WheelInvariance, PTL

\* worker::handle_timeout closes whatever has been idle for the whole ring, but
\* for a client whose bucket was given up under it.
THEOREM IdleConnectionsEnd == WheelSpec => []IdleEnds
<1>1. ASSUME WheelInv, NEW c \in Live, c \notin spared PROVE idle[c] # N
  <2>1. c \in Socks BY DEF Live
  <2>2. idle[c] = Age(back, tail[c]) /\ tail[c] \in Slots BY <1>1, <2>1 DEF WheelInv, Placed, Shape
  <2> QED BY <1>1, <2>2, Counts DEF WheelInv
<1>2. WheelInv => IdleEnds BY <1>1 DEF IdleEnds
<1> QED BY <1>2, WheelInvariance, PTL

\* conn_bucket::clear never stands on a connection that has been closed under
\* it, whatever is in the bucket and in whatever order it iterates.
THEOREM KeepsItsPlace == WheelSpec => []ClearKeepsItsPlace
<1>1. WheelInv => ClearKeepsItsPlace BY DEF WheelInv, Shape, ClearKeepsItsPlace
<1> QED BY <1>1, WheelInvariance, PTL

\* Nothing that has read or sent during a whole turn of the ring is closed by
\* the wheel, but for a client that loses its idle device.
THEOREM DropsTheIdle == WheelSpec => DroppedWasIdle
<1>1. WheelInv /\ [WheelNext]_wheelVars => WheelInv' BY WheelNextInv
<1>2. WheelInv /\ [WheelNext]_wheelVars =>
        [\A c \in Live \ Live' : back' # back =>
           \/ idle'[c] = N
           \/ kind[c] = "client" /\ peer[c] # Nobody /\ idle'[peer[c]] = N]_wheelVars
  BY WheelNextInv
<1> QED BY <1>1, <1>2, WheelInitInv, PTL DEF WheelSpec, DroppedWasIdle

-----------------------------------------------------------------------------
(* The memory pools *)

Pools == [free : [Sizes -> Seq(Nat)], start : Nat, end : Nat,
          heap : Seq([at : Nat, mem : Nat])]

\* x is an address in the n units from a.
In(x, a, n) == a <= x /\ x < a + n

InFree(p, x, n, i) == i \in 1..Len(p.free[n]) /\ In(x, p.free[n][i], n)
InHeap(p, x, i) == i \in 1..Len(p.heap) /\ In(x, p.heap[i].at, HeapNode)
InUncut(p, x) == p.start <= x /\ x < p.end

InNode(p, x) == \/ \E n \in Sizes : \E i \in Nat : InFree(p, x, n, i)
                \/ \E i \in Nat : InHeap(p, x, i)
Holds(p, x) == InNode(p, x) \/ InUncut(p, x)

\* An address is in one node at most.
OneNode(p) ==
  \A x \in Nat :
    /\ \A n, m \in Sizes, i, j \in Nat : InFree(p, x, n, i) /\ InFree(p, x, m, j) => n = m /\ i = j
    /\ \A i, j \in Nat : InHeap(p, x, i) /\ InHeap(p, x, j) => i = j
    /\ \A n \in Sizes, i, j \in Nat : ~(InFree(p, x, n, i) /\ InHeap(p, x, j))

\* No address is in two pieces of a pool.
Sound(p) == /\ p \in Pools /\ p.start <= p.end
            /\ OneNode(p)
            /\ \A x \in Nat : ~(InNode(p, x) /\ InUncut(p, x))

\* A sequence with one more and one less at its front.
LEMMA Pushed ==
  ASSUME NEW S, NEW s \in Seq(S), NEW a \in S
  PROVE  /\ <<a>> \o s \in Seq(S) /\ Len(<<a>> \o s) = Len(s) + 1
         /\ \A i \in 1..(Len(s) + 1) : (<<a>> \o s)[i] = IF i = 1 THEN a ELSE s[i - 1]
OBVIOUS

LEMMA Popped ==
  ASSUME NEW S, NEW s \in Seq(S), s # <<>>
  PROVE  /\ Tail(s) \in Seq(S) /\ Len(Tail(s)) = Len(s) - 1 /\ Len(s) \in Nat \ {0}
         /\ Head(s) = s[1] /\ s[1] \in S
         /\ \A i \in 1..(Len(s) - 1) : Tail(s)[i] = s[i + 1]
OBVIOUS

\* A node taken from a free list is no longer in the pool.
LEMMA PopIs ==
  ASSUME NEW p, Sound(p), NEW n \in Sizes, p.free[n] # <<>>
  PROVE  LET q == Pop(p, n)
             a == Head(p.free[n])
         IN /\ Sound(q) /\ a \in Nat /\ q.start = p.start /\ q.end = p.end
            /\ \A x \in Nat : InNode(q, x) => InNode(p, x)
            /\ \A x \in Nat : In(x, a, n) => InNode(p, x) /\ ~InNode(q, x)
<1> DEFINE q == Pop(p, n)
           a == Head(p.free[n])
           s == p.free[n]
<1>1. p \in Pools /\ s \in Seq(Nat) BY DEF Sound, Pools
<1>2. /\ q \in Pools /\ q.start = p.start /\ q.end = p.end /\ q.heap = p.heap
      /\ \A m \in Sizes : m # n => q.free[m] = p.free[m]
      /\ q.free[n] = Tail(s)
  BY <1>1, Popped DEF Pop, Pools
<1>3. /\ Len(Tail(s)) = Len(s) - 1 /\ Len(s) \in Nat \ {0} /\ a = s[1] /\ a \in Nat
      /\ \A i \in 1..(Len(s) - 1) : Tail(s)[i] = s[i + 1]
  BY <1>1, Popped
<1> HIDE DEF q, a
<1>4. \A x : \A i \in Nat : InFree(q, x, n, i) => InFree(p, x, n, i + 1)
  BY <1>2, <1>3 DEF InFree
<1>5. \A x : \A m \in Sizes, i \in Nat : m # n /\ InFree(q, x, m, i) => InFree(p, x, m, i)
  BY <1>2 DEF InFree
<1>6. \A x : \A i \in Nat : InHeap(q, x, i) <=> InHeap(p, x, i) BY <1>2 DEF InHeap
<1>7. \A x : In(x, a, n) => InFree(p, x, n, 1) BY <1>3 DEF InFree
<1>8. \A x \in Nat : InNode(q, x) => InNode(p, x)
  BY <1>4, <1>5, <1>6 DEF InNode
<1>9. \A x : InUncut(q, x) <=> InUncut(p, x) BY <1>2 DEF InUncut
<1>10. OneNode(q)
  <2> SUFFICES ASSUME NEW x \in Nat
               PROVE  /\ \A m, k \in Sizes, i, j \in Nat : InFree(q, x, m, i) /\ InFree(q, x, k, j) => m = k /\ i = j
                      /\ \A i, j \in Nat : InHeap(q, x, i) /\ InHeap(q, x, j) => i = j
                      /\ \A m \in Sizes, i, j \in Nat : ~(InFree(q, x, m, i) /\ InHeap(q, x, j))
    BY DEF OneNode
  <2>1. ASSUME NEW m \in Sizes, NEW k \in Sizes, NEW i \in Nat, NEW j \in Nat,
               InFree(q, x, m, i), InFree(q, x, k, j)
        PROVE  m = k /\ i = j
    <3>1. /\ m = n => InFree(p, x, n, i + 1)
          /\ m # n => InFree(p, x, m, i)
          /\ k = n => InFree(p, x, n, j + 1)
          /\ k # n => InFree(p, x, k, j)
      BY <1>4, <1>5, <2>1
    <3> QED BY <3>1 DEF Sound, OneNode
  <2>2. \A i, j \in Nat : InHeap(q, x, i) /\ InHeap(q, x, j) => i = j
    BY <1>6 DEF Sound, OneNode
  <2>3. ASSUME NEW m \in Sizes, NEW i \in Nat, NEW j \in Nat, InFree(q, x, m, i), InHeap(q, x, j)
        PROVE  FALSE
    <3>1. /\ m = n => InFree(p, x, n, i + 1)
          /\ m # n => InFree(p, x, m, i)
      BY <1>4, <1>5, <2>3
    <3> QED BY <1>6, <2>3, <3>1 DEF Sound, OneNode
  <2> QED BY <2>1, <2>2, <2>3
<1>11. Sound(q) BY <1>2, <1>8, <1>9, <1>10 DEF Sound
<1>12. ASSUME NEW x \in Nat, In(x, a, n) PROVE InNode(p, x) /\ ~InNode(q, x)
  <2>1. InFree(p, x, n, 1) BY <1>7, <1>12
  <2>2. \A m \in Sizes, i \in Nat : ~InFree(q, x, m, i)
    <3> SUFFICES ASSUME NEW m \in Sizes, NEW i \in Nat, InFree(q, x, m, i) PROVE FALSE OBVIOUS
    <3>1. (m = n => InFree(p, x, n, i + 1)) /\ (m # n => InFree(p, x, m, i)) BY <1>4, <1>5
    <3>2. m = n => i + 1 = 1 BY <2>1, <3>1 DEF Sound, OneNode
    <3>3. i # 0 BY DEF InFree
    <3> QED BY <2>1, <3>1, <3>2, <3>3 DEF Sound, OneNode
  <2>3. \A i \in Nat : ~InHeap(q, x, i) BY <1>6, <2>1 DEF Sound, OneNode
  <2> QED BY <2>1, <2>2, <2>3 DEF InNode
<1> QED BY <1>2, <1>3, <1>8, <1>11, <1>12 DEF q, a
\* A block that is apart from the nodes becomes one.
LEMMA PushIs ==
  ASSUME NEW p, Sound(p), NEW n \in Sizes, NEW a \in Nat,
         \A x \in Nat : In(x, a, n) => ~Holds(p, x)
  PROVE  LET q == Push(p, n, a)
         IN /\ Sound(q) /\ q.start = p.start /\ q.end = p.end
            /\ \A x \in Nat : InNode(q, x) => InNode(p, x) \/ In(x, a, n)
<1> DEFINE q == Push(p, n, a)
           s == p.free[n]
<1>1. p \in Pools /\ s \in Seq(Nat) BY DEF Sound, Pools
<1>2. /\ q \in Pools /\ q.start = p.start /\ q.end = p.end /\ q.heap = p.heap
      /\ \A m \in Sizes : m # n => q.free[m] = p.free[m]
      /\ q.free[n] = <<a>> \o s
  BY <1>1, Pushed DEF Push, Pools
<1>3. /\ Len(<<a>> \o s) = Len(s) + 1 /\ Len(s) \in Nat
      /\ \A i \in 1..(Len(s) + 1) : (<<a>> \o s)[i] = IF i = 1 THEN a ELSE s[i - 1]
  BY <1>1, Pushed
<1> HIDE DEF q
<1>4. \A x : \A i \in Nat : InFree(q, x, n, i) =>
        \/ i = 1 /\ In(x, a, n)
        \/ i - 1 \in Nat /\ i # 1 /\ InFree(p, x, n, i - 1)
  BY <1>2, <1>3 DEF InFree
<1>5. \A x : \A m \in Sizes, i \in Nat : m # n /\ InFree(q, x, m, i) => InFree(p, x, m, i)
  BY <1>2 DEF InFree
<1>6. \A x : \A i \in Nat : InHeap(q, x, i) <=> InHeap(p, x, i) BY <1>2 DEF InHeap
<1>7. \A x : InUncut(q, x) <=> InUncut(p, x) BY <1>2 DEF InUncut
<1>8. \A x \in Nat : InNode(q, x) => InNode(p, x) \/ In(x, a, n)
  BY <1>4, <1>5, <1>6 DEF InNode
<1>9. ASSUME NEW x \in Nat, NEW m \in Sizes, NEW i \in Nat, InFree(q, x, m, i)
      PROVE  \/ m = n /\ i = 1 /\ In(x, a, n)
             \/ m = n /\ i # 1 /\ i - 1 \in Nat /\ InFree(p, x, n, i - 1) /\ ~In(x, a, n)
             \/ m # n /\ InFree(p, x, m, i) /\ ~In(x, a, n)
  BY <1>4, <1>5, <1>9 DEF Holds, InNode
<1>10. OneNode(q)
  <2> SUFFICES ASSUME NEW x \in Nat
               PROVE  /\ \A m, k \in Sizes, i, j \in Nat : InFree(q, x, m, i) /\ InFree(q, x, k, j) => m = k /\ i = j
                      /\ \A i, j \in Nat : InHeap(q, x, i) /\ InHeap(q, x, j) => i = j
                      /\ \A m \in Sizes, i, j \in Nat : ~(InFree(q, x, m, i) /\ InHeap(q, x, j))
    BY DEF OneNode
  <2>1. ASSUME NEW m \in Sizes, NEW k \in Sizes, NEW i \in Nat, NEW j \in Nat,
               InFree(q, x, m, i), InFree(q, x, k, j)
        PROVE  m = k /\ i = j
    BY <1>9, <2>1 DEF Sound, OneNode
  <2>2. \A i, j \in Nat : InHeap(q, x, i) /\ InHeap(q, x, j) => i = j
    BY <1>6 DEF Sound, OneNode
  <2>3. ASSUME NEW m \in Sizes, NEW i \in Nat, NEW j \in Nat, InFree(q, x, m, i), InHeap(q, x, j)
        PROVE  FALSE
    <3>1. InHeap(p, x, j) /\ ~In(x, a, n) BY <1>6, <2>3 DEF Holds, InNode
    <3> QED BY <1>9, <2>3, <3>1 DEF Sound, OneNode
  <2> QED BY <2>1, <2>2, <2>3
<1>11. Sound(q)
  BY <1>2, <1>7, <1>8, <1>10 DEF Sound, Holds
<1> QED BY <1>2, <1>8, <1>11 DEF q

\* So does the node that add_heap records a chunk in.
LEMMA AddHeapIs ==
  ASSUME NEW p, Sound(p), NEW a \in Nat, NEW mem \in Nat,
         \A x \in Nat : In(x, a, HeapNode) => ~Holds(p, x)
  PROVE  LET q == AddHeap(p, a, mem)
         IN /\ Sound(q) /\ q.start = p.start /\ q.end = p.end
            /\ \A x \in Nat : InNode(q, x) => InNode(p, x) \/ In(x, a, HeapNode)
<1> DEFINE q == AddHeap(p, a, mem)
           s == p.heap
           r == [at |-> a, mem |-> mem]
           T == [at : Nat, mem : Nat]
<1>1. p \in Pools /\ s \in Seq(T) /\ r \in T BY DEF Sound, Pools
<1>2. q.free = p.free /\ q.start = p.start /\ q.end = p.end /\ q.heap = <<r>> \o s
      /\ q = [p EXCEPT !.heap = <<r>> \o s]
  BY <1>1 DEF AddHeap, Pools
<1>3. r.at = a OBVIOUS
<1> HIDE DEF r, T
<1>4. /\ <<r>> \o s \in Seq(T) /\ Len(<<r>> \o s) = Len(s) + 1 /\ Len(s) \in Nat
      /\ \A i \in 1..(Len(s) + 1) : (<<r>> \o s)[i] = IF i = 1 THEN r ELSE s[i - 1]
  BY <1>1, Pushed
<1>5. q \in Pools BY <1>1, <1>2, <1>4 DEF Pools, T
<1> HIDE DEF q
<1>6. \A x : \A i \in Nat : InHeap(q, x, i) =>
        \/ i = 1 /\ In(x, a, HeapNode)
        \/ i # 1 /\ i - 1 \in Nat /\ InHeap(p, x, i - 1)
  BY <1>2, <1>3, <1>4 DEF InHeap
<1>7. \A x : \A m \in Sizes, i \in Nat : InFree(q, x, m, i) <=> InFree(p, x, m, i)
  BY <1>2 DEF InFree
<1>8. \A x : InUncut(q, x) <=> InUncut(p, x) BY <1>2 DEF InUncut
<1>9. \A x \in Nat : InNode(q, x) => InNode(p, x) \/ In(x, a, HeapNode)
  BY <1>6, <1>7 DEF InNode
<1>10. ASSUME NEW x \in Nat, NEW i \in Nat, InHeap(q, x, i)
       PROVE  \/ i = 1 /\ In(x, a, HeapNode)
              \/ i # 1 /\ i - 1 \in Nat /\ InHeap(p, x, i - 1) /\ ~In(x, a, HeapNode)
  BY <1>6, <1>10 DEF Holds, InNode
<1>11. OneNode(q)
  <2> SUFFICES ASSUME NEW x \in Nat
               PROVE  /\ \A m, k \in Sizes, i, j \in Nat : InFree(q, x, m, i) /\ InFree(q, x, k, j) => m = k /\ i = j
                      /\ \A i, j \in Nat : InHeap(q, x, i) /\ InHeap(q, x, j) => i = j
                      /\ \A m \in Sizes, i, j \in Nat : ~(InFree(q, x, m, i) /\ InHeap(q, x, j))
    BY DEF OneNode
  <2>1. \A m, k \in Sizes, i, j \in Nat : InFree(q, x, m, i) /\ InFree(q, x, k, j) => m = k /\ i = j
    BY <1>7 DEF Sound, OneNode
  <2>2. ASSUME NEW i \in Nat, NEW j \in Nat, InHeap(q, x, i), InHeap(q, x, j) PROVE i = j
    BY <1>10, <2>2 DEF Sound, OneNode
  <2>3. ASSUME NEW m \in Sizes, NEW i \in Nat, NEW j \in Nat, InFree(q, x, m, i), InHeap(q, x, j)
        PROVE  FALSE
    <3>1. InFree(p, x, m, i) /\ ~In(x, a, HeapNode) BY <1>7, <2>3 DEF Holds, InNode
    <3> QED BY <1>10, <2>3, <3>1 DEF Sound, OneNode
  <2> QED BY <2>1, <2>2, <2>3
<1>12. Sound(q) BY <1>2, <1>5, <1>8, <1>9, <1>11 DEF Sound, Holds
<1> QED BY <1>2, <1>9, <1>12 DEF q

\* What is to cut may be any block apart from the nodes.
LEMMA MoveIs ==
  ASSUME NEW p, Sound(p), NEW a \in Nat, NEW e \in Nat, a <= e,
         \A x \in Nat : a <= x /\ x < e => ~InNode(p, x)
  PROVE  LET q == [p EXCEPT !.start = a, !.end = e]
         IN /\ Sound(q) /\ q.start = a /\ q.end = e
            /\ \A x \in Nat : InNode(q, x) <=> InNode(p, x)
<1> DEFINE q == [p EXCEPT !.start = a, !.end = e]
<1>1. q \in Pools /\ q.free = p.free /\ q.heap = p.heap /\ q.start = a /\ q.end = e
  BY DEF Sound, Pools
<1> HIDE DEF q
<1>2. /\ \A x : \A m \in Sizes, i \in Nat : InFree(q, x, m, i) <=> InFree(p, x, m, i)
      /\ \A x : \A i \in Nat : InHeap(q, x, i) <=> InHeap(p, x, i)
  BY <1>1 DEF InFree, InHeap
<1>3. \A x : InNode(q, x) <=> InNode(p, x) BY <1>2 DEF InNode
<1>4. OneNode(q) BY <1>2 DEF Sound, OneNode
<1>5. Sound(q) BY <1>1, <1>3, <1>4 DEF Sound, InUncut
<1> QED BY <1>1, <1>3, <1>5 DEF q

\* Of a new chunk apart from all, and of the rest of the old one, nothing is
\* lost but to the nodes.
LEMMA NewChunkIs ==
  ASSUME NEW p, Sound(p), p.end - p.start <= MaxSize,
         NEW a \in Nat, NEW e \in Nat, a <= e,
         \A x \in Nat : a <= x /\ x < e => ~Holds(p, x)
  PROVE  LET q == NewChunk(p, a, e)
         IN /\ Sound(q) /\ q.start = a /\ q.end = e
            /\ \A x \in Nat : InNode(q, x) => Holds(p, x)
<1> DEFINE n == p.end - p.start
           o == [p EXCEPT !.start = 0, !.end = 0]
           r == IF p.end > p.start THEN Push(o, n, p.start) ELSE o
           q == [r EXCEPT !.start = a, !.end = e]
<1>1. p \in Pools /\ p.start \in Nat /\ p.end \in Nat /\ p.start <= p.end BY DEF Sound, Pools
<1>2. /\ Sound(o) /\ o.start = 0 /\ o.end = 0
      /\ \A x \in Nat : InNode(o, x) <=> InNode(p, x)
  <2>1. \A x \in Nat : 0 <= x /\ x < 0 => ~InNode(p, x) OBVIOUS
  <2>2. 0 \in Nat /\ 0 <= 0 OBVIOUS
  <2> QED BY <2>1, <2>2, MoveIs
<1>3. \A x \in Nat : Holds(o, x) <=> InNode(p, x) BY <1>2 DEF Holds, InUncut
<1>4. \A x \in Nat : In(x, p.start, n) => InUncut(p, x) BY <1>1 DEF In, InUncut
<1>5. p.end > p.start => n \in Sizes BY <1>1, PoolAssumption DEF Sizes
<1>6. Sound(r) /\ \A x \in Nat : InNode(r, x) => Holds(p, x)
  <2>1. CASE p.end > p.start
    <3>1. \A x \in Nat : In(x, p.start, n) => ~Holds(o, x) BY <1>3, <1>4 DEF Sound
    <3> HIDE DEF o, n
    <3>2. /\ Sound(Push(o, n, p.start))
          /\ \A x \in Nat : InNode(Push(o, n, p.start), x) => InNode(o, x) \/ In(x, p.start, n)
      BY <1>1, <1>2, <1>5, <2>1, <3>1, PushIs
    <3> QED BY <1>2, <1>4, <2>1, <3>2 DEF Holds
  <2>2. CASE ~(p.end > p.start) BY <1>2, <2>2 DEF Holds
  <2> QED BY <2>1, <2>2
<1>7. NewChunk(p, a, e) = q
  BY <1>1 DEF NewChunk, Push, Pools
<1> HIDE DEF r
<1>8. \A x \in Nat : a <= x /\ x < e => ~InNode(r, x) BY <1>6
<1>9. Sound(q) /\ q.start = a /\ q.end = e /\ \A x \in Nat : InNode(q, x) <=> InNode(r, x)
  BY <1>6, <1>8, MoveIs
<1> QED BY <1>6, <1>7, <1>9
\* Arithmetic of nodes laid side by side.
LEMMA Times ==
  ASSUME NEW a \in Nat, NEW b \in Nat, NEW c \in Nat, a < b
  PROVE  a * c \in Nat /\ a * c + c <= b * c
<1>1. PICK d \in Nat : b = a + 1 + d
  <2>1. b - a - 1 \in Nat /\ b = a + 1 + (b - a - 1) OBVIOUS
  <2> QED BY <2>1
<1>2. b * c = a * c + c + d * c BY <1>1
<1>3. d * c \in Nat /\ a * c \in Nat OBVIOUS
<1> QED BY <1>2, <1>3

LEMMA Divided ==
  ASSUME NEW n \in Nat, NEW d \in Nat \ {0}
  PROVE  /\ n \div d \in Nat /\ d * (n \div d) <= n
         /\ n \div d = 0 => n < d
OBVIOUS

\* The nodes of a chain lie one after the other, from the second on.
LEMMA LinkIs ==
  ASSUME NEW a0 \in Nat, NEW size \in Nat, NEW num \in Nat \ {0},
         NEW i \in 1..(num - 1)
  PROVE  /\ a0 + i * size \in Nat /\ a0 + size <= a0 + i * size
         /\ a0 + i * size + size <= a0 + size * num
         /\ \A j \in 1..(num - 1) : i < j => a0 + i * size + size <= a0 + j * size
<1>1. 0 * size + size <= i * size /\ i * size \in Nat BY Times
<1>2. i * size + size <= num * size BY Times
<1>3. num * size = size * num OBVIOUS
<1>4. \A j \in 1..(num - 1) : i < j => i * size + size <= j * size BY Times
<1>5. \A j \in 1..(num - 1) : j * size \in Nat OBVIOUS
<1>6. num * size \in Nat /\ 0 * size = 0 OBVIOUS
<1> HIDE DEF Times
<1> QED BY <1>1, <1>2, <1>3, <1>4, <1>5, <1>6

\* What is cut off a chunk is its first block, for the caller, and free nodes.
LEMMA CarveIs ==
  ASSUME NEW p, Sound(p), NEW size \in Sizes, NEW num \in Nat \ {0},
         size * num <= p.end - p.start
  PROVE  LET q == Chain(Cut(p, size, num), size, p.start, num)
         IN /\ Sound(q) /\ q.end = p.end /\ q.start = p.start + size * num
            /\ \A x \in Nat : Holds(q, x) => Holds(p, x)
            /\ \A x \in Nat : In(x, p.start, size) => Holds(p, x) /\ ~Holds(q, x)
<1> DEFINE a0 == p.start
           k == size * num
           c == [p EXCEPT !.start = a0 + k, !.end = p.end]
           q == Chain(c, size, a0, num)
           s == [i \in 1..(num - 1) |-> a0 + i * size]
<1>1. p \in Pools /\ a0 \in Nat /\ p.end \in Nat /\ a0 <= p.end BY DEF Sound, Pools
<1>2. size \in Nat /\ size > 0 BY PoolAssumption DEF Sizes
<1>3. k \in Nat /\ size <= k
  <2>1. 0 * size + size <= num * size BY <1>2, Times
  <2>2. num * size = size * num /\ 0 * size = 0 /\ size * num \in Nat BY <1>2
  <2> QED BY <1>2, <2>1, <2>2
<1>4. Cut(p, size, num) = c BY <1>1 DEF Cut, Pools
<1>5. \A i \in 1..(num - 1) : /\ s[i] \in Nat /\ s[i] = a0 + i * size
                              /\ a0 + size <= s[i] /\ s[i] + size <= a0 + k
                              /\ \A j \in 1..(num - 1) : i < j => s[i] + size <= s[j]
  BY <1>1, <1>2, LinkIs
<1>6. s \in Seq(Nat) /\ Len(s) = num - 1
  <2>1. s \in [1..(num - 1) -> Nat] BY <1>5
  <2>2. num - 1 \in Nat OBVIOUS
  <2> HIDE DEF s
  <2> QED BY <2>1, <2>2
<1> HIDE DEF k, s
<1>7. a0 + k \in Nat /\ a0 + k <= p.end BY <1>1, <1>3 DEF k
<1>8. \A x \in Nat : a0 <= x /\ x < p.end => ~InNode(p, x) BY DEF Sound, InUncut
<1>9. /\ Sound(c) /\ c.start = a0 + k /\ c.end = p.end
      /\ \A x \in Nat : InNode(c, x) <=> InNode(p, x)
  <2>1. \A x \in Nat : a0 + k <= x /\ x < p.end => ~InNode(p, x) BY <1>1, <1>3, <1>8
  <2> HIDE DEF a0
  <2> QED BY <1>1, <1>7, <2>1, MoveIs
<1>10. c \in Pools /\ c.heap = p.heap BY <1>9 DEF Sound, Pools
<1> HIDE DEF c
<1>11. \A x \in Nat : In(x, a0, size) => InUncut(p, x) /\ ~InUncut(c, x)
  BY <1>1, <1>2, <1>3, <1>7, <1>9 DEF In, InUncut
<1>12. \A x \in Nat : InUncut(c, x) => InUncut(p, x)
  BY <1>1, <1>3, <1>7, <1>9 DEF InUncut
<1>13. CASE num = 1
  <2>1. q = c BY <1>13 DEF Chain
  <2> HIDE DEF q
  <2> QED BY <1>4, <1>9, <1>11, <1>12, <2>1 DEF q, Holds, Sound, k
<1>14. CASE num # 1
  <2>1. /\ q \in Pools /\ q.start = c.start /\ q.end = c.end /\ q.heap = c.heap
        /\ \A m \in Sizes : m # size => q.free[m] = c.free[m]
        /\ q.free[size] = s
    <3>1. q = [c EXCEPT !.free[size] = s] BY <1>14 DEF Chain, s
    <3> QED BY <1>6, <1>10, <3>1 DEF Pools
  <2> HIDE DEF q
  <2>2. \A x : \A i \in Nat : InHeap(q, x, i) <=> InHeap(c, x, i) BY <2>1 DEF InHeap
  <2>3. \A x : \A m \in Sizes, i \in Nat : m # size /\ InFree(q, x, m, i) => InFree(c, x, m, i)
    BY <2>1 DEF InFree
  <2>4. \A x \in Nat : \A i \in Nat : InFree(q, x, size, i)
          => /\ i \in 1..(num - 1) /\ In(x, s[i], size) /\ InUncut(p, x)
             /\ ~InUncut(c, x) /\ ~In(x, a0, size)
    <3> SUFFICES ASSUME NEW x \in Nat, NEW i \in Nat, InFree(q, x, size, i)
                 PROVE  /\ i \in 1..(num - 1) /\ In(x, s[i], size) /\ InUncut(p, x)
                        /\ ~InUncut(c, x) /\ ~In(x, a0, size)
      OBVIOUS
    <3>1. i \in 1..(num - 1) /\ In(x, s[i], size) BY <1>6, <2>1 DEF InFree
    <3>2. s[i] \in Nat /\ a0 + size <= s[i] /\ s[i] + size <= a0 + k BY <1>5, <3>1 DEF k
    <3> QED BY <1>1, <1>2, <1>7, <1>9, <3>1, <3>2 DEF In, InUncut
  <2>5. \A x \in Nat : InNode(q, x) /\ ~InNode(p, x)
         => InUncut(p, x) /\ ~InUncut(c, x) /\ ~In(x, a0, size)
    <3> SUFFICES ASSUME NEW x \in Nat, InNode(q, x), ~InNode(p, x)
                 PROVE  InUncut(p, x) /\ ~InUncut(c, x) /\ ~In(x, a0, size)
      OBVIOUS
    <3>1. ~InNode(c, x) BY <1>9
    <3>2. \A i \in Nat : ~InHeap(q, x, i) BY <2>2, <3>1 DEF InNode
    <3>3. PICK m \in Sizes, i \in Nat : InFree(q, x, m, i) BY <3>2 DEF InNode
    <3>4. m = size BY <2>3, <3>1, <3>3 DEF InNode
    <3> QED BY <2>4, <3>3, <3>4
  <2>7. OneNode(q)
    <3> SUFFICES ASSUME NEW x \in Nat
                 PROVE  /\ \A m, n \in Sizes, i, j \in Nat : InFree(q, x, m, i) /\ InFree(q, x, n, j) => m = n /\ i = j
                        /\ \A i, j \in Nat : InHeap(q, x, i) /\ InHeap(q, x, j) => i = j
                        /\ \A m \in Sizes, i, j \in Nat : ~(InFree(q, x, m, i) /\ InHeap(q, x, j))
      BY DEF OneNode
    <3>1. ASSUME NEW i \in Nat, InFree(q, x, size, i) PROVE ~InNode(c, x)
      BY <1>9, <2>4, <3>1 DEF Sound
    <3>2. ASSUME NEW m \in Sizes, NEW n \in Sizes, NEW i \in Nat, NEW j \in Nat,
                 InFree(q, x, m, i), InFree(q, x, n, j)
          PROVE  m = n /\ i = j
      <4>1. CASE m = size /\ n = size
        <5>1. /\ i \in 1..(num - 1) /\ j \in 1..(num - 1) /\ In(x, s[i], size) /\ In(x, s[j], size)
          BY <2>4, <3>2, <4>1
        <5>2. /\ s[i] \in Nat /\ s[j] \in Nat
              /\ i < j => s[i] + size <= s[j]
              /\ j < i => s[j] + size <= s[i]
          BY <1>5, <5>1
        <5> QED BY <1>2, <4>1, <5>1, <5>2 DEF In
      <4>2. CASE m # size /\ n # size
        BY <1>9, <2>3, <3>2, <4>2 DEF Sound, OneNode
      <4>3. CASE m = size /\ n # size BY <2>3, <3>1, <3>2, <4>3 DEF InNode
      <4>4. CASE m # size /\ n = size BY <2>3, <3>1, <3>2, <4>4 DEF InNode
      <4> QED BY <4>1, <4>2, <4>3, <4>4
    <3>3. \A i, j \in Nat : InHeap(q, x, i) /\ InHeap(q, x, j) => i = j
      BY <1>9, <2>2 DEF Sound, OneNode
    <3>4. ASSUME NEW m \in Sizes, NEW i \in Nat, NEW j \in Nat, InFree(q, x, m, i), InHeap(q, x, j)
          PROVE  FALSE
      <4>1. InHeap(c, x, j) BY <2>2, <3>4
      <4>2. m # size BY <3>1, <3>4, <4>1 DEF InNode
      <4> QED BY <1>9, <2>3, <3>4, <4>1, <4>2 DEF Sound, OneNode
    <3> QED BY <3>2, <3>3, <3>4
  <2>8. \A x : InUncut(q, x) <=> InUncut(c, x) BY <2>1 DEF InUncut
  <2>9. \A x \in Nat : InUncut(p, x) => ~InNode(p, x) BY DEF Sound
  <2>10. Sound(q)
    <3>1. \A x \in Nat : ~(InNode(q, x) /\ InUncut(q, x))
      BY <1>12, <2>5, <2>8, <2>9
    <3> QED BY <1>9, <2>1, <2>7, <3>1 DEF Sound
  <2>11. \A x \in Nat : Holds(q, x) => Holds(p, x) BY <1>12, <2>5, <2>8 DEF Holds
  <2>12. \A x \in Nat : In(x, a0, size) => Holds(p, x) /\ ~Holds(q, x)
    BY <1>11, <2>5, <2>8, <2>9 DEF Holds
  <2> QED BY <1>4, <1>9, <2>1, <2>10, <2>11, <2>12 DEF q, k
<1> QED BY <1>13, <1>14

\* The smallest larger node is what there is to cut next.
LEMMA TakeLargerIs ==
  ASSUME NEW p, Sound(p), NEW size \in Sizes, Larger(p, size) # {}
  PROVE  LET q == TakeLarger(p, size)
         IN /\ Sound(q) /\ q.end - q.start \in Sizes
            /\ \A x \in Nat : Holds(q, x) => InNode(p, x)
<1>1. Larger(p, size) \subseteq Sizes /\ Larger(p, size) \subseteq Nat
  BY PoolAssumption DEF Larger, Sizes
<1> DEFINE n == CHOOSE n \in Larger(p, size) : \A k \in Larger(p, size) : n <= k
           a == Head(p.free[n])
           o == Pop(p, n)
<1>2. \E m \in Larger(p, size) : \A k \in Larger(p, size) : m <= k BY <1>1, Least
<1>3. n \in Larger(p, size) BY <1>2
<1> HIDE DEF n
<1>4. n \in Sizes /\ n \in Nat /\ n > 0 /\ p.free[n] # <<>>
  BY <1>1, <1>3, PoolAssumption DEF Larger, Sizes
<1>5. /\ Sound(o) /\ a \in Nat
      /\ \A x \in Nat : InNode(o, x) => InNode(p, x)
      /\ \A x \in Nat : In(x, a, n) => InNode(p, x) /\ ~InNode(o, x)
  BY <1>4, PopIs
<1> HIDE DEF o, a
<1> DEFINE q == [o EXCEPT !.start = a, !.end = a + n]
<1>6. \A x \in Nat : a <= x /\ x < a + n => ~InNode(o, x) BY <1>5 DEF In
<1>7. /\ Sound(q) /\ q.start = a /\ q.end = a + n
      /\ \A x \in Nat : InNode(q, x) <=> InNode(o, x)
  <2>1. a + n \in Nat /\ a <= a + n BY <1>4, <1>5
  <2> QED BY <1>5, <1>6, <2>1, MoveIs
<1>8. TakeLarger(p, size) = q BY DEF TakeLarger, n, a, o
<1> HIDE DEF q
<1>9. q.end - q.start = n BY <1>4, <1>5, <1>7
<1>10. \A x \in Nat : Holds(q, x) => InNode(p, x)
  BY <1>5, <1>7 DEF Holds, InUncut, In
<1> QED BY <1>4, <1>7, <1>8, <1>9, <1>10
-----------------------------------------------------------------------------

Frame == [size : Sizes, mem : Nat]
\* All calls but the first ask for the node of a chunk.
Calls == {s \in Seq(Frame) : \A i \in 1..(Len(s) - 1) : s[i].size = HeapNode}
Books == [next : Nat, calls : 0..Mallocs, news : 0..News]

\* An address is in one pool or one block of the program, and malloc gave it.
OneOwner ==
  /\ \A t \in Users : Sound(pool[t]) /\ pool[t].end <= brk.next
  /\ \A t \in Users, x \in Nat : Holds(pool[t], x) => x < brk.next
  /\ \A s, t \in Users : s # t => \A x \in Nat : ~(Holds(pool[s], x) /\ Holds(pool[t], x))
  /\ \A u \in used : u.at + u.size <= brk.next
  /\ \A u \in used, t \in Users, x \in Nat : In(x, u.at, u.size) => ~Holds(pool[t], x)
  /\ \A u, v \in used, x \in Nat : In(x, u.at, u.size) /\ In(x, v.at, v.size) => u = v

PoolInv == /\ pool \in [Users -> Pools]
           /\ stack \in [Users -> Calls]
           /\ used \subseteq [at : Nat, size : Sizes]
           /\ brk \in Books
           /\ wild \in BOOLEAN
           /\ OneOwner

\* The pending calls of chunk_alloc when one starts, nests and ends.
LEMMA CallStarts ==
  ASSUME NEW f \in Frame
  PROVE  <<f>> \in Calls
<1>1. <<f>> \in Seq(Frame) /\ Len(<<f>>) = 1 OBVIOUS
<1> QED BY <1>1 DEF Calls

LEMMA CallNests ==
  ASSUME NEW s \in Calls, NEW f \in Frame, f.size = HeapNode
  PROVE  <<f>> \o s \in Calls
<1>1. s \in Seq(Frame) /\ Len(s) \in Nat /\ \A i \in 1..(Len(s) - 1) : s[i].size = HeapNode
  BY DEF Calls
<1> DEFINE r == <<f>> \o s
<1>2. /\ r \in Seq(Frame) /\ Len(r) = Len(s) + 1
      /\ \A i \in 1..(Len(s) + 1) : r[i] = IF i = 1 THEN f ELSE s[i - 1]
  BY <1>1, Pushed
<1> HIDE DEF r
<1>3. \A i \in 1..(Len(r) - 1) : r[i].size = HeapNode BY <1>1, <1>2
<1> QED BY <1>2, <1>3 DEF Calls, r

LEMMA CallEnds ==
  ASSUME NEW s \in Calls, s # <<>>
  PROVE  /\ Tail(s) \in Calls /\ Head(s) \in Frame
         /\ Tail(s) # <<>> => Head(s).size = HeapNode
<1>1. s \in Seq(Frame) /\ \A i \in 1..(Len(s) - 1) : s[i].size = HeapNode BY DEF Calls
<1> DEFINE r == Tail(s)
<1>2. /\ r \in Seq(Frame) /\ Len(r) = Len(s) - 1 /\ Len(s) \in Nat \ {0}
      /\ Head(s) = s[1] /\ s[1] \in Frame
      /\ \A i \in 1..(Len(s) - 1) : r[i] = s[i + 1]
  BY <1>1, Popped
<1>3. r # <<>> => Len(r) # 0 BY <1>2
<1> HIDE DEF r
<1>4. \A i \in 1..(Len(r) - 1) : r[i].size = HeapNode BY <1>1, <1>2
<1>5. r # <<>> => Head(s).size = HeapNode BY <1>1, <1>2, <1>3
<1>6. r \in Calls BY <1>2, <1>4 DEF Calls
<1> QED BY <1>2, <1>5, <1>6 DEF r

\* A pool starts with nothing.
LEMMA EmptyPoolIs == Sound(EmptyPool) /\ EmptyPool.end = 0 /\ \A x \in Nat : ~Holds(EmptyPool, x)
<1>1. <<>> \in Seq(Nat) /\ <<>> \in Seq([at : Nat, mem : Nat]) /\ Len(<<>>) = 0 OBVIOUS
<1>2. /\ EmptyPool \in Pools /\ EmptyPool.start = 0 /\ EmptyPool.end = 0
      /\ EmptyPool.heap = <<>> /\ \A n \in Sizes : EmptyPool.free[n] = <<>>
  BY <1>1 DEF EmptyPool, Pools
<1>3. /\ \A x : \A n \in Sizes, i \in Nat : ~InFree(EmptyPool, x, n, i)
      /\ \A x : \A i \in Nat : ~InHeap(EmptyPool, x, i)
  BY <1>1, <1>2 DEF InFree, InHeap
<1>4. \A x : ~InNode(EmptyPool, x) BY <1>3 DEF InNode
<1>5. \A x \in Nat : ~InUncut(EmptyPool, x)
  <2> SUFFICES ASSUME NEW x \in Nat, InUncut(EmptyPool, x) PROVE FALSE OBVIOUS
  <2> QED BY <1>2 DEF InUncut
<1> QED BY <1>2, <1>3, <1>4, <1>5 DEF Sound, OneNode, Holds

LEMMA PoolInitInv == PoolInit => PoolInv
<1> SUFFICES ASSUME PoolInit PROVE PoolInv OBVIOUS
<1>1. /\ \A t \in Users : pool[t] = EmptyPool
      /\ pool = [t \in Users |-> EmptyPool] /\ stack = [t \in Users |-> <<>>]
      /\ used = {} /\ brk = [next |-> 0, calls |-> 0, news |-> 0] /\ wild = FALSE
  BY DEF PoolInit
<1>2. brk \in Books /\ brk.next = 0 BY <1>1, PoolAssumption DEF Books
<1>3. EmptyPool \in Pools BY EmptyPoolIs DEF Sound
<1>4. OneOwner BY <1>1, <1>2, EmptyPoolIs DEF OneOwner
<1>5. stack \in [Users -> Calls]
  <2>1. <<>> \in Calls BY DEF Calls
  <2> QED BY <1>1, <2>1
<1> QED BY <1>1, <1>2, <1>3, <1>4, <1>5 DEF PoolInv

\* What a step of one thread has to keep for all: its pool gains only what
\* malloc gave or the program gave back, and the program gains one block at most,
\* which the pool has lost.
LEMMA OwnedStep ==
  ASSUME PoolInv, NEW t \in Users, NEW q,
         pool' = [pool EXCEPT ![t] = q], Sound(q),
         stack' \in [Users -> Calls], used' \subseteq [at : Nat, size : Sizes],
         brk' \in Books, wild' \in BOOLEAN,
         brk.next <= brk'.next, q.end <= brk'.next,
         \A x \in Nat : Holds(q, x) => \/ Holds(pool[t], x)
                                       \/ brk.next <= x /\ x < brk'.next
                                       \/ \E u \in used \ used' : In(x, u.at, u.size),
         \A u \in used' \ used, x \in Nat : In(x, u.at, u.size) => Holds(pool[t], x) /\ ~Holds(q, x),
         \A u, v \in used' \ used : u = v
  PROVE  PoolInv'
<1> DEFINE p == pool[t]
           n == brk.next
           m == brk'.next
<1>1. /\ pool \in [Users -> Pools] /\ used \subseteq [at : Nat, size : Sizes] /\ OneOwner
      /\ n \in Nat /\ m \in Nat
  BY DEF PoolInv, Books
<1>2. /\ pool'[t] = q /\ \A s \in Users : s # t => pool'[s] = pool[s]
      /\ pool' \in [Users -> Pools]
  BY <1>1 DEF Sound
<1>3. ASSUME NEW u \in used' PROVE u.at \in Nat /\ u.size \in Nat /\ u.size > 0
  BY PoolAssumption DEF Sizes
<1>4. ASSUME NEW u \in used PROVE u.at \in Nat /\ u.size \in Nat /\ u.size > 0
  BY <1>1, PoolAssumption DEF Sizes
<1> HIDE DEF n, m, p
<1>5. n <= m BY DEF n, m
<1>6. \A x \in Nat : Holds(p, x) => x < n BY <1>1 DEF OneOwner, p, n
<1>7. \A u \in used, x \in Nat : In(x, u.at, u.size) => ~Holds(p, x) /\ x < n
  <2> SUFFICES ASSUME NEW u \in used, NEW x \in Nat, In(x, u.at, u.size)
               PROVE  ~Holds(p, x) /\ x < n
    OBVIOUS
  <2>1. u.at + u.size <= n /\ ~Holds(p, x) BY <1>1 DEF OneOwner, p, n
  <2> QED BY <1>1, <1>4, <2>1 DEF In
<1>8. \A x \in Nat : Holds(q, x) => \/ Holds(p, x)
                                    \/ n <= x /\ x < m
                                    \/ \E u \in used \ used' : In(x, u.at, u.size)
  BY DEF p, n, m
<1>9. \A u \in used' \ used, x \in Nat : In(x, u.at, u.size) => Holds(p, x) /\ ~Holds(q, x)
  BY DEF p
<1>10. ASSUME NEW s \in Users PROVE Sound(pool'[s]) /\ pool'[s].end <= m
  <2>1. CASE s = t BY <1>2, <2>1 DEF m
  <2>2. CASE s # t
    <3>1. Sound(pool[s]) /\ pool[s].end <= n BY <1>1 DEF OneOwner, n
    <3>2. pool[s].end \in Nat BY <1>1 DEF Pools
    <3> QED BY <1>1, <1>2, <1>5, <2>2, <3>1, <3>2
  <2> QED BY <2>1, <2>2
<1>11. ASSUME NEW s \in Users, NEW x \in Nat, Holds(pool'[s], x) PROVE x < m
  <2>1. CASE s = t BY <1>1, <1>2, <1>5, <1>6, <1>7, <1>8, <1>11, <2>1
  <2>2. CASE s # t
    <3>1. x < n BY <1>1, <1>2, <1>11, <2>2 DEF OneOwner, n
    <3> QED BY <1>1, <1>5, <3>1
  <2> QED BY <2>1, <2>2
<1>12. ASSUME NEW s \in Users, s # t, NEW x \in Nat, Holds(pool[s], x)
       PROVE  ~Holds(q, x) /\ ~Holds(p, x) /\ x < n
              /\ \A u \in used : ~In(x, u.at, u.size)
  <2>1. ~Holds(p, x) /\ x < n /\ \A u \in used : ~In(x, u.at, u.size)
    BY <1>1, <1>12 DEF OneOwner, p, n
  <2> QED BY <1>1, <1>8, <2>1
<1>13. ASSUME NEW r \in Users, NEW s \in Users, r # s, NEW x \in Nat
       PROVE  ~(Holds(pool'[r], x) /\ Holds(pool'[s], x))
  <2>1. CASE r = t BY <1>2, <1>12, <1>13, <2>1
  <2>2. CASE s = t BY <1>2, <1>12, <1>13, <2>2
  <2>3. CASE r # t /\ s # t BY <1>1, <1>2, <1>13, <2>3 DEF OneOwner
  <2> QED BY <2>1, <2>2, <2>3
<1>14. ASSUME NEW u \in used' PROVE u.at + u.size <= m
  <2>1. CASE u \in used
    <3>1. u.at + u.size <= n BY <1>1, <2>1 DEF OneOwner, n
    <3> QED BY <1>1, <1>3, <1>5, <3>1
  <2>2. CASE u \notin used
    <3> DEFINE x == u.at + u.size - 1
    <3>1. x \in Nat /\ In(x, u.at, u.size) BY <1>3 DEF In
    <3>2. x < n BY <1>6, <1>9, <2>2, <3>1
    <3> QED BY <1>1, <1>3, <1>5, <3>2
  <2> QED BY <2>1, <2>2
<1>15. ASSUME NEW u \in used', NEW v \in used', NEW x \in Nat,
              In(x, u.at, u.size), In(x, v.at, v.size)
       PROVE  u = v
  <2>1. CASE u \in used /\ v \in used BY <1>1, <1>15, <2>1 DEF OneOwner
  <2>2. CASE u \notin used /\ v \notin used BY <2>2
  <2>3. CASE u \in used /\ v \notin used BY <1>7, <1>9, <1>15, <2>3
  <2>4. CASE u \notin used /\ v \in used BY <1>7, <1>9, <1>15, <2>4
  <2> QED BY <2>1, <2>2, <2>3, <2>4
<1>16. ASSUME NEW u \in used', NEW s \in Users, NEW x \in Nat, In(x, u.at, u.size)
       PROVE  ~Holds(pool'[s], x)
  <2>1. CASE s = t /\ u \in used
    <3>1. ~Holds(p, x) /\ x < n BY <1>7, <1>16, <2>1
    <3>2. \A v \in used \ used' : ~In(x, v.at, v.size)
      BY <1>1, <1>16, <2>1 DEF OneOwner
    <3> QED BY <1>1, <1>2, <1>8, <2>1, <3>1, <3>2
  <2>2. CASE s = t /\ u \notin used BY <1>2, <1>9, <1>16, <2>2
  <2>3. CASE s # t /\ u \in used BY <1>1, <1>2, <1>16, <2>3 DEF OneOwner
  <2>4. CASE s # t /\ u \notin used BY <1>2, <1>9, <1>12, <1>16, <2>4
  <2> QED BY <2>1, <2>2, <2>3, <2>4
<1>17. OneOwner' BY <1>10, <1>11, <1>13, <1>14, <1>15, <1>16 DEF OneOwner, m
<1> QED BY <1>2, <1>17 DEF PoolInv
-----------------------------------------------------------------------------

\* allocate: the head of a free list goes to the program, or chunk_alloc is called.
LEMMA NewInv == ASSUME PoolInv, NEW t \in Users, NEW n \in Sizes, New(t, n) PROVE PoolInv'
<1> DEFINE p == pool[t]
<1>1. Sound(p) /\ p.end <= brk.next /\ brk \in Books /\ p \in Pools /\ brk.next \in Nat
      /\ pool \in [Users -> Pools] /\ stack \in [Users -> Calls]
      /\ used \subseteq [at : Nat, size : Sizes] /\ wild \in BOOLEAN
  BY DEF PoolInv, OneOwner, Books
<1>2. brk' \in Books /\ brk'.next = brk.next /\ wild' = wild
  <2>1. brk' = [brk EXCEPT !.news = @ + 1] /\ brk.news < News /\ wild' = wild BY DEF New
  <2>2. brk.news \in 0..News BY <1>1 DEF Books
  <2>3. brk.news + 1 \in 0..News BY <2>1, <2>2, PoolAssumption
  <2> QED BY <1>1, <2>1, <2>3 DEF Books
<1>3. CASE p.free[n] # <<>>
  <2> DEFINE q == Pop(p, n)
             u == [at |-> Head(p.free[n]), size |-> n]
  <2>1. /\ Sound(q) /\ u.at \in Nat /\ q.start = p.start /\ q.end = p.end
        /\ \A x \in Nat : InNode(q, x) => InNode(p, x)
        /\ \A x \in Nat : In(x, u.at, n) => InNode(p, x) /\ ~InNode(q, x)
    BY <1>1, <1>3, PopIs
  <2>2. pool' = [pool EXCEPT ![t] = q] /\ used' = used \cup {u} /\ stack' = stack
    BY <1>3 DEF New
  <2>3. u.size = n /\ u \in [at : Nat, size : Sizes] BY <2>1
  <2> HIDE DEF q, u
  <2>4. \A x \in Nat : Holds(q, x) => Holds(p, x) BY <2>1 DEF Holds, InUncut
  <2>5. \A x \in Nat : In(x, u.at, n) => Holds(p, x) /\ ~Holds(q, x)
    BY <1>1, <2>1 DEF Holds, InUncut, Sound
  <2>6. used' \ used \subseteq {u} BY <2>2
  <2> HIDE DEF p
  <2>7. \A v \in used' \ used : v = u BY <2>6
  <2>8. \A v \in used' \ used, x \in Nat : In(x, v.at, v.size) => Holds(p, x) /\ ~Holds(q, x)
    BY <2>3, <2>5, <2>7
  <2>9. brk.next <= brk'.next /\ q.end <= brk'.next BY <1>1, <1>2, <2>1
  <2>10. used' \subseteq [at : Nat, size : Sizes] BY <1>1, <2>2, <2>3
  <2> QED BY <1>1, <1>2, <2>1, <2>2, <2>4, <2>7, <2>8, <2>9, <2>10, OwnedStep DEF p
<1>4. CASE p.free[n] = <<>>
  <2>1. pool' = pool /\ used' = used /\ stack' = [stack EXCEPT ![t] = <<[size |-> n, mem |-> 0]>>]
    BY <1>4 DEF New
  <2>2. [size |-> n, mem |-> 0] \in Frame BY DEF Frame
  <2>3. stack' \in [Users -> Calls] BY <1>1, <2>1, <2>2, CallStarts
  <2> QED BY <1>1, <1>2, <2>1, <2>3 DEF PoolInv, OneOwner
<1> QED BY <1>3, <1>4

\* deallocate: the block becomes the head of its free list.
LEMMA DeleteInv == ASSUME PoolInv, NEW t \in Users, NEW u \in used, Delete(t, u) PROVE PoolInv'
<1> DEFINE p == pool[t]
           q == Push(p, u.size, u.at)
<1>1. Sound(p) /\ p.end <= brk.next /\ brk \in Books /\ brk.next \in Nat
      /\ stack \in [Users -> Calls] /\ wild \in BOOLEAN
      /\ used \subseteq [at : Nat, size : Sizes] /\ u.at \in Nat /\ u.size \in Sizes
      /\ \A x \in Nat : In(x, u.at, u.size) => ~Holds(p, x)
  BY DEF PoolInv, OneOwner, Books
<1>2. /\ Sound(q) /\ q.start = p.start /\ q.end = p.end
      /\ \A x \in Nat : InNode(q, x) => InNode(p, x) \/ In(x, u.at, u.size)
  BY <1>1, PushIs
<1>3. /\ pool' = [pool EXCEPT ![t] = q] /\ used' = used \ {u} /\ brk' = brk
      /\ stack' = stack /\ wild' = wild
  BY DEF Delete
<1> HIDE DEF q
<1>4. \A x \in Nat : Holds(q, x) => Holds(p, x) \/ In(x, u.at, u.size) BY <1>2 DEF Holds, InUncut
<1>5. u \in used \ used' /\ used' \ used = {} /\ used' \subseteq used BY <1>3
<1> HIDE DEF p
<1>6. \A x \in Nat : Holds(q, x) => \/ Holds(p, x)
                                    \/ \E v \in used \ used' : In(x, v.at, v.size)
  BY <1>4, <1>5
<1>7. brk.next <= brk'.next /\ q.end <= brk'.next BY <1>1, <1>2, <1>3
<1> QED BY <1>1, <1>2, <1>3, <1>5, <1>6, <1>7, OwnedStep DEF p

\* The end of a thread empties its pool.
LEMMA ExitInv == ASSUME PoolInv, NEW t \in Users, Exit(t) PROVE PoolInv'
<1>1. brk \in Books /\ brk.next \in Nat /\ stack \in [Users -> Calls] /\ wild \in BOOLEAN
      /\ used \subseteq [at : Nat, size : Sizes]
  BY DEF PoolInv, Books
<1>2. /\ pool' = [pool EXCEPT ![t] = EmptyPool] /\ used' = used /\ brk' = brk
      /\ stack' = stack /\ wild' = wild
  BY DEF Exit
<1>3. brk.next <= brk'.next /\ EmptyPool.end <= brk'.next BY <1>1, <1>2, EmptyPoolIs
<1>4. used' \ used = {} BY <1>2
<1> QED BY <1>1, <1>2, <1>3, <1>4, EmptyPoolIs, OwnedStep

\* The innermost call of a thread asks for nodes of a size there is.
LEMMA CallIs ==
  ASSUME PoolInv, NEW t \in Users, stack[t] # <<>>
  PROVE  /\ Sound(pool[t]) /\ pool[t] \in Pools /\ pool[t].end <= brk.next
         /\ pool[t].start \in Nat /\ pool[t].end \in Nat /\ pool[t].start <= pool[t].end
         /\ brk \in Books /\ brk.next \in Nat /\ brk.calls \in 0..Mallocs
         /\ Head(stack[t]).size \in Sizes /\ Head(stack[t]).mem \in Nat
         /\ stack \in [Users -> Calls] /\ wild \in BOOLEAN
         /\ Tail(stack[t]) \in Calls /\ stack[t] \in Calls
         /\ Tail(stack[t]) # <<>> => Head(stack[t]).size = HeapNode
         /\ used \subseteq [at : Nat, size : Sizes]
         /\ Fit(pool[t], Head(stack[t]).size) \in Nat
         /\ Head(stack[t]).size * Fit(pool[t], Head(stack[t]).size) <= pool[t].end - pool[t].start
         /\ Fit(pool[t], Head(stack[t]).size) = 0
              => pool[t].end - pool[t].start < Head(stack[t]).size
         /\ \A x \in Nat : Holds(pool[t], x) => x < brk.next
<1> DEFINE p == pool[t]
           s == stack[t]
           size == Head(s).size
           left == p.end - p.start
<1>1. Sound(p) /\ p.end <= brk.next /\ brk \in Books /\ s \in Calls
      /\ stack \in [Users -> Calls] /\ wild \in BOOLEAN
      /\ used \subseteq [at : Nat, size : Sizes]
      /\ \A x \in Nat : Holds(p, x) => x < brk.next
  BY DEF PoolInv, OneOwner
<1>2. p \in Pools /\ p.start \in Nat /\ p.end \in Nat /\ p.start <= p.end /\ left \in Nat
  BY <1>1 DEF Sound, Pools
<1>3. Tail(s) \in Calls /\ Head(s) \in Frame /\ (Tail(s) # <<>> => Head(s).size = HeapNode)
  BY <1>1, CallEnds
<1>4. size \in Sizes /\ Head(s).mem \in Nat BY <1>3 DEF Frame
<1>5. size \in Nat \ {0} BY <1>4, PoolAssumption DEF Sizes
<1>6. Fit(p, size) = left \div size BY DEF Fit
<1> HIDE DEF size, left
<1>7. /\ left \div size \in Nat /\ size * (left \div size) <= left
      /\ left \div size = 0 => left < size
  BY <1>2, <1>5, Divided
<1>8. brk.next \in Nat /\ brk.calls \in 0..Mallocs BY <1>1 DEF Books
<1> QED BY <1>1, <1>2, <1>3, <1>4, <1>6, <1>7, <1>8 DEF size, left

\* chunk_alloc cuts nodes off the rest of the chunk.
LEMMA CarveInv == ASSUME PoolInv, NEW t \in Users, Carve(t) PROVE PoolInv'
<1> DEFINE p == pool[t]
           size == Head(stack[t]).size
           fit == Fit(p, size)
           num == IF fit >= NodeNum THEN NodeNum ELSE fit
           a0 == p.start
           left == Chain(Cut(p, size, num), size, a0, num)
           u == [at |-> a0, size |-> size]
           mem == Head(stack[t]).mem
           more == AddHeap(left, a0, mem)
<1>1. stack[t] # <<>> /\ fit >= 1 BY DEF Carve
<1>2. /\ Sound(p) /\ p.end <= brk.next /\ brk \in Books /\ brk.next \in Nat
      /\ p.start \in Nat /\ p.end \in Nat
      /\ size \in Sizes /\ fit \in Nat /\ size * fit <= p.end - p.start
      /\ mem \in Nat /\ wild \in BOOLEAN /\ stack \in [Users -> Calls]
      /\ Tail(stack[t]) \in Calls /\ used \subseteq [at : Nat, size : Sizes]
      /\ Tail(stack[t]) # <<>> => size = HeapNode
  BY <1>1, CallIs
<1>3. brk' = brk /\ wild' = wild /\ stack' = [stack EXCEPT ![t] = Tail(@)] BY DEF Carve
<1>4. /\ Tail(stack[t]) = <<>> => /\ pool' = [pool EXCEPT ![t] = left]
                                  /\ used' = used \cup {u}
      /\ Tail(stack[t]) # <<>> => pool' = [pool EXCEPT ![t] = more] /\ used' = used
  BY DEF Carve
<1>5. stack' \in [Users -> Calls] BY <1>2, <1>3
<1> HIDE DEF p, size, fit, mem
<1>6. size \in Nat BY <1>2, PoolAssumption DEF Sizes
<1>7. num \in Nat \ {0} /\ num <= fit BY <1>1, <1>2, PoolAssumption
<1>8. size * num <= p.end - p.start
  <2>1. CASE num = fit BY <1>2, <2>1
  <2>2. CASE num # fit
    <3> HIDE DEF num
    <3>1. num * size + size <= fit * size BY <1>2, <1>6, <1>7, <2>2, Times
    <3>2. num * size = size * num /\ fit * size = size * fit
          /\ size * num \in Nat /\ size * fit \in Nat
      BY <1>2, <1>6, <1>7
    <3> QED BY <1>2, <1>6, <3>1, <3>2
  <2> QED BY <2>1, <2>2
<1> HIDE DEF num
<1>9. /\ Sound(left) /\ left.end = p.end
      /\ \A x \in Nat : Holds(left, x) => Holds(p, x)
      /\ \A x \in Nat : In(x, a0, size) => Holds(p, x) /\ ~Holds(left, x)
  BY <1>2, <1>7, <1>8, CarveIs
<1>10. a0 \in Nat BY <1>2
<1> HIDE DEF left, a0
<1>11. CASE Tail(stack[t]) = <<>>
  <2>1. u.at = a0 /\ u.size = size /\ u \in [at : Nat, size : Sizes] BY <1>2, <1>10
  <2> HIDE DEF u
  <2>2. pool' = [pool EXCEPT ![t] = left] /\ used' = used \cup {u} BY <1>4, <1>11
  <2>3. \A v \in used' \ used : v = u BY <2>2
  <2>4. \A v \in used' \ used, x \in Nat : In(x, v.at, v.size) => Holds(p, x) /\ ~Holds(left, x)
    BY <1>9, <2>1, <2>3
  <2>5. brk.next <= brk'.next /\ left.end <= brk'.next BY <1>2, <1>3, <1>9
  <2>6. used' \subseteq [at : Nat, size : Sizes] BY <1>2, <2>1, <2>2
  <2> QED BY <1>2, <1>3, <1>5, <1>9, <2>2, <2>3, <2>4, <2>5, <2>6, OwnedStep DEF p
<1>12. CASE Tail(stack[t]) # <<>>
  <2>1. pool' = [pool EXCEPT ![t] = more] /\ used' = used BY <1>4, <1>12
  <2>2. CASE size = HeapNode
    <3>1. /\ Sound(more) /\ more.start = left.start /\ more.end = left.end
          /\ \A x \in Nat : InNode(more, x) => InNode(left, x) \/ In(x, a0, HeapNode)
      BY <1>2, <1>9, <1>10, <2>2, AddHeapIs
    <3> HIDE DEF more
    <3>2. \A x \in Nat : Holds(more, x) => Holds(p, x)
      BY <1>9, <2>2, <3>1 DEF Holds, InUncut
    <3>3. brk.next <= brk'.next /\ more.end <= brk'.next BY <1>2, <1>3, <1>9, <3>1
    <3>4. used' \ used = {} BY <2>1
    <3> QED BY <1>2, <1>3, <1>5, <2>1, <3>1, <3>2, <3>3, <3>4, OwnedStep DEF p
  <2> QED BY <1>2, <1>12, <2>2
<1> QED BY <1>11, <1>12
\* chunk_alloc takes a new chunk; add_heap asks for its record in a nested call.
LEMMA MallocInv == ASSUME PoolInv, NEW t \in Users, Malloc(t) PROVE PoolInv'
<1> DEFINE p == pool[t]
           size == Head(stack[t]).size
           bytes == 2 * size * NodeNum
           from == brk.next
           upto == from + bytes
           got == NewChunk(p, from, upto)
           f == [size |-> HeapNode, mem |-> from]
           free == got.free[HeapNode]
           a0 == Head(free)
           left == Pop(got, HeapNode)
           more == AddHeap(left, a0, from)
<1>1. /\ stack[t] # <<>> /\ brk.calls < Mallocs /\ Fit(p, size) = 0
      /\ brk' = [brk EXCEPT !.next = upto, !.calls = @ + 1]
      /\ used' = used /\ wild' = wild
      /\ \/ free # <<>> /\ pool' = [pool EXCEPT ![t] = more] /\ stack' = stack
         \/ /\ free = <<>> /\ pool' = [pool EXCEPT ![t] = got]
            /\ stack' = [stack EXCEPT ![t] = <<f>> \o stack[t]]
  BY DEF Malloc
<1>2. /\ Sound(p) /\ p.end <= from /\ brk \in Books /\ from \in Nat /\ brk.calls \in 0..Mallocs
      /\ p.start \in Nat /\ p.end \in Nat
      /\ size \in Sizes /\ p.end - p.start < size
      /\ wild \in BOOLEAN /\ stack \in [Users -> Calls] /\ stack[t] \in Calls
      /\ used \subseteq [at : Nat, size : Sizes]
      /\ \A x \in Nat : Holds(p, x) => x < from
  BY <1>1, CallIs
<1> HIDE DEF p, size
<1>3. size \in Nat /\ size <= MaxSize BY <1>2, PoolAssumption DEF Sizes
<1>4. bytes \in Nat BY <1>3, PoolAssumption
<1> HIDE DEF bytes
<1>5. upto \in Nat /\ from <= upto BY <1>2, <1>4
<1>6. brk' \in Books /\ brk'.next = upto
  <2>1. brk.calls + 1 \in 0..Mallocs BY <1>1, <1>2, PoolAssumption
  <2> HIDE DEF upto
  <2> QED BY <1>1, <1>2, <1>5, <2>1 DEF Books
<1> HIDE DEF from, upto
<1>7. \A x \in Nat : from <= x /\ x < upto => ~Holds(p, x) BY <1>2
<1>8. p.end - p.start <= MaxSize BY <1>2, <1>3, PoolAssumption
<1>9. /\ Sound(got) /\ got.start = from /\ got.end = upto
      /\ \A x \in Nat : InNode(got, x) => Holds(p, x)
  BY <1>2, <1>5, <1>7, <1>8, NewChunkIs
<1> HIDE DEF got
<1>10. \A x \in Nat : Holds(got, x) => Holds(p, x) \/ (from <= x /\ x < upto)
  BY <1>9 DEF Holds, InUncut
<1>11. HeapNode \in Sizes BY PoolAssumption DEF Sizes
<1>12. used' \ used = {} BY <1>1
<1>13. CASE free # <<>>
  <2>1. pool' = [pool EXCEPT ![t] = more] /\ stack' = stack BY <1>1, <1>13
  <2>2. /\ Sound(left) /\ a0 \in Nat /\ left.start = from /\ left.end = upto
        /\ \A x \in Nat : InNode(left, x) => InNode(got, x)
        /\ \A x \in Nat : In(x, a0, HeapNode) => InNode(got, x) /\ ~InNode(left, x)
    BY <1>9, <1>11, <1>13, PopIs
  <2> HIDE DEF left, a0
  <2>3. \A x \in Nat : In(x, a0, HeapNode) => ~Holds(left, x)
    <3>1. \A x \in Nat : InUncut(left, x) => InUncut(got, x) BY <1>9, <2>2 DEF InUncut
    <3> QED BY <1>9, <2>2, <3>1 DEF Holds, Sound
  <2>4. /\ Sound(more) /\ more.start = from /\ more.end = upto
        /\ \A x \in Nat : InNode(more, x) => InNode(left, x) \/ In(x, a0, HeapNode)
    BY <1>2, <2>2, <2>3, AddHeapIs
  <2> HIDE DEF more
  <2>5. \A x \in Nat : Holds(more, x) => Holds(p, x) \/ (from <= x /\ x < upto)
    <3>1. \A x \in Nat : InUncut(more, x) => from <= x /\ x < upto BY <2>4 DEF InUncut
    <3> QED BY <1>9, <2>2, <2>4, <3>1 DEF Holds
  <2>6. more.end <= upto BY <1>5, <2>4
  <2> QED BY <1>1, <1>2, <1>5, <1>6, <1>12, <2>1, <2>4, <2>5, <2>6, OwnedStep DEF p, from
<1>14. CASE free = <<>>
  <2>1. pool' = [pool EXCEPT ![t] = got] /\ stack' = [stack EXCEPT ![t] = <<f>> \o stack[t]]
    BY <1>1, <1>14
  <2>2. f \in Frame /\ f.size = HeapNode BY <1>2, <1>11 DEF Frame
  <2> HIDE DEF f
  <2>3. stack' \in [Users -> Calls] BY <1>2, <2>1, <2>2, CallNests
  <2>4. got.end <= upto BY <1>5, <1>9
  <2> QED BY <1>1, <1>2, <1>5, <1>6, <1>9, <1>10, <1>12, <2>1, <2>3, <2>4, OwnedStep DEF p, from
<1> QED BY <1>13, <1>14

\* malloc fails: chunk_alloc goes on with a larger free node, or gives up.
LEMMA MallocFailsInv == ASSUME PoolInv, NEW t \in Users, MallocFails(t) PROVE PoolInv'
<1> DEFINE p == pool[t]
           size == Head(stack[t]).size
           kept == NewChunk(p, 0, 0)
           q == IF Larger(kept, size) # {} THEN TakeLarger(kept, size) ELSE kept
<1>1. /\ stack[t] # <<>> /\ Fit(p, size) = 0
      /\ pool' = [pool EXCEPT ![t] = q]
      /\ wild' \in BOOLEAN /\ used' = used /\ stack' = stack /\ brk' = brk
  BY DEF MallocFails
<1>2. /\ Sound(p) /\ brk \in Books /\ brk.next \in Nat
      /\ p.start \in Nat /\ p.end \in Nat
      /\ size \in Sizes /\ p.end - p.start < size
      /\ stack \in [Users -> Calls]
      /\ used \subseteq [at : Nat, size : Sizes]
      /\ \A x \in Nat : Holds(p, x) => x < brk.next
  BY <1>1, CallIs
<1> HIDE DEF p, size
<1>3. size \in Nat /\ size <= MaxSize BY <1>2, PoolAssumption DEF Sizes
<1>4. p.end - p.start <= MaxSize BY <1>2, <1>3, PoolAssumption
<1>5. /\ Sound(kept) /\ kept.start = 0 /\ kept.end = 0
      /\ \A x \in Nat : InNode(kept, x) => Holds(p, x)
  <2>1. \A x \in Nat : 0 <= x /\ x < 0 => ~Holds(p, x) OBVIOUS
  <2>2. 0 \in Nat /\ 0 <= 0 OBVIOUS
  <2> QED BY <1>2, <1>4, <2>1, <2>2, NewChunkIs
<1> HIDE DEF kept
<1>6. Sound(q) /\ q.end <= brk.next /\ \A x \in Nat : Holds(q, x) => Holds(p, x)
  <2>1. CASE Larger(kept, size) # {}
    <3> DEFINE o == TakeLarger(kept, size)
    <3>1. Sound(o) /\ o.end - o.start \in Sizes /\ \A x \in Nat : Holds(o, x) => InNode(kept, x)
      BY <1>2, <1>5, <2>1, TakeLargerIs
    <3>2. q = o BY <2>1
    <3> HIDE DEF o, q
    <3>3. o.start \in Nat /\ o.end \in Nat BY <3>1 DEF Sound, Pools
    <3>4. o.start < o.end BY <3>1, <3>3, PoolAssumption DEF Sizes
    <3>5. o.end - 1 \in Nat /\ InUncut(o, o.end - 1) BY <3>3, <3>4 DEF InUncut
    <3>6. o.end - 1 < brk.next BY <1>2, <1>5, <3>1, <3>5 DEF Holds
    <3> QED BY <1>2, <1>5, <3>1, <3>2, <3>3, <3>6
  <2>2. CASE Larger(kept, size) = {}
    <3>1. q = kept BY <2>2
    <3>2. \A x \in Nat : ~InUncut(kept, x) BY <1>5 DEF InUncut
    <3> QED BY <1>2, <1>5, <3>1, <3>2 DEF Holds
  <2> QED BY <2>1, <2>2
<1> HIDE DEF q
<1>7. used' \ used = {} /\ brk.next <= brk'.next /\ q.end <= brk'.next BY <1>1, <1>2, <1>6
<1> QED BY <1>1, <1>2, <1>6, <1>7, OwnedStep DEF p

\* All steps together.
LEMMA PoolNextInv == ASSUME PoolInv, [PoolNext]_poolVars PROVE PoolInv'
<1>1. ASSUME NEW t \in Users, NEW n \in Sizes, New(t, n) PROVE PoolInv' BY <1>1, NewInv
<1>2. ASSUME NEW t \in Users, Carve(t) PROVE PoolInv' BY <1>2, CarveInv
<1>3. ASSUME NEW t \in Users, Malloc(t) PROVE PoolInv' BY <1>3, MallocInv
<1>4. ASSUME NEW t \in Users, MallocFails(t) PROVE PoolInv' BY <1>4, MallocFailsInv
<1>5. ASSUME NEW t \in Users, NEW u \in used, Delete(t, u) PROVE PoolInv' BY <1>5, DeleteInv
<1>6. ASSUME NEW t \in Users, Exit(t) PROVE PoolInv' BY <1>6, ExitInv
<1>7. CASE UNCHANGED poolVars
  BY <1>7 DEF poolVars, PoolInv, OneOwner
<1> QED BY <1>1, <1>2, <1>3, <1>4, <1>5, <1>6, <1>7 DEF PoolNext

\* Every operation of the pools, finished or in the middle of its calls of
\* chunk_alloc, keeps all pieces of memory apart and within what malloc gave.
THEOREM PoolInvariance == PoolSpec => []PoolInv
<1>1. PoolInv /\ [PoolNext]_poolVars => PoolInv' BY PoolNextInv
<1> QED BY PoolInitInv, <1>1, PTL DEF PoolSpec

\* start_free_ never passes end_free_, no chunk ends behind what malloc gave, and
\* only sizes there are free lists for are asked for, in nested calls too.
THEOREM PoolTypeCorrect == PoolSpec => []PoolTypeOK
<1>1. PoolInv => PoolTypeOK
  <2> SUFFICES ASSUME PoolInv PROVE PoolTypeOK OBVIOUS
  <2>1. \A t \in Users : pool[t].start <= pool[t].end /\ pool[t].end <= brk.next
    BY DEF PoolInv, OneOwner, Sound
  <2>2. \A t \in Users : \A i \in DOMAIN stack[t] : stack[t][i].size \in Sizes
    <3> SUFFICES ASSUME NEW t \in Users, NEW i \in DOMAIN stack[t] PROVE stack[t][i].size \in Sizes
      OBVIOUS
    <3>1. stack[t] \in Seq(Frame) BY DEF PoolInv, Calls
    <3>2. stack[t][i] \in Frame BY <3>1
    <3> QED BY <3>2 DEF Frame
  <2>3. \A u \in used : u.size \in Sizes /\ u.at + u.size <= brk.next
    BY DEF PoolInv, OneOwner
  <2>4. brk.calls \in 0..Mallocs /\ brk.news \in 0..News /\ wild \in BOOLEAN
    BY DEF PoolInv, Books
  <2> QED BY <2>1, <2>2, <2>3, <2>4 DEF PoolTypeOK
<1> QED BY PoolInvariance, <1>1, PTL
AFree(t, n, i) == [at |-> pool[t].free[n][i], size |-> n, place |-> <<"free", t, n, i>>]
AHeap(t, i) == [at |-> pool[t].heap[i].at, size |-> HeapNode, place |-> <<"heap", t, i>>]
AHeld(u) == [at |-> u.at, size |-> u.size, place |-> <<"used">>]

\* The piece that an address is in, as the invariant knows it.
LEMMA PieceIs ==
  ASSUME PoolInv, NEW x \in Pieces, NEW z \in Block(x.at, x.size)
  PROVE  /\ z \in Nat
         /\ \/ \E u \in used : x = AHeld(u) /\ In(z, u.at, u.size)
            \/ \E t \in Users, n \in Sizes, i \in Nat : x = AFree(t, n, i) /\ InFree(pool[t], z, n, i)
            \/ \E t \in Users, i \in Nat : x = AHeap(t, i) /\ InHeap(pool[t], z, i)
            \/ \E t \in Users : x = Uncut(t) /\ InUncut(pool[t], z)
<1>1. \A a, n \in Nat : z \in Block(a, n) => z \in Nat /\ In(z, a, n) BY DEF Block, In
<1>2. \A t \in Users : /\ pool[t] \in Pools
                       /\ pool[t].heap \in Seq([at : Nat, mem : Nat])
                       /\ \A n \in Sizes : pool[t].free[n] \in Seq(Nat)
  BY DEF PoolInv, Pools
<1>3. \A n \in Sizes : n \in Nat BY PoolAssumption DEF Sizes
<1>4. CASE x \in Held
  <2>1. PICK u \in used : x = AHeld(u) BY <1>4 DEF Held, AHeld
  <2>2. u.at \in Nat /\ u.size \in Nat /\ x.at = u.at /\ x.size = u.size
    BY <1>3, <2>1 DEF PoolInv, AHeld
  <2> QED BY <1>1, <2>1, <2>2
<1>5. CASE \E t \in Users : x \in FreeNodes(t)
  <2>1. PICK t \in Users : x \in FreeNodes(t) BY <1>5
  <2>2. PICK n \in Sizes : \E i \in DOMAIN pool[t].free[n] : x = AFree(t, n, i)
    BY <2>1 DEF FreeNodes, AFree
  <2>3. PICK i \in DOMAIN pool[t].free[n] : x = AFree(t, n, i) BY <2>2
  <2>4. i \in Nat /\ i \in 1..Len(pool[t].free[n]) /\ pool[t].free[n][i] \in Nat
    <3>1. pool[t].free[n] \in Seq(Nat) BY <1>2
    <3> QED BY <3>1
  <2>5. x.at = pool[t].free[n][i] /\ x.size = n BY <2>3 DEF AFree
  <2>6. z \in Nat /\ InFree(pool[t], z, n, i) BY <1>1, <1>3, <2>4, <2>5 DEF InFree
  <2> QED BY <2>3, <2>4, <2>6
<1>6. CASE \E t \in Users : x \in HeapNodes(t)
  <2>1. PICK t \in Users : x \in HeapNodes(t) BY <1>6
  <2>2. PICK i \in DOMAIN pool[t].heap : x = AHeap(t, i) BY <2>1 DEF HeapNodes, AHeap
  <2>3. i \in Nat /\ i \in 1..Len(pool[t].heap) /\ pool[t].heap[i].at \in Nat
    <3>1. pool[t].heap \in Seq([at : Nat, mem : Nat]) BY <1>2
    <3> DEFINE T == [at : Nat, mem : Nat]
               s == pool[t].heap
    <3>2. i \in Nat /\ i \in 1..Len(s) /\ s[i] \in T
      <4>1. s \in Seq(T) /\ i \in DOMAIN s BY <3>1
      <4> HIDE DEF s, T
      <4> QED BY <4>1
    <3> QED BY <3>2
  <2>4. x.at = pool[t].heap[i].at /\ x.size = HeapNode /\ HeapNode \in Nat
    BY <2>2, PoolAssumption DEF AHeap
  <2>5. z \in Nat /\ InHeap(pool[t], z, i) BY <1>1, <2>3, <2>4 DEF InHeap
  <2> QED BY <2>2, <2>3, <2>5
<1>7. CASE \E t \in Users : x = Uncut(t)
  <2>1. PICK t \in Users : x = Uncut(t) BY <1>7
  <2>2. x.at = pool[t].start /\ x.size = pool[t].end - pool[t].start BY <2>1 DEF Uncut
  <2>3. pool[t].start \in Nat /\ pool[t].end \in Nat /\ pool[t].start <= pool[t].end
    BY <1>2 DEF PoolInv, OneOwner, Sound, Pools
  <2>4. z \in Nat /\ InUncut(pool[t], z) BY <1>1, <2>2, <2>3 DEF In, InUncut
  <2> QED BY <2>1, <2>4
<1> QED BY <1>4, <1>5, <1>6, <1>7 DEF Pieces

\* Pieces that share an address are the same.
LEMMA SamePiece ==
  ASSUME PoolInv, NEW x \in Pieces, NEW y \in Pieces, NEW z,
         z \in Block(x.at, x.size), z \in Block(y.at, y.size)
  PROVE  x = y
<1> DEFINE Of(v, t) == \/ \E n \in Sizes, i \in Nat : v = AFree(t, n, i) /\ InFree(pool[t], z, n, i)
                       \/ \E i \in Nat : v = AHeap(t, i) /\ InHeap(pool[t], z, i)
                       \/ v = Uncut(t) /\ InUncut(pool[t], z)
           Out(v) == \E u \in used : v = AHeld(u) /\ In(z, u.at, u.size)
<1>1. z \in Nat /\ (Out(x) \/ \E t \in Users : Of(x, t)) BY PieceIs
<1>2. Out(y) \/ \E t \in Users : Of(y, t) BY PieceIs
<1>3. ASSUME NEW t \in Users, NEW v, Of(v, t) PROVE Holds(pool[t], z)
  BY <1>3 DEF Holds, InNode
<1>4. Out(x) /\ Out(y) => x = y BY <1>1 DEF PoolInv, OneOwner
<1>5. ASSUME NEW v, Out(v), NEW t \in Users PROVE ~Holds(pool[t], z)
  BY <1>1, <1>5 DEF PoolInv, OneOwner
<1>6. ASSUME NEW t \in Users, Of(x, t), Of(y, t) PROVE x = y
  <2> DEFINE p == pool[t]
  <2>1. Sound(p) BY DEF PoolInv, OneOwner
  <2>2. ASSUME NEW n \in Sizes, NEW i \in Nat, InFree(p, z, n, i) PROVE InNode(p, z)
    BY <2>2 DEF InNode
  <2>3. ASSUME NEW i \in Nat, InHeap(p, z, i) PROVE InNode(p, z) BY <2>3 DEF InNode
  <2>4. /\ \A n, m \in Sizes, i, j \in Nat : InFree(p, z, n, i) /\ InFree(p, z, m, j) => n = m /\ i = j
        /\ \A i, j \in Nat : InHeap(p, z, i) /\ InHeap(p, z, j) => i = j
        /\ \A n \in Sizes, i, j \in Nat : ~(InFree(p, z, n, i) /\ InHeap(p, z, j))
        /\ ~(InNode(p, z) /\ InUncut(p, z))
    BY <1>1, <2>1 DEF Sound, OneNode
  <2> QED BY <1>6, <2>2, <2>3, <2>4
<1>7. ASSUME NEW s \in Users, NEW t \in Users, Of(x, s), Of(y, t) PROVE s = t
  BY <1>1, <1>3, <1>7 DEF PoolInv, OneOwner
<1> HIDE DEF Of, Out
<1> QED BY <1>1, <1>2, <1>3, <1>4, <1>5, <1>6, <1>7

\* No address is at once in two of: a block the program holds, a free node, the
\* record of a chunk (add_heap), the rest of a chunk (start_free_ .. end_free_),
\* whatever thread they belong to and wherever malloc fails.
THEOREM PiecesApart == PoolSpec => []NoOverlap
<1>1. PoolInv => NoOverlap
  <2> SUFFICES ASSUME PoolInv, NEW x \in Pieces, NEW y \in Pieces, x # y,
                      NEW z \in Block(x.at, x.size) \cap Block(y.at, y.size)
               PROVE  FALSE
    BY DEF NoOverlap
  <2> QED BY SamePiece
<1> QED BY PoolInvariance, <1>1, PTL
=============================================================================
