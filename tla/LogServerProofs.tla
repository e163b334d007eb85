---------------------------- MODULE LogServerProofs ----------------------------
(***************************************************************************)
(* Proofs about LogServer, for any threads, messages and lives: the heap   *)
(* of the reactor, and the way of a message from the thread to the file.   *)
(***************************************************************************)
EXTENDS LogServer, Induction

Events == [fd : Nat, who : Threads \cup {"acc", "sig"}]

\* The first n of m are the events E, each once.
Holds(m, n, E) ==
  /\ m \in Seq(Events) /\ n \in Nat /\ n <= Len(m)
  /\ \A i \in 1..n : m[i] \in E
  /\ \A e \in E : \E i \in 1..n : m[i] = e
  /\ \A i, j \in 1..n : m[i].fd = m[j].fd => i = j

TopIsLargest(m, n) == \A i \in 1..n : m[i].fd <= m[1].fd

LEMMA IsSequence ==
  ASSUME NEW S, NEW n \in Nat, NEW f \in [1..n -> S]
  PROVE  f \in Seq(S) /\ Len(f) = n
OBVIOUS

LEMMA EventAt ==
  ASSUME NEW m \in Seq(Events), NEW i \in 1..Len(m)
  PROVE  m[i] \in Events /\ m[i].fd \in Nat
<1>1. m[i] \in Events OBVIOUS
<1> QED BY <1>1 DEF Events

\* A swap among the first n moves no event in or out.
LEMMA SwapIs ==
  ASSUME NEW m \in Seq(Events), NEW i \in 1..Len(m), NEW j \in 1..Len(m)
  PROVE  /\ Swap(m, i, j) \in Seq(Events) /\ Len(Swap(m, i, j)) = Len(m)
         /\ \A k \in 1..Len(m) :
              Swap(m, i, j)[k] = m[IF k = i THEN j ELSE IF k = j THEN i ELSE k]
<1> DEFINE w == Swap(m, i, j)
<1>1. m[i] \in Events /\ m[j] \in Events OBVIOUS
<1>2. w \in Seq(Events) /\ Len(w) = Len(m) BY <1>1 DEF Swap
<1>3. \A k \in 1..Len(m) : w[k] = m[IF k = i THEN j ELSE IF k = j THEN i ELSE k]
  BY <1>1 DEF Swap
<1> QED BY <1>2, <1>3

LEMMA SwapHolds ==
  ASSUME NEW m, NEW n, NEW E, Holds(m, n, E), NEW i \in 1..n, NEW j \in 1..n
  PROVE  Holds(Swap(m, i, j), n, E) /\ Len(Swap(m, i, j)) = Len(m)
<1> DEFINE w == Swap(m, i, j)
           p(k) == IF k = i THEN j ELSE IF k = j THEN i ELSE k
<1>1. m \in Seq(Events) /\ n \in Nat /\ n <= Len(m) /\ Len(m) \in Nat BY DEF Holds
<1>2. i \in 1..Len(m) /\ j \in 1..Len(m) BY <1>1
<1>3. w \in Seq(Events) /\ Len(w) = Len(m) /\ \A k \in 1..Len(m) : w[k] = m[p(k)]
  BY <1>1, <1>2, SwapIs
<1>4. \A k \in 1..n : p(k) \in 1..n /\ p(p(k)) = k /\ k \in 1..Len(m) BY <1>1
<1>5. \A k \in 1..n : w[k] = m[p(k)] BY <1>3, <1>4
<1> HIDE DEF w, p
<1>6. \A k \in 1..n : w[k] \in E BY <1>4, <1>5 DEF Holds
<1>7. ASSUME NEW e \in E PROVE \E k \in 1..n : w[k] = e
  <2>1. PICK k \in 1..n : m[k] = e BY DEF Holds
  <2>2. p(k) \in 1..n /\ w[p(k)] = m[k] BY <1>4, <1>5
  <2> QED BY <2>1, <2>2
<1>8. ASSUME NEW k \in 1..n, NEW l \in 1..n, w[k].fd = w[l].fd PROVE k = l
  <2>1. m[p(k)].fd = m[p(l)].fd BY <1>5, <1>8
  <2>2. p(k) \in 1..n /\ p(l) \in 1..n BY <1>4
  <2>3. p(k) = p(l) BY <2>1, <2>2 DEF Holds
  <2> QED BY <2>3, <1>4
<1>9. Holds(w, n, E) BY <1>1, <1>3, <1>6, <1>7, <1>8 DEF Holds
<1> QED BY <1>3, <1>9 DEF w

-----------------------------------------------------------------------------
(* push_heap *)

LEMMA Halves ==
  ASSUME NEW n \in Nat
  PROVE  /\ n \div 2 \in Nat /\ (n = 2 * (n \div 2) \/ n = 2 * (n \div 2) + 1)
         /\ n > 1 => n \div 2 \in 1..(n - 1)
OBVIOUS

\* The event e is on its way up; what is not e is not larger than the top.
Rising(h, n, E, e, len) ==
  /\ Holds(h.mem, n, E) /\ Len(h.mem) = len
  /\ h.at \in 1..n /\ h.mem[h.at] = e
  /\ \A j \in 1..n : j # h.at => h.mem[j].fd <= h.mem[1].fd

\* After k turns it is k steps up, or has passed nobody by and may stop.
Risen(h, n, k) == \/ TopIsLargest(h.mem, n)
                  \/ k = 0 /\ h.at = n
                  \/ k > 0 /\ h.at + k <= (n \div 2) + 1

LEMMA RiseIs ==
  ASSUME NEW h \in [mem : Seq(Events), at : Nat], NEW n \in Nat, NEW E, NEW e \in Events,
         NEW len, Rising(h, n, E, e, len), NEW k \in Nat, Risen(h, n, k)
  PROVE  /\ Rise(h) \in [mem : Seq(Events), at : Nat]
         /\ Rising(Rise(h), n, E, e, len) /\ Risen(Rise(h), n, k + 1)
<1> DEFINE m == h.mem
           i == h.at
           d == i \div 2
           w == Swap(m, i, d)
<1>1. /\ Holds(m, n, E) /\ Len(m) = len /\ i \in 1..n /\ m[i] = e
      /\ \A j \in 1..n : j # i => m[j].fd <= m[1].fd
      /\ m \in Seq(Events) /\ n <= Len(m) /\ Len(m) \in Nat
  BY DEF Rising, Holds
<1>2. \A j \in 1..n : m[j] \in Events /\ m[j].fd \in Nat
  <2> TAKE j \in 1..n
  <2>1. j \in 1..Len(m) BY <1>1
  <2> QED BY <1>1, <2>1, EventAt
<1>3. h = [mem |-> m, at |-> i] OBVIOUS
<1>4. i > 1 => d \in 1..(i - 1) BY <1>1, Halves
<1>5. CASE i > 1 /\ m[d].fd < m[i].fd
  <2>1. Rise(h) = [mem |-> w, at |-> d] BY <1>5 DEF Rise
  <2>2. d \in 1..n /\ d # i BY <1>1, <1>4, <1>5
  <2>3. Holds(w, n, E) /\ Len(w) = len BY <1>1, <2>2, SwapHolds
  <2>4. /\ w \in Seq(Events)
        /\ \A j \in 1..Len(m) : w[j] = m[IF j = i THEN d ELSE IF j = d THEN i ELSE j]
    <3>1. i \in 1..Len(m) /\ d \in 1..Len(m) BY <1>1, <2>2
    <3>2. m \in Seq(Events) BY <1>1
    <3> HIDE DEF m, i, d, w
    <3>3. /\ Swap(m, i, d) \in Seq(Events)
          /\ \A j \in 1..Len(m) :
               Swap(m, i, d)[j] = m[IF j = i THEN d ELSE IF j = d THEN i ELSE j]
      BY <3>1, <3>2, SwapIs
    <3>4. w = Swap(m, i, d) BY DEF w
    <3> QED BY <3>3, <3>4
  <2>5. \A j \in 1..n : w[j] = m[IF j = i THEN d ELSE IF j = d THEN i ELSE j]
    BY <2>4, <1>1
  <2> HIDE DEF w, d, m, i
  <2>6. w[d] = e /\ w[i] = m[d] BY <2>2, <2>5, <1>1
  <2>7. 1 \in 1..n /\ e.fd \in Nat BY <1>1, <1>2
  <2>8. ASSUME NEW j \in 1..n, j # d PROVE w[j].fd <= w[1].fd
    <3>1. w[j].fd <= m[1].fd
      <4>1. CASE j = i BY <4>1, <2>2, <2>6, <1>1
      <4>2. CASE j # i BY <4>2, <2>5, <2>8, <1>1
      <4> QED BY <4>1, <4>2
    <3>2. m[1].fd <= w[1].fd
      <4>1. CASE d = 1 BY <4>1, <2>6, <1>5, <1>1, <1>2, <2>7
      <4>2. CASE d # 1
        <5>1. w[1] = m[1] BY <4>2, <2>5, <2>7, <1>5
        <5> QED BY <5>1, <1>2, <2>7
      <4> QED BY <4>1, <4>2
    <3>3. w[j].fd \in Nat /\ m[1].fd \in Nat /\ w[1].fd \in Nat
      BY <1>1, <1>2, <2>2, <2>5, <2>7
    <3> QED BY <3>1, <3>2, <3>3
  <2>9. Rising([mem |-> w, at |-> d], n, E, e, len) BY <2>2, <2>3, <2>6, <2>8 DEF Rising
  <2>10. Risen([mem |-> w, at |-> d], n, k + 1)
    <3>1. CASE TopIsLargest(m, n)
      <4>1. e.fd <= w[1].fd
        <5>1. CASE d = 1 BY <5>1, <2>6, <2>7
        <5>2. CASE d # 1
          <6>1. w[1] = m[1] BY <5>2, <2>5, <2>7, <1>5
          <6> QED BY <6>1, <3>1, <1>1 DEF TopIsLargest
        <5> QED BY <5>1, <5>2
      <4>2. TopIsLargest(w, n) BY <4>1, <2>6, <2>8 DEF TopIsLargest
      <4> QED BY <4>2 DEF Risen
    <3>2. CASE k = 0 /\ i = n BY <3>2, <1>4, <1>5, Halves DEF Risen, d
    <3>3. CASE k > 0 /\ i + k <= (n \div 2) + 1
      <4>1. d <= i - 1 /\ d \in Nat BY <1>4, <1>5, <1>1
      <4> QED BY <3>3, <4>1, <1>1, Halves DEF Risen
    <3> QED BY <3>1, <3>2, <3>3, <1>3 DEF Risen, m, i
  <2>11. [mem |-> w, at |-> d] \in [mem : Seq(Events), at : Nat] BY <2>2, <2>4
  <2> QED BY <2>1, <2>9, <2>10, <2>11
<1>6. CASE ~(i > 1 /\ m[d].fd < m[i].fd)
  <2>1. Rise(h) = h BY <1>6 DEF Rise
  <2>2. TopIsLargest(m, n)
    <3>1. CASE i = 1 BY <3>1, <1>1, <1>2 DEF TopIsLargest
    <3>2. CASE i # 1
      <4>1. i > 1 /\ d \in 1..n /\ d # i BY <3>2, <1>1, <1>4
      <4>2. m[i].fd <= m[d].fd BY <1>6, <4>1, <1>2, <1>1
      <4>3. m[d].fd <= m[1].fd BY <4>1, <1>1
      <4>4. 1 \in 1..n BY <1>1
      <4>5. m[i].fd <= m[1].fd BY <4>1, <4>2, <4>3, <4>4, <1>1, <1>2
      <4> QED BY <4>5, <1>1 DEF TopIsLargest
    <3> QED BY <3>1, <3>2
  <2> QED BY <2>1, <2>2 DEF Risen
<1> QED BY <1>5, <1>6

\* SiftUp: the same events, the largest on top.
LEMMA SiftUpIs ==
  ASSUME NEW m, NEW n \in Nat \ {0}, NEW E, Holds(m, n, E),
         \A j \in 1..n : j # n => m[j].fd <= m[1].fd
  PROVE  LET w == SiftUp(m, n)
         IN  Holds(w, n, E) /\ Len(w) = Len(m) /\ TopIsLargest(w, n)
<1> DEFINE K == n \div 2
           U == [mem : Seq(Events), at : Nat]
           e == m[n]
           A == [k \in 0..K |-> {h \in U : Rising(h, n, E, e, Len(m)) /\ Risen(h, n, k)}]
           F == [z \in U \X (1..K) |-> Rise(z[1])]
           b == [mem |-> m, at |-> n]
           R(g) == g = [k \in 0..K |-> IF k = 0 THEN b ELSE Rise(g[k - 1])]
           r == CHOOSE g : R(g)
<1>1. K \in Nat BY Halves
<1>2. m \in Seq(Events) /\ n <= Len(m) /\ Len(m) \in Nat /\ e \in Events BY DEF Holds
<1>3. b \in A[0]
  <2>1. b \in U BY <1>2
  <2>2. Rising(b, n, E, e, Len(m)) BY DEF Rising
  <2>3. Risen(b, n, 0) BY DEF Risen
  <2> QED BY <1>1, <2>1, <2>2, <2>3
<1>4. ASSUME NEW k \in 1..K, NEW x \in A[k - 1]
      PROVE  Rise(x) \in A[k] /\ F[<<x, k>>] = Rise(x)
  <2>1. k - 1 \in 0..K /\ k - 1 \in Nat /\ (k - 1) + 1 = k /\ k \in 0..K BY <1>1
  <2>2. x \in U /\ Rising(x, n, E, e, Len(m)) /\ Risen(x, n, k - 1) BY <2>1
  <2> HIDE DEF e
  <2>3. Rise(x) \in U /\ Rising(Rise(x), n, E, e, Len(m)) /\ Risen(Rise(x), n, k)
    BY <1>2, <2>1, <2>2, RiseIs
  <2> QED BY <2>1, <2>2, <2>3
<1> HIDE DEF F
<1>5. \A k \in 1..K : \A x \in A[k - 1] : F[<<x, k>>] \in A[k]
  <2> HIDE DEF A, K
  <2> QED BY <1>4
<1>6. \E g : R(g)
  <2>1. PICK g : IsLoop(g, K, A, b, F)
    <3> HIDE DEF A, b, K
    <3> QED BY <1>1, <1>3, <1>5, Loop
  <2>2. /\ g = [k \in 0..K |-> g[k]] /\ g[0] = b
        /\ \A k \in 1..K : g[k] = F[<<g[k - 1], k>>]
        /\ \A k \in 0..K : g[k] \in A[k]
    BY <2>1 DEF IsLoop
  <2> HIDE DEF A, b
  <2>3. \A k \in 1..K : g[k] = Rise(g[k - 1])
    <3> TAKE k \in 1..K
    <3>1. k - 1 \in 0..K BY <1>1
    <3> QED BY <3>1, <2>2, <1>4
  <2>4. \A k \in 0..K : g[k] = IF k = 0 THEN b ELSE Rise(g[k - 1])
    <3> TAKE k \in 0..K
    <3>1. k # 0 => k \in 1..K BY <1>1
    <3> QED BY <3>1, <2>2, <2>3
  <2>5. R(g) BY <2>2, <2>4
  <2> QED BY <2>5
<1>7. R(r) BY <1>6
<1> HIDE DEF r
<1>8. r[0] = b /\ \A k \in 1..K : r[k] = Rise(r[k - 1]) BY <1>1, <1>7
<1>9. \A k \in 0..K : r[k] \in A[k]
  <2> HIDE DEF A, b, K
  <2>1. \A k \in 1..K : r[k - 1] \in A[k - 1] => r[k] \in A[k] BY <1>4, <1>8
  <2>2. r[0] \in A[0] BY <1>3, <1>8
  <2> QED BY <1>1, <2>1, <2>2, Stays
<1>10. SiftUp(m, n) = r[K].mem BY DEF SiftUp, r
<1>11. Rising(r[K], n, E, e, Len(m)) /\ Risen(r[K], n, K)
  <2>1. K \in 0..K BY <1>1
  <2> QED BY <2>1, <1>9
<1>12. TopIsLargest(r[K].mem, n)
  <2>1. r[K].at = 1 => TopIsLargest(r[K].mem, n)
    <3>1. ASSUME r[K].at = 1 PROVE r[K].mem[1].fd \in Nat
      <4>1. r[K].mem \in Seq(Events) /\ 1 \in 1..Len(r[K].mem) BY <1>11 DEF Rising, Holds
      <4> QED BY <4>1, EventAt
    <3> QED BY <1>11, <3>1 DEF Rising, TopIsLargest
  <2>2. K = 0 => n = 1 BY Halves
  <2>3. r[K].at \in 1..n BY <1>11 DEF Rising
  <2> HIDE DEF K
  <2>4. TopIsLargest(r[K].mem, n) \/ r[K].at = 1
    BY <1>1, <1>11, <2>2, <2>3 DEF Risen, K
  <2> QED BY <2>1, <2>4
<1> QED BY <1>10, <1>11, <1>12 DEF Rising

-----------------------------------------------------------------------------
(* add_event *)

Clients == [fd : Nat, body : BOOLEAN, met : BOOLEAN]
Heaps == [mem : Seq(Events), size : Nat]
Servers == [client : [Threads -> Clients], heap : Heaps, rset : SUBSET Nat]

LEMMA MaxOfTwo ==
  ASSUME NEW a \in Nat, NEW b \in Nat
  PROVE  Max({a, b}) = IF a < b THEN b ELSE a
<1> DEFINE x == IF a < b THEN b ELSE a
<1>1. x \in {a, b} /\ \A y \in {a, b} : x >= y OBVIOUS
<1>2. \A x1 \in {a, b} : (\A y \in {a, b} : x1 >= y) => x1 = x OBVIOUS
<1> QED BY <1>1, <1>2 DEF Max

\* The memory with an event at the end of what is in use.
LEMMA AtTheEnd ==
  ASSUME NEW mem, NEW len, NEW E, Holds(mem, len, E), TopIsLargest(mem, len),
         NEW ev \in Events, \A e \in E : e.fd # ev.fd, NEW m,
         m = [i \in 1..Max({Len(mem), len + 1}) |->
                IF i = len + 1 THEN ev ELSE mem[i]]
  PROVE  /\ Holds(m, len + 1, E \cup {ev}) /\ Len(m) >= Len(mem)
         /\ \A j \in 1..(len + 1) : j # len + 1 => m[j].fd <= m[1].fd
<1> DEFINE n == len + 1
           top == Max({Len(mem), n})
<1>1. mem \in Seq(Events) /\ len \in Nat /\ len <= Len(mem) /\ Len(mem) \in Nat
      /\ n \in Nat
  BY DEF Holds
<1>2. top = IF Len(mem) < n THEN n ELSE Len(mem) BY <1>1, MaxOfTwo
<1>3. m = [i \in 1..top |-> IF i = n THEN ev ELSE mem[i]] OBVIOUS
<1> HIDE DEF top
<1>4. top \in Nat /\ top >= n /\ top >= Len(mem) /\ \A i \in 1..top : i # n => i \in 1..Len(mem)
  BY <1>1, <1>2
<1>5. \A i \in 1..top : m[i] \in Events BY <1>1, <1>3, <1>4, EventAt
<1>6. m \in Seq(Events) /\ Len(m) = top
  <2>1. m \in [1..top -> Events]
    <3> HIDE DEF n
    <3> QED BY <1>3, <1>5
  <2>2. top \in Nat BY <1>4
  <2> QED BY <2>1, <2>2, IsSequence
<1>7. m[n] = ev /\ \A i \in 1..len : m[i] = mem[i] /\ i \in 1..n /\ i # n
  <2>1. n \in 1..top /\ \A i \in 1..len : i \in 1..top /\ i \in 1..n /\ i # n
    BY <1>1, <1>4
  <2> HIDE DEF n
  <2> QED BY <2>1, <1>3
<1>8. \A i \in 1..n : i # n => i \in 1..len BY <1>1
<1>9. n \in 1..n BY <1>1
<1> HIDE DEF n
<1>10. \A i \in 1..n : m[i] \in E \cup {ev} BY <1>7, <1>8 DEF Holds
<1>11. \A e \in E \cup {ev} : \E i \in 1..n : m[i] = e
  <2>1. ASSUME NEW e \in E PROVE \E i \in 1..n : m[i] = e
    <3>1. PICK i \in 1..len : mem[i] = e BY DEF Holds
    <3> QED BY <3>1, <1>7
  <2> QED BY <2>1, <1>7, <1>9
<1>12. \A i, j \in 1..n : m[i].fd = m[j].fd => i = j
  <2> SUFFICES ASSUME NEW i \in 1..n, NEW j \in 1..n, m[i].fd = m[j].fd PROVE i = j
    OBVIOUS
  <2>1. CASE i = n /\ j = n BY <2>1
  <2>2. CASE i = n /\ j # n BY <2>2, <1>7, <1>8 DEF Holds
  <2>3. CASE i # n /\ j = n BY <2>3, <1>7, <1>8 DEF Holds
  <2>4. CASE i # n /\ j # n BY ZenonT(30), <2>4, <1>7, <1>8 DEF Holds
  <2> QED BY <2>1, <2>2, <2>3, <2>4
<1>13. Holds(m, n, E \cup {ev}) BY <1>1, <1>4, <1>6, <1>10, <1>11, <1>12 DEF Holds
<1>14. \A j \in 1..n : j # n => m[j].fd <= m[1].fd
  <2> TAKE j \in 1..n
  <2>1. j # n => j \in 1..len /\ 1 \in 1..len BY <1>8, <1>1
  <2> QED BY <2>1, <1>7 DEF TopIsLargest
<1> QED BY <1>4, <1>6, <1>13, <1>14 DEF n

LEMMA AddEventIs ==
  ASSUME NEW s \in Servers, NEW E, Holds(s.heap.mem, s.heap.size, E),
         TopIsLargest(s.heap.mem, s.heap.size),
         NEW ev \in Events, \A e \in E : e.fd # ev.fd
  PROVE  LET v == AddEvent(s, ev)
         IN  /\ v \in Servers /\ v.client = s.client
             /\ v.rset = s.rset \cup {ev.fd}
             /\ Holds(v.heap.mem, v.heap.size, E \cup {ev})
             /\ TopIsLargest(v.heap.mem, v.heap.size)
             /\ Len(v.heap.mem) >= Len(s.heap.mem)
<1> DEFINE n == s.heap.size + 1
           m == [i \in 1..Max({Len(s.heap.mem), n}) |->
                   IF i = n THEN ev ELSE s.heap.mem[i]]
           w == SiftUp(m, n)
<1>1. AddEvent(s, ev) = [s EXCEPT !.rset = @ \cup {ev.fd}, !.heap = [mem |-> w, size |-> n]]
  BY DEF AddEvent
<1>2. /\ Holds(m, n, E \cup {ev}) /\ Len(m) >= Len(s.heap.mem)
      /\ \A j \in 1..n : j # n => m[j].fd <= m[1].fd
  <2>1. m = [i \in 1..Max({Len(s.heap.mem), n}) |-> IF i = n THEN ev ELSE s.heap.mem[i]]
    OBVIOUS
  <2> HIDE DEF m
  <2> QED BY ZenonT(30), <2>1, AtTheEnd
<1>3. n \in Nat \ {0} BY DEF Servers, Heaps
<1> HIDE DEF m, n
<1>4. Holds(w, n, E \cup {ev}) /\ Len(w) = Len(m) /\ TopIsLargest(w, n)
  BY <1>2, <1>3, SiftUpIs
<1>5. w \in Seq(Events) BY <1>4 DEF Holds
<1> HIDE DEF w
<1>6. ev.fd \in Nat BY DEF Events
<1>7. [mem |-> w, size |-> n] \in Heaps BY <1>3, <1>5 DEF Heaps
<1>8. [s EXCEPT !.rset = @ \cup {ev.fd}, !.heap = [mem |-> w, size |-> n]] \in Servers
  BY <1>6, <1>7 DEF Servers
<1> QED BY <1>1, <1>2, <1>4, <1>8 DEF Servers

-----------------------------------------------------------------------------
(* make_heap *)

\* No child of j is larger than j.
Above(m, n, j) == \A c \in {2 * j, 2 * j + 1} : c <= n => m[c].fd <= m[j].fd

\* From i on all is in order but at the event that goes down, and under its
\* parent its children would be in order too.
Sinking(h, n, E, i, len) ==
  /\ Holds(h.mem, n, E) /\ Len(h.mem) = len
  /\ h.at \in i..n
  /\ \A j \in i..n : j # h.at => Above(h.mem, n, j)
  /\ \A j \in i..n : h.at \in {2 * j, 2 * j + 1} =>
       \A c \in {2 * h.at, 2 * h.at + 1} : c <= n => h.mem[c].fd <= h.mem[j].fd

Sunk(h, n, i, k) == Above(h.mem, n, h.at) \/ h.at >= i + k

LEMMA SinkIs ==
  ASSUME NEW h \in [mem : Seq(Events), at : Nat], NEW n \in Nat, NEW E, NEW i \in 1..n,
         NEW len, Sinking(h, n, E, i, len), NEW k \in Nat, Sunk(h, n, i, k)
  PROVE  /\ Sink(h, n) \in [mem : Seq(Events), at : Nat]
         /\ Sinking(Sink(h, n), n, E, i, len) /\ Sunk(Sink(h, n), n, i, k + 1)
<1> DEFINE m == h.mem
           a == h.at
           c == LargerChild(m, n, a)
           w == Swap(m, a, c)
<1>1. /\ Holds(m, n, E) /\ Len(m) = len /\ a \in i..n
      /\ m \in Seq(Events) /\ n <= Len(m) /\ Len(m) \in Nat
  BY DEF Sinking, Holds
<1>2. \A j \in i..n : j # a => Above(m, n, j) BY DEF Sinking
<1>3. \A j \in i..n : a \in {2 * j, 2 * j + 1} =>
        \A x \in {2 * a, 2 * a + 1} : x <= n => m[x].fd <= m[j].fd
  BY DEF Sinking
<1>4. Above(m, n, a) \/ a >= i + k BY DEF Sunk
<1>5. \A j \in 1..n : m[j].fd \in Nat
  <2> TAKE j \in 1..n
  <2>1. j \in 1..Len(m) /\ m \in Seq(Events) BY <1>1
  <2> HIDE DEF m
  <2> QED BY <2>1, EventAt
<1>6. h = [mem |-> m, at |-> a] OBVIOUS
<1>7. Sink(h, n) = IF c <= n /\ m[a].fd < m[c].fd THEN [mem |-> w, at |-> c] ELSE h
  BY DEF Sink
<1>8. c = IF 2 * a + 1 <= n /\ m[2 * a].fd < m[2 * a + 1].fd THEN 2 * a + 1 ELSE 2 * a
  BY DEF LargerChild
<1> HIDE DEF m, a, c, w
<1>9. c \in {2 * a, 2 * a + 1} /\ c \in Nat /\ c > a /\ a \in 1..n BY <1>1, <1>8
<1>10. CASE c <= n /\ m[a].fd < m[c].fd
  <2>1. c \in i..n /\ c \in 1..n BY <1>1, <1>9, <1>10
  <2>2. Holds(w, n, E) /\ Len(w) = len BY <1>1, <1>9, <2>1, SwapHolds DEF w
  <2>3. /\ w \in Seq(Events)
        /\ \A j \in 1..Len(m) : w[j] = m[IF j = a THEN c ELSE IF j = c THEN a ELSE j]
    <3>1. a \in 1..Len(m) /\ c \in 1..Len(m) /\ m \in Seq(Events) BY <1>1, <1>9, <2>1
    <3> QED BY <3>1, SwapIs DEF w
  <2>4. w[a] = m[c] /\ w[c] = m[a] /\ \A j \in 1..n : j # a /\ j # c => w[j] = m[j]
    <3>1. \A j \in 1..n : j \in 1..Len(m) BY <1>1
    <3> QED BY <2>1, <2>3, <3>1, <1>9
  <2>5. \A x \in {2 * a, 2 * a + 1} : x <= n => m[x].fd <= m[c].fd
    <3>1. 2 * a \in 1..n => m[2 * a].fd \in Nat BY <1>5
    <3>2. 2 * a + 1 \in 1..n => m[2 * a + 1].fd \in Nat BY <1>5
    <3> QED BY SMTT(30), <3>1, <3>2, <1>8, <1>9, <1>10
  <2>6. ASSUME NEW j \in i..n, j # c PROVE Above(w, n, j)
    <3>1. j \in 1..n OBVIOUS
    <3>2. SUFFICES ASSUME NEW x \in {2 * j, 2 * j + 1}, x <= n PROVE w[x].fd <= w[j].fd
      BY DEF Above
    <3>3. x \in 1..n /\ x # j BY <3>1, <3>2
    <3>4. CASE j = a
      <4>1. w[j] = m[c] BY <3>4, <2>4
      <4>2. CASE x = c BY <4>1, <4>2, <2>4, <1>10, <1>5, <2>1, <1>9
      <4>3. CASE x # c
        <5>1. w[x] = m[x] BY <4>3, <3>3, <3>4, <2>4
        <5> QED BY <5>1, <4>1, <2>5, <3>2, <3>4
      <4> QED BY <4>2, <4>3
    <3>5. CASE j # a
      <4>1. w[j] = m[j] BY <3>1, <3>5, <2>6, <2>4
      <4>2. x # c BY <3>1, <3>5, <1>9
      <4>3. CASE x = a
        <5>1. m[c].fd <= m[j].fd BY <4>3, <1>3, <1>9, <2>1
        <5> QED BY <5>1, <4>1, <4>3, <2>4
      <4>4. CASE x # a
        <5>1. w[x] = m[x] BY <4>2, <4>4, <3>3, <2>4
        <5>2. m[x].fd <= m[j].fd BY <3>2, <3>5, <1>2 DEF Above
        <5> QED BY <5>1, <5>2, <4>1
      <4> QED BY <4>3, <4>4
    <3> QED BY <3>4, <3>5
  <2>7. ASSUME NEW j \in i..n, c \in {2 * j, 2 * j + 1},
               NEW x \in {2 * c, 2 * c + 1}, x <= n
        PROVE  w[x].fd <= w[j].fd
    <3>1. j = a BY <2>7, <1>9
    <3>2. x \in 1..n /\ x # c /\ x # a BY <2>1, <2>7, <1>9
    <3>3. m[x].fd <= m[c].fd
      <4>1. c # a BY <1>9
      <4>2. Above(m, n, c) BY <4>1, <2>1, <1>2
      <4> QED BY <4>2, <2>7 DEF Above
    <3> QED BY <3>1, <3>2, <3>3, <2>4
  <2>8. Sinking([mem |-> w, at |-> c], n, E, i, len) BY <2>1, <2>2, <2>6, <2>7 DEF Sinking
  <2>9. c >= i + (k + 1)
    <3>1. ~Above(m, n, a) BY <1>5, <1>9, <1>10, <2>1 DEF Above
    <3> QED BY <3>1, <1>4, <1>9
  <2>10. Sunk([mem |-> w, at |-> c], n, i, k + 1) BY <2>9 DEF Sunk
  <2>11. [mem |-> w, at |-> c] \in [mem : Seq(Events), at : Nat] BY <1>9, <2>3
  <2> QED BY <1>7, <1>10, <2>8, <2>10, <2>11
<1>11. CASE ~(c <= n /\ m[a].fd < m[c].fd)
  <2>1. Sink(h, n) = h BY <1>7, <1>11
  <2>2. 2 * a \in 1..n => m[2 * a].fd \in Nat BY <1>5
  <2>3. 2 * a + 1 \in 1..n => m[2 * a + 1].fd \in Nat BY <1>5
  <2>4. m[a].fd \in Nat BY <1>5, <1>9
  <2>5. ASSUME NEW x \in {2 * a, 2 * a + 1}, x <= n PROVE m[x].fd <= m[a].fd
    <3>1. 2 * a \in 1..n BY <2>5, <1>9, <1>1
    <3>2. CASE c = 2 * a + 1
      <4>1. c <= n /\ m[2 * a].fd < m[c].fd /\ c \in 1..n BY <3>2, <1>8, <1>9, <1>1
      <4>2. ~(m[a].fd < m[c].fd) BY <4>1, <1>11
      <4> QED BY SMTT(30), <4>1, <4>2, <3>1, <3>2, <2>2, <2>3, <2>4, <2>5
    <3>3. CASE c = 2 * a
      <4>1. ~(m[a].fd < m[2 * a].fd) BY <3>1, <3>3, <1>11
      <4>2. x # 2 * a => 2 * a + 1 \in 1..n /\ ~(m[2 * a].fd < m[x].fd)
        BY <2>5, <3>1, <3>3, <1>8, <1>1
      <4> QED BY <4>1, <4>2, <3>1, <2>2, <2>3, <2>4, <2>5
    <3> QED BY <3>2, <3>3, <1>9
  <2>6. Above(m, n, a) BY <2>5 DEF Above
  <2> QED BY <2>1, <2>6, <1>6 DEF Sunk, m, a
<1> QED BY <1>10, <1>11

LEMMA SiftDownIs ==
  ASSUME NEW m, NEW n \in Nat, NEW E, Holds(m, n, E), NEW i \in 1..n,
         \A j \in (i + 1)..n : Above(m, n, j)
  PROVE  LET w == SiftDown(m, n, i)
         IN  Holds(w, n, E) /\ Len(w) = Len(m) /\ \A j \in i..n : Above(w, n, j)
<1> DEFINE K == n \div 2
           U == [mem : Seq(Events), at : Nat]
           A == [k \in 0..K |-> {h \in U : Sinking(h, n, E, i, Len(m)) /\ Sunk(h, n, i, k)}]
           F == [z \in U \X (1..K) |-> Sink(z[1], n)]
           b == [mem |-> m, at |-> i]
           R(g) == g = [k \in 0..K |-> IF k = 0 THEN b ELSE Sink(g[k - 1], n)]
           r == CHOOSE g : R(g)
<1>1. K \in Nat BY Halves
<1>2. m \in Seq(Events) /\ n <= Len(m) /\ Len(m) \in Nat BY DEF Holds
<1>3. b \in A[0]
  <2>1. b \in U BY <1>2
  <2>2. \A j \in i..n : j # i => j \in (i + 1)..n OBVIOUS
  <2>3. \A j \in i..n : ~(i \in {2 * j, 2 * j + 1}) OBVIOUS
  <2>4. i \in i..n OBVIOUS
  <2>5. Sinking(b, n, E, i, Len(m)) BY <2>2, <2>3, <2>4 DEF Sinking
  <2>6. Sunk(b, n, i, 0) BY DEF Sunk
  <2> QED BY <1>1, <2>1, <2>5, <2>6
<1>4. ASSUME NEW k \in 1..K, NEW x \in A[k - 1]
      PROVE  Sink(x, n) \in A[k] /\ F[<<x, k>>] = Sink(x, n)
  <2>1. k - 1 \in 0..K /\ k - 1 \in Nat /\ (k - 1) + 1 = k /\ k \in 0..K BY <1>1
  <2>2. x \in U /\ Sinking(x, n, E, i, Len(m)) /\ Sunk(x, n, i, k - 1) BY <2>1
  <2>3. Sink(x, n) \in U /\ Sinking(Sink(x, n), n, E, i, Len(m)) /\ Sunk(Sink(x, n), n, i, k)
    BY <1>2, <2>1, <2>2, SinkIs
  <2> QED BY <2>1, <2>2, <2>3
<1> HIDE DEF F
<1>5. \A k \in 1..K : \A x \in A[k - 1] : F[<<x, k>>] \in A[k]
  <2> HIDE DEF A, K
  <2> QED BY <1>4
<1>6. \E g : R(g)
  <2>1. PICK g : IsLoop(g, K, A, b, F)
    <3> HIDE DEF A, b, K
    <3> QED BY <1>1, <1>3, <1>5, Loop
  <2>2. /\ g = [k \in 0..K |-> g[k]] /\ g[0] = b
        /\ \A k \in 1..K : g[k] = F[<<g[k - 1], k>>]
        /\ \A k \in 0..K : g[k] \in A[k]
    BY <2>1 DEF IsLoop
  <2> HIDE DEF A, b
  <2>3. \A k \in 1..K : g[k] = Sink(g[k - 1], n)
    <3> TAKE k \in 1..K
    <3>1. k - 1 \in 0..K BY <1>1
    <3> QED BY <3>1, <2>2, <1>4
  <2>4. \A k \in 0..K : g[k] = IF k = 0 THEN b ELSE Sink(g[k - 1], n)
    <3> TAKE k \in 0..K
    <3>1. k # 0 => k \in 1..K BY <1>1
    <3> QED BY <3>1, <2>2, <2>3
  <2>5. R(g) BY <2>2, <2>4
  <2> QED BY <2>5
<1>7. R(r) BY <1>6
<1> HIDE DEF r
<1>8. r[0] = b /\ \A k \in 1..K : r[k] = Sink(r[k - 1], n) BY <1>1, <1>7
<1>9. \A k \in 0..K : r[k] \in A[k]
  <2> HIDE DEF A, b, K
  <2>1. \A k \in 1..K : r[k - 1] \in A[k - 1] => r[k] \in A[k] BY <1>4, <1>8
  <2>2. r[0] \in A[0] BY <1>3, <1>8
  <2> QED BY <1>1, <2>1, <2>2, Stays
<1>10. SiftDown(m, n, i) = r[K].mem BY DEF SiftDown, r
<1>11. Sinking(r[K], n, E, i, Len(m)) /\ Sunk(r[K], n, i, K)
  <2>1. K \in 0..K BY <1>1
  <2> QED BY <2>1, <1>9
<1>12. Above(r[K].mem, n, r[K].at)
  <2>1. r[K].at \in i..n BY <1>11 DEF Sinking
  <2>2. n < 2 * (K + 1) BY Halves
  <2> HIDE DEF K
  <2>3. CASE r[K].at >= i + K
    <3>1. \A c \in {2 * r[K].at, 2 * r[K].at + 1} : ~(c <= n) BY <2>1, <2>2, <2>3, <1>1
    <3> QED BY <3>1 DEF Above
  <2> QED BY <2>3, <1>11 DEF Sunk
<1>13. \A j \in i..n : Above(r[K].mem, n, j) BY <1>11, <1>12 DEF Sinking
<1> QED BY <1>10, <1>11, <1>13 DEF Sinking

\* What is in order has the largest on top: a larger one would be first
\* somewhere, under a parent that is smaller.
LEMMA InOrderIsTop ==
  ASSUME NEW m \in Seq(Events), NEW n \in Nat, n <= Len(m), \A j \in 1..n : Above(m, n, j)
  PROVE  TopIsLargest(m, n)
<1> DEFINE T == {i \in 1..n : ~(m[i].fd <= m[1].fd)}
<1>1. SUFFICES ASSUME T # {} PROVE FALSE BY DEF TopIsLargest
<1>2. \A i \in 1..n : m[i].fd \in Nat
  <2> TAKE i \in 1..n
  <2>1. i \in 1..Len(m) OBVIOUS
  <2> QED BY <2>1, EventAt
<1>3. PICK x \in T : \A y \in T : x <= y
  <2>1. T \subseteq Nat /\ T # {} BY <1>1
  <2> HIDE DEF T
  <2> QED BY <2>1, Least
<1>4. x \in 1..n /\ 1 \in 1..n /\ ~(m[x].fd <= m[1].fd) BY <1>3
<1>5. x > 1 BY <1>2, <1>4
<1> DEFINE p == x \div 2
<1>6. p \in 1..n /\ p < x /\ x \in {2 * p, 2 * p + 1} BY <1>4, <1>5, Halves
<1> HIDE DEF p
<1>7. m[x].fd <= m[p].fd BY SMTT(30), <1>4, <1>6 DEF Above
<1>8. p \in T BY <1>2, <1>4, <1>6, <1>7
<1> QED BY <1>3, <1>6, <1>8

LEMMA MakeHeapIs ==
  ASSUME NEW m, NEW n \in Nat, NEW E, Holds(m, n, E)
  PROVE  LET w == MakeHeap(m, n)
         IN  Holds(w, n, E) /\ Len(w) = Len(m) /\ TopIsLargest(w, n)
<1> DEFINE K == n \div 2
           A == [k \in 0..K |-> {x \in Seq(Events) : /\ Holds(x, n, E) /\ Len(x) = Len(m)
                                                     /\ \A j \in (K + 1 - k)..n : Above(x, n, j)}]
           F == [z \in Seq(Events) \X (1..K) |-> SiftDown(z[1], n, K + 1 - z[2])]
           R(g) == g = [k \in 0..K |-> IF k = 0 THEN m ELSE SiftDown(g[k - 1], n, K + 1 - k)]
           r == CHOOSE g : R(g)
<1>1. K \in Nat /\ n < 2 * (K + 1) /\ K <= n BY Halves
<1>2. m \in Seq(Events) /\ n <= Len(m) /\ Len(m) \in Nat BY DEF Holds
<1>3. m \in A[0]
  <2> HIDE DEF K
  <2>1. ASSUME NEW j \in (K + 1 - 0)..n PROVE Above(m, n, j)
    <3>1. \A c \in {2 * j, 2 * j + 1} : ~(c <= n) BY <1>1
    <3> QED BY <3>1 DEF Above
  <2> QED BY <1>1, <1>2, <2>1
<1>4. ASSUME NEW k \in 1..K, NEW x \in A[k - 1]
      PROVE  SiftDown(x, n, K + 1 - k) \in A[k]
             /\ F[<<x, k>>] = SiftDown(x, n, K + 1 - k)
  <2> DEFINE i == K + 1 - k
             w == SiftDown(x, n, i)
  <2>1. k - 1 \in 0..K /\ k \in 0..K /\ K + 1 - (k - 1) = i + 1 /\ i \in 1..n
    <3> HIDE DEF K
    <3> QED BY <1>1
  <2>2. x \in Seq(Events) /\ Holds(x, n, E) /\ Len(x) = Len(m)
        /\ \A j \in (i + 1)..n : Above(x, n, j)
    <3>1. A[k - 1] = {y \in Seq(Events) : /\ Holds(y, n, E) /\ Len(y) = Len(m)
                                          /\ \A j \in (i + 1)..n : Above(y, n, j)}
      BY <2>1
    <3> QED BY <3>1
  <2>3. Holds(w, n, E) /\ Len(w) = Len(x) /\ \A j \in i..n : Above(w, n, j)
    <3> HIDE DEF i
    <3> QED BY <2>1, <2>2, SiftDownIs
  <2>4. w \in Seq(Events) BY <2>3 DEF Holds
  <2> HIDE DEF w
  <2>5. w \in A[k] BY <2>1, <2>2, <2>3, <2>4
  <2>6. F[<<x, k>>] = w BY <2>2 DEF w
  <2> QED BY <2>5, <2>6 DEF w
<1> HIDE DEF F
<1>5. \A k \in 1..K : \A x \in A[k - 1] : F[<<x, k>>] \in A[k]
  <2> HIDE DEF A, K
  <2> QED BY <1>4
<1>6. \E g : R(g)
  <2>1. PICK g : IsLoop(g, K, A, m, F)
    <3> HIDE DEF A, K
    <3> QED BY <1>1, <1>3, <1>5, Loop
  <2>2. /\ g = [k \in 0..K |-> g[k]] /\ g[0] = m
        /\ \A k \in 1..K : g[k] = F[<<g[k - 1], k>>]
        /\ \A k \in 0..K : g[k] \in A[k]
    BY <2>1 DEF IsLoop
  <2> HIDE DEF A
  <2>3. \A k \in 1..K : g[k] = SiftDown(g[k - 1], n, K + 1 - k)
    <3> TAKE k \in 1..K
    <3>1. k - 1 \in 0..K BY <1>1
    <3> QED BY <3>1, <2>2, <1>4
  <2>4. \A k \in 0..K : g[k] = IF k = 0 THEN m ELSE SiftDown(g[k - 1], n, K + 1 - k)
    <3> TAKE k \in 0..K
    <3>1. k # 0 => k \in 1..K BY <1>1
    <3> QED BY <3>1, <2>2, <2>3
  <2>5. R(g) BY <2>2, <2>4
  <2> QED BY <2>5
<1>7. R(r) BY <1>6
<1> HIDE DEF r
<1>8. r[0] = m /\ \A k \in 1..K : r[k] = SiftDown(r[k - 1], n, K + 1 - k) BY <1>1, <1>7
<1>9. \A k \in 0..K : r[k] \in A[k]
  <2> HIDE DEF A, K
  <2>1. \A k \in 1..K : r[k - 1] \in A[k - 1] => r[k] \in A[k] BY <1>4, <1>8
  <2>2. r[0] \in A[0] BY <1>3, <1>8
  <2> QED BY <1>1, <2>1, <2>2, Stays
<1>10. MakeHeap(m, n) = r[K] BY DEF MakeHeap, r
<1>11. /\ Holds(r[K], n, E) /\ Len(r[K]) = Len(m) /\ r[K] \in Seq(Events)
       /\ \A j \in (K + 1 - K)..n : Above(r[K], n, j)
  <2>1. K \in 0..K BY <1>1
  <2> QED BY <2>1, <1>9
<1>12. \A j \in 1..n : Above(r[K], n, j)
  <2>1. K + 1 - K = 1 BY <1>1
  <2> QED BY <2>1, <1>11
<1>13. TopIsLargest(r[K], n)
  <2>1. n <= Len(r[K]) BY <1>2, <1>11
  <2> QED BY <2>1, <1>11, <1>12, InOrderIsTop
<1> QED BY <1>10, <1>11, <1>13

-----------------------------------------------------------------------------
(* del_event *)

\* The memory without the event at k: what follows has moved up.
LEMMA MovedUp ==
  ASSUME NEW mem, NEW n, NEW E, Holds(mem, n, E), NEW k \in 1..n, NEW m,
         m = [i \in 1..Len(mem) |-> IF k <= i /\ i < n THEN mem[i + 1] ELSE mem[i]]
  PROVE  Holds(m, n - 1, E \ {mem[k]}) /\ Len(m) = Len(mem)
<1> DEFINE q(i) == IF k <= i THEN i + 1 ELSE i
           C == E \ {mem[k]}
<1>1. mem \in Seq(Events) /\ n \in Nat /\ n <= Len(mem) /\ Len(mem) \in Nat
  BY DEF Holds
<1>2. \A i \in 1..Len(mem) : m[i] \in Events
  <2> TAKE i \in 1..Len(mem)
  <2>1. mem[i] \in Events BY <1>1, EventAt
  <2>2. k <= i /\ i < n => mem[i + 1] \in Events
    <3>1. k <= i /\ i < n => i + 1 \in 1..Len(mem) BY <1>1
    <3> QED BY <3>1, <1>1, EventAt
  <2> QED BY <2>1, <2>2
<1>3. m \in Seq(Events) /\ Len(m) = Len(mem)
  <2>1. m \in [1..Len(mem) -> Events] BY <1>2
  <2>2. Len(mem) \in Nat BY <1>1
  <2> QED BY <2>1, <2>2, IsSequence
<1>4. n - 1 \in Nat /\ n - 1 <= Len(mem) BY <1>1
<1>5. \A i \in 1..(n - 1) : q(i) \in 1..n /\ q(i) # k /\ m[i] = mem[q(i)]
  <2> TAKE i \in 1..(n - 1)
  <2>1. i \in 1..Len(mem) /\ i < n BY <1>1
  <2> QED BY <2>1, <1>1
<1>6. \A i, j \in 1..(n - 1) : q(i) = q(j) => i = j BY <1>1
<1>7. \A i \in 1..n : i # k => \E j \in 1..(n - 1) : q(j) = i
  <2> SUFFICES ASSUME NEW i \in 1..n, i # k PROVE \E j \in 1..(n - 1) : q(j) = i
    OBVIOUS
  <2>1. CASE i < k
    <3>1. i \in 1..(n - 1) /\ q(i) = i BY <2>1, <1>1
    <3> QED BY <3>1
  <2>2. CASE i > k
    <3>1. i - 1 \in 1..(n - 1) /\ q(i - 1) = i BY <2>2, <1>1
    <3> QED BY <3>1
  <2> QED BY <2>1, <2>2
<1> HIDE DEF q
<1>8. \A i \in 1..(n - 1) : m[i] \in C
  <2> TAKE i \in 1..(n - 1)
  <2>1. q(i) \in 1..n /\ q(i) # k /\ m[i] = mem[q(i)] BY <1>5
  <2> QED BY <2>1 DEF Holds
<1>9. ASSUME NEW e \in C PROVE \E i \in 1..(n - 1) : m[i] = e
  <2>1. PICK i \in 1..n : mem[i] = e BY DEF Holds
  <2>2. i # k BY <2>1
  <2>3. PICK j \in 1..(n - 1) : q(j) = i BY <2>2, <1>7
  <2>4. m[j] = e BY <2>1, <2>3, <1>5
  <2> QED BY <2>4
<1>10. ASSUME NEW i \in 1..(n - 1), NEW j \in 1..(n - 1), m[i].fd = m[j].fd
       PROVE  i = j
  <2>1. mem[q(i)].fd = mem[q(j)].fd /\ q(i) \in 1..n /\ q(j) \in 1..n BY <1>5, <1>10
  <2>2. q(i) = q(j) BY <2>1 DEF Holds
  <2> QED BY <2>2, <1>6
<1> HIDE DEF C
<1>11. Holds(m, n - 1, C) BY <1>3, <1>4, <1>8, <1>9, <1>10 DEF Holds
<1> QED BY <1>3, <1>11 DEF C

LEMMA DelEventIs ==
  ASSUME NEW s \in Servers, NEW E, Holds(s.heap.mem, s.heap.size, E), NEW e \in E
  PROVE  LET v == DelEvent(s, e.fd)
         IN  /\ v \in Servers /\ v.client = s.client
             /\ v.rset = s.rset \ {e.fd}
             /\ Holds(v.heap.mem, v.heap.size, E \ {e})
             /\ TopIsLargest(v.heap.mem, v.heap.size)
             /\ Len(v.heap.mem) = Len(s.heap.mem)
<1> DEFINE mem == s.heap.mem
           n == s.heap.size
           k == CHOOSE i \in 1..n : mem[i].fd = e.fd
           m == [i \in 1..Len(mem) |-> IF k <= i /\ i < n THEN mem[i + 1] ELSE mem[i]]
           w == MakeHeap(m, n - 1)
<1>1. DelEvent(s, e.fd) = [s EXCEPT !.rset = @ \ {e.fd},
                                    !.heap = [mem |-> w, size |-> n - 1]]
  BY DEF DelEvent
<1>2. k \in 1..n /\ mem[k] = e
  <2>1. PICK i \in 1..n : mem[i] = e BY DEF Holds
  <2>2. k \in 1..n /\ mem[k].fd = e.fd BY <2>1
  <2> HIDE DEF k
  <2>3. k = i BY <2>1, <2>2 DEF Holds
  <2> QED BY <2>1, <2>2, <2>3
<1> HIDE DEF k
<1>3. n \in Nat /\ n - 1 \in Nat
  <2>1. n \in Nat BY DEF Holds
  <2> QED BY <2>1, <1>2
<1>4. Holds(m, n - 1, E \ {e}) /\ Len(m) = Len(mem)
  <2>1. m = [i \in 1..Len(mem) |-> IF k <= i /\ i < n THEN mem[i + 1] ELSE mem[i]]
    OBVIOUS
  <2> HIDE DEF m
  <2>2. Holds(m, n - 1, E \ {mem[k]}) /\ Len(m) = Len(mem) BY <1>2, <2>1, MovedUp
  <2> QED BY <2>2, <1>2
<1> HIDE DEF m
<1>5. Holds(w, n - 1, E \ {e}) /\ Len(w) = Len(m) /\ TopIsLargest(w, n - 1)
  BY <1>3, <1>4, MakeHeapIs
<1>6. w \in Seq(Events) BY <1>5 DEF Holds
<1> HIDE DEF w
<1>7. [mem |-> w, size |-> n - 1] \in Heaps BY <1>3, <1>6 DEF Heaps
<1>8. DelEvent(s, e.fd) \in Servers BY <1>1, <1>7 DEF Servers
<1> QED BY <1>1, <1>4, <1>5, <1>8 DEF Servers

-----------------------------------------------------------------------------
(* The clients and the reactor *)

\* What the reactor has to watch for these clients.
Watched(cl) ==
  {Ev(AccFd, "acc"), Ev(SigFd, "sig")}
    \cup {Ev(cl[t].fd, t) : t \in {u \in Threads : cl[u].fd # 0}}

\* It does, and no two things have the same descriptor.
Watching(s) ==
  /\ s \in Servers
  /\ \A t \in Threads : s.client[t].fd \in 0..Cardinality(Fds)
                        /\ s.client[t].fd \notin {SigFd, AccFd}
  /\ \A t, u \in Threads :
       s.client[t].fd # 0 /\ s.client[t].fd = s.client[u].fd => t = u
  /\ Holds(s.heap.mem, s.heap.size, Watched(s.client))
  /\ TopIsLargest(s.heap.mem, s.heap.size)
  /\ s.rset = {e.fd : e \in Watched(s.client)}

LEMMA FdsAre ==
  /\ Cardinality(Threads) \in Nat
  /\ Cardinality(Fds) = 3 + Cardinality(Threads)
<1>1. Cardinality(Threads) \in Nat BY FS_CardinalityType, LogAssumption
<1> DEFINE n == 3 + Cardinality(Threads)
<1>2. n \in Nat /\ n >= 1 BY <1>1
<1> HIDE DEF n
<1>3. Cardinality(1..n) = n BY <1>2, FS_Interval
<1> QED BY <1>1, <1>3 DEF Fds, n

\* There is a free descriptor for every thread without one.
LEMMA FreeFdIs ==
  ASSUME NEW s, s.client \in [Threads -> Clients], NEW t \in Threads, s.client[t].fd = 0
  PROVE  LET f == FreeFd(s)
         IN  /\ f \in Fds /\ f \notin {SigFd, AccFd}
             /\ \A u \in Threads : s.client[u].fd # f
<1> DEFINE n == Cardinality(Threads)
           Others == Threads \ {t}
           Taken == {s.client[u].fd : u \in Others}
           Free == Fds \ ({SigFd, AccFd} \cup {s.client[u].fd : u \in Threads}
                            \cup (IF logfd THEN {LogFd} ELSE {}))
           g == [u \in Others |-> s.client[u].fd]
<1>1. n \in Nat BY FdsAre
<1>2. IsFiniteSet(Others) /\ Cardinality(Others) = n - 1
  BY LogAssumption, FS_RemoveElement
<1>3. IsFiniteSet(Taken) /\ Cardinality(Taken) <= n - 1
  <2>1. g \in Surjection(Others, Taken) BY DEF Surjection
  <2> HIDE DEF g, Taken, Others
  <2> QED BY <1>2, <2>1, FS_Surjection
<1>4. Cardinality(4..(3 + n)) = n
  <2> HIDE DEF n
  <2>1. 4 \in Int /\ 3 + n \in Int BY <1>1
  <2>2. Cardinality(4..(3 + n)) = IF 4 > 3 + n THEN 0 ELSE (3 + n) - 4 + 1
    BY <2>1, FS_Interval
  <2> QED BY <1>1, <2>2
<1>5. ~(4..(3 + n) \subseteq Taken)
  <2> DEFINE D == 4..(3 + n)
  <2>1. Cardinality(D) = n BY <1>4
  <2>2. Cardinality(Taken) \in Nat BY <1>3, FS_CardinalityType
  <2> HIDE DEF D, Taken, n
  <2>3. D \subseteq Taken => Cardinality(D) <= Cardinality(Taken) BY <1>3, FS_Subset
  <2>4. ~(n <= n - 1) BY <1>1
  <2>5. D \subseteq Taken => FALSE BY <1>1, <1>3, <2>1, <2>2, <2>3
  <2> QED BY <2>5 DEF D
<1>6. PICK x \in 4..(3 + n) : x \notin Taken BY <1>5
<1>7. x \in Free
  <2>1. x \in Fds /\ x \notin {0, 1, 2, 3} BY <1>1, <1>6 DEF Fds
  <2>2. \A u \in Threads : s.client[u].fd # x BY <1>6, <2>1
  <2> QED BY <2>1, <2>2 DEF SigFd, AccFd, LogFd
<1>8. Free \subseteq Nat /\ Free # {} BY <1>7 DEF Fds
<1>9. FreeFd(s) = Min(Free) BY DEF FreeFd
<1>10. Min(Free) \in Free
  <2> HIDE DEF Free
  <2>1. \E m \in Free : \A y \in Free : m <= y BY <1>8, Least
  <2> QED BY <2>1 DEF Min
<1> QED BY <1>9, <1>10

LEMMA WatchedEvents ==
  ASSUME NEW cl \in [Threads -> Clients]
  PROVE  Watched(cl) \subseteq Events
<1>1. AccFd \in Nat /\ SigFd \in Nat BY DEF AccFd, SigFd
<1>2. \A t \in Threads : cl[t].fd \in Nat BY DEF Clients
<1> QED BY <1>1, <1>2 DEF Watched, Ev, Events

\* new fifo_client keeps the watch.
LEMMA NewClientIs ==
  ASSUME NEW s, Watching(s), NEW t \in Threads, s.client[t].fd = 0
  PROVE  LET v == NewClient(s, t)
         IN  /\ Watching(v) /\ Len(v.heap.mem) >= Len(s.heap.mem)
             /\ v.client[t].fd # 0 /\ v.client[t].body = FALSE
             /\ \A u \in Threads : u # t => v.client[u] = s.client[u]
<1> DEFINE f == FreeFd(s)
           c == [fd |-> f, body |-> FALSE, met |-> tls[t] = "opening"]
           x == [s EXCEPT !.client[t] = c]
           ev == Ev(f, t)
           v == AddEvent(x, ev)
<1>1. s \in Servers /\ s.client \in [Threads -> Clients] BY DEF Watching, Servers
<1>2. f \in Fds /\ f \notin {SigFd, AccFd} /\ \A u \in Threads : s.client[u].fd # f
  BY <1>1, FreeFdIs
<1> HIDE DEF f
<1>3. f \in 1..Cardinality(Fds) /\ f \in Nat /\ f # 0
  BY <1>2, FdsAre DEF Fds
<1>4. x.client = [s.client EXCEPT ![t] = c] /\ x.heap = s.heap /\ x.rset = s.rset
  BY <1>1 DEF Servers
<1>5. c \in Clients BY <1>3 DEF Clients
<1>6. x \in Servers
  <2>1. x.client \in [Threads -> Clients] BY <1>1, <1>4, <1>5
  <2>2. x = [client |-> [s.client EXCEPT ![t] = c], heap |-> s.heap, rset |-> s.rset]
    <3>1. s = [client |-> s.client, heap |-> s.heap, rset |-> s.rset] BY <1>1 DEF Servers
    <3> HIDE DEF c
    <3> QED BY <3>1
  <2> QED BY <1>1, <1>4, <2>1, <2>2 DEF Servers
<1>7. x.client[t] = c /\ \A u \in Threads : u # t => x.client[u] = s.client[u]
  BY <1>1, <1>4
<1>8. c.fd = f /\ c.body = FALSE OBVIOUS
<1> HIDE DEF x, c
<1>9. Watched(x.client) = Watched(s.client) \cup {ev}
  BY <1>3, <1>7, <1>8 DEF Watched
<1>10. ev \in Events /\ ev.fd = f BY <1>3 DEF Events, Ev
<1>11. \A e \in Watched(s.client) : e.fd # ev.fd
  BY <1>2, <1>10 DEF Watched, Ev
<1>12. Holds(x.heap.mem, x.heap.size, Watched(s.client))
       /\ TopIsLargest(x.heap.mem, x.heap.size)
  BY <1>4 DEF Watching
<1>13. /\ v \in Servers /\ v.client = x.client /\ v.rset = s.rset \cup {f}
       /\ Holds(v.heap.mem, v.heap.size, Watched(s.client) \cup {ev})
       /\ TopIsLargest(v.heap.mem, v.heap.size)
       /\ Len(v.heap.mem) >= Len(s.heap.mem)
  <2> DEFINE E == Watched(s.client)
  <2>1. Holds(x.heap.mem, x.heap.size, E) /\ TopIsLargest(x.heap.mem, x.heap.size)
        /\ ev \in Events /\ \A e \in E : e.fd # ev.fd
    BY <1>10, <1>11, <1>12
  <2> HIDE DEF ev, E
  <2>2. /\ v \in Servers /\ v.client = x.client /\ v.rset = x.rset \cup {ev.fd}
        /\ Holds(v.heap.mem, v.heap.size, E \cup {ev})
        /\ TopIsLargest(v.heap.mem, v.heap.size)
        /\ Len(v.heap.mem) >= Len(x.heap.mem)
    BY ZenonT(30), <1>6, <2>1, AddEventIs
  <2> QED BY <2>2, <1>4, <1>10 DEF E
<1>14. NewClient(s, t) = v BY DEF NewClient, x, c, f
<1> HIDE DEF v, ev
<1>15. Watching(v)
  <2>1. \A u \in Threads : /\ v.client[u].fd \in 0..Cardinality(Fds)
                           /\ v.client[u].fd \notin {SigFd, AccFd}
    <3> TAKE u \in Threads
    <3>1. CASE u = t BY <3>1, <1>2, <1>3, <1>7, <1>8, <1>13
    <3>2. CASE u # t BY <3>2, <1>7, <1>13 DEF Watching
    <3> QED BY <3>1, <3>2
  <2>2. ASSUME NEW u \in Threads, NEW w \in Threads,
               v.client[u].fd # 0, v.client[u].fd = v.client[w].fd
        PROVE  u = w
    <3>1. CASE u # t /\ w # t BY <3>1, <2>2, <1>7, <1>13 DEF Watching
    <3>2. CASE u = t /\ w # t BY <3>2, <2>2, <1>2, <1>7, <1>8, <1>13
    <3>3. CASE u # t /\ w = t BY <3>3, <2>2, <1>2, <1>7, <1>8, <1>13
    <3> QED BY <3>1, <3>2, <3>3
  <2>3. v.rset = {e.fd : e \in Watched(v.client)}
    <3>1. s.rset = {e.fd : e \in Watched(s.client)} BY DEF Watching
    <3> QED BY <3>1, <1>9, <1>10, <1>13
  <2> QED BY <1>9, <1>13, <2>1, <2>2, <2>3 DEF Watching
<1> QED BY <1>3, <1>7, <1>8, <1>13, <1>14, <1>15

\* new clients for threads that have none.
Made(s, x, new, k) ==
  /\ x \in Servers /\ Watching(x) /\ Len(x.heap.mem) >= Len(s.heap.mem)
  /\ \A i \in 1..k : x.client[new[i]].fd # 0 /\ x.client[new[i]].body = FALSE
  /\ \A u \in Threads : (\A i \in 1..k : new[i] # u) => x.client[u] = s.client[u]

LEMMA NewClientsAre ==
  ASSUME NEW s, Watching(s), NEW new \in Seq(Threads),
         \A i, j \in 1..Len(new) : new[i] = new[j] => i = j,
         \A i \in 1..Len(new) : s.client[new[i]].fd = 0
  PROVE  Made(s, NewClients(s, new), new, Len(new))
<1> DEFINE K == Len(new)
           A == [k \in 0..K |-> {x \in Servers : Made(s, x, new, k)}]
           F == [z \in Servers \X (1..K) |-> NewClient(z[1], new[z[2]])]
           R(g) == g = [k \in 0..K |-> IF k = 0 THEN s ELSE NewClient(g[k - 1], new[k])]
           r == CHOOSE g : R(g)
<1>1. K \in Nat /\ \A i \in 1..K : new[i] \in Threads OBVIOUS
<1>2. s \in A[0]
  <2>1. s \in Servers BY DEF Watching
  <2>2. Len(s.heap.mem) >= Len(s.heap.mem)
    <3>1. s.heap.mem \in Seq(Events) BY <2>1 DEF Servers, Heaps
    <3>2. Len(s.heap.mem) \in Nat BY <3>1
    <3> QED BY <3>2
  <2>3. Made(s, s, new, 0) BY <2>1, <2>2 DEF Made
  <2> QED BY <1>1, <2>1, <2>3
<1>3. ASSUME NEW k \in 1..K, NEW x \in A[k - 1]
      PROVE  NewClient(x, new[k]) \in A[k] /\ F[<<x, k>>] = NewClient(x, new[k])
  <2> DEFINE t == new[k]
             v == NewClient(x, t)
  <2>1. k - 1 \in 0..K /\ k \in 0..K /\ t \in Threads BY <1>1
  <2>2. x \in Servers /\ Made(s, x, new, k - 1) BY <2>1
  <2>3. Watching(x) /\ Len(x.heap.mem) >= Len(s.heap.mem) BY <2>2 DEF Made
  <2>4. \A i \in 1..(k - 1) : i \in 1..K /\ i # k BY <1>1
  <2>5. \A i \in 1..k : i # k => i \in 1..(k - 1) BY <1>1
  <2>6. \A i \in 1..(k - 1) : new[i] # t BY <2>4
  <2>7. x.client[t].fd = 0
    <3>1. x.client[t] = s.client[t] BY <2>1, <2>2, <2>6 DEF Made
    <3> QED BY <3>1
  <2>8. /\ Watching(v) /\ Len(v.heap.mem) >= Len(x.heap.mem)
        /\ v.client[t].fd # 0 /\ v.client[t].body = FALSE
        /\ \A u \in Threads : u # t => v.client[u] = x.client[u]
    <3> HIDE DEF t
    <3> QED BY <2>1, <2>3, <2>7, NewClientIs
  <2> HIDE DEF v
  <2>9. Made(s, v, new, k)
    <3>1. v \in Servers BY <2>8 DEF Watching
    <3>2. Len(v.heap.mem) >= Len(s.heap.mem)
      <4>1. s \in Servers BY DEF Watching
      <4>2. v.heap.mem \in Seq(Events) /\ s.heap.mem \in Seq(Events)
            /\ x.heap.mem \in Seq(Events)
        BY <2>2, <3>1, <4>1 DEF Servers, Heaps
      <4>3. Len(v.heap.mem) \in Nat /\ Len(s.heap.mem) \in Nat /\ Len(x.heap.mem) \in Nat
        BY <4>2
      <4>4. Len(v.heap.mem) >= Len(x.heap.mem) BY <2>8
      <4>5. Len(x.heap.mem) >= Len(s.heap.mem) BY <2>3
      <4> QED BY SMTT(30), <4>3, <4>4, <4>5
    <3>3. ASSUME NEW i \in 1..k
          PROVE  v.client[new[i]].fd # 0 /\ v.client[new[i]].body = FALSE
      <4>1. CASE i = k BY <4>1, <2>8
      <4>2. CASE i # k
        <5>1. i \in 1..(k - 1) BY <4>2, <2>5
        <5>2. new[i] \in Threads /\ new[i] # t BY <5>1, <2>4, <2>6, <1>1
        <5>3. v.client[new[i]] = x.client[new[i]] BY <5>2, <2>8
        <5> QED BY <5>1, <5>3, <2>2 DEF Made
      <4> QED BY <4>1, <4>2
    <3>4. ASSUME NEW u \in Threads, \A i \in 1..k : new[i] # u
          PROVE  v.client[u] = s.client[u]
      <4>1. k \in 1..k /\ \A i \in 1..(k - 1) : i \in 1..k BY <1>1
      <4>2. u # t /\ \A i \in 1..(k - 1) : new[i] # u BY <3>4, <4>1
      <4>3. x.client[u] = s.client[u] BY <4>2, <2>2 DEF Made
      <4> QED BY <4>2, <4>3, <2>8
    <3> QED BY <2>8, <3>1, <3>2, <3>3, <3>4 DEF Made
  <2>10. v \in A[k] BY <2>1, <2>9 DEF Made
  <2>11. F[<<x, k>>] = v BY <2>2 DEF v
  <2> QED BY <2>10, <2>11 DEF v
<1> HIDE DEF F
<1>4. \A k \in 1..K : \A x \in A[k - 1] : F[<<x, k>>] \in A[k]
  <2> HIDE DEF A
  <2> QED BY <1>3
<1>5. \E g : R(g)
  <2>1. PICK g : IsLoop(g, K, A, s, F)
    <3> HIDE DEF A, K
    <3> QED BY <1>1, <1>2, <1>4, Loop
  <2>2. /\ g = [k \in 0..K |-> g[k]] /\ g[0] = s
        /\ \A k \in 1..K : g[k] = F[<<g[k - 1], k>>]
        /\ \A k \in 0..K : g[k] \in A[k]
    BY <2>1 DEF IsLoop
  <2> HIDE DEF A
  <2>3. \A k \in 1..K : g[k] = NewClient(g[k - 1], new[k])
    <3> TAKE k \in 1..K
    <3>1. k - 1 \in 0..K BY <1>1
    <3> QED BY <3>1, <2>2, <1>3
  <2>4. \A k \in 0..K : g[k] = IF k = 0 THEN s ELSE NewClient(g[k - 1], new[k])
    <3> TAKE k \in 0..K
    <3>1. k # 0 => k \in 1..K BY <1>1
    <3> QED BY <3>1, <2>2, <2>3
  <2>5. R(g) BY <2>2, <2>4
  <2> QED BY <2>5
<1>6. R(r) BY <1>5
<1> HIDE DEF r
<1>7. r[0] = s /\ \A k \in 1..K : r[k] = NewClient(r[k - 1], new[k]) BY <1>1, <1>6
<1>8. \A k \in 0..K : r[k] \in A[k]
  <2> HIDE DEF A, K
  <2>1. \A k \in 1..K : r[k - 1] \in A[k - 1] => r[k] \in A[k] BY <1>3, <1>7
  <2>2. r[0] \in A[0] BY <1>2, <1>7
  <2> QED BY <1>1, <2>1, <2>2, Stays
<1>9. NewClients(s, new) = r[K] BY DEF NewClients, r
<1>10. Made(s, r[K], new, K)
  <2>1. K \in 0..K BY <1>1
  <2> QED BY <2>1, <1>8
<1> QED BY <1>9, <1>10

\* What the reactor watches depends on the descriptors only.
LEMMA SameFds ==
  ASSUME NEW s, Watching(s), NEW cl \in [Threads -> Clients],
         \A t \in Threads : cl[t].fd = s.client[t].fd
  PROVE  Watching([client |-> cl, heap |-> s.heap, rset |-> s.rset])
<1>1. s \in Servers BY DEF Watching
<1>2. Watched(cl) = Watched(s.client) BY DEF Watched
<1>3. [client |-> cl, heap |-> s.heap, rset |-> s.rset] \in Servers
  BY <1>1 DEF Servers
<1> QED BY <1>2, <1>3 DEF Watching

\* A client that is deleted is not watched any more.
LEMMA DeletedIs ==
  ASSUME NEW s, Watching(s), NEW t \in Threads, s.client[t].fd # 0
  PROVE  LET v == DelEvent([s EXCEPT !.client[t] = NoClient], s.client[t].fd)
         IN  /\ Watching(v) /\ Len(v.heap.mem) = Len(s.heap.mem)
             /\ v.client = [s.client EXCEPT ![t] = NoClient]
<1> DEFINE f == s.client[t].fd
           cl == [s.client EXCEPT ![t] = NoClient]
           x == [s EXCEPT !.client[t] = NoClient]
           E == Watched(s.client)
           e == Ev(f, t)
           v == DelEvent(x, f)
<1>1. s \in Servers /\ s.client \in [Threads -> Clients] /\ s.rset \in SUBSET Nat
      /\ s.heap \in Heaps
  BY DEF Watching, Servers
<1>2. NoClient \in Clients /\ NoClient.fd = 0 BY DEF NoClient, Clients
<1>3. cl \in [Threads -> Clients] /\ cl[t].fd = 0
      /\ \A u \in Threads : u # t => cl[u] = s.client[u]
  BY <1>1, <1>2
<1>4. s = [client |-> s.client, heap |-> s.heap, rset |-> s.rset] BY <1>1 DEF Servers
<1>5. x = [client |-> cl, heap |-> s.heap, rset |-> s.rset] BY <1>4
<1>6. x \in Servers /\ x.heap = s.heap /\ x.rset = s.rset /\ x.client = cl
  BY <1>1, <1>3, <1>5 DEF Servers
<1>7. e \in E /\ e.fd = f BY DEF Watched, Ev
<1>8. Watched(cl) = E \ {e}
  <2>1. "acc" # t /\ "sig" # t BY LogAssumption
  <2>2. Ev(AccFd, "acc") # e /\ Ev(SigFd, "sig") # e BY <2>1 DEF Ev
  <2>3. \A u \in Threads : u # t => Ev(s.client[u].fd, u) # e BY DEF Ev
  <2> HIDE DEF cl, e
  <2>4. \A u \in Threads : cl[u].fd # 0 <=> u # t /\ s.client[u].fd # 0 BY <1>3
  <2>5. \A u \in Threads : u # t => Ev(cl[u].fd, u) = Ev(s.client[u].fd, u) BY <1>3
  <2>6. Ev(s.client[t].fd, t) = e BY DEF e
  <2> QED BY <2>2, <2>3, <2>4, <2>5, <2>6 DEF Watched
<1>9. Holds(x.heap.mem, x.heap.size, E) BY <1>6 DEF Watching
<1> HIDE DEF x, cl, e, E, f
<1>10. /\ v \in Servers /\ v.client = cl /\ v.rset = s.rset \ {f}
       /\ Holds(v.heap.mem, v.heap.size, E \ {e})
       /\ TopIsLargest(v.heap.mem, v.heap.size)
       /\ Len(v.heap.mem) = Len(s.heap.mem)
  <2>1. v = DelEvent(x, e.fd) BY <1>7
  <2>2. e \in E BY <1>7
  <2> HIDE DEF v
  <2>3. /\ v \in Servers /\ v.client = x.client /\ v.rset = x.rset \ {e.fd}
        /\ Holds(v.heap.mem, v.heap.size, E \ {e})
        /\ TopIsLargest(v.heap.mem, v.heap.size)
        /\ Len(v.heap.mem) = Len(x.heap.mem)
    BY <1>6, <1>9, <2>1, <2>2, DelEventIs
  <2> QED BY <2>3, <1>6, <1>7
<1> HIDE DEF v
<1>11. \A u \in Threads : /\ cl[u].fd \in 0..Cardinality(Fds)
                          /\ cl[u].fd \notin {SigFd, AccFd}
  <2> TAKE u \in Threads
  <2>1. CASE u = t BY <2>1, <1>3, FdsAre DEF SigFd, AccFd
  <2>2. CASE u # t BY <2>2, <1>3 DEF Watching
  <2> QED BY <2>1, <2>2
<1>12. \A u, w \in Threads : cl[u].fd # 0 /\ cl[u].fd = cl[w].fd => u = w
  BY <1>3 DEF Watching
<1>13. s.rset \ {f} = {y.fd : y \in E \ {e}}
  <2>1. s.rset = {y.fd : y \in E} BY DEF Watching, E
  <2>2. ASSUME NEW y \in E, y # e PROVE y.fd # f
    <3>1. y = Ev(AccFd, "acc") \/ y = Ev(SigFd, "sig")
          \/ \E u \in Threads : s.client[u].fd # 0 /\ y = Ev(s.client[u].fd, u)
      BY <2>2 DEF E, Watched
    <3>2. s.client[t].fd \notin {SigFd, AccFd} BY DEF Watching
    <3>3. CASE y = Ev(AccFd, "acc") \/ y = Ev(SigFd, "sig") BY <3>2, <3>3 DEF Ev, f
    <3>4. CASE \E u \in Threads : s.client[u].fd # 0 /\ y = Ev(s.client[u].fd, u)
      <4>1. PICK u \in Threads : s.client[u].fd # 0 /\ y = Ev(s.client[u].fd, u) BY <3>4
      <4>2. u # t BY <4>1, <2>2 DEF e, f
      <4>3. s.client[u].fd # s.client[t].fd BY <4>1, <4>2 DEF Watching
      <4> QED BY <4>1, <4>3 DEF Ev, f
    <3> QED BY <3>1, <3>3, <3>4
  <2> QED BY <1>7, <2>1, <2>2
<1>14. Watching(v) BY <1>8, <1>10, <1>11, <1>12, <1>13 DEF Watching
<1> QED BY <1>10, <1>14 DEF v, x, f, cl

-----------------------------------------------------------------------------
(* log_write *)

Recs == (Threads \X Nat) \cup {<<"server">>}
Files == [fd : BOOLEAN, size : 0..(RbSize + 1), logged : Seq(Recs), works : BOOLEAN]

\* The log has got the first p of rs more than it had.
Longer(new, old, rs, p) ==
  /\ Len(new) = Len(old) + p
  /\ \A i \in 1..Len(old) : new[i] = old[i]
  /\ \A i \in 1..p : new[Len(old) + i] = rs[i]

\* After k records: all of them, or some, and then the file is closed.
Wrote(f, x, rs, k) == \E p \in 0..k : /\ Longer(x.logged, f.logged, rs, p)
                                      /\ x.fd => f.fd /\ p = k

LEMMA RecordedIs ==
  ASSUME NEW x \in Files, NEW r \in Recs
  PROVE  LET y == Recorded(x, r)
         IN  /\ y \in Files
             /\ \/ y.fd = FALSE /\ y.logged = x.logged
                \/ x.fd /\ y.logged = Append(x.logged, r)
<1>1. PICK a \in BOOLEAN, b \in 0..(RbSize + 1), c \in Seq(Recs), d \in BOOLEAN :
        x = [fd |-> a, size |-> b, logged |-> c, works |-> d]
  BY DEF Files
<1>2. RbSize \in Nat BY LogAssumption
<1>3. CASE ~a \/ (b > RbSize /\ ~d)
  <2>1. Recorded(x, r) = [x EXCEPT !.fd = FALSE] BY <1>1, <1>3 DEF Recorded
  <2>2. Recorded(x, r) = [fd |-> FALSE, size |-> b, logged |-> c, works |-> d]
    BY <1>1, <2>1
  <2> QED BY <2>2, <1>1 DEF Files
<1>4. CASE ~(~a \/ (b > RbSize /\ ~d))
  <2> DEFINE n == IF b > RbSize THEN 0 ELSE b
  <2>1. Recorded(x, r) = [x EXCEPT !.size = n + 1, !.logged = Append(@, r)]
    BY <1>1, <1>4 DEF Recorded
  <2>2. n + 1 \in 0..(RbSize + 1) BY <1>2
  <2> HIDE DEF n
  <2>3. Append(c, r) \in Seq(Recs) OBVIOUS
  <2>4. Recorded(x, r) = [fd |-> a, size |-> n + 1, logged |-> Append(c, r), works |-> d]
    BY <2>1, <1>1
  <2>5. Recorded(x, r) \in Files BY <2>2, <2>3, <2>4 DEF Files
  <2> QED BY <2>4, <2>5, <1>1, <1>4
<1> QED BY <1>3, <1>4

LEMMA ToSetIs ==
  ASSUME NEW S, NEW s \in Seq(S)
  PROVE  \A x : x \in ToSet(s) <=> \E i \in 1..Len(s) : x = s[i]
BY DEF ToSet

LEMMA AppendIs ==
  ASSUME NEW S, NEW s \in Seq(S), NEW e \in S
  PROVE  /\ Append(s, e) \in Seq(S) /\ Len(Append(s, e)) = Len(s) + 1
         /\ Len(s) \in Nat /\ Append(s, e)[Len(s) + 1] = e
         /\ \A i \in 1..Len(s) : Append(s, e)[i] = s[i]
OBVIOUS

LEMMA RecordsStep ==
  ASSUME NEW f \in Files, NEW rs \in Seq(Recs), NEW k \in 1..Len(rs), NEW x \in Files,
         Wrote(f, x, rs, k - 1)
  PROVE  Recorded(x, rs[k]) \in Files /\ Wrote(f, Recorded(x, rs[k]), rs, k)
<1> DEFINE y == Recorded(x, rs[k])
<1>1. rs[k] \in Recs /\ k \in Nat /\ Len(rs) \in Nat OBVIOUS
<1>2. y \in Files /\ (\/ y.fd = FALSE /\ y.logged = x.logged
                      \/ x.fd /\ y.logged = Append(x.logged, rs[k]))
  BY <1>1, RecordedIs
<1> HIDE DEF y
<1>3. PICK p \in 0..(k - 1) : /\ Longer(x.logged, f.logged, rs, p)
                              /\ x.fd => f.fd /\ p = k - 1
  BY DEF Wrote
<1>4. p \in 0..k /\ p \in Nat BY <1>1
<1>5. CASE y.fd = FALSE /\ y.logged = x.logged
  <2>1. Longer(y.logged, f.logged, rs, p) BY <1>3, <1>5
  <2> QED BY <1>2, <1>4, <1>5, <2>1 DEF Wrote, y
<1>6. CASE x.fd /\ y.logged = Append(x.logged, rs[k])
  <2>1. p + 1 = k /\ f.fd BY <1>1, <1>3, <1>6
  <2>2. x.logged \in Seq(Recs) /\ f.logged \in Seq(Recs) BY DEF Files
  <2>3. /\ Len(y.logged) = Len(x.logged) + 1 /\ Len(x.logged) \in Nat
        /\ y.logged[Len(x.logged) + 1] = rs[k]
        /\ \A i \in 1..Len(x.logged) : y.logged[i] = x.logged[i]
    BY <1>1, <1>6, <2>2, AppendIs
  <2>4. Len(f.logged) \in Nat BY <2>2
  <2>5. Longer(x.logged, f.logged, rs, p) BY <1>3
  <2>6. Len(x.logged) = Len(f.logged) + p BY <2>5 DEF Longer
  <2>7. Len(y.logged) = Len(f.logged) + k
    <3>1. Len(y.logged) = (Len(f.logged) + p) + 1 BY <2>3, <2>6
    <3> QED BY <1>4, <2>1, <2>4, <3>1
  <2>8. ASSUME NEW i \in 1..Len(f.logged) PROVE y.logged[i] = f.logged[i]
    <3>1. i \in 1..Len(x.logged) BY <2>4, <2>6, <1>4
    <3> QED BY <3>1, <2>3, <2>5 DEF Longer
  <2>9. ASSUME NEW i \in 1..k PROVE y.logged[Len(f.logged) + i] = rs[i]
    <3>1. CASE i = k
      <4>1. Len(f.logged) + i = Len(x.logged) + 1 BY <3>1, <2>1, <2>4, <2>6, <1>4
      <4> QED BY <4>1, <3>1, <2>3
    <3>2. CASE i # k
      <4>1. i \in 1..p BY <3>2, <2>1, <1>1, <1>4
      <4>2. Len(f.logged) + i \in 1..Len(x.logged) BY <4>1, <2>4, <2>6, <1>4
      <4> QED BY <4>1, <4>2, <2>3, <2>5 DEF Longer
    <3> QED BY <3>1, <3>2
  <2>10. Longer(y.logged, f.logged, rs, k) BY <2>7, <2>8, <2>9 DEF Longer
  <2>11. k \in 0..k BY <1>1
  <2>12. Wrote(f, y, rs, k) BY <2>1, <2>10, <2>11 DEF Wrote
  <2> QED BY <1>2, <2>12 DEF y
<1> QED BY <1>2, <1>5, <1>6

LEMMA RecordedsAre ==
  ASSUME NEW f \in Files, NEW rs \in Seq(Recs)
  PROVE  Recordeds(f, rs) \in Files /\ Wrote(f, Recordeds(f, rs), rs, Len(rs))
<1> DEFINE K == Len(rs)
           A == [k \in 0..K |-> {x \in Files : Wrote(f, x, rs, k)}]
           F == [z \in Files \X (1..K) |-> Recorded(z[1], rs[z[2]])]
           R(g) == g = [k \in 0..K |-> IF k = 0 THEN f ELSE Recorded(g[k - 1], rs[k])]
           r == CHOOSE g : R(g)
<1>1. K \in Nat OBVIOUS
<1>2. f \in A[0]
  <2>1. f.logged \in Seq(Recs) BY DEF Files
  <2>2. Longer(f.logged, f.logged, rs, 0) BY <2>1 DEF Longer
  <2>3. 0 \in 0..0 OBVIOUS
  <2>4. Wrote(f, f, rs, 0) BY <2>2, <2>3 DEF Wrote
  <2> QED BY <1>1, <2>4
<1>3. ASSUME NEW k \in 1..K, NEW x \in A[k - 1]
      PROVE  Recorded(x, rs[k]) \in A[k] /\ F[<<x, k>>] = Recorded(x, rs[k])
  <2>1. k - 1 \in 0..K /\ k \in 0..K BY <1>1
  <2>2. x \in Files /\ Wrote(f, x, rs, k - 1) BY <2>1
  <2>3. Recorded(x, rs[k]) \in Files /\ Wrote(f, Recorded(x, rs[k]), rs, k)
    BY <2>2, RecordsStep
  <2> QED BY <2>1, <2>2, <2>3
<1> HIDE DEF F
<1>4. \A k \in 1..K : \A x \in A[k - 1] : F[<<x, k>>] \in A[k]
  <2> HIDE DEF A
  <2> QED BY <1>3
<1>5. \E g : R(g)
  <2>1. PICK g : IsLoop(g, K, A, f, F)
    <3> HIDE DEF A, K
    <3> QED BY <1>1, <1>2, <1>4, Loop
  <2>2. /\ g = [k \in 0..K |-> g[k]] /\ g[0] = f
        /\ \A k \in 1..K : g[k] = F[<<g[k - 1], k>>]
        /\ \A k \in 0..K : g[k] \in A[k]
    BY <2>1 DEF IsLoop
  <2> HIDE DEF A
  <2>3. \A k \in 1..K : g[k] = Recorded(g[k - 1], rs[k])
    <3> TAKE k \in 1..K
    <3>1. k - 1 \in 0..K BY <1>1
    <3> QED BY <3>1, <2>2, <1>3
  <2>4. \A k \in 0..K : g[k] = IF k = 0 THEN f ELSE Recorded(g[k - 1], rs[k])
    <3> TAKE k \in 0..K
    <3>1. k # 0 => k \in 1..K BY <1>1
    <3> QED BY <3>1, <2>2, <2>3
  <2>5. R(g) BY <2>2, <2>4
  <2> QED BY <2>5
<1>6. R(r) BY <1>5
<1> HIDE DEF r
<1>7. r[0] = f /\ \A k \in 1..K : r[k] = Recorded(r[k - 1], rs[k]) BY <1>1, <1>6
<1>8. \A k \in 0..K : r[k] \in A[k]
  <2> HIDE DEF A, K
  <2>1. \A k \in 1..K : r[k - 1] \in A[k - 1] => r[k] \in A[k] BY <1>3, <1>7
  <2>2. r[0] \in A[0] BY <1>2, <1>7
  <2> QED BY <1>1, <2>1, <2>2, Stays
<1>9. Recordeds(f, rs) = r[K] BY DEF Recordeds, r
<1>10. r[K] \in Files /\ Wrote(f, r[K], rs, K)
  <2>1. K \in 0..K BY <1>1
  <2> QED BY <2>1, <1>8
<1> QED BY <1>9, <1>10

-----------------------------------------------------------------------------
(* The frames of a FIFO *)

Items == {"head", "body"} \X Nat

\* b are the bodies among the first k of q, in their order.
Gathered(b, q, t, k) ==
  /\ b \in Seq(Threads \X Nat)
  /\ \A j \in 1..Len(b) : \E i \in 1..k : q[i][1] = "body" /\ b[j] = <<t, q[i][2]>>
  /\ \A i \in 1..k : q[i][1] = "body" => \E j \in 1..Len(b) : b[j] = <<t, q[i][2]>>
  /\ \A j, l \in 1..Len(b) : j < l => b[j][2] < b[l][2]

\* The numbers of the bodies rise.
BodiesRise(q) == \A i, j \in 1..Len(q) :
                   i < j /\ q[i][1] = "body" /\ q[j][1] = "body" => q[i][2] < q[j][2]

LEMMA GatherStep ==
  ASSUME NEW q \in Seq(Items), BodiesRise(q), NEW t \in Threads, NEW k \in 1..Len(q),
         NEW b, Gathered(b, q, t, k - 1)
  PROVE  Gathered(IF q[k][1] = "body" THEN Append(b, <<t, q[k][2]>>) ELSE b, q, t, k)
<1>1. k \in Nat /\ \A i \in 1..(k - 1) : i \in 1..k /\ i \in 1..Len(q) /\ i < k OBVIOUS
<1>2. \A i \in 1..k : i # k => i \in 1..(k - 1) OBVIOUS
<1>3. q[k] \in Items /\ q[k][2] \in Nat
  <2>1. q[k] \in Items OBVIOUS
  <2> QED BY <2>1 DEF Items
<1>4. b \in Seq(Threads \X Nat) BY DEF Gathered
<1>5. CASE q[k][1] # "body" BY <1>1, <1>2, <1>5 DEF Gathered
<1>6. CASE q[k][1] = "body"
  <2> DEFINE e == <<t, q[k][2]>>
             c == Append(b, e)
  <2>1. e \in Threads \X Nat /\ e[2] = q[k][2] BY <1>3
  <2> HIDE DEF e
  <2>2. /\ c \in Seq(Threads \X Nat) /\ Len(c) = Len(b) + 1
        /\ Len(b) \in Nat /\ c[Len(b) + 1] = e
        /\ \A i \in 1..Len(b) : c[i] = b[i]
    BY <1>4, <2>1, AppendIs
  <2> HIDE DEF c
  <2>3. \A j \in 1..Len(c) : j = Len(b) + 1 \/ j \in 1..Len(b) BY <2>2
  <2>4. k \in 1..k BY <1>1
  <2>5. ASSUME NEW j \in 1..Len(c)
        PROVE  \E i \in 1..k : q[i][1] = "body" /\ c[j] = <<t, q[i][2]>>
    <3>1. CASE j = Len(b) + 1 BY <3>1, <2>2, <2>4, <1>6 DEF e
    <3>2. CASE j \in 1..Len(b)
      <4>1. PICK i \in 1..(k - 1) : q[i][1] = "body" /\ b[j] = <<t, q[i][2]>>
        BY <3>2 DEF Gathered
      <4> QED BY <4>1, <3>2, <2>2, <1>1
    <3> QED BY <3>1, <3>2, <2>3
  <2>6. ASSUME NEW i \in 1..k, q[i][1] = "body"
        PROVE  \E j \in 1..Len(c) : c[j] = <<t, q[i][2]>>
    <3>1. CASE i = k
      <4>1. Len(b) + 1 \in 1..Len(c) BY <2>2
      <4> QED BY <4>1, <3>1, <2>2 DEF e
    <3>2. CASE i # k
      <4>1. i \in 1..(k - 1) BY <3>2, <1>2
      <4>2. PICK j \in 1..Len(b) : b[j] = <<t, q[i][2]>> BY <4>1, <2>6 DEF Gathered
      <4>3. j \in 1..Len(c) BY <2>2
      <4> QED BY <4>2, <4>3, <2>2
    <3> QED BY <3>1, <3>2
  <2>7. ASSUME NEW j \in 1..Len(c), NEW l \in 1..Len(c), j < l PROVE c[j][2] < c[l][2]
    <3>1. j \in 1..Len(b) /\ c[j] = b[j] BY SMTT(30), <2>2, <2>7
    <3>2. CASE l = Len(b) + 1
      <4>1. PICK i \in 1..(k - 1) : q[i][1] = "body" /\ b[j] = <<t, q[i][2]>>
        BY <3>1 DEF Gathered
      <4>2. q[i][2] < q[k][2] BY <4>1, <1>1, <1>6 DEF BodiesRise
      <4>3. c[l][2] = q[k][2] BY <3>2, <2>1, <2>2
      <4>4. c[j][2] = q[i][2] BY <3>1, <4>1
      <4> QED BY <4>2, <4>3, <4>4
    <3>3. CASE l \in 1..Len(b)
      <4>1. c[l] = b[l] BY <3>3, <2>2
      <4>2. b[j][2] < b[l][2] BY <3>1, <3>3, <2>7 DEF Gathered
      <4> QED BY <3>1, <4>1, <4>2
    <3> QED BY <3>2, <3>3, <2>3
  <2>8. Gathered(c, q, t, k) BY <2>2, <2>5, <2>6, <2>7 DEF Gathered
  <2> QED BY <2>8, <1>6 DEF c, e
<1> QED BY <1>5, <1>6

LEMMA BodiesAre ==
  ASSUME NEW t \in Threads, fifo[t] \in Seq(Items), BodiesRise(fifo[t])
  PROVE  Gathered(Bodies(t), fifo[t], t, Len(fifo[t]))
<1> DEFINE q == fifo[t]
           K == Len(q)
           Q == Seq(Threads \X Nat)
           step(b, k) == IF q[k][1] = "body" THEN Append(b, <<t, q[k][2]>>) ELSE b
           A == [k \in 0..K |-> {b \in Q : Gathered(b, q, t, k)}]
           F == [z \in Q \X (1..K) |-> step(z[1], z[2])]
           R(g) == g = [k \in 0..K |-> IF k = 0 THEN <<>>
                                       ELSE IF q[k][1] = "body"
                                         THEN Append(g[k - 1], <<t, q[k][2]>>)
                                       ELSE g[k - 1]]
           r == CHOOSE g : R(g)
<1>1. K \in Nat /\ q \in Seq(Items) OBVIOUS
<1>2. <<>> \in A[0]
  <2>1. <<>> \in Q /\ Len(<<>>) = 0 OBVIOUS
  <2> HIDE DEF q, K
  <2>2. Gathered(<<>>, q, t, 0) BY <2>1 DEF Gathered
  <2> QED BY <1>1, <2>1, <2>2
<1>3. ASSUME NEW k \in 1..K, NEW x \in A[k - 1]
      PROVE  step(x, k) \in A[k] /\ F[<<x, k>>] = step(x, k)
  <2>1. k - 1 \in 0..K /\ k \in 0..K BY <1>1
  <2>2. x \in Q /\ Gathered(x, q, t, k - 1) BY <2>1
  <2>3. Gathered(step(x, k), q, t, k)
    <3>1. q \in Seq(Items) /\ BodiesRise(q) OBVIOUS
    <3> HIDE DEF q
    <3> QED BY <2>2, <3>1, GatherStep
  <2>4. step(x, k) \in Q BY <2>3 DEF Gathered
  <2> HIDE DEF step
  <2> QED BY <2>1, <2>2, <2>3, <2>4
<1> HIDE DEF F
<1>4. \A k \in 1..K : \A x \in A[k - 1] : F[<<x, k>>] \in A[k]
  <2> HIDE DEF A, step
  <2> QED BY <1>3
<1>5. \E g : R(g)
  <2>1. PICK g : IsLoop(g, K, A, <<>>, F)
    <3> HIDE DEF A, K
    <3> QED BY <1>1, <1>2, <1>4, Loop
  <2>2. /\ g = [k \in 0..K |-> g[k]] /\ g[0] = <<>>
        /\ \A k \in 1..K : g[k] = F[<<g[k - 1], k>>]
        /\ \A k \in 0..K : g[k] \in A[k]
    BY <2>1 DEF IsLoop
  <2> HIDE DEF A
  <2>3. \A k \in 1..K : g[k] = step(g[k - 1], k)
    <3> HIDE DEF step, K
    <3> TAKE k \in 1..K
    <3>1. k - 1 \in 0..K BY <1>1
    <3> QED BY <3>1, <2>2, <1>3
  <2> HIDE DEF q, K
  <2>4. \A k \in 0..K : g[k] = IF k = 0 THEN <<>> ELSE step(g[k - 1], k)
    <3> HIDE DEF step
    <3> TAKE k \in 0..K
    <3>1. k # 0 => k \in 1..K BY <1>1
    <3> QED BY <3>1, <2>2, <2>3
  <2>5. R(g) BY <2>2, <2>4
  <2> QED BY <2>5
<1>6. R(r) BY <1>5
<1> HIDE DEF r
<1>7. r[0] = <<>> /\ \A k \in 1..K : r[k] = step(r[k - 1], k)
  <2> HIDE DEF q, K
  <2>1. 0 \in 0..K /\ \A k \in 1..K : k \in 0..K /\ k # 0 BY <1>1
  <2>2. \A k \in 0..K : r[k] = IF k = 0 THEN <<>>
                               ELSE IF q[k][1] = "body"
                                 THEN Append(r[k - 1], <<t, q[k][2]>>)
                               ELSE r[k - 1]
    BY <1>6
  <2> QED BY <2>1, <2>2
<1>8. \A k \in 0..K : r[k] \in A[k]
  <2> HIDE DEF A, K, step
  <2>1. \A k \in 1..K : r[k - 1] \in A[k - 1] => r[k] \in A[k] BY <1>3, <1>7
  <2>2. r[0] \in A[0] BY <1>2, <1>7
  <2> QED BY <1>1, <2>1, <2>2, Stays
<1>9. Bodies(t) = r[K] BY DEF Bodies, r
<1>10. Gathered(r[K], q, t, K)
  <2>1. K \in 0..K BY <1>1
  <2> QED BY <2>1, <1>8
<1> QED BY <1>9, <1>10

-----------------------------------------------------------------------------
(* The inductive invariant *)

ThreadTypes ==
  /\ tls \in [Threads -> {"none", "asking", "opening", "calling", "open", "half", "gone"}]
  /\ calls \in [Threads -> 0..Msgs]
  /\ kept \subseteq Threads \X (1..Msgs)
  /\ fifo \in [Threads -> Seq(Items)]
  /\ \A t \in Threads : Len(fifo[t]) <= Cap
  /\ acc \in Seq(Threads) /\ wedged \in BOOLEAN
  /\ up \in BOOLEAN /\ lives \in 1..Restarts

FileTypes == /\ logfd \in BOOLEAN /\ size \in 0..(RbSize + 1) /\ logged \in Seq(Recs)
             /\ fault \in {"none", "DeletedClient"}

Passes == [at : Nat, num : Nat, ready : SUBSET Nat]

\* The reactor watches what is open, and a pass stays in the memory of the heap.
Reactor == /\ Watching(Server)
           /\ pass \in Passes /\ pass.num <= Len(heap.mem)

\* Who has asked and has no client yet, and what holds for one without.
Joined ==
  /\ \A i \in 1..Len(acc) : /\ tls[acc[i]] \in {"asking", "opening", "gone"}
                            /\ ~HasClient(acc[i])
  /\ \A i, j \in 1..Len(acc) : acc[i] = acc[j] => i = j
  /\ \A t \in Threads : tls[t] = "none" => ~HasClient(t)
  /\ \A t \in Threads : ~HasClient(t) => fifo[t] = <<>>
  /\ ~up => kept = {} /\ \A t \in Threads : ~HasClient(t)

\* The FIFO ends with a head when the thread is in the middle of a frame.
EndsHalf == \A t \in Threads : fifo[t] # <<>> /\ tls[t] # "gone" =>
              (fifo[t][Len(fifo[t])][1] = "head" <=> tls[t] = "half")

\* The numbers of a thread's messages: those in the log, then those in the FIFO,
\* then the ones of calls that have not returned.
Counted ==
  /\ \A t \in Threads : InCall(t) => calls[t] < Msgs
  /\ \A t \in Threads : BodiesRise(fifo[t])
  /\ \A t \in Threads : \A i \in 1..Len(fifo[t]) :
       fifo[t][i][1] = "body" => fifo[t][i][2] <= calls[t]

Behind ==
  \A i \in 1..Len(logged) : \A t \in Threads :
    logged[i] # <<"server">> /\ logged[i][1] = t =>
      /\ logged[i][2] <= calls[t]
      /\ \A j \in 1..Len(fifo[t]) :
           fifo[t][j][1] = "body" => logged[i][2] < fifo[t][j][2]

LogInv == /\ ThreadTypes /\ FileTypes /\ Reactor /\ Joined /\ EndsHalf
          /\ Counted /\ Behind /\ InOrder /\ KeptIsNotLost /\ InFrame

LEMMA IdleWatches ==
  Watching([client |-> [t \in Threads |-> NoClient], heap |-> [mem |-> Base, size |-> 2],
            rset |-> {SigFd, AccFd}])
<1> DEFINE cl == [t \in Threads |-> NoClient]
           s == [client |-> cl, heap |-> [mem |-> Base, size |-> 2], rset |-> {SigFd, AccFd}]
           a == Ev(AccFd, "acc")
           b == Ev(SigFd, "sig")
<1>1. a \in Events /\ b \in Events /\ a.fd = 3 /\ b.fd = 2
  BY DEF Events, Ev, AccFd, SigFd
<1> HIDE DEF a, b
<1>2. Base = <<a, b>> BY DEF Base, a, b
<1>3. NoClient \in Clients /\ NoClient.fd = 0 BY DEF NoClient, Clients
<1>4. cl \in [Threads -> Clients] /\ \A t \in Threads : cl[t].fd = 0 BY <1>3
<1> HIDE DEF cl
<1>5. Watched(cl) = {a, b} BY <1>4 DEF Watched, a, b
<1>6. Base \in Seq(Events) /\ Len(Base) = 2 /\ Base[1] = a /\ Base[2] = b BY <1>1, <1>2
<1>7. \A i \in 1..2 : i = 1 \/ i = 2 OBVIOUS
<1>8. Holds(Base, 2, {a, b}) BY <1>1, <1>6, <1>7 DEF Holds
<1>9. TopIsLargest(Base, 2) BY <1>1, <1>6, <1>7 DEF TopIsLargest
<1>10. s.client = cl /\ s.heap.mem = Base /\ s.heap.size = 2 /\ s.rset = {SigFd, AccFd}
  OBVIOUS
<1>11. s \in Servers
  <2>1. [mem |-> Base, size |-> 2] \in Heaps BY <1>6 DEF Heaps
  <2> QED BY <1>4, <2>1 DEF Servers, SigFd, AccFd
<1> HIDE DEF s
<1>12. \A t \in Threads : s.client[t].fd \in 0..Cardinality(Fds)
                          /\ s.client[t].fd \notin {SigFd, AccFd}
  BY <1>4, <1>10, FdsAre DEF SigFd, AccFd
<1>13. {SigFd, AccFd} = {e.fd : e \in {a, b}} BY <1>1 DEF SigFd, AccFd
<1>14. Watching(s)
  BY <1>4, <1>5, <1>8, <1>9, <1>10, <1>11, <1>12, <1>13 DEF Watching
<1> QED BY <1>14 DEF s, cl

LEMMA InitInv == Init => LogInv
<1> SUFFICES ASSUME Init PROVE LogInv OBVIOUS
<1> USE DEF Init
<1>1. \A t \in Threads : fifo[t] = <<>> /\ ~HasClient(t) /\ tls[t] = "none"
  BY DEF Idle, HasClient, NoClient
<1>2. ThreadTypes
  <2>1. fifo \in [Threads -> Seq(Items)] OBVIOUS
  <2>2. \A t \in Threads : Len(fifo[t]) <= Cap BY LogAssumption
  <2>3. 0 \in 0..Msgs /\ 1 \in 1..Restarts BY LogAssumption
  <2>4. tls \in [Threads -> {"none", "asking", "opening", "calling", "open", "half", "gone"}]
    OBVIOUS
  <2>5. calls \in [Threads -> 0..Msgs] BY <2>3
  <2>6. kept \subseteq Threads \X (1..Msgs) OBVIOUS
  <2>7. acc \in Seq(Threads) OBVIOUS
  <2>8. wedged \in BOOLEAN /\ up \in BOOLEAN /\ lives \in 1..Restarts BY <2>3
  <2> QED BY <2>1, <2>2, <2>4, <2>5, <2>6, <2>7, <2>8 DEF ThreadTypes
<1>3. FileTypes BY LogAssumption DEF FileTypes
<1>4. Reactor
  <2>1. Watching(Server) BY IdleWatches DEF Server, Idle
  <2>2. heap.mem \in Seq(Events) BY <2>1 DEF Watching, Server, Servers, Heaps
  <2>3. Len(heap.mem) \in Nat BY <2>2
  <2> QED BY <2>1, <2>3 DEF Reactor, Idle, NoPass, Passes
<1>5. Joined BY <1>1 DEF Joined
<1>6. EndsHalf BY <1>1 DEF EndsHalf
<1>7. Counted BY <1>1 DEF Counted, InCall, BodiesRise
<1>8. Behind /\ InOrder BY DEF Behind, InOrder
<1>9. KeptIsNotLost BY DEF KeptIsNotLost
<1>10. InFrame BY <1>1 DEF InFrame
<1> QED BY <1>2, <1>3, <1>4, <1>5, <1>6, <1>7, <1>8, <1>9, <1>10 DEF LogInv

LEMMA MayCallIs ==
  ASSUME ThreadTypes, MayCall, NEW t \in Threads
  PROVE  calls[t] < Msgs
<1> DEFINE C == {c \in Threads \X (1..Msgs) : c[2] <= calls[c[1]]}
           D == {t} \X (1..Msgs)
<1>1. Msgs \in Nat /\ calls[t] \in 0..Msgs BY LogAssumption DEF ThreadTypes
<1>2. SUFFICES ASSUME calls[t] = Msgs PROVE FALSE BY <1>1
<1>3. D \subseteq C BY <1>1, <1>2
<1>4. IsFiniteSet(1..Msgs) /\ Cardinality(1..Msgs) = Msgs
  <2>1. 1 \in Int /\ Msgs \in Int BY <1>1
  <2> QED BY <1>1, <2>1, FS_Interval
<1>5. IsFiniteSet({t}) /\ Cardinality({t}) = 1 BY FS_Singleton
<1>6. Cardinality(D) = Msgs
  <2> DEFINE S == {t}
  <2>1. IsFiniteSet(S) /\ Cardinality(S) = 1 BY <1>5
  <2> HIDE DEF S
  <2>2. Cardinality(S \X (1..Msgs)) = 1 * Msgs BY ZenonT(30), <1>4, <2>1, FS_Product
  <2> QED BY <1>1, <2>2 DEF S
<1>7. IsFiniteSet(C)
  <2>1. IsFiniteSet(Threads \X (1..Msgs)) BY <1>4, LogAssumption, FS_Product
  <2>2. C \subseteq Threads \X (1..Msgs) OBVIOUS
  <2> HIDE DEF C
  <2> QED BY <2>1, <2>2, FS_Subset
<1>8. Cardinality(D) <= Cardinality(C) /\ Cardinality(C) \in Nat
  <2> HIDE DEF C, D
  <2> QED BY <1>3, <1>7, FS_Subset, FS_CardinalityType
<1> QED BY <1>1, <1>6, <1>8 DEF MayCall

-----------------------------------------------------------------------------
(* The threads *)

LEMMA LoggedIs ==
  ASSUME FileTypes, NEW i \in 1..Len(logged), logged[i] # <<"server">>
  PROVE  logged[i] \in Threads \X Nat /\ logged[i][2] \in Nat
<1>1. logged[i] \in Recs BY DEF FileTypes
<1>2. logged[i] \in Threads \X Nat BY <1>1 DEF Recs
<1> QED BY <1>2

LEMMA ItemIs ==
  ASSUME ThreadTypes, NEW t \in Threads, NEW i \in 1..Len(fifo[t])
  PROVE  /\ fifo[t][i] \in Items /\ fifo[t][i][1] \in {"head", "body"}
         /\ fifo[t][i][2] \in Nat
<1>1. fifo[t] \in Seq(Items) BY DEF ThreadTypes
<1>2. fifo[t][i] \in Items BY <1>1
<1> QED BY <1>2 DEF Items

\* The numbers stay in order while nothing is written and calls return.
LEMMA CallsReturnInOrder ==
  ASSUME ThreadTypes, ThreadTypes', FileTypes, Counted, Behind, InOrder,
         fifo' = fifo, logged' = logged,
         \A t \in Threads : calls[t] <= calls'[t],
         \A t \in Threads : InCall(t)' => calls'[t] < Msgs
  PROVE  Counted' /\ Behind' /\ InOrder'
<1>1. \A t \in Threads : calls[t] \in Nat /\ calls'[t] \in Nat
  BY LogAssumption DEF ThreadTypes
<1>2. ASSUME NEW t \in Threads, NEW i \in 1..Len(fifo[t]), fifo[t][i][1] = "body"
      PROVE  fifo[t][i][2] <= calls'[t]
  <2>1. fifo[t][i][2] \in Nat /\ fifo[t][i][2] <= calls[t] BY <1>2, ItemIs DEF Counted
  <2>2. calls[t] <= calls'[t] OBVIOUS
  <2> QED BY <1>1, <2>1, <2>2
<1>3. Counted' BY <1>2 DEF Counted
<1>4. ASSUME NEW i \in 1..Len(logged), NEW t \in Threads,
             logged[i] # <<"server">>, logged[i][1] = t
      PROVE  logged[i][2] <= calls'[t]
  <2>1. logged[i][2] \in Nat /\ logged[i][2] <= calls[t] BY <1>4, LoggedIs DEF Behind
  <2>2. calls[t] <= calls'[t] OBVIOUS
  <2> QED BY <1>1, <2>1, <2>2
<1>5. Behind' BY <1>4 DEF Behind
<1>6. InOrder' BY DEF InOrder
<1> QED BY <1>3, <1>5, <1>6

LEMMA ReturnedIs ==
  ASSUME ThreadTypes, NEW t \in Threads, calls[t] < Msgs, Returned(t)
  PROVE  /\ calls' \in [Threads -> 0..Msgs]
         /\ calls'[t] = calls[t] + 1 /\ \A u \in Threads : u # t => calls'[u] = calls[u]
         /\ \A u \in Threads : calls[u] <= calls'[u]
<1>1. calls \in [Threads -> 0..Msgs] /\ calls' = [calls EXCEPT ![t] = @ + 1] /\ Msgs \in Nat
  BY LogAssumption DEF ThreadTypes, Returned
<1>2. calls[t] + 1 \in 0..Msgs BY <1>1
<1>3. calls' \in [Threads -> 0..Msgs] /\ calls'[t] = calls[t] + 1
      /\ \A u \in Threads : u # t => calls'[u] = calls[u]
  BY <1>1, <1>2
<1>4. ASSUME NEW u \in Threads PROVE calls[u] <= calls'[u]
  <2>1. calls[u] \in Nat BY <1>1
  <2> QED BY <1>3, <2>1
<1> QED BY <1>3, <1>4

LEMMA BecomesIs ==
  ASSUME ThreadTypes, NEW t \in Threads,
         NEW s \in {"none", "asking", "opening", "calling", "open", "half", "gone"},
         Becomes(t, s)
  PROVE  /\ tls' \in [Threads -> {"none", "asking", "opening", "calling", "open", "half",
                                  "gone"}]
         /\ tls'[t] = s /\ \A u \in Threads : u # t => tls'[u] = tls[u]
BY DEF ThreadTypes, Becomes

\* A FIFO nobody reads is empty: to give it up changes nothing.
LEMMA NothingToDestroy ==
  ASSUME ThreadTypes, Joined, NEW t \in Threads, ~HasClient(t),
         fifo' = [fifo EXCEPT ![t] = <<>>]
  PROVE  fifo' = fifo
<1>1. fifo[t] = <<>> BY DEF Joined
<1>2. fifo \in [Threads -> Seq(Items)] BY DEF ThreadTypes
<1> QED BY <1>1, <1>2

LEMMA AskKeeps ==
  ASSUME LogInv, NEW t \in Threads, Ask(t)
  PROVE  LogInv'
<1> USE DEF LogInv
<1>1. calls[t] < Msgs BY MayCallIs DEF Ask
<1>2. /\ UNCHANGED <<kept, up, lives, wedged, client, reactor, file, fault>>
      /\ tls[t] = "none"
  BY DEF Ask
<1>3. heap' = heap /\ rset' = rset /\ pass' = pass /\ logfd' = logfd /\ size' = size
      /\ logged' = logged /\ client' = client
  BY <1>2 DEF reactor, file
<1>4. ~HasClient(t) BY <1>2 DEF Joined
<1>5. CASE up /\ Becomes(t, "asking") /\ MakeFifo(t) /\ acc' = Append(acc, t)
           /\ UNCHANGED calls
  <2>1. fifo' = fifo BY <1>4, <1>5, NothingToDestroy DEF MakeFifo
  <2>2. /\ tls' \in [Threads -> {"none", "asking", "opening", "calling", "open", "half",
                                 "gone"}]
        /\ tls'[t] = "asking" /\ \A u \in Threads : u # t => tls'[u] = tls[u]
    BY <1>5, BecomesIs
  <2>3. /\ acc \in Seq(Threads) /\ acc' \in Seq(Threads) /\ Len(acc') = Len(acc) + 1
        /\ Len(acc) \in Nat /\ acc'[Len(acc) + 1] = t
        /\ \A i \in 1..Len(acc) : acc'[i] = acc[i]
    <3>1. acc \in Seq(Threads) BY DEF ThreadTypes
    <3> QED BY <1>5, <3>1, AppendIs
  <2>4. \A i \in 1..Len(acc') : i = Len(acc) + 1 \/ i \in 1..Len(acc) BY <2>3
  <2>5. \A i \in 1..Len(acc) : acc[i] \in Threads /\ acc[i] # t
    BY <2>3, <1>2 DEF Joined
  <2>6. ThreadTypes' BY <1>2, <1>5, <2>1, <2>2, <2>3 DEF ThreadTypes
  <2>7. FileTypes' BY <1>2, <1>3 DEF FileTypes
  <2>8. Reactor' BY <1>3 DEF Reactor, Server
  <2>9. \A u \in Threads : HasClient(u)' <=> HasClient(u) BY <1>3 DEF HasClient
  <2>10. ASSUME NEW i \in 1..Len(acc')
         PROVE  tls'[acc'[i]] \in {"asking", "opening", "gone"} /\ client'[acc'[i]].fd = 0
    <3>1. CASE i = Len(acc) + 1 BY <3>1, <1>3, <1>4, <2>2, <2>3 DEF HasClient
    <3>2. CASE i \in 1..Len(acc)
      <4>1. acc'[i] = acc[i] /\ acc[i] \in Threads /\ acc[i] # t BY <3>2, <2>3, <2>5
      <4>2. tls'[acc[i]] = tls[acc[i]] BY <4>1, <2>2
      <4>3. tls[acc[i]] \in {"asking", "opening", "gone"} /\ ~HasClient(acc[i])
        BY <3>2 DEF Joined
      <4> QED BY <4>1, <4>2, <4>3, <1>3 DEF HasClient
    <3> QED BY <3>1, <3>2, <2>4
  <2>11. ASSUME NEW i \in 1..Len(acc'), NEW j \in 1..Len(acc'), acc'[i] = acc'[j]
         PROVE  i = j
    BY <2>3, <2>4, <2>5, <2>11 DEF Joined
  <2>12. \A u \in Threads : tls'[u] = "none" => ~HasClient(u)' BY <2>2, <2>9 DEF Joined
  <2>13. Joined'
    <3>1. \A u \in Threads : ~HasClient(u)' => fifo'[u] = <<>> BY <2>1, <2>9 DEF Joined
    <3>2. ~up' => kept' = {} /\ \A u \in Threads : ~HasClient(u)' BY <1>2, <2>9 DEF Joined
    <3> QED BY <2>10, <2>11, <2>12, <3>1, <3>2 DEF Joined, HasClient
  <2>14. EndsHalf' BY <2>1, <2>2, <1>4 DEF EndsHalf, Joined
  <2>15. \A u \in Threads : InCall(u)' => calls'[u] < Msgs
    BY <1>1, <1>5, <2>2 DEF Counted, InCall
  <2>16. Counted' /\ Behind' /\ InOrder'
    <3>1. \A u \in Threads : calls[u] <= calls'[u]
      <4> TAKE u \in Threads
      <4>1. calls[u] \in Nat BY LogAssumption DEF ThreadTypes
      <4> QED BY <4>1, <1>5
    <3> QED BY <1>3, <2>1, <2>6, <2>15, <3>1, CallsReturnInOrder
  <2>17. KeptIsNotLost' BY <1>2, <1>3, <2>1 DEF KeptIsNotLost
  <2>18. InFrame' BY <1>3, <1>4, <2>1, <2>2 DEF InFrame, HasClient
  <2> QED BY <2>6, <2>7, <2>8, <2>13, <2>14, <2>16, <2>17, <2>18
<1>6. CASE Returned(t) /\ UNCHANGED <<tls, fifo, acc>>
  <2>1. /\ calls' \in [Threads -> 0..Msgs]
        /\ \A u \in Threads : u # t => calls'[u] = calls[u]
        /\ \A u \in Threads : calls[u] <= calls'[u]
    BY <1>1, <1>6, ReturnedIs
  <2>2. ThreadTypes' BY <1>2, <1>6, <2>1 DEF ThreadTypes
  <2>3. FileTypes' BY <1>2, <1>3 DEF FileTypes
  <2>4. Reactor' BY <1>3 DEF Reactor, Server
  <2>5. Joined' BY <1>2, <1>6 DEF Joined, HasClient
  <2>6. EndsHalf' BY <1>6 DEF EndsHalf
  <2>7. \A u \in Threads : InCall(u)' => calls'[u] < Msgs
    BY <1>2, <1>6, <2>1 DEF Counted, InCall
  <2>8. Counted' /\ Behind' /\ InOrder'
    BY <1>3, <1>6, <2>1, <2>2, <2>7, CallsReturnInOrder
  <2>9. KeptIsNotLost' BY <1>2, <1>3, <1>6 DEF KeptIsNotLost
  <2>10. InFrame' BY <1>3, <1>6 DEF InFrame, HasClient
  <2> QED BY <2>2, <2>3, <2>4, <2>5, <2>6, <2>8, <2>9, <2>10
<1> QED BY <1>5, <1>6 DEF Ask

Lives == {"none", "asking", "opening", "calling", "open", "half", "gone"}

\* A thread goes on to wait, or ends; a client may learn that it has a writer.
LEMMA ThreadsMove ==
  ASSUME LogInv,
         UNCHANGED <<calls, kept, fifo, acc, up, lives, wedged, heap, rset, pass, file, fault>>,
         client' \in [Threads -> Clients],
         \A u \in Threads : client'[u].fd = client[u].fd /\ client'[u].body = client[u].body,
         tls' \in [Threads -> Lives],
         \A u \in Threads : \/ tls'[u] = tls[u] \/ tls'[u] = "gone"
                            \/ tls[u] = "asking" /\ tls'[u] = "opening"
                            \/ tls[u] = "asking" /\ tls'[u] = "calling" /\ HasClient(u)
  PROVE  LogInv'
<1> USE DEF LogInv
<1>1. /\ calls' = calls /\ kept' = kept /\ fifo' = fifo /\ acc' = acc /\ up' = up
      /\ heap' = heap /\ rset' = rset /\ pass' = pass /\ wedged' = wedged /\ lives' = lives
      /\ logfd' = logfd /\ size' = size /\ logged' = logged /\ fault' = fault
  BY DEF file
<1>2. \A u \in Threads : HasClient(u)' <=> HasClient(u) BY DEF HasClient
<1>3. ThreadTypes' BY <1>1 DEF ThreadTypes, Lives
<1>4. FileTypes' BY <1>1 DEF FileTypes
<1>5. Reactor'
  <2>1. Watching([client |-> client, heap |-> heap, rset |-> rset]) BY DEF Reactor, Server
  <2>2. Watching([client |-> client', heap |-> heap, rset |-> rset])
    <3> DEFINE s == [client |-> client, heap |-> heap, rset |-> rset]
               cl == client'
    <3>1. s.client = client /\ s.heap = heap /\ s.rset = rset OBVIOUS
    <3>2. cl \in [Threads -> Clients] /\ \A u \in Threads : cl[u].fd = s.client[u].fd
      OBVIOUS
    <3>3. Watching(s) BY <2>1
    <3> HIDE DEF s, cl
    <3>4. Watching([client |-> cl, heap |-> s.heap, rset |-> s.rset])
      BY <3>2, <3>3, SameFds
    <3> QED BY <3>1, <3>4 DEF cl
  <2> QED BY <1>1, <2>2 DEF Reactor, Server
<1>6. Joined'
  <2>1. ASSUME NEW i \in 1..Len(acc)
        PROVE  tls'[acc[i]] \in {"asking", "opening", "gone"} /\ client'[acc[i]].fd = 0
    <3>1. acc[i] \in Threads BY DEF ThreadTypes
    <3>2. tls[acc[i]] \in {"asking", "opening", "gone"} /\ ~HasClient(acc[i]) BY DEF Joined
    <3> QED BY <3>1, <3>2 DEF HasClient
  <2>2. \A u \in Threads : tls'[u] = "none" => ~HasClient(u)' BY <1>2 DEF Joined
  <2>3. \A u \in Threads : ~HasClient(u)' => fifo[u] = <<>> BY <1>2 DEF Joined
  <2>4. ~up => kept = {} /\ \A u \in Threads : ~HasClient(u)' BY <1>2 DEF Joined
  <2>5. \A i, j \in 1..Len(acc) : acc[i] = acc[j] => i = j BY DEF Joined
  <2> QED BY <1>1, <2>1, <2>2, <2>3, <2>4, <2>5 DEF Joined, HasClient
<1>7. EndsHalf' BY <1>1 DEF EndsHalf
<1>8. Counted' /\ Behind' /\ InOrder'
  <2>1. \A u \in Threads : calls[u] <= calls'[u]
    <3> TAKE u \in Threads
    <3>1. calls[u] \in Nat BY LogAssumption DEF ThreadTypes
    <3> QED BY <3>1, <1>1
  <2>2. \A u \in Threads : InCall(u)' => calls'[u] < Msgs BY <1>1 DEF Counted, InCall
  <2> QED BY <1>1, <1>3, <2>1, <2>2, CallsReturnInOrder
<1>9. KeptIsNotLost' BY <1>1 DEF KeptIsNotLost
<1>10. InFrame' BY <1>1, <1>2 DEF InFrame
<1> QED BY <1>3, <1>4, <1>5, <1>6, <1>7, <1>8, <1>9, <1>10

LEMMA ClientTypes ==
  ASSUME Reactor
  PROVE  /\ client \in [Threads -> Clients]
         /\ heap.mem \in Seq(Events) /\ heap.size \in Nat /\ heap.size <= Len(heap.mem)
         /\ Len(heap.mem) \in Nat
<1>1. Watching(Server) BY DEF Reactor
<1>2. Server \in Servers /\ Holds(heap.mem, heap.size, Watched(client))
  BY <1>1 DEF Watching, Server
<1>3. client \in [Threads -> Clients] BY <1>2 DEF Server, Servers
<1>4. heap.mem \in Seq(Events) /\ heap.size \in Nat /\ heap.size <= Len(heap.mem)
  BY <1>2 DEF Holds
<1> QED BY <1>3, <1>4

LEMMA OpenFifoKeeps ==
  ASSUME LogInv, NEW t \in Threads, OpenFifo(t)
  PROVE  LogInv'
<1> USE DEF LogInv
<1>1. client \in [Threads -> Clients] BY ClientTypes
<1>2. ThreadTypes OBVIOUS
<1>3. /\ UNCHANGED <<calls, kept, fifo, acc, up, lives, wedged, heap, rset, pass, file, fault>>
      /\ tls[t] = "asking"
  BY DEF OpenFifo, reactor
<1>4. CASE HasClient(t)
  <2>1. Becomes(t, "calling") /\ client' = [client EXCEPT ![t].met = TRUE]
    BY <1>4 DEF OpenFifo
  <2>2. tls' \in [Threads -> Lives] /\ tls'[t] = "calling"
        /\ \A u \in Threads : u # t => tls'[u] = tls[u]
    BY <1>2, <2>1, BecomesIs DEF Lives
  <2> DEFINE c == [client[t] EXCEPT !.met = TRUE]
  <2>3. client' = [client EXCEPT ![t] = c] BY <2>1
  <2>4. client[t] \in Clients BY <1>1
  <2>5. c \in Clients /\ c.fd = client[t].fd /\ c.body = client[t].body
    BY <2>4 DEF Clients
  <2> HIDE DEF c
  <2>6. client' \in [Threads -> Clients] BY <1>1, <2>3, <2>5
  <2>7. \A u \in Threads : client'[u].fd = client[u].fd /\ client'[u].body = client[u].body
    BY <1>1, <2>3, <2>5
  <2> QED BY <1>3, <1>4, <2>2, <2>6, <2>7, ThreadsMove
<1>5. CASE ~HasClient(t)
  <2>1. Becomes(t, "opening") /\ client' = client BY <1>5 DEF OpenFifo
  <2>2. tls' \in [Threads -> Lives] /\ tls'[t] = "opening"
        /\ \A u \in Threads : u # t => tls'[u] = tls[u]
    BY <1>2, <2>1, BecomesIs DEF Lives
  <2> QED BY <1>1, <1>3, <2>1, <2>2, ThreadsMove
<1> QED BY <1>4, <1>5

LEMMA ExitKeeps ==
  ASSUME LogInv, NEW t \in Threads, Exit(t)
  PROVE  LogInv'
<1> USE DEF LogInv
<1>1. client' = client /\ client \in [Threads -> Clients] BY ClientTypes DEF Exit
<1>2. UNCHANGED <<calls, kept, fifo, acc, up, lives, wedged, heap, rset, pass, file, fault>>
  BY DEF Exit, reactor
<1>3. tls' \in [Threads -> Lives] /\ tls'[t] = "gone"
      /\ \A u \in Threads : u # t => tls'[u] = tls[u]
  BY BecomesIs DEF Lives, Exit
<1> QED BY <1>1, <1>2, <1>3, ThreadsMove

LEMMA KillKeeps ==
  ASSUME LogInv, Kill
  PROVE  LogInv'
<1> USE DEF LogInv
<1>1. client' = client /\ client \in [Threads -> Clients] BY ClientTypes DEF Kill
<1>2. UNCHANGED <<calls, kept, fifo, acc, up, lives, wedged, heap, rset, pass, file, fault>>
  BY DEF Kill, reactor
<1>3. tls' \in [Threads -> Lives] /\ \A u \in Threads : tls'[u] = "gone" BY DEF Lives, Kill
<1> QED BY <1>1, <1>2, <1>3, ThreadsMove

\* A thread writes the rest of q: a head, a body, or a frame.
LEMMA WritingKeeps ==
  ASSUME LogInv, NEW t \in Threads, tls[t] \in {"calling", "open", "half"}, HasClient(t),
         calls[t] < Msgs, NEW q, q = fifo[t], NEW w \in Seq(Items), NEW n, n = calls[t] + 1,
         fifo' = [fifo EXCEPT ![t] = w], Len(w) <= Cap, Len(w) > Len(q),
         \A i \in 1..Len(q) : w[i] = q[i],
         \A i \in (Len(q) + 1)..Len(w) : w[i][2] = n,
         \A i \in (Len(q) + 1)..Len(w) : w[i][1] = "body" => i = Len(w),
         q = <<>> => (w[1][1] = "body" <=> tls[t] = "half"),
         \/ /\ w[Len(w)][1] = "body" /\ Becomes(t, "open")
            /\ kept' = kept \cup {<<t, n>>} /\ Returned(t)
         \/ w[Len(w)][1] = "head" /\ Becomes(t, "half") /\ UNCHANGED <<kept, calls>>,
         UNCHANGED <<up, lives, acc, wedged, client, reactor, file, fault>>
  PROVE  LogInv'
<1> USE DEF LogInv
<1>1. /\ up' = up /\ lives' = lives /\ acc' = acc /\ wedged' = wedged /\ client' = client
      /\ heap' = heap /\ rset' = rset /\ pass' = pass /\ fault' = fault
      /\ logfd' = logfd /\ size' = size /\ logged' = logged
  BY DEF reactor, file
<1> DEFINE full == w[Len(w)][1] = "body"
<1>2. /\ tls' \in [Threads -> Lives] /\ tls'[t] = (IF full THEN "open" ELSE "half")
      /\ \A u \in Threads : u # t => tls'[u] = tls[u]
  BY BecomesIs DEF Lives
<1>3. calls[t] \in Nat /\ n \in 1..Msgs /\ n \in Nat /\ Msgs \in Nat
  BY LogAssumption DEF ThreadTypes
<1>4. /\ calls' \in [Threads -> 0..Msgs] /\ calls'[t] = (IF full THEN n ELSE calls[t])
      /\ \A u \in Threads : u # t => calls'[u] = calls[u]
      /\ \A u \in Threads : calls[u] \in Nat /\ calls'[u] \in Nat /\ calls[u] <= calls'[u]
  <2>1. \A u \in Threads : calls[u] \in Nat BY LogAssumption DEF ThreadTypes
  <2>2. CASE full
    <3>1. Returned(t) BY <2>2
    <3>2. /\ calls' \in [Threads -> 0..Msgs] /\ calls'[t] = calls[t] + 1
          /\ \A u \in Threads : u # t => calls'[u] = calls[u]
          /\ \A u \in Threads : calls[u] <= calls'[u]
      BY <3>1, ReturnedIs
    <3>3. \A u \in Threads : calls'[u] \in Nat BY <3>2, <1>3
    <3> QED BY <2>1, <2>2, <3>2, <3>3
  <2>3. CASE ~full
    <3>1. calls' = calls BY <2>3
    <3> QED BY <2>1, <2>3, <3>1 DEF ThreadTypes
  <2> QED BY <2>2, <2>3
<1>5. kept' = IF full THEN kept \cup {<<t, n>>} ELSE kept OBVIOUS
<1>6. /\ fifo \in [Threads -> Seq(Items)] /\ fifo' \in [Threads -> Seq(Items)] /\ fifo'[t] = w
      /\ \A u \in Threads : u # t => fifo'[u] = fifo[u]
  BY DEF ThreadTypes
<1>7. /\ Len(q) \in Nat /\ Len(w) \in Nat /\ Len(w) \in (Len(q) + 1)..Len(w)
      /\ w # <<>> /\ Len(w) > 0 /\ \A i \in 1..Len(w) : i \in 1..Len(q) \/ i \in (Len(q) + 1)..Len(w)
  <2>1. q \in Seq(Items) BY <1>6
  <2>2. Len(q) \in Nat /\ Len(w) \in Nat BY <2>1
  <2> QED BY <2>2
<1>8. \A i \in 1..Len(q) : q[i][2] \in Nat /\ (q[i][1] = "body" => q[i][2] <= calls[t])
  BY ItemIs DEF Counted
<1>9. w[Len(w)][1] \in {"head", "body"}
  <2>1. w[Len(w)] \in Items BY <1>7
  <2> QED BY <2>1 DEF Items
<1> HIDE DEF full
<1>10. ThreadTypes'
  <2>1. \A u \in Threads : Len(fifo'[u]) <= Cap BY <1>6 DEF ThreadTypes
  <2>2. kept' \subseteq Threads \X (1..Msgs) BY <1>3, <1>5 DEF ThreadTypes
  <2> QED BY <1>1, <1>2, <1>4, <1>6, <2>1, <2>2 DEF ThreadTypes, Lives
<1>11. FileTypes' BY <1>1 DEF FileTypes
<1>12. Reactor' BY <1>1 DEF Reactor, Server
<1>13. Joined'
  <2>1. \A i \in 1..Len(acc) : acc[i] \in Threads /\ acc[i] # t
    <3> TAKE i \in 1..Len(acc)
    <3>1. acc[i] \in Threads BY DEF ThreadTypes
    <3> QED BY <3>1 DEF Joined
  <2>2. \A i \in 1..Len(acc) : tls'[acc[i]] \in {"asking", "opening", "gone"}
    BY <2>1, <1>2 DEF Joined
  <2>3. \A u \in Threads : tls'[u] = "none" => ~HasClient(u) BY <1>2 DEF Joined
  <2>4. \A u \in Threads : ~HasClient(u) => fifo'[u] = <<>> BY <1>6 DEF Joined
  <2>5. up BY DEF Joined
  <2> QED BY <1>1, <2>2, <2>3, <2>4, <2>5 DEF Joined, HasClient
<1>14. EndsHalf'
  <2>1. tls'[t] = "half" <=> w[Len(w)][1] = "head" BY <1>2, <1>9 DEF full
  <2>2. ASSUME NEW u \in Threads, fifo'[u] # <<>>, tls'[u] # "gone"
        PROVE  fifo'[u][Len(fifo'[u])][1] = "head" <=> tls'[u] = "half"
    <3>1. CASE u = t BY <3>1, <2>1, <1>6
    <3>2. CASE u # t
      <4>1. fifo'[u] = fifo[u] /\ tls'[u] = tls[u] BY <3>2, <1>2, <1>6
      <4> QED BY <4>1, <2>2 DEF EndsHalf
    <3> QED BY <3>1, <3>2
  <2> QED BY <2>2 DEF EndsHalf
<1>15. ASSUME NEW i \in 1..Len(w), w[i][1] = "body"
       PROVE  \/ i \in 1..Len(q) /\ w[i] = q[i] /\ q[i][2] \in Nat /\ q[i][2] <= calls[t]
              \/ i = Len(w) /\ w[i][2] = n /\ full
  <2>1. CASE i \in 1..Len(q) BY <2>1, <1>8, <1>15
  <2>2. CASE i \in (Len(q) + 1)..Len(w) BY <2>2, <1>15 DEF full
  <2> QED BY <2>1, <2>2, <1>7
<1>16. Counted'
  <2>1. \A u \in Threads : InCall(u)' => calls'[u] < Msgs
    BY <1>2, <1>4 DEF Counted, InCall
  <2>2. BodiesRise(w)
    <3> SUFFICES ASSUME NEW i \in 1..Len(w), NEW j \in 1..Len(w), i < j,
                        w[i][1] = "body", w[j][1] = "body"
                 PROVE  w[i][2] < w[j][2]
      BY DEF BodiesRise
    <3>1. i # Len(w) BY <1>7
    <3>2. i \in 1..Len(q) /\ w[i] = q[i] /\ q[i][2] \in Nat /\ q[i][2] <= calls[t]
      BY <3>1, <1>15
    <3>3. CASE j \in 1..Len(q) /\ w[j] = q[j]
      <4>1. BodiesRise(q) BY DEF Counted
      <4> QED BY <3>2, <3>3, <4>1 DEF BodiesRise
    <3>4. CASE w[j][2] = n BY SMTT(30), <3>2, <3>4, <1>3
    <3> QED BY <3>3, <3>4, <1>15
  <2>3. \A u \in Threads : BodiesRise(fifo'[u]) BY <2>2, <1>6 DEF Counted
  <2>4. ASSUME NEW u \in Threads, NEW i \in 1..Len(fifo'[u]), fifo'[u][i][1] = "body"
        PROVE  fifo'[u][i][2] <= calls'[u]
    <3>1. CASE u = t
      <4>1. i \in 1..Len(w) /\ w[i][1] = "body" BY <3>1, <2>4, <1>6
      <4>2. w[i][2] <= calls'[t]
        <5>1. CASE w[i] = q[i] /\ q[i][2] \in Nat /\ q[i][2] <= calls[t]
          <6>1. calls[t] \in Nat /\ calls'[t] \in Nat /\ calls[t] <= calls'[t] BY <1>4
          <6> QED BY <5>1, <6>1
        <5>2. CASE w[i][2] = n /\ full BY <5>2, <1>3, <1>4
        <5> QED BY <5>1, <5>2, <4>1, <1>15
      <4> QED BY <3>1, <4>2, <1>6
    <3>2. CASE u # t BY <3>2, <2>4, <1>4, <1>6 DEF Counted
    <3> QED BY <3>1, <3>2
  <2> QED BY <2>1, <2>3, <2>4 DEF Counted
<1>17. Behind'
  <2> SUFFICES ASSUME NEW i \in 1..Len(logged), NEW u \in Threads,
                      logged[i] # <<"server">>, logged[i][1] = u
               PROVE  /\ logged[i][2] <= calls'[u]
                      /\ \A j \in 1..Len(fifo'[u]) :
                           fifo'[u][j][1] = "body" => logged[i][2] < fifo'[u][j][2]
    BY <1>1 DEF Behind
  <2>1. logged[i][2] \in Nat /\ logged[i][2] <= calls[u] BY LoggedIs DEF Behind
  <2>2. logged[i][2] <= calls'[u]
    <3>1. calls[u] \in Nat /\ calls'[u] \in Nat /\ calls[u] <= calls'[u] BY <1>4
    <3> QED BY <2>1, <3>1
  <2>3. CASE u # t BY <2>2, <2>3, <1>6 DEF Behind
  <2>4. CASE u = t
    <3>1. ASSUME NEW j \in 1..Len(w), w[j][1] = "body" PROVE logged[i][2] < w[j][2]
      <4>1. CASE j \in 1..Len(q) /\ w[j] = q[j] BY SMTT(30), <4>1, <3>1, <2>4 DEF Behind
      <4>2. CASE w[j][2] = n BY <4>2, <2>1, <2>4, <1>3
      <4> QED BY <4>1, <4>2, <3>1, <1>15
    <3> QED BY <2>2, <2>4, <3>1, <1>6
  <2> QED BY <2>3, <2>4
<1>18. InOrder' BY <1>1 DEF InOrder
<1>19. KeptIsNotLost'
  <2> SUFFICES ASSUME logfd, NEW m \in kept'
               PROVE  <<"body", m[2]>> \in ToSet(fifo'[m[1]]) \/ m \in ToSet(logged)
    BY <1>1 DEF KeptIsNotLost
  <2>1. CASE m \in kept
    <3>1. m[1] \in Threads BY <2>1 DEF ThreadTypes
    <3>2. <<"body", m[2]>> \in ToSet(fifo[m[1]]) \/ m \in ToSet(logged)
      BY <2>1 DEF KeptIsNotLost
    <3>3. \A x : x \in ToSet(q) => x \in ToSet(w)
      <4> SUFFICES ASSUME NEW x \in ToSet(q) PROVE x \in ToSet(w) OBVIOUS
      <4>1. q \in Seq(Items) BY <1>6
      <4>2. PICK i \in 1..Len(q) : x = q[i] BY <4>1 DEF ToSet
      <4>3. i \in 1..Len(w) /\ w[i] = x BY <4>2, <1>7
      <4> QED BY <4>3 DEF ToSet
    <3> QED BY <3>1, <3>2, <3>3, <1>6
  <2>2. CASE m \notin kept
    <3>1. full /\ m = <<t, n>> BY <2>2, <1>5
    <3>2. w[Len(w)] = <<"body", n>>
      <4>1. w[Len(w)] \in Items /\ w[Len(w)][2] = n BY <1>7
      <4> QED BY <4>1, <3>1 DEF Items, full
    <3>3. <<"body", n>> \in ToSet(w)
      <4>1. Len(w) \in 1..Len(w) BY <1>7
      <4>2. w[Len(w)] \in ToSet(w) BY <4>1, ToSetIs
      <4> QED BY <3>2, <4>2
    <3> QED BY <3>1, <3>3, <1>6
  <2> QED BY <2>1, <2>2
<1>20. InFrame'
  <2> SUFFICES ASSUME NEW u \in Threads, HasClient(u)
               PROVE  IF fifo'[u] # <<>> THEN client[u].body <=> Head(fifo'[u])[1] = "body"
                      ELSE IF tls'[u] = "half" THEN client[u].body
                      ELSE tls'[u] # "gone" => ~client[u].body
    BY <1>1 DEF InFrame, HasClient
  <2>1. CASE u # t BY <2>1, <1>2, <1>6 DEF InFrame
  <2>2. CASE u = t
    <3>1. client[t].body <=> Head(w)[1] = "body"
      <4>1. Head(w) = w[1] BY <1>7
      <4>2. CASE q = <<>>
        <5>1. IF tls[t] = "half" THEN client[t].body ELSE ~client[t].body
          BY <4>2, <2>2 DEF InFrame
        <5> QED BY <4>1, <4>2, <5>1
      <4>3. CASE q # <<>>
        <5>1. q \in Seq(Items) BY <1>6
        <5>2. Head(q) = q[1] /\ 1 \in 1..Len(q) BY <4>3, <5>1
        <5>3. client[t].body <=> Head(q)[1] = "body" BY <4>3, <2>2 DEF InFrame
        <5> QED BY <4>1, <5>2, <5>3
      <4> QED BY <4>2, <4>3
    <3> QED BY <2>2, <3>1, <1>6, <1>7
  <2> QED BY <2>1, <2>2
<1> QED BY <1>10, <1>11, <1>12, <1>13, <1>14, <1>16, <1>17, <1>18, <1>19, <1>20

\* A thread whose reader is gone gives the FIFO and the message up.
LEMMA GivingUpKeeps ==
  ASSUME LogInv, NEW t \in Threads, tls[t] \in {"calling", "open", "half"}, ~HasClient(t),
         calls[t] < Msgs, DestroyFifo(t), Returned(t), UNCHANGED kept,
         UNCHANGED <<up, lives, acc, wedged, client, reactor, file, fault>>
  PROVE  LogInv'
<1> USE DEF LogInv
<1>1. /\ up' = up /\ lives' = lives /\ acc' = acc /\ wedged' = wedged /\ client' = client
      /\ heap' = heap /\ rset' = rset /\ pass' = pass /\ fault' = fault
      /\ logfd' = logfd /\ size' = size /\ logged' = logged
  BY DEF reactor, file
<1>2. fifo' = fifo BY NothingToDestroy DEF DestroyFifo
<1>3. /\ tls' \in [Threads -> Lives] /\ tls'[t] = "none"
      /\ \A u \in Threads : u # t => tls'[u] = tls[u]
  BY BecomesIs DEF Lives, DestroyFifo
<1>4. /\ calls' \in [Threads -> 0..Msgs]
      /\ \A u \in Threads : u # t => calls'[u] = calls[u]
      /\ \A u \in Threads : calls[u] <= calls'[u]
  BY ReturnedIs
<1>5. ThreadTypes' BY <1>1, <1>2, <1>3, <1>4 DEF ThreadTypes, Lives
<1>6. FileTypes' BY <1>1 DEF FileTypes
<1>7. Reactor' BY <1>1 DEF Reactor, Server
<1>8. Joined'
  <2>1. \A i \in 1..Len(acc) : acc[i] \in Threads /\ acc[i] # t
    <3> TAKE i \in 1..Len(acc)
    <3>1. acc[i] \in Threads BY DEF ThreadTypes
    <3> QED BY <3>1 DEF Joined
  <2>2. \A i \in 1..Len(acc) : tls'[acc[i]] \in {"asking", "opening", "gone"}
    BY <2>1, <1>3 DEF Joined
  <2>3. \A u \in Threads : tls'[u] = "none" => ~HasClient(u) BY <1>3 DEF Joined
  <2> QED BY <1>1, <1>2, <2>2, <2>3 DEF Joined, HasClient
<1>9. EndsHalf'
  <2>1. fifo[t] = <<>> BY DEF Joined
  <2> QED BY <1>2, <1>3, <2>1 DEF EndsHalf
<1>10. Counted' /\ Behind' /\ InOrder'
  <2>1. \A u \in Threads : InCall(u)' => calls'[u] < Msgs
    BY <1>3, <1>4 DEF Counted, InCall
  <2> QED BY <1>1, <1>2, <1>4, <1>5, <2>1, CallsReturnInOrder
<1>11. KeptIsNotLost' BY <1>1, <1>2 DEF KeptIsNotLost
<1>12. InFrame' BY <1>1, <1>2, <1>3 DEF InFrame, HasClient
<1> QED BY <1>5, <1>6, <1>7, <1>8, <1>9, <1>10, <1>11, <1>12

LEMMA TwoMore ==
  ASSUME NEW S, NEW q \in Seq(S), NEW x \in S, NEW y \in S
  PROVE  LET w == q \o <<x, y>>
         IN  /\ w \in Seq(S) /\ Len(w) = Len(q) + 2 /\ Len(q) \in Nat
             /\ w[Len(q) + 1] = x /\ w[Len(q) + 2] = y
             /\ \A i \in 1..Len(q) : w[i] = q[i]
OBVIOUS

LEMMA OneMore ==
  ASSUME NEW S, NEW q \in Seq(S), NEW x \in S
  PROVE  LET w == q \o <<x>>
         IN  /\ w \in Seq(S) /\ Len(w) = Len(q) + 1 /\ Len(q) \in Nat
             /\ w[Len(q) + 1] = x
             /\ \A i \in 1..Len(q) : w[i] = q[i]
OBVIOUS

\* A head or a body more.
LEMMA PartKeeps ==
  ASSUME LogInv, NEW t \in Threads, HasClient(t), calls[t] < Msgs,
         NEW w, fifo' = [fifo EXCEPT ![t] = w], Len(fifo[t]) < Cap,
         w \in Seq(Items), Len(w) = Len(fifo[t]) + 1,
         \A i \in 1..Len(fifo[t]) : w[i] = fifo[t][i],
         \/ /\ tls[t] \in {"calling", "open"} /\ w[Len(fifo[t]) + 1] = <<"head", calls[t] + 1>>
            /\ Becomes(t, "half") /\ UNCHANGED <<kept, calls>>
         \/ /\ tls[t] = "half" /\ w[Len(fifo[t]) + 1] = <<"body", calls[t] + 1>>
            /\ Becomes(t, "open") /\ kept' = kept \cup {<<t, calls[t] + 1>>} /\ Returned(t),
         UNCHANGED <<up, lives, acc, wedged, client, reactor, file, fault>>
  PROVE  LogInv'
<1> DEFINE q == fifo[t]
           n == calls[t] + 1
<1>1. q \in Seq(Items) /\ Len(q) \in Nat /\ Cap \in Nat
  <2>1. q \in Seq(Items) BY DEF LogInv, ThreadTypes
  <2> QED BY <2>1, LogAssumption
<1>2. q = fifo[t] /\ n = calls[t] + 1 OBVIOUS
<1> HIDE DEF q, n
<1>3. Len(w) <= Cap /\ Len(w) > Len(q) /\ \A i \in 1..Len(q) : w[i] = q[i] BY <1>1, <1>2
<1>4. \A i \in (Len(q) + 1)..Len(w) : i = Len(w) /\ w[i][2] = n BY <1>1, <1>2
<1>5. q = <<>> => (w[1][1] = "body" <=> tls[t] = "half") BY <1>1, <1>2
<1>6. \/ /\ w[Len(w)][1] = "body" /\ Becomes(t, "open")
         /\ kept' = kept \cup {<<t, n>>} /\ Returned(t)
      \/ w[Len(w)][1] = "head" /\ Becomes(t, "half") /\ UNCHANGED <<kept, calls>>
  BY <1>2
<1>7. tls[t] \in {"calling", "open", "half"} OBVIOUS
<1>8. \A i \in (Len(q) + 1)..Len(w) : w[i][2] = n BY <1>4
<1>9. \A i \in (Len(q) + 1)..Len(w) : w[i][1] = "body" => i = Len(w) BY <1>4
<1>10. w \in Seq(Items) /\ fifo' = [fifo EXCEPT ![t] = w]
       /\ UNCHANGED <<up, lives, acc, wedged, client, reactor, file, fault>>
  OBVIOUS
<1> QED
  BY ONLY ZenonT(30), LogInv, HasClient(t), calls[t] < Msgs, t \in Threads, <1>2, <1>3, <1>5, <1>6, <1>7,
     <1>8, <1>9, <1>10, WritingKeeps

LEMMA WriteKeeps ==
  ASSUME LogInv, NEW t \in Threads, Write(t)
  PROVE  LogInv'
<1> DEFINE q == fifo[t]
           n == calls[t] + 1
           head == <<"head", n>>
           body == <<"body", n>>
<1>1. ThreadTypes /\ q \in Seq(Items) /\ Len(q) \in Nat /\ Cap \in Nat
  <2>1. q \in Seq(Items) BY DEF LogInv, ThreadTypes
  <2> QED BY <2>1, LogAssumption DEF LogInv
<1>2. /\ tls[t] \in {"calling", "open"} /\ calls[t] < Msgs
      /\ UNCHANGED <<up, lives, acc, wedged, client, reactor, file, fault>>
  <2>1. CASE tls[t] = "calling" BY <2>1 DEF LogInv, Counted, InCall, Write
  <2>2. CASE tls[t] = "open" /\ MayCall BY <2>2, <1>1, MayCallIs DEF Write
  <2> QED BY <2>1, <2>2 DEF Write
<1>3. head \in Items /\ body \in Items /\ n \in Nat
  <2>1. n \in Nat BY LogAssumption DEF LogInv, ThreadTypes
  <2> QED BY <2>1 DEF Items
<1>4. CASE /\ HasClient(t)
           /\ Len(q) + Len(<<head, body>>) <= Cap
           /\ fifo' = [fifo EXCEPT ![t] = @ \o <<head, body>>] /\ Becomes(t, "open")
           /\ kept' = kept \cup {<<t, n>>} /\ Returned(t)
  <2> DEFINE w == q \o <<head, body>>
  <2>1. /\ w \in Seq(Items) /\ Len(w) = Len(q) + 2
        /\ w[Len(q) + 1] = head /\ w[Len(q) + 2] = body
        /\ \A i \in 1..Len(q) : w[i] = q[i]
    <3> HIDE DEF q, head, body
    <3> QED BY <1>1, <1>3, TwoMore
  <2>2. fifo' = [fifo EXCEPT ![t] = w] BY <1>4
  <2>3. Len(q) + 2 <= Cap
    <3>1. Len(<<head, body>>) = 2 OBVIOUS
    <3> QED BY <3>1, <1>4
  <2>4. q = fifo[t] /\ n = calls[t] + 1 OBVIOUS
  <2> HIDE DEF w, q
  <2>5. w[Len(q) + 1][1] = "head" /\ w[Len(q) + 1][2] = n
        /\ w[Len(q) + 2][1] = "body" /\ w[Len(q) + 2][2] = n
    BY <2>1
  <2> HIDE DEF head, body, n
  <2>6. Len(w) <= Cap /\ Len(w) > Len(q) BY <1>1, <2>1, <2>3
  <2>7. \A i \in (Len(q) + 1)..Len(w) :
          /\ w[i][2] = n
          /\ w[i][1] = "body" => i = Len(w)
    <3> TAKE i \in (Len(q) + 1)..Len(w)
    <3>1. i = Len(q) + 1 \/ i = Len(q) + 2 BY <1>1, <2>1
    <3> QED BY <3>1, <2>1, <2>5
  <2>8. q = <<>> => (w[1][1] = "body" <=> tls[t] = "half")
    <3>1. q = <<>> => Len(q) + 1 = 1 OBVIOUS
    <3> QED BY <3>1, <1>2, <2>5
  <2>9. w[Len(w)][1] = "body" BY <2>1, <2>5
  <2>10. HasClient(t) /\ Becomes(t, "open") /\ kept' = kept \cup {<<t, n>>} /\ Returned(t)
    BY <1>4
  <2>11. tls[t] \in {"calling", "open", "half"} BY <1>2
  <2> QED BY ZenonT(30), <1>2, <2>1, <2>2, <2>4, <2>6, <2>7, <2>8, <2>9, <2>10, <2>11, WritingKeeps
<1>5. CASE /\ HasClient(t)
           /\ Len(q) + Len(<<head>>) <= Cap
           /\ fifo' = [fifo EXCEPT ![t] = @ \o <<head>>] /\ Becomes(t, "half")
           /\ UNCHANGED <<kept, calls>>
  <2> DEFINE w == q \o <<head>>
  <2>1. /\ w \in Seq(Items) /\ Len(w) = Len(q) + 1 /\ w[Len(q) + 1] = head
        /\ \A i \in 1..Len(q) : w[i] = q[i]
    <3> HIDE DEF q, head
    <3> QED BY <1>1, <1>3, OneMore
  <2>2. fifo' = [fifo EXCEPT ![t] = w] BY <1>5
  <2>3. Len(q) < Cap
    <3>1. Len(<<head>>) = 1 OBVIOUS
    <3> QED BY <3>1, <1>1, <1>5
  <2> HIDE DEF w
  <2> QED BY <1>2, <1>5, <2>1, <2>2, <2>3, PartKeeps
<1>6. CASE ~HasClient(t) /\ DestroyFifo(t) /\ Returned(t) /\ UNCHANGED kept
  BY <1>2, <1>6, GivingUpKeeps
<1> QED BY <1>4, <1>5, <1>6 DEF Write

LEMMA WriteRestKeeps ==
  ASSUME LogInv, NEW t \in Threads, WriteRest(t)
  PROVE  LogInv'
<1> DEFINE q == fifo[t]
           n == calls[t] + 1
           body == <<"body", n>>
<1>1. q \in Seq(Items) /\ Len(q) \in Nat
  <2>1. q \in Seq(Items) BY DEF LogInv, ThreadTypes
  <2> QED BY <2>1
<1>2. /\ tls[t] = "half" /\ calls[t] < Msgs /\ Returned(t)
      /\ UNCHANGED <<up, lives, acc, wedged, client, reactor, file, fault>>
  BY DEF LogInv, Counted, InCall, WriteRest
<1>3. body \in Items
  <2>1. n \in Nat BY LogAssumption DEF LogInv, ThreadTypes
  <2> QED BY <2>1 DEF Items
<1>4. CASE HasClient(t)
  <2> DEFINE w == Append(q, body)
  <2>1. /\ Len(q) < Cap /\ fifo' = [fifo EXCEPT ![t] = w]
        /\ kept' = kept \cup {<<t, n>>} /\ Becomes(t, "open")
    BY <1>4 DEF WriteRest
  <2>2. /\ w \in Seq(Items) /\ Len(w) = Len(q) + 1 /\ w[Len(q) + 1] = body
        /\ \A i \in 1..Len(q) : w[i] = q[i]
    <3> HIDE DEF q, body
    <3> QED BY <1>1, <1>3, AppendIs
  <2> HIDE DEF w
  <2> QED BY <1>2, <1>4, <2>1, <2>2, PartKeeps
<1>5. CASE ~HasClient(t)
  <2>1. DestroyFifo(t) /\ UNCHANGED kept BY <1>5 DEF WriteRest
  <2> QED BY <1>2, <1>5, <2>1, GivingUpKeeps
<1> QED BY <1>4, <1>5

-----------------------------------------------------------------------------
(* The server *)

\* A pass goes on, or goes wrong.
LEMMA PassKeeps ==
  ASSUME LogInv,
         UNCHANGED <<threadVars, up, lives, acc, wedged, client, heap, rset, file>>,
         pass' \in Passes, pass'.num <= Len(heap.mem), fault' \in {"none", "DeletedClient"}
  PROVE  LogInv'
<1> USE DEF LogInv
<1>1. /\ tls' = tls /\ calls' = calls /\ kept' = kept /\ fifo' = fifo /\ up' = up
      /\ lives' = lives /\ acc' = acc /\ wedged' = wedged /\ client' = client
      /\ heap' = heap /\ rset' = rset /\ logfd' = logfd /\ size' = size /\ logged' = logged
  BY DEF threadVars, file
<1>2. ThreadTypes' BY <1>1 DEF ThreadTypes
<1>3. FileTypes' BY <1>1 DEF FileTypes
<1>4. Reactor' BY <1>1 DEF Reactor, Server
<1>5. Joined' BY <1>1 DEF Joined, HasClient
<1>6. EndsHalf' BY <1>1 DEF EndsHalf
<1>7. Counted' BY <1>1 DEF Counted, InCall
<1>8. Behind' /\ InOrder' BY <1>1 DEF Behind, InOrder
<1>9. KeptIsNotLost' BY <1>1 DEF KeptIsNotLost
<1>10. InFrame' BY <1>1 DEF InFrame, HasClient
<1> QED BY <1>2, <1>3, <1>4, <1>5, <1>6, <1>7, <1>8, <1>9, <1>10

LEMMA NextTurnIs ==
  ASSUME pass \in Passes, pass.num <= Len(heap.mem), Len(heap.mem) \in Nat, NextTurn
  PROVE  pass' \in Passes /\ pass'.num <= Len(heap.mem)
<1>1. CASE pass.at = pass.num
  <2>1. pass' = NoPass BY <1>1 DEF NextTurn
  <2> QED BY <2>1 DEF NoPass, Passes
<1>2. CASE pass.at # pass.num
  <2>1. pass' = [pass EXCEPT !.at = @ + 1] BY <1>2 DEF NextTurn
  <2> QED BY <2>1 DEF Passes
<1> QED BY <1>1, <1>2

LEMMA SelectKeeps ==
  ASSUME LogInv, Select
  PROVE  LogInv'
<1>1. UNCHANGED <<threadVars, up, lives, acc, wedged, client, heap, rset, file, fault>>
  BY DEF Select
<1>2. heap.size \in Nat /\ heap.size <= Len(heap.mem) BY ClientTypes DEF LogInv
<1>3. PICK sig \in SUBSET {SigFd} :
        pass' = [at |-> 1, num |-> heap.size,
                 ready |-> ((Readable \cap rset) \cap 1..heap.mem[1].fd) \cup sig]
  BY DEF Select
<1>4. ((Readable \cap rset) \cap 1..heap.mem[1].fd) \cup sig \in SUBSET Nat
  <2>1. rset \in SUBSET Nat
    BY DEF LogInv, Reactor, Watching, Servers, Server
  <2>2. sig \subseteq Nat BY DEF SigFd
  <2> DEFINE a == Readable
             b == 1..heap.mem[1].fd
  <2> HIDE DEF a, b
  <2>3. ((a \cap rset) \cap b) \cup sig \in SUBSET Nat BY <2>1, <2>2
  <2> QED BY <2>3 DEF a, b
<1>5. pass' \in Passes /\ pass'.num = heap.size BY <1>2, <1>3, <1>4 DEF Passes
<1>6. fault' \in {"none", "DeletedClient"} BY <1>1 DEF LogInv, FileTypes
<1> QED BY <1>1, <1>2, <1>5, <1>6, PassKeeps

LEMMA HandleNothingKeeps ==
  ASSUME LogInv, HandleNothing
  PROVE  LogInv'
<1>1. UNCHANGED <<threadVars, up, lives, acc, wedged, client, heap, rset, file, fault>>
      /\ NextTurn
  BY DEF HandleNothing
<1>2. pass' \in Passes /\ pass'.num <= Len(heap.mem)
  BY <1>1, NextTurnIs, ClientTypes DEF LogInv, Reactor
<1>3. fault' \in {"none", "DeletedClient"} BY <1>1 DEF LogInv, FileTypes
<1> QED BY <1>1, <1>2, <1>3, PassKeeps

LEMMA HandleDeletedKeeps ==
  ASSUME LogInv, HandleDeleted
  PROVE  LogInv'
<1>1. UNCHANGED <<threadVars, up, lives, acc, wedged, client, heap, rset, file>>
      /\ pass' = pass /\ fault' = "DeletedClient"
  BY DEF HandleDeleted, reactor
<1>2. pass' \in Passes /\ pass'.num <= Len(heap.mem) BY <1>1 DEF LogInv, Reactor
<1> QED BY <1>1, <1>2, PassKeeps

\* A new server finds what the old one left: no client, and nothing kept.
LEMMA StartKeeps ==
  ASSUME LogInv, Start
  PROVE  LogInv'
<1> USE DEF LogInv
<1>1. /\ tls' = tls /\ calls' = calls /\ kept' = kept /\ fifo' = fifo
      /\ acc' = acc /\ wedged' = wedged /\ client' = client /\ fault' = fault
      /\ heap' = heap /\ rset' = rset /\ pass' = pass /\ size' = size /\ logged' = logged
      /\ up' = TRUE /\ logfd' = TRUE /\ ~up /\ lives < Restarts /\ lives' = lives + 1
  BY DEF Start, threadVars, reactor
<1>2. ThreadTypes'
  <2>1. lives' \in 1..Restarts BY <1>1, LogAssumption DEF ThreadTypes
  <2> QED BY <1>1, <2>1 DEF ThreadTypes
<1>3. FileTypes' BY <1>1 DEF FileTypes
<1>4. Reactor' BY <1>1 DEF Reactor, Server
<1>5. Joined' BY <1>1 DEF Joined, HasClient
<1>6. EndsHalf' BY <1>1 DEF EndsHalf
<1>7. Counted' BY <1>1 DEF Counted, InCall
<1>8. Behind' /\ InOrder' BY <1>1 DEF Behind, InOrder
<1>9. kept = {} BY <1>1 DEF Joined
<1>10. KeptIsNotLost' BY <1>1, <1>9 DEF KeptIsNotLost
<1>11. InFrame' BY <1>1 DEF InFrame, HasClient
<1> QED BY <1>2, <1>3, <1>4, <1>5, <1>6, <1>7, <1>8, <1>10, <1>11

\* What the records of a handler do to the file.
LEMMA RecordsAre ==
  ASSUME FileTypes, NEW rs \in Seq(Recs), Records(rs)
  PROVE  /\ logfd' \in BOOLEAN /\ size' \in 0..(RbSize + 1) /\ logged' \in Seq(Recs)
         /\ \E p \in 0..Len(rs) : Longer(logged', logged, rs, p)
                                  /\ (logfd' => logfd /\ p = Len(rs))
<1>1. PICK works \in BOOLEAN :
        LET f == Recordeds([fd |-> logfd, size |-> size, logged |-> logged, works |-> works], rs)
        IN  logfd' = f.fd /\ size' = f.size /\ logged' = f.logged
  BY DEF Records
<1> DEFINE b == [fd |-> logfd, size |-> size, logged |-> logged, works |-> works]
           f == Recordeds(b, rs)
<1>2. b \in Files BY DEF FileTypes, Files
<1>3. b.fd = logfd /\ b.logged = logged OBVIOUS
<1>4. logfd' = f.fd /\ size' = f.size /\ logged' = f.logged BY <1>1
<1> HIDE DEF b
<1>5. f \in Files /\ Wrote(b, f, rs, Len(rs)) BY <1>2, RecordedsAre
<1> HIDE DEF f
<1>6. logfd' \in BOOLEAN /\ size' \in 0..(RbSize + 1) /\ logged' \in Seq(Recs)
  BY <1>4, <1>5 DEF Files
<1>7. PICK p \in 0..Len(rs) : Longer(f.logged, b.logged, rs, p)
                              /\ (f.fd => b.fd /\ p = Len(rs))
  BY <1>5 DEF Wrote
<1>8. Longer(logged', logged, rs, p) BY <1>3, <1>4, <1>7
<1>9. logfd' => logfd /\ p = Len(rs) BY <1>3, <1>4, <1>7
<1> QED BY <1>6, <1>8, <1>9

\* The server goes down with what it and the FIFOs held.
LEMMA DownKeeps ==
  ASSUME LogInv, Down, FileTypes', InOrder',
         \A i \in 1..Len(logged') : \A t \in Threads :
           logged'[i] # <<"server">> /\ logged'[i][1] = t => logged'[i][2] <= calls[t]
  PROVE  LogInv'
<1> USE DEF LogInv
<1>1. /\ tls' = tls /\ calls' = calls /\ kept' = {} /\ fifo' = [t \in Threads |-> <<>>]
      /\ up' = FALSE /\ lives' = lives /\ acc' = <<>> /\ wedged' = FALSE
      /\ client' = [t \in Threads |-> NoClient] /\ heap' = [mem |-> Base, size |-> 2]
      /\ rset' = {SigFd, AccFd} /\ pass' = NoPass
  BY DEF Down
<1>2. \A t \in Threads : fifo'[t] = <<>> /\ client'[t].fd = 0 BY <1>1 DEF NoClient
<1>3. ThreadTypes'
  <2>1. fifo' \in [Threads -> Seq(Items)] BY <1>1
  <2>2. \A t \in Threads : Len(fifo'[t]) <= Cap BY <1>2, LogAssumption
  <2>3. acc' \in Seq(Threads) /\ kept' \subseteq Threads \X (1..Msgs) BY <1>1
  <2> QED BY <1>1, <2>1, <2>2, <2>3 DEF ThreadTypes
<1>4. Reactor'
  <2>1. Watching([client |-> client', heap |-> heap', rset |-> rset']) BY <1>1, IdleWatches
  <2>2. pass' \in Passes /\ pass'.num = 0 BY <1>1 DEF NoPass, Passes
  <2>3. Len(heap'.mem) = 2 BY <1>1 DEF Base
  <2> QED BY <2>1, <2>2, <2>3 DEF Reactor, Server
<1>5. Joined'
  <2>1. \A t \in Threads : ~HasClient(t)' BY <1>2 DEF HasClient
  <2>2. Len(acc') = 0 BY <1>1
  <2> QED BY <1>1, <1>2, <2>1, <2>2 DEF Joined
<1>6. EndsHalf' BY <1>2 DEF EndsHalf
<1>7. Counted' BY <1>1, <1>2 DEF Counted, InCall, BodiesRise
<1>8. Behind' BY <1>1, <1>2 DEF Behind
<1>9. KeptIsNotLost' BY <1>1 DEF KeptIsNotLost
<1>10. InFrame' BY <1>2 DEF InFrame, HasClient
<1> QED BY <1>3, <1>4, <1>5, <1>6, <1>7, <1>8, <1>9, <1>10

LEMMA CrashKeeps ==
  ASSUME LogInv, Crash
  PROVE  LogInv'
<1>1. /\ Down /\ logfd' = logfd /\ size' = size /\ logged' = logged
      /\ fault' = fault
  BY DEF Crash, Down, file
<1>2. FileTypes' /\ InOrder' BY <1>1 DEF LogInv, FileTypes, InOrder
<1>3. \A i \in 1..Len(logged') : \A t \in Threads :
        logged'[i] # <<"server">> /\ logged'[i][1] = t => logged'[i][2] <= calls[t]
  BY <1>1 DEF LogInv, Behind
<1> QED BY <1>1, <1>2, <1>3, DownKeeps

\* An entry of the longer log is an old one or one of the new.
LEMMA EntryIs ==
  ASSUME logged \in Seq(Recs), NEW rs \in Seq(Recs), NEW p \in 0..Len(rs),
         Longer(logged', logged, rs, p), NEW i \in 1..Len(logged')
  PROVE  \/ i \in 1..Len(logged) /\ logged'[i] = logged[i]
         \/ \E k \in 1..p : i = Len(logged) + k /\ logged'[i] = rs[k]
<1>1. Len(logged) \in Nat /\ Len(rs) \in Nat /\ p \in Nat OBVIOUS
<1>2. Len(logged') = Len(logged) + p BY DEF Longer
<1>3. CASE i \in 1..Len(logged) BY <1>3 DEF Longer
<1>4. CASE i \notin 1..Len(logged)
  <2>1. i - Len(logged) \in 1..p /\ i = Len(logged) + (i - Len(logged)) BY <1>1, <1>2, <1>4
  <2>2. logged'[Len(logged) + (i - Len(logged))] = rs[i - Len(logged)] BY <2>1 DEF Longer
  <2> QED BY <2>1, <2>2
<1> QED BY <1>3, <1>4

\* A record of the server itself leaves those of the threads as they are.
LEMMA OwnRecord ==
  ASSUME LogInv, Records(<<<<"server">>>>), fault' = fault
  PROVE  /\ FileTypes' /\ InOrder'
         /\ \A i \in 1..Len(logged') : \A t \in Threads :
              logged'[i] # <<"server">> /\ logged'[i][1] = t =>
                i \in 1..Len(logged) /\ logged'[i] = logged[i]
         /\ logfd' => logfd
         /\ \A m \in kept : m \in ToSet(logged) => m \in ToSet(logged')
<1> USE DEF LogInv
<1> DEFINE sig == <<"server">>
           rs == <<sig>>
<1>1. Records(rs) OBVIOUS
<1>2. sig \in Recs BY DEF Recs
<1> HIDE DEF sig
<1>3. rs \in Seq(Recs) /\ Len(rs) = 1 /\ rs[1] = sig BY <1>2
<1> HIDE DEF rs
<1>4. logfd' \in BOOLEAN /\ size' \in 0..(RbSize + 1) /\ logged' \in Seq(Recs)
  BY <1>1, <1>3, RecordsAre
<1>5. PICK p \in 0..Len(rs) : Longer(logged', logged, rs, p) /\ (logfd' => logfd)
  BY <1>1, <1>3, RecordsAre
<1>6. FileTypes' BY <1>4 DEF FileTypes
<1>7. ASSUME NEW i \in 1..Len(logged')
      PROVE  \/ i \in 1..Len(logged) /\ logged'[i] = logged[i]
             \/ i > Len(logged) /\ logged'[i] = sig
  <2>1. logged \in Seq(Recs) BY DEF FileTypes
  <2>2. \/ i \in 1..Len(logged) /\ logged'[i] = logged[i]
        \/ \E k \in 1..p : i = Len(logged) + k /\ logged'[i] = rs[k]
    BY <2>1, <1>3, <1>5, EntryIs
  <2>3. Len(logged) \in Nat BY <2>1
  <2>4. \A k \in 1..p : k = 1 BY <1>3, <1>5
  <2>5. ASSUME NEW k \in 1..p, i = Len(logged) + k, logged'[i] = rs[k]
        PROVE  i > Len(logged) /\ logged'[i] = sig
    <3>1. k = 1 BY <2>4
    <3>2. i = Len(logged) + 1 BY <3>1, <2>5
    <3>3. logged'[i] = rs[1] BY <3>1, <2>5
    <3>4. i > Len(logged) BY <3>2, <2>3
    <3>5. logged'[i] = sig BY <3>3, <1>3
    <3> QED BY <3>4, <3>5
  <2>6. CASE i \in 1..Len(logged) /\ logged'[i] = logged[i] BY <2>6
  <2>7. CASE \E k \in 1..p : i = Len(logged) + k /\ logged'[i] = rs[k]
    <3>1. PICK k \in 1..p : i = Len(logged) + k /\ logged'[i] = rs[k] BY <2>7
    <3>2. i > Len(logged) /\ logged'[i] = sig BY <3>1, <2>5
    <3> QED BY <3>2
  <2> QED BY <2>2, <2>6, <2>7
<1>8. InOrder'
  <2> SUFFICES ASSUME NEW i \in 1..Len(logged'), NEW j \in 1..Len(logged'), i < j,
                      logged'[i] # sig, logged'[i][1] = logged'[j][1]
               PROVE  logged'[i][2] < logged'[j][2]
    BY DEF InOrder, sig
  <2>1. i \in 1..Len(logged) /\ logged'[i] = logged[i] BY <1>7
  <2>2. logged[i] \in Threads \X Nat BY <2>1, LoggedIs DEF sig
  <2>3. logged'[j] # sig
    <3>1. logged[i][1] \in Threads BY <2>2
    <3>2. sig[1] = "server" BY DEF sig
    <3> QED BY <2>1, <3>1, <3>2, LogAssumption
  <2>4. j \in 1..Len(logged) /\ logged'[j] = logged[j] BY <2>3, <1>7
  <2> QED BY <2>1, <2>4 DEF InOrder, sig
<1>9. ASSUME NEW i \in 1..Len(logged'), NEW t \in Threads,
             logged'[i] # <<"server">>, logged'[i][1] = t
      PROVE  i \in 1..Len(logged) /\ logged'[i] = logged[i]
  BY <1>7, <1>9 DEF sig
<1>10. \A m \in kept : m \in ToSet(logged) => m \in ToSet(logged')
  <2>1. logged \in Seq(Recs) BY DEF FileTypes
  <2>2. \A i \in 1..Len(logged) : i \in 1..Len(logged') /\ logged'[i] = logged[i]
    BY <2>1, <1>3, <1>4, <1>5 DEF Longer
  <2> QED BY <2>2 DEF ToSet
<1> QED BY <1>5, <1>6, <1>8, <1>9, <1>10

LEMMA HandleSignalKeeps ==
  ASSUME LogInv, HandleSignal
  PROVE  LogInv'
<1>1. Records(<<<<"server">>>>) /\ Down BY DEF HandleSignal
<1>2. fault' = fault BY <1>1 DEF Down
<1>3. \A i \in 1..Len(logged') : \A t \in Threads :
        logged'[i] # <<"server">> /\ logged'[i][1] = t => logged'[i][2] <= calls[t]
  BY <1>1, <1>2, OwnRecord DEF LogInv, Behind
<1> QED BY <1>1, <1>2, <1>3, OwnRecord, DownKeeps

\* What the acceptor does to the log is at most a record of the server.
LEMMA AcceptedFile ==
  ASSUME LogInv, HandleAcceptor
  PROVE  /\ FileTypes' /\ InOrder'
         /\ \A i \in 1..Len(logged') : \A t \in Threads :
              logged'[i] # <<"server">> /\ logged'[i][1] = t =>
                i \in 1..Len(logged) /\ logged'[i] = logged[i]
         /\ logfd' => logfd
         /\ \A m \in kept : m \in ToSet(logged) => m \in ToSet(logged')
<1>1. fault' = fault /\ (UNCHANGED file \/ Records(<<<<"server">>>>))
  BY DEF HandleAcceptor, AcceptClients
<1>2. CASE UNCHANGED file
  <2>1. logfd' = logfd /\ size' = size /\ logged' = logged BY <1>2 DEF file
  <2> QED BY <1>1, <2>1 DEF LogInv, FileTypes, InOrder
<1>3. CASE Records(<<<<"server">>>>) BY <1>1, <1>3, OwnRecord
<1> QED BY <1>1, <1>2, <1>3

\* The names that came are made clients, and their threads go on.
LEMMA HandleAcceptorKeeps ==
  ASSUME LogInv, HandleAcceptor
  PROVE  LogInv'
<1> USE DEF LogInv
<1>1. /\ calls' = calls /\ kept' = kept /\ fifo' = fifo /\ up' = up /\ lives' = lives
      /\ AcceptClients /\ NextTurn
  BY DEF HandleAcceptor, AcceptClients
<1>2. up BY DEF HandleAcceptor, AtTurn
<1>3. PICK k \in 0..Len(acc) :
        /\ wedged => k = 0
        /\ LET new == SubSeq(acc, 1, k)
           IN  /\ Becomes2(NewClients(Server, new))
               /\ tls' = [t \in Threads |->
                            IF tls[t] = "opening" /\ t \in {new[i] : i \in 1..k}
                              THEN "calling" ELSE tls[t]]
               /\ acc' = IF wedged THEN acc
                         ELSE SubSeq(acc, IF k = Len(acc) THEN k + 1 ELSE k + 2,
                                     Len(acc))
               /\ wedged' = (wedged \/ k < Len(acc))
  BY <1>1 DEF AcceptClients
<1> DEFINE new == SubSeq(acc, 1, k)
           v == NewClients(Server, new)
<1>4. acc \in Seq(Threads) /\ Len(acc) \in Nat
  <2>1. acc \in Seq(Threads) BY DEF ThreadTypes
  <2> QED BY <2>1
<1>5. new \in Seq(Threads) /\ Len(new) = k /\ \A i \in 1..k : new[i] = acc[i] /\ i \in 1..Len(acc)
  BY <1>4
<1>6. /\ client' = v.client /\ heap' = v.heap /\ rset' = v.rset
      /\ tls' = [t \in Threads |->
                   IF tls[t] = "opening" /\ t \in {new[i] : i \in 1..k} THEN "calling" ELSE tls[t]]
      /\ wedged' \in BOOLEAN
  BY <1>3 DEF Becomes2, ThreadTypes
<1> HIDE DEF new
<1>7. Made(Server, v, new, k)
  <2>1. \A i, j \in 1..Len(new) : new[i] = new[j] => i = j BY <1>5 DEF Joined
  <2>2. \A i \in 1..Len(new) : Server.client[new[i]].fd = 0
    BY <1>5 DEF Joined, HasClient, Server
  <2>3. Watching(Server) BY DEF Reactor
  <2> QED BY <1>5, <2>1, <2>2, <2>3, NewClientsAre
<1> HIDE DEF v
<1>8. /\ Watching(v) /\ v \in Servers /\ Len(v.heap.mem) >= Len(heap.mem)
      /\ \A i \in 1..k : client'[new[i]].fd # 0 /\ client'[new[i]].body = FALSE
      /\ \A u \in Threads : (\A i \in 1..k : new[i] # u) => client'[u] = client[u]
  BY <1>6, <1>7 DEF Made, Server
<1>9. Reactor'
  <2>1. v = [client |-> client', heap |-> heap', rset |-> rset'] BY <1>6, <1>8 DEF Servers
  <2>2. pass' \in Passes /\ pass'.num <= Len(heap.mem)
    BY <1>1, NextTurnIs, ClientTypes DEF Reactor
  <2>3. Len(heap'.mem) \in Nat
    <3>1. heap'.mem \in Seq(Events) BY <1>6, <1>8 DEF Servers, Heaps
    <3> QED BY <3>1
  <2>4. pass'.num <= Len(heap'.mem)
    <3>1. pass'.num \in Nat BY <2>2 DEF Passes
    <3>2. Len(heap.mem) \in Nat BY ClientTypes
    <3> QED BY <1>6, <1>8, <2>2, <2>3, <3>1, <3>2
  <2> QED BY <1>8, <2>1, <2>2, <2>4 DEF Reactor, Server
<1>10. \A u \in Threads : \/ \E i \in 1..k : new[i] = u
                          \/ client'[u] = client[u] /\ tls'[u] = tls[u]
  BY <1>6, <1>8
<1>11. \A i \in 1..k : /\ new[i] \in Threads /\ client[new[i]].fd = 0
                       /\ tls[new[i]] \in {"asking", "opening", "gone"}
                       /\ fifo[new[i]] = <<>>
  BY <1>5 DEF Joined, HasClient
<1>12. \A i \in 1..k : tls'[new[i]] \in {"asking", "calling", "gone"}
  BY <1>6, <1>11
<1>13. \A u \in Threads : \/ tls'[u] = tls[u]
                          \/ tls[u] = "opening" /\ tls'[u] = "calling"
  BY <1>6
<1>14. acc' \in Seq(Threads)
       /\ (\A i \in 1..Len(acc') : \E j \in 1..Len(acc) : acc'[i] = acc[j] /\ j > k)
       /\ \A i, j \in 1..Len(acc') : acc'[i] = acc'[j] => i = j
  <2>1. CASE wedged
    <3>1. acc' = acc /\ k = 0 BY <2>1, <1>3
    <3>2. \A i, j \in 1..Len(acc) : acc[i] = acc[j] => i = j BY DEF Joined
    <3> QED BY <1>4, <3>1, <3>2
  <2>2. CASE ~wedged
    <3> DEFINE m == IF k = Len(acc) THEN k + 1 ELSE k + 2
    <3>1. acc' = SubSeq(acc, m, Len(acc)) BY <2>2, <1>3
    <3>2. m \in (k + 1)..(Len(acc) + 1) BY <1>4
    <3> HIDE DEF m
    <3>3. /\ acc' \in Seq(Threads) /\ Len(acc') = Len(acc) - m + 1
          /\ \A i \in 1..Len(acc') : acc'[i] = acc[m + i - 1] /\ m + i - 1 \in 1..Len(acc)
                                     /\ m + i - 1 > k
      BY <1>4, <3>1, <3>2
    <3>4. ASSUME NEW i \in 1..Len(acc'), NEW j \in 1..Len(acc'), acc'[i] = acc'[j]
          PROVE  i = j
      <4> DEFINE x == m + i - 1
                 y == m + j - 1
      <4>1. acc[x] = acc[y] /\ x \in 1..Len(acc) /\ y \in 1..Len(acc) BY <3>3, <3>4
      <4>2. x = y
        <5> HIDE DEF x, y
        <5>1. \A a, b \in 1..Len(acc) : acc[a] = acc[b] => a = b BY DEF Joined
        <5> QED BY <4>1, <5>1
      <4> QED BY <4>2, <3>2, <1>4
    <3> QED BY <3>3, <3>4
  <2> QED BY <2>1, <2>2
<1>15. ThreadTypes' BY <1>1, <1>6, <1>14 DEF ThreadTypes
<1>16. FileTypes' BY AcceptedFile
<1>17. Joined'
  <2>1. ASSUME NEW i \in 1..Len(acc')
        PROVE  tls'[acc'[i]] \in {"asking", "opening", "gone"} /\ client'[acc'[i]].fd = 0
    <3>1. PICK j \in 1..Len(acc) : acc'[i] = acc[j] /\ j > k BY <1>14
    <3>2. acc[j] \in Threads BY <1>4
    <3>3. \A x \in 1..k : new[x] # acc[j]
      <4> TAKE x \in 1..k
      <4>1. new[x] = acc[x] /\ x \in 1..Len(acc) /\ x # j BY <1>5, <3>1
      <4> QED BY <4>1 DEF Joined
    <3>4. client'[acc[j]] = client[acc[j]] /\ tls'[acc[j]] = tls[acc[j]]
      BY <3>2, <3>3, <1>10
    <3> QED BY <3>1, <3>4 DEF Joined, HasClient
  <2>2. \A u \in Threads : tls'[u] = "none" => client'[u].fd = 0
    BY <1>10, <1>12 DEF Joined, HasClient
  <2>3. \A u \in Threads : client'[u].fd = 0 => fifo[u] = <<>>
    BY <1>8, <1>10, <1>11 DEF Joined, HasClient
  <2> QED BY <1>1, <1>2, <1>14, <2>1, <2>2, <2>3 DEF Joined, HasClient
<1>18. EndsHalf' BY <1>1, <1>13 DEF EndsHalf
<1>19. Counted' /\ Behind' /\ InOrder'
  <2>1. \A u \in Threads : InCall(u)' => calls'[u] < Msgs
    BY <1>1, <1>13 DEF Counted, InCall
  <2>2. Counted' BY <1>1, <2>1 DEF Counted
  <2>3. Behind' BY <1>1, AcceptedFile DEF Behind
  <2> QED BY <2>2, <2>3, AcceptedFile
<1>20. KeptIsNotLost' BY <1>1, AcceptedFile DEF KeptIsNotLost
<1>21. InFrame'
  <2> SUFFICES ASSUME NEW u \in Threads, client'[u].fd # 0
               PROVE  IF fifo[u] # <<>> THEN client'[u].body <=> Head(fifo[u])[1] = "body"
                      ELSE IF tls'[u] = "half" THEN client'[u].body
                      ELSE tls'[u] # "gone" => ~client'[u].body
    BY <1>1 DEF InFrame, HasClient
  <2>1. CASE \E i \in 1..k : new[i] = u BY <2>1, <1>8, <1>11, <1>12
  <2>2. CASE client'[u] = client[u] /\ tls'[u] = tls[u]
    BY <2>2 DEF InFrame, HasClient
  <2> QED BY <2>1, <2>2, <1>10
<1> QED BY <1>9, <1>15, <1>16, <1>17, <1>18, <1>19, <1>20, <1>21

\* What is read from a FIFO goes to the end of the log.
LEMMA ReadingKeeps ==
  ASSUME LogInv, NEW t \in Threads, Records(Bodies(t)),
         fifo' = [fifo EXCEPT ![t] = <<>>], tls' = tls, calls' = calls, kept' = kept,
         fault' = fault
  PROVE  FileTypes' /\ Counted' /\ Behind' /\ InOrder' /\ KeptIsNotLost'
<1> USE DEF LogInv
<1> DEFINE rs == Bodies(t)
<1>1. fifo \in [Threads -> Seq(Items)] /\ BodiesRise(fifo[t]) /\ logged \in Seq(Recs)
  BY DEF ThreadTypes, Counted, FileTypes
<1>2. Gathered(rs, fifo[t], t, Len(fifo[t])) BY <1>1, BodiesAre
<1> HIDE DEF rs
<1>3. /\ rs \in Seq(Threads \X Nat) /\ Len(rs) \in Nat
      /\ \A k \in 1..Len(rs) : \E i \in 1..Len(fifo[t]) :
           fifo[t][i][1] = "body" /\ rs[k] = <<t, fifo[t][i][2]>>
      /\ \A i \in 1..Len(fifo[t]) : fifo[t][i][1] = "body" =>
           \E k \in 1..Len(rs) : rs[k] = <<t, fifo[t][i][2]>>
      /\ \A k, l \in 1..Len(rs) : k < l => rs[k][2] < rs[l][2]
  <2>1. rs \in Seq(Threads \X Nat) BY <1>2 DEF Gathered
  <2>2. Len(rs) \in Nat BY <2>1
  <2>3. \A k \in 1..Len(rs) : \E i \in 1..Len(fifo[t]) :
          fifo[t][i][1] = "body" /\ rs[k] = <<t, fifo[t][i][2]>>
    BY <1>2 DEF Gathered
  <2>4. \A i \in 1..Len(fifo[t]) : fifo[t][i][1] = "body" =>
          \E k \in 1..Len(rs) : rs[k] = <<t, fifo[t][i][2]>>
    BY <1>2 DEF Gathered
  <2>5. \A k, l \in 1..Len(rs) : k < l => rs[k][2] < rs[l][2] BY <1>2 DEF Gathered
  <2> QED BY <2>1, <2>2, <2>3, <2>4, <2>5
<1>4. rs \in Seq(Recs)
  <2>1. \A k \in 1..Len(rs) : rs[k] \in Threads \X Nat BY <1>3
  <2>2. \A k \in 1..Len(rs) : rs[k] \in Recs BY <2>1 DEF Recs
  <2> QED BY <1>3, <2>2, IsSequence
<1>5. Records(rs) BY DEF rs
<1>6. logfd' \in BOOLEAN /\ size' \in 0..(RbSize + 1) /\ logged' \in Seq(Recs)
  BY <1>4, <1>5, RecordsAre
<1>7. PICK p \in 0..Len(rs) : Longer(logged', logged, rs, p) /\ (logfd' => logfd /\ p = Len(rs))
  BY <1>4, <1>5, RecordsAre
<1>8. FileTypes' BY <1>6 DEF FileTypes
<1>9. fifo'[t] = <<>> /\ Len(fifo'[t]) = 0 /\ \A u \in Threads : u # t => fifo'[u] = fifo[u]
  BY <1>1
<1>10. Counted'
  <2>1. \A u \in Threads : InCall(u)' => calls'[u] < Msgs BY DEF Counted, InCall
  <2>2. \A u \in Threads : BodiesRise(fifo'[u])
    <3> TAKE u \in Threads
    <3>1. CASE u = t BY <3>1, <1>9 DEF BodiesRise
    <3>2. CASE u # t BY <3>2, <1>9 DEF Counted
    <3> QED BY <3>1, <3>2
  <2>3. ASSUME NEW u \in Threads, NEW i \in 1..Len(fifo'[u]), fifo'[u][i][1] = "body"
        PROVE  fifo'[u][i][2] <= calls'[u]
    <3>1. u # t BY <1>9
    <3> QED BY <2>3, <3>1, <1>9 DEF Counted
  <2> QED BY <2>1, <2>2, <2>3 DEF Counted
\* A new entry is a body of t that waited.
<1>11. ASSUME NEW k \in 1..p
       PROVE  /\ rs[k][1] = t /\ rs[k][2] \in Nat /\ rs[k] # <<"server">> /\ rs[k][2] <= calls[t]
              /\ \E i \in 1..Len(fifo[t]) : fifo[t][i][1] = "body" /\ rs[k][2] = fifo[t][i][2]
  <2>1. k \in 1..Len(rs) BY <1>3
  <2>2. PICK i \in 1..Len(fifo[t]) : fifo[t][i][1] = "body" /\ rs[k] = <<t, fifo[t][i][2]>>
    BY <2>1, <1>3
  <2>3. fifo[t][i][2] \in Nat BY ItemIs
  <2>4. fifo[t][i][2] <= calls[t] BY <2>2 DEF Counted
  <2>5. rs[k][1] = t /\ rs[k][2] = fifo[t][i][2] BY <2>2
  <2>6. rs[k] # <<"server">>
    <3>1. <<"server">>[1] = "server" OBVIOUS
    <3>2. t # "server" BY LogAssumption
    <3> QED BY <3>1, <3>2, <2>5
  <2> QED BY <2>2, <2>3, <2>4, <2>5, <2>6
<1>12. ASSUME NEW i \in 1..Len(logged')
       PROVE  \/ i \in 1..Len(logged) /\ logged'[i] = logged[i]
              \/ \E k \in 1..p : i = Len(logged) + k /\ logged'[i] = rs[k]
  BY <1>1, <1>4, <1>7, EntryIs
<1>13. Behind'
  <2> SUFFICES ASSUME NEW i \in 1..Len(logged'), NEW u \in Threads,
                      logged'[i] # <<"server">>, logged'[i][1] = u
               PROVE  /\ logged'[i][2] <= calls[u]
                      /\ \A j \in 1..Len(fifo'[u]) :
                           fifo'[u][j][1] = "body" => logged'[i][2] < fifo'[u][j][2]
    BY DEF Behind
  <2>1. CASE i \in 1..Len(logged) /\ logged'[i] = logged[i]
    <3>1. /\ logged[i][2] <= calls[u]
          /\ \A j \in 1..Len(fifo[u]) : fifo[u][j][1] = "body" => logged[i][2] < fifo[u][j][2]
      BY <2>1 DEF Behind
    <3>2. CASE u = t BY <3>1, <3>2, <2>1, <1>9
    <3>3. CASE u # t BY <3>1, <3>3, <2>1, <1>9
    <3> QED BY <3>2, <3>3
  <2>2. CASE \E k \in 1..p : i = Len(logged) + k /\ logged'[i] = rs[k]
    <3>1. PICK k \in 1..p : logged'[i] = rs[k] BY <2>2
    <3>2. u = t /\ logged'[i][2] <= calls[t] BY <3>1, <1>11
    <3> QED BY <3>2, <1>9
  <2> QED BY <2>1, <2>2, <1>12
<1>14. InOrder'
  <2> SUFFICES ASSUME NEW i \in 1..Len(logged'), NEW j \in 1..Len(logged'), i < j,
                      logged'[i] # <<"server">>, logged'[i][1] = logged'[j][1]
               PROVE  logged'[i][2] < logged'[j][2]
    BY DEF InOrder
  <2>1. Len(logged) \in Nat /\ p \in Nat BY <1>1, <1>3
  <2>2. CASE j \in 1..Len(logged) /\ logged'[j] = logged[j]
    <3>1. i \in 1..Len(logged) BY <2>1, <2>2
    <3>2. logged'[i] = logged[i] BY <3>1, <1>7 DEF Longer
    <3> QED BY <2>2, <3>1, <3>2 DEF InOrder
  <2>3. CASE \E k \in 1..p : j = Len(logged) + k /\ logged'[j] = rs[k]
    <3>1. PICK k \in 1..p : j = Len(logged) + k /\ logged'[j] = rs[k] BY <2>3
    <3>2. logged'[j][1] = t BY <3>1, <1>11
    <3>3. CASE i \in 1..Len(logged) /\ logged'[i] = logged[i]
      <4>1. PICK n \in 1..Len(fifo[t]) : fifo[t][n][1] = "body" /\ rs[k][2] = fifo[t][n][2]
        BY <1>11
      <4>2. logged[i][1] = t /\ logged[i] # <<"server">> BY <3>2, <3>3
      <4>3. logged[i][2] < fifo[t][n][2] BY <3>3, <4>1, <4>2 DEF Behind
      <4> QED BY <3>1, <3>3, <4>1, <4>3
    <3>4. CASE \E l \in 1..p : i = Len(logged) + l /\ logged'[i] = rs[l]
      <4>1. PICK l \in 1..p : i = Len(logged) + l /\ logged'[i] = rs[l] BY <3>4
      <4>2. l < k BY <2>1, <3>1, <4>1
      <4>3. l \in 1..Len(rs) /\ k \in 1..Len(rs) BY <1>3
      <4>4. rs[l][2] < rs[k][2] BY <4>2, <4>3, <1>3
      <4> QED BY <3>1, <4>1, <4>4
    <3> QED BY <3>3, <3>4, <1>12
  <2> QED BY <2>2, <2>3, <1>12
<1>15. KeptIsNotLost'
  <2> SUFFICES ASSUME logfd', NEW m \in kept
               PROVE  <<"body", m[2]>> \in ToSet(fifo'[m[1]]) \/ m \in ToSet(logged')
    BY DEF KeptIsNotLost
  <2>1. logfd /\ p = Len(rs) BY <1>7
  <2>2. m = <<m[1], m[2]>> /\ m[1] \in Threads BY DEF ThreadTypes
  <2>3. Len(logged) \in Nat /\ Len(logged') = Len(logged) + p /\ p \in Nat
    BY <1>1, <1>3, <1>7 DEF Longer
  <2>4. CASE m \in ToSet(logged)
    <3>1. PICK i \in 1..Len(logged) : logged[i] = m BY <1>1, <2>4, ToSetIs
    <3>2. i \in 1..Len(logged') /\ logged'[i] = m BY <3>1, <2>3, <1>7 DEF Longer
    <3> QED BY <1>6, <3>2, ToSetIs
  <2>5. CASE <<"body", m[2]>> \in ToSet(fifo[m[1]])
    <3>1. CASE m[1] # t BY <3>1, <2>2, <2>5, <1>9
    <3>2. CASE m[1] = t
      <4>1. PICK i \in 1..Len(fifo[t]) : fifo[t][i] = <<"body", m[2]>>
        <5>1. fifo[t] \in Seq(Items) /\ <<"body", m[2]>> \in ToSet(fifo[t]) BY <1>1, <3>2, <2>5
        <5> QED BY <5>1, ToSetIs
      <4>2. PICK k \in 1..Len(rs) : rs[k] = <<t, fifo[t][i][2]>>
        <5>1. fifo[t][i][1] = "body" BY <4>1
        <5> QED BY <5>1, <1>3
      <4>3. rs[k] = m BY <4>1, <4>2, <2>2, <3>2
      <4>4. logged'[Len(logged) + k] = m /\ Len(logged) + k \in 1..Len(logged')
        BY <2>1, <2>3, <4>3, <1>7 DEF Longer
      <4> QED BY <1>6, <4>4, ToSetIs
    <3> QED BY <3>1, <3>2
  <2>6. m \in ToSet(logged) \/ <<"body", m[2]>> \in ToSet(fifo[m[1]])
    BY <2>1 DEF KeptIsNotLost
  <2> QED BY <2>4, <2>5, <2>6
<1> QED BY <1>8, <1>10, <1>13, <1>14, <1>15

\* A client is deleted when nobody writes into its FIFO, and otherwise it waits
\* for what the last frame left open.
LEMMA HandleClientKeeps ==
  ASSUME LogInv, NEW t \in Threads, HandleClient(t)
  PROVE  LogInv'
<1> USE DEF LogInv
<1>1. /\ tls' = tls /\ calls' = calls /\ kept' = kept /\ up' = up /\ lives' = lives
      /\ acc' = acc /\ wedged' = wedged /\ fault' = fault
      /\ fifo' = [fifo EXCEPT ![t] = <<>>]
      /\ Records(Bodies(t)) /\ NextTurn /\ ReadClient(t)
  BY DEF HandleClient, ReadClient
<1>2. up /\ client[t].fd # 0 BY DEF HandleClient, AtTurn, HasClient
<1>3. FileTypes' /\ Counted' /\ Behind' /\ InOrder' /\ KeptIsNotLost' BY <1>1, ReadingKeeps
<1>4. fifo \in [Threads -> Seq(Items)] /\ client \in [Threads -> Clients]
  BY ClientTypes DEF ThreadTypes
<1>5. fifo'[t] = <<>> /\ Len(fifo'[t]) = 0 /\ \A u \in Threads : u # t => fifo'[u] = fifo[u]
  BY <1>1, <1>4
<1>6. ThreadTypes'
  <2>1. fifo' \in [Threads -> Seq(Items)]
    <3>1. <<>> \in Seq(Items) OBVIOUS
    <3> QED BY <1>1, <1>4, <3>1
  <2>2. \A u \in Threads : Len(fifo'[u]) <= Cap
    <3> TAKE u \in Threads
    <3>1. CASE u = t BY <3>1, <1>5, LogAssumption
    <3>2. CASE u # t BY <3>2, <1>5 DEF ThreadTypes
    <3> QED BY <3>1, <3>2
  <2> QED BY <1>1, <2>1, <2>2 DEF ThreadTypes
<1>7. EndsHalf' BY <1>1, <1>5 DEF EndsHalf
<1>8. /\ Watching([client |-> client', heap |-> heap', rset |-> rset'])
      /\ Len(heap'.mem) = Len(heap.mem)
      /\ \A u \in Threads : u # t => client'[u] = client[u]
      /\ IF Writes(t)
           THEN /\ client'[t].fd = client[t].fd
                /\ client'[t].body = IF fifo[t] = <<>> THEN client[t].body
                                     ELSE fifo[t][Len(fifo[t])][1] = "head"
           ELSE client'[t].fd = 0
  <2>1. CASE Writes(t)
    <3> DEFINE b == IF fifo[t] = <<>> THEN client[t].body
                    ELSE fifo[t][Len(fifo[t])][1] = "head"
    <3>1. /\ client' = [client EXCEPT ![t].body = b]
          /\ heap' = heap /\ rset' = rset
      BY <1>1, <2>1 DEF ReadClient, Last
    <3>2. b \in BOOLEAN BY <1>4 DEF Clients
    <3> HIDE DEF b
    <3>3. /\ client' \in [Threads -> Clients]
          /\ client'[t].body = b /\ client'[t].fd = client[t].fd
          /\ \A u \in Threads : u # t => client'[u] = client[u]
      BY <1>4, <3>1, <3>2 DEF Clients
    <3>4. \A u \in Threads : client'[u].fd = client[u].fd BY <3>3
    <3>5. Watching(Server) /\ Server.client = client /\ Server.heap = heap /\ Server.rset = rset
      BY DEF Reactor, Server
    <3>6. Watching([client |-> client', heap |-> Server.heap, rset |-> Server.rset])
      BY <3>3, <3>4, <3>5, SameFds
    <3> QED BY <2>1, <3>1, <3>3, <3>5, <3>6 DEF b
  <2>2. CASE ~Writes(t)
    <3> DEFINE v == DelEvent([Server EXCEPT !.client[t] = NoClient], client[t].fd)
    <3>1. client' = v.client /\ heap' = v.heap /\ rset' = v.rset
      BY <1>1, <2>2 DEF ReadClient, Becomes2
    <3>2. Watching(Server) /\ Server.client = client /\ Server.heap = heap
      BY DEF Reactor, Server
    <3>3. /\ Watching(v) /\ Len(v.heap.mem) = Len(heap.mem)
          /\ v.client = [client EXCEPT ![t] = NoClient]
      BY <1>2, <3>2, DeletedIs
    <3> HIDE DEF v
    <3>4. v = [client |-> client', heap |-> heap', rset |-> rset']
      BY <3>1, <3>3 DEF Watching, Servers
    <3>5. client'[t].fd = 0 /\ \A u \in Threads : u # t => client'[u] = client[u]
      BY <1>4, <3>1, <3>3 DEF NoClient
    <3> QED BY <2>2, <3>1, <3>3, <3>4, <3>5
  <2> QED BY <2>1, <2>2
<1>9. Reactor'
  <2>1. pass' \in Passes /\ pass'.num <= Len(heap.mem)
    BY <1>1, NextTurnIs, ClientTypes DEF Reactor
  <2> QED BY <1>8, <2>1 DEF Reactor, Server
<1>10. Joined'
  <2>1. ASSUME NEW i \in 1..Len(acc)
        PROVE  client'[acc[i]].fd = 0
    <3>1. acc[i] \in Threads BY DEF ThreadTypes
    <3>2. client[acc[i]].fd = 0 BY DEF Joined, HasClient
    <3>3. acc[i] # t BY <3>2, <1>2
    <3> QED BY <3>1, <3>2, <3>3, <1>8
  <2>2. \A u \in Threads : tls[u] = "none" => client'[u].fd = 0
    <3> TAKE u \in Threads
    <3>1. CASE u = t BY <3>1, <1>2 DEF Joined, HasClient
    <3>2. CASE u # t BY <3>2, <1>8 DEF Joined, HasClient
    <3> QED BY <3>1, <3>2
  <2>3. \A u \in Threads : client'[u].fd = 0 => fifo'[u] = <<>>
    <3> TAKE u \in Threads
    <3>1. CASE u = t BY <3>1, <1>5
    <3>2. CASE u # t BY <3>2, <1>5, <1>8 DEF Joined, HasClient
    <3> QED BY <3>1, <3>2
  <2>4. \A i \in 1..Len(acc) : tls[acc[i]] \in {"asking", "opening", "gone"} BY DEF Joined
  <2>5. \A i, j \in 1..Len(acc) : acc[i] = acc[j] => i = j BY DEF Joined
  <2> QED BY <1>1, <1>2, <2>1, <2>2, <2>3, <2>4, <2>5 DEF Joined, HasClient
<1>11. InFrame'
  <2> SUFFICES ASSUME NEW u \in Threads, client'[u].fd # 0
               PROVE  IF fifo'[u] # <<>> THEN client'[u].body <=> Head(fifo'[u])[1] = "body"
                      ELSE IF tls[u] = "half" THEN client'[u].body
                      ELSE tls[u] # "gone" => ~client'[u].body
    BY <1>1 DEF InFrame, HasClient
  <2>1. CASE u # t
    BY <2>1, <1>5, <1>8 DEF InFrame, HasClient
  <2>2. CASE u = t
    <3>1. Writes(t) BY <2>2, <1>8
    <3>2. tls[t] # "gone" BY <3>1 DEF Writes
    <3>3. client'[t].body <=> tls[t] = "half"
      <4>1. CASE fifo[t] = <<>>
        <5>1. client'[t].body = client[t].body BY <3>1, <4>1, <1>8
        <5>2. IF tls[t] = "half" THEN client[t].body ELSE ~client[t].body
          BY <3>2, <4>1, <1>2 DEF InFrame, HasClient
        <5> QED BY <5>1, <5>2
      <4>2. CASE fifo[t] # <<>>
        <5>1. client'[t].body = (fifo[t][Len(fifo[t])][1] = "head") BY <3>1, <4>2, <1>8
        <5>2. fifo[t][Len(fifo[t])][1] = "head" <=> tls[t] = "half"
          BY <3>2, <4>2 DEF EndsHalf
        <5> QED BY <5>1, <5>2
      <4> QED BY <4>1, <4>2
    <3> QED BY <2>2, <3>2, <3>3, <1>5
  <2> QED BY <2>1, <2>2
<1> QED BY <1>3, <1>6, <1>7, <1>9, <1>10, <1>11

LEMMA NextInv == LogInv /\ [Next]_vars => LogInv'
<1> SUFFICES ASSUME LogInv, [Next]_vars PROVE LogInv' OBVIOUS
<1>1. CASE Next
  <2>1. CASE Serve
    <3>1. CASE Select BY <3>1, SelectKeeps
    <3>2. CASE HandleNothing BY <3>2, HandleNothingKeeps
    <3>3. CASE HandleAcceptor BY <3>3, HandleAcceptorKeeps
    <3>4. CASE HandleSignal BY <3>4, HandleSignalKeeps
    <3>5. CASE HandleDeleted BY <3>5, HandleDeletedKeeps
    <3>6. ASSUME NEW t \in Threads, HandleClient(t) PROVE LogInv'
      BY <3>6, HandleClientKeeps
    <3> QED BY <2>1, <3>1, <3>2, <3>3, <3>4, <3>5, <3>6 DEF Serve
  <2>2. CASE Crash BY <2>2, CrashKeeps
  <2>3. CASE Start BY <2>3, StartKeeps
  <2>4. CASE Kill BY <2>4, KillKeeps
  <2>5. ASSUME NEW t \in Threads,
               Ask(t) \/ OpenFifo(t) \/ Write(t) \/ WriteRest(t) \/ Exit(t)
        PROVE  LogInv'
    <3>1. CASE Ask(t) BY <3>1, AskKeeps
    <3>2. CASE OpenFifo(t) BY <3>2, OpenFifoKeeps
    <3>3. CASE Write(t) BY <3>3, WriteKeeps
    <3>4. CASE WriteRest(t) BY <3>4, WriteRestKeeps
    <3>5. CASE Exit(t) BY <3>5, ExitKeeps
    <3> QED BY <2>5, <3>1, <3>2, <3>3, <3>4, <3>5
  <2> QED BY <1>1, <2>1, <2>2, <2>3, <2>4, <2>5 DEF Next
<1>2. CASE UNCHANGED vars
  <2>1. UNCHANGED <<threadVars, up, lives, acc, wedged, client, heap, rset, file>>
        /\ pass' = pass /\ fault' = fault
    BY <1>2 DEF vars, reactor
  <2>2. pass' \in Passes /\ pass'.num <= Len(heap.mem) /\ fault' \in {"none", "DeletedClient"}
    BY <2>1 DEF LogInv, Reactor, FileTypes
  <2> QED BY <2>1, <2>2, PassKeeps
<1> QED BY <1>1, <1>2

-----------------------------------------------------------------------------
(* What follows from it. *)

\* The log keeps its order, for any threads, FIFOs of any size, and any number
\* of calls and lives.
THEOREM LogInvariance == Spec => []LogInv
BY InitInv, NextInv, PTL DEF Spec

\* A pass of run() stays within the memory of ev_heap_, a FIFO within what it
\* can hold, and lf->size within one record of rbsize.
THEOREM LogTypeCorrect == Spec => []TypeOK
<1>1. ASSUME LogInv PROVE TypeOK
  <2> USE <1>1 DEF LogInv
  <2>1. Watching(Server) /\ Server.client = client /\ Server.rset = rset
    BY DEF Reactor, Server
  <2>2. \A t \in Threads : client[t].fd \in 0..Cardinality(Fds) BY <2>1 DEF Watching
  <2>3. client \in [Threads -> [fd : 0..Cardinality(Fds), body : BOOLEAN, met : BOOLEAN]]
    <3> DEFINE D == 0..Cardinality(Fds)
    <3>1. client \in [Threads -> Clients] BY ClientTypes
    <3>2. \A t \in Threads : client[t].fd \in D BY <2>2
    <3> HIDE DEF D
    <3>3. \A t \in Threads : client[t] \in [fd : D, body : BOOLEAN, met : BOOLEAN]
      BY <3>1, <3>2 DEF Clients
    <3>4. client \in [Threads -> [fd : D, body : BOOLEAN, met : BOOLEAN]] BY <3>1, <3>3
    <3> QED BY <3>4 DEF D
  <2>4. rset \subseteq Fds
    <3>1. \A e \in Watched(client) : e.fd \in Fds
      <4> DEFINE n == 3 + Cardinality(Threads)
      <4>1. n \in Nat /\ n >= 3 /\ Cardinality(Fds) = n BY FdsAre
      <4>2. Fds = 1..n BY DEF Fds
      <4> HIDE DEF n
      <4>3. SigFd \in Fds /\ AccFd \in Fds BY <4>1, <4>2 DEF SigFd, AccFd
      <4>4. \A t \in Threads : client[t].fd # 0 => client[t].fd \in Fds
        BY <2>2, <4>1, <4>2
      <4> QED BY <4>3, <4>4 DEF Watched, Ev
    <3>2. rset = {e.fd : e \in Watched(client)} BY <2>1 DEF Watching
    <3> QED BY <3>1, <3>2
  <2>5. heap.size <= Len(heap.mem) BY ClientTypes
  <2>6. pass.num <= Len(heap.mem) BY DEF Reactor
  <2> QED BY <2>3, <2>4, <2>5, <2>6 DEF ThreadTypes, FileTypes, TypeOK
<1> QED BY <1>1, LogInvariance, PTL

\* add_event and del_event keep in ev_heap_ and rset_ exactly the descriptors
\* that are open, and max_fd() at least as large as each of them.
THEOREM ReactorWatchesAll == Spec => []WatchesAll
<1>1. ASSUME LogInv PROVE WatchesAll
  <2> USE <1>1 DEF LogInv
  <2> DEFINE live == 1..heap.size
             E == {Ev(AccFd, "acc"), Ev(SigFd, "sig")}
                    \cup {Ev(client[t].fd, t) : t \in {u \in Threads : HasClient(u)}}
             evs == {heap.mem[i] : i \in live}
             fds == {e.fd : e \in evs}
             g == [i \in live |-> heap.mem[i].fd]
  <2>1. E = Watched(client) BY DEF Watched, HasClient
  <2>2. Watching(Server) /\ Server.client = client /\ Server.rset = rset /\ Server.heap = heap
    BY DEF Reactor, Server
  <2>3. Holds(heap.mem, heap.size, E) /\ TopIsLargest(heap.mem, heap.size)
        /\ rset = {e.fd : e \in E}
    BY <2>1, <2>2 DEF Watching
  <2> HIDE DEF E
  <2>4. evs = E BY <2>3 DEF Holds
  <2>5. heap.size \in Nat /\ \A i, j \in live : heap.mem[i].fd = heap.mem[j].fd => i = j
    BY <2>3 DEF Holds
  <2>6. heap.size = Cardinality(fds)
    <3>1. g \in Bijection(live, fds)
      <4>1. fds = {heap.mem[i].fd : i \in live} OBVIOUS
      <4>2. g \in [live -> fds] BY <4>1
      <4>3. \A x \in fds : \E i \in live : g[i] = x BY <4>1
      <4>4. \A i, j \in live : g[i] = g[j] => i = j BY <2>5
      <4> HIDE DEF fds, g, live
      <4>5. DOMAIN g = live BY <4>2
      <4> QED BY <4>2, <4>3, <4>4, <4>5 DEF Bijection, Injection, Surjection, IsInjective
    <3>2. ExistsBijection(live, fds) BY <3>1 DEF ExistsBijection
    <3>3. IsFiniteSet(live) /\ Cardinality(live) = heap.size BY SMTT(30), <2>5, FS_Interval
    <3> HIDE DEF live, fds
    <3> QED BY <3>2, <3>3, FS_Bijection
  <2>7. rset = fds BY <2>3, <2>4
  <2>8. \A i \in live : heap.mem[i].fd <= heap.mem[1].fd BY <2>3 DEF TopIsLargest
  <2> QED BY <2>4, <2>6, <2>7, <2>8 DEF WatchesAll, E
<1> QED BY <1>1, LogInvariance, PTL

\* What tls_fifo_writevn said was written is in the FIFO or in the file, unless
\* the server that took it, or its file, has gone.
THEOREM NothingKeptIsLost == Spec => []KeptIsNotLost
<1>1. LogInv => KeptIsNotLost BY DEF LogInv
<1> QED BY <1>1, LogInvariance, PTL

\* async_read_msg and log_write put the messages of a thread into the file in
\* the order of its calls, across new FIFOs and new servers.
THEOREM LoggedInOrder == Spec => []InOrder
<1>1. LogInv => InOrder BY DEF LogInv
<1> QED BY <1>1, LogInvariance, PTL

\* A client's head and body states follow what tls_fifo_writevn has written,
\* also when a frame comes in two parts.
THEOREM ClientsInFrame == Spec => []InFrame
<1>1. LogInv => InFrame BY DEF LogInv
<1> QED BY <1>1, LogInvariance, PTL
=============================================================================
