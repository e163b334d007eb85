------------------------------- MODULE BasicPool -------------------------------
(***************************************************************************)
(* The memory pools of a build with _USE_MEM_POOL: one basic_pool for each *)
(* thread (mem/mem_pool.cpp), which cuts chunks of malloc into nodes and   *)
(* keeps a free list for each size (mem/basic_pool.cpp).  What is handed   *)
(* to another thread is given back to the pool of that thread.             *)
(*                                                                         *)
(* chunk_alloc calls itself, directly and through add_heap, which needs a  *)
(* node to record a chunk in.  An action is one call of it; the calls of   *)
(* refill that wait for it are on the stack of the thread, the innermost   *)
(* first, and the thread does nothing else with its pool in the meantime.  *)
(*                                                                         *)
(* Sizes and addresses are in units of Alignment.                          *)
(***************************************************************************)
EXTENDS Naturals, Sequences

CONSTANTS Users,     \* threads
          MaxSize,   \* MaxChunkSize
          NodeNum,   \* nodes a refill asks for
          HeapNode,  \* sizeof(heap_node)
          Mallocs,   \* bound: calls of malloc by the pools
          News       \* bound: blocks the program asks for

ASSUME PoolAssumption == /\ MaxSize \in Nat /\ NodeNum \in Nat \ {0}
                         /\ HeapNode \in 1..MaxSize
                         /\ Mallocs \in Nat /\ News \in Nat

VARIABLES pool,   \* the pool of each thread
          stack,  \* the calls of refill it is in, with the chunk each is to record
          used,   \* blocks that the program holds
          brk,    \* memory malloc has given out, its calls, and those of allocate
          wild    \* refill has written through a null pointer

poolVars == <<pool, stack, used, brk, wild>>

Sizes == 1..MaxSize
EmptyPool == [free |-> [n \in Sizes |-> <<>>], start |-> 0, end |-> 0, heap |-> <<>>]

PoolInit == /\ pool = [t \in Users |-> EmptyPool]
            /\ stack = [t \in Users |-> <<>>]
            /\ used = {}
            /\ brk = [next |-> 0, calls |-> 0, news |-> 0]
            /\ wild = FALSE

Block(a, n) == a..(a + n - 1)

-----------------------------------------------------------------------------
(* What becomes of a pool p *)

Push(p, n, at) == [p EXCEPT !.free[n] = <<at>> \o @]
Pop(p, n) == [p EXCEPT !.free[n] = Tail(@)]

\* What is left of the last chunk becomes a node of its own size, and [a, e) is
\* the new chunk.
NewChunk(p, a, e) ==
  [IF p.end > p.start THEN Push(p, p.end - p.start, p.start) ELSE p
   EXCEPT !.start = a, !.end = e]

\* malloc failed: a larger node is cut up, the smallest there is.
Larger(p, size) == {n \in (size + 1)..MaxSize : p.free[n] # <<>>}
TakeLarger(p, size) ==
  LET n == CHOOSE n \in Larger(p, size) : \A k \in Larger(p, size) : n <= k
      a == Head(p.free[n])
  IN [Pop(p, n) EXCEPT !.start = a, !.end = a + n]

Fit(p, size) == (p.end - p.start) \div size

\* Slip: the last node of a refill is still to cut.
CutOneLess(p, size, num) == [p EXCEPT !.start = @ + size * (num - 1)]

Cut(p, size, num) == [p EXCEPT !.start = @ + size * num]

\* The nodes after the first one replace the list, which add_heap may have
\* filled in the meantime.
Chain(p, size, at, num) ==
  IF num = 1 THEN p
  ELSE [p EXCEPT !.free[size] = [i \in 1..(num - 1) |-> at + i * size]]

\* The node at `at` records the chunk `mem`.
AddHeap(p, at, mem) == [p EXCEPT !.heap = <<[at |-> at, mem |-> mem]>> \o @]

-----------------------------------------------------------------------------

\* allocate() of at most MaxChunkSize
New(t, size) ==
  /\ stack[t] = <<>> /\ brk.news < News
  /\ brk' = [brk EXCEPT !.news = @ + 1]
  /\ \/ /\ pool[t].free[size] # <<>>
        /\ pool' = [pool EXCEPT ![t] = Pop(@, size)]
        /\ used' = used \cup {[at |-> Head(pool[t].free[size]), size |-> size]}
        /\ UNCHANGED stack
     \/ /\ pool[t].free[size] = <<>>
        /\ stack' = [stack EXCEPT ![t] = <<[size |-> size, mem |-> 0]>>]
        /\ UNCHANGED <<pool, used>>
  /\ UNCHANGED wild

\* chunk_alloc finds nodes in the chunk; refill links all but the first, which
\* is what the program gets, or the node that add_heap asked for.
Carve(t) ==
  /\ stack[t] # <<>>
  /\ LET size == Head(stack[t]).size
         fit == Fit(pool[t], size)
         num == IF fit >= NodeNum THEN NodeNum ELSE fit
         at == pool[t].start
         left == Chain(Cut(pool[t], size, num), size, at, num)
     IN /\ fit >= 1
        /\ IF Tail(stack[t]) = <<>>
           THEN /\ pool' = [pool EXCEPT ![t] = left]
                /\ used' = used \cup {[at |-> at, size |-> size]}
           ELSE /\ pool' = [pool EXCEPT ![t] = AddHeap(left, at, Head(stack[t]).mem)]
                /\ UNCHANGED used
        /\ stack' = [stack EXCEPT ![t] = Tail(@)]
  /\ UNCHANGED <<brk, wild>>

\* It finds none, malloc gives a chunk, and add_heap takes a free node to
\* record it or calls refill.
Malloc(t) ==
  /\ stack[t] # <<>> /\ brk.calls < Mallocs
  /\ LET size == Head(stack[t]).size
         bytes == 2 * size * NodeNum
         got == NewChunk(pool[t], brk.next, brk.next + bytes)
     IN /\ Fit(pool[t], size) = 0
        /\ brk' = [brk EXCEPT !.next = @ + bytes, !.calls = @ + 1]
        /\ \/ /\ got.free[HeapNode] # <<>>
              /\ pool' = [pool EXCEPT ![t] = AddHeap(Pop(got, HeapNode),
                                                     Head(got.free[HeapNode]), brk.next)]
              /\ UNCHANGED stack
           \/ /\ got.free[HeapNode] = <<>>
              /\ pool' = [pool EXCEPT ![t] = got]
              /\ stack' = [stack EXCEPT ![t] = <<[size |-> HeapNode, mem |-> brk.next]>> \o @]
  /\ UNCHANGED <<used, wild>>

\* Or malloc fails; refill links the nodes without looking whether there are any.
MallocFails(t) ==
  /\ stack[t] # <<>>
  /\ LET size == Head(stack[t]).size
         kept == NewChunk(pool[t], 0, 0)
     IN /\ Fit(pool[t], size) = 0
        /\ pool' = [pool EXCEPT ![t] = IF Larger(kept, size) # {}
                                       THEN TakeLarger(kept, size) ELSE kept]
        /\ wild' = (Larger(kept, size) = {})
  /\ UNCHANGED <<stack, used, brk>>

\* deallocate(), by whichever thread holds the block now.
Delete(t, u) ==
  /\ stack[t] = <<>>
  /\ pool' = [pool EXCEPT ![t] = Push(@, u.size, u.at)]
  /\ used' = used \ {u}
  /\ UNCHANGED <<stack, brk, wild>>

\* A thread ends: delete_key releases its chunks, with everything in them.
Exit(t) ==
  /\ stack[t] = <<>> /\ pool[t] # EmptyPool
  /\ pool' = [pool EXCEPT ![t] = EmptyPool]
  /\ UNCHANGED <<stack, used, brk, wild>>

PoolNext == /\ ~wild
            /\ \E t \in Users : \/ \E n \in Sizes : New(t, n)
                                \/ Carve(t) \/ Malloc(t) \/ MallocFails(t)
                                \/ \E u \in used : Delete(t, u)
                                \/ Exit(t)

PoolSpec == PoolInit /\ [][PoolNext]_poolVars

-----------------------------------------------------------------------------
(* Properties *)

PoolTypeOK ==
  /\ \A t \in Users : /\ pool[t].start <= pool[t].end /\ pool[t].end <= brk.next
                      /\ \A i \in DOMAIN stack[t] : stack[t][i].size \in Sizes
  /\ \A u \in used : u.size \in Sizes /\ u.at + u.size <= brk.next
  /\ brk.calls \in 0..Mallocs /\ brk.news \in 0..News /\ wild \in BOOLEAN

\* The pieces of memory: what the program holds, the nodes that are free, those
\* that record a chunk, and the part of a chunk that is still to cut.
FreeNodes(t) == UNION {{[at |-> pool[t].free[n][i], size |-> n, place |-> <<"free", t, n, i>>]
                        : i \in DOMAIN pool[t].free[n]} : n \in Sizes}
HeapNodes(t) == {[at |-> pool[t].heap[i].at, size |-> HeapNode, place |-> <<"heap", t, i>>]
                 : i \in DOMAIN pool[t].heap}
Uncut(t) == [at |-> pool[t].start, size |-> pool[t].end - pool[t].start, place |-> <<"uncut", t>>]
Held == {[at |-> u.at, size |-> u.size, place |-> <<"used">>] : u \in used}
Pieces == Held \cup UNION {FreeNodes(t) \cup HeapNodes(t) \cup {Uncut(t)} : t \in Users}

\* basic_pool::allocate, refill, chunk_alloc, add_heap: no unit of memory is in
\* two pieces, of one thread or of two, at any call of chunk_alloc either.
\* This is while the thread that a chunk belongs to lives: malloc gives out no
\* address twice here, so a chunk that Exit has released is not seen again.
NoOverlap ==
  \A x, y \in Pieces : x # y => Block(x.at, x.size) \cap Block(y.at, y.size) = {}
=============================================================================
