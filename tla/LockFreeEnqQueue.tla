--------------------------- MODULE LockFreeEnqQueue ---------------------------
(***************************************************************************)
(* The send queue of a session: a linked list to which any thread appends  *)
(* with compare-and-swap and from which one thread at a time takes.        *)
(*                                                                         *)
(* An enqueuer works on what it read of tail_ however long ago that was.   *)
(* Three things protect it: a pointer carries a stamp in its upper bits,   *)
(* so that tail_ does not compare equal by accident; the last node points  *)
(* to its own queue, so that a node of another queue is never appended to; *)
(* and whoever finds tail_ behind moves it on.  The nodes of all queues    *)
(* come from one pool: a freed node may come back in any of them.          *)
(*                                                                         *)
(* Modelled: one queue at the grain of its accesses to shared memory, the  *)
(* pool as a set of nodes, and the other queues as users of the pool.      *)
(* Stamps are numbers that do not wrap (MemoryPool models the wrap).       *)
(***************************************************************************)
EXTENDS Integers, Sequences, FiniteSets

CONSTANTS
  NodeCount,        \* bound: nodes in the pool
  Producers,        \* threads that enqueue; the thread that dequeues is one more
  QUEUE_MAX_SIZE,
  MaxItems,         \* bound: items enqueued
  MaxForeign,       \* bound: nodes that other queues take from the pool
  Running           \* the producers that are assumed not to stop

ASSUME QueueAssumption == /\ QUEUE_MAX_SIZE \in Nat \ {0} /\ MaxItems \in Nat
                          /\ MaxForeign \in Nat /\ Running \subseteq Producers
                          /\ NodeCount \in Nat \ {0}

Nodes == 1..NodeCount

\* A value of type NodeForLFEQ*: an address and a stamp.
Pointer(a, stamp) == [addr |-> a, stamp |-> stamp]
NoPointer == Pointer(0, 0)

\* The addresses of this queue and of another one: what the last node points to.
This  == -1

\* Mutant: the last node points to the same place in every queue.
OtherSame == -1

Other == -2

Items == 1..MaxItems

VARIABLES
  next, data,          \* the fields of each node
  tail, head, size,    \* tail_, head_, size_
  free,                \* nodes that were freed
  used,                \* how many nodes were ever handed out
  foreign,             \* the nodes in other queues
  foreignTaken,        \* history: how many nodes other queues took
  pc,                  \* where each producer is in Enqueue
  newNode, localTail, localNext,
  item,                \* what each of them enqueues
  begun,               \* history: how many items were begun
  consumer, found,     \* where Dequeue is, and its localNext
  order,               \* history: the items that were linked, in that order
  chain,               \* history: the pointers by which the nodes are in the queue
  done,                \* history: the items whose Enqueue has returned
  before,              \* history: what was done when the Enqueue of an item began
  out,                 \* history: what Dequeue has returned
  late                 \* history: whether an item was linked behind a node that had left
                       \* the queue and come back since the enqueuer read tail_

listVars     == <<next, data>>
queueVars    == <<tail, head, size>>
poolVars     == <<free, used, foreign, foreignTaken>>
producerVars == <<pc, newNode, localTail, localNext, item>>
consumerVars == <<consumer, found, out>>
itemVars     == <<begun, done, before, order, chain, late>>
historyVars  == <<order, chain, late>>
sendQVars == <<listVars, queueVars, poolVars, producerVars, consumerVars, itemVars>>

-----------------------------------------------------------------------------
NoItem == 0

\* Initialize takes a first node from the pool, which holds no item.
SendQInit ==
  /\ next = [n \in Nodes |-> IF n = 1 THEN Pointer(This, 0) ELSE NoPointer]
  /\ data = [n \in Nodes |-> NoItem]
  /\ head = Pointer(1, 0) /\ tail = Pointer(1, 0) /\ size = 0
  /\ free = {} /\ used = 1 /\ foreign = {} /\ foreignTaken = 0
  /\ pc = [p \in Producers |-> "idle"]
  /\ newNode = [p \in Producers |-> 0]
  /\ localTail = [p \in Producers |-> NoPointer]
  /\ localNext = [p \in Producers |-> NoPointer]
  /\ item = [p \in Producers |-> NoItem] /\ begun = 0
  /\ consumer = "idle" /\ found = NoPointer /\ out = <<>>
  /\ done = {} /\ before = [i \in Items |-> {}]
  /\ order = <<>> /\ chain = <<Pointer(1, 0)>> /\ late = FALSE

\* The pool hands out any node that was freed, or the next one of its memory.
Alloc(n) ==
  /\ n \in free \cup ({used + 1} \cap Nodes)
  /\ free' = free \ {n}
  /\ used' = IF n \in free THEN used ELSE used + 1

Goto(p, from, to) ==
  /\ pc[p] = from
  /\ pc' = [pc EXCEPT ![p] = to]

\* Nodes of producers that have not linked them yet.
Private == {newNode[p] : p \in {q \in Producers : pc[q] \in {"tail", "next", "link", "help"}}}

Last == chain[Len(chain)]

-----------------------------------------------------------------------------
(***************************************************************************)
(* Enqueue.                                                                *)
(***************************************************************************)
\* isFull: the size is read before anything else is done.
BeginEnqueue(p) ==
  /\ begun < MaxItems
  /\ Goto(p, "idle", IF size >= QUEUE_MAX_SIZE THEN "idle" ELSE "alloc")
  /\ begun' = begun + 1
  /\ item' = [item EXCEPT ![p] = begun']
  /\ before' = [before EXCEPT ![begun'] = done]
  /\ UNCHANGED <<listVars, queueVars, poolVars, newNode, localTail, localNext, consumerVars,
                 done, historyVars>>

AllocNode(p) ==
  /\ Goto(p, "alloc", "tail")
  /\ \E n \in Nodes :
       /\ Alloc(n)
       /\ newNode' = [newNode EXCEPT ![p] = n]
       /\ next' = [next EXCEPT ![n] = Pointer(This, 0)]
       /\ data' = [data EXCEPT ![n] = item[p]]
  /\ UNCHANGED <<queueVars, foreign, foreignTaken, localTail, localNext, item, consumerVars,
                 itemVars>>

ReadTail(p) ==
  /\ Goto(p, "tail", "next")
  /\ localTail' = [localTail EXCEPT ![p] = tail]
  /\ UNCHANGED <<listVars, queueVars, poolVars, newNode, localNext, item, consumerVars, itemVars>>

\* The node may be somebody else's by now.
ReadNext(p) ==
  LET n == next[localTail[p].addr]
  IN  /\ pc[p] = "next"
      /\ Goto(p, "next", IF n.addr = This THEN "link" ELSE "help")
      /\ localNext' = [localNext EXCEPT ![p] = n]
      /\ UNCHANGED <<listVars, queueVars, poolVars, newNode, localTail, item, consumerVars,
                     itemVars>>

StampedNew(p) == Pointer(newNode[p], localTail[p].stamp + 1)

\* The node came back: it is not linked yet, or the last one under another stamp.
LinksLate(p) ==
  \/ localTail[p].addr \in Private
  \/ (localTail[p].addr = Last.addr /\ localTail[p] # Last)

Record(p) == order' = Append(order, item[p]) /\ chain' = Append(chain, StampedNew(p))

\* Mutant: the node is linked whatever its next is by now.
LinkAnyway(p) ==
  /\ Goto(p, "link", "advance")
  /\ next' = [next EXCEPT ![localTail[p].addr] = StampedNew(p)]
  /\ Record(p)
  /\ UNCHANGED <<data, queueVars, poolVars, newNode, localTail, localNext, item, consumerVars,
                 begun, done, before, late>>

\* The last node of the queue points to the same place whenever it is the last one, and so
\* does a node that is not linked yet: to compare next says nothing of the stamp.
Link(p) ==
  LET n == localTail[p].addr
  IN  /\ pc[p] = "link"
      /\ \/ /\ next[n] = localNext[p]
            /\ Goto(p, "link", "advance")
            /\ next' = [next EXCEPT ![n] = StampedNew(p)]
            /\ late' = (late \/ LinksLate(p))
            /\ Record(p)
         \/ /\ next[n] # localNext[p]
            /\ Goto(p, "link", "tail")
            /\ UNCHANGED <<next, historyVars>>
      /\ UNCHANGED <<data, queueVars, poolVars, newNode, localTail, localNext, item,
                     consumerVars, begun, done, before>>

SwapTail(p, to) == tail' = IF tail = localTail[p] THEN to ELSE tail

AdvanceTail(p) ==
  /\ Goto(p, "advance", "size")
  /\ SwapTail(p, StampedNew(p))
  /\ UNCHANGED <<listVars, head, size, poolVars, newNode, localTail, localNext, item,
                 consumerVars, itemVars>>

\* Mutant: an enqueuer waits for the other one to move tail_.
HelpNot(p) ==
  /\ Goto(p, "help", "tail")
  /\ UNCHANGED <<listVars, queueVars, poolVars, newNode, localTail, localNext, item,
                 consumerVars, itemVars>>

Help(p) ==
  /\ Goto(p, "help", "tail")
  /\ SwapTail(p, localNext[p])
  /\ UNCHANGED <<listVars, head, size, poolVars, newNode, localTail, localNext, item,
                 consumerVars, itemVars>>

IncrementSize(p) ==
  /\ Goto(p, "size", "idle")
  /\ size' = size + 1
  /\ done' = done \cup {item[p]}
  /\ newNode' = [newNode EXCEPT ![p] = 0]
  /\ localTail' = [localTail EXCEPT ![p] = NoPointer]
  /\ localNext' = [localNext EXCEPT ![p] = NoPointer]
  /\ UNCHANGED <<listVars, tail, head, poolVars, item, consumerVars, begun, before, historyVars>>

-----------------------------------------------------------------------------
(***************************************************************************)
(* Dequeue, one thread at a time (NetSend.OneDrain).                       *)
(***************************************************************************)
DecrementSize ==
  /\ consumer = "idle"
  /\ size' = size - 1
  /\ consumer' = IF size - 1 < 0 THEN "undo" ELSE "look"
  /\ UNCHANGED <<listVars, tail, head, poolVars, producerVars, found, out, itemVars>>

UndoDecrement ==
  /\ consumer = "undo"
  /\ size' = size + 1
  /\ consumer' = "idle"
  /\ UNCHANGED <<listVars, tail, head, poolVars, producerVars, found, out, itemVars>>

\* An item is counted that is not linked behind the head yet: look again.
ReadHead ==
  /\ consumer = "look"
  /\ found' = next[head.addr]
  /\ consumer' = IF found'.addr = This THEN "look" ELSE "tail"
  /\ UNCHANGED <<listVars, queueVars, poolVars, producerVars, out, itemVars>>

\* tail_ must not stay on the node that is about to be freed.
MoveTail ==
  /\ consumer = "tail"
  /\ tail' = IF tail = head THEN found ELSE tail
  /\ consumer' = "take"
  /\ UNCHANGED <<listVars, head, size, poolVars, producerVars, found, out, itemVars>>

TakeData ==
  /\ consumer = "take"
  /\ out' = Append(out, data[found.addr])
  /\ head' = found
  /\ free' = free \cup {head.addr}
  /\ chain' = Tail(chain)
  /\ found' = NoPointer
  /\ consumer' = "idle"
  /\ UNCHANGED <<listVars, tail, size, used, foreign, foreignTaken, producerVars, begun, done,
                 before, order, late>>

-----------------------------------------------------------------------------
(***************************************************************************)
(* Other queues: a node is their last one for a while, then it is freed,   *)
(* and keeps the pointer it held then.                                     *)
(***************************************************************************)
OtherEnqueues ==
  /\ foreignTaken < MaxForeign
  /\ \E n \in Nodes :
       /\ Alloc(n)
       /\ foreign' = foreign \cup {n}
       /\ next' = [next EXCEPT ![n] = Pointer(Other, 0)]
       /\ data' = [data EXCEPT ![n] = NoItem]
  /\ foreignTaken' = foreignTaken + 1
  /\ UNCHANGED <<queueVars, producerVars, consumerVars, itemVars>>

OtherDequeues ==
  /\ \E n \in foreign :
       /\ free' = free \cup {n}
       /\ foreign' = foreign \ {n}
       /\ next' = [next EXCEPT ![n] = NoPointer]
  /\ UNCHANGED <<data, used, foreignTaken, queueVars, producerVars, consumerVars, itemVars>>

-----------------------------------------------------------------------------
EnqueueStep(p) ==
  \/ AllocNode(p) \/ ReadTail(p) \/ ReadNext(p) \/ Link(p) \/ AdvanceTail(p) \/ Help(p)
  \/ IncrementSize(p)

Dequeue == DecrementSize \/ UndoDecrement \/ ReadHead \/ MoveTail \/ TakeData

SendQNext ==
  \/ \E p \in Producers : BeginEnqueue(p) \/ EnqueueStep(p)
  \/ Dequeue
  \/ OtherEnqueues \/ OtherDequeues

SendQSpec == SendQInit /\ [][SendQNext]_sendQVars

\* Some of the producers do not stop; every other thread may, wherever it is.
SendQFairness == \A p \in Running : WF_sendQVars(EnqueueStep(p))
SendQFairSpec == SendQSpec /\ SendQFairness

-----------------------------------------------------------------------------
(***************************************************************************)
(* What the queue has to achieve.                                          *)
(***************************************************************************)

\* All of it holds as long as no item is linked late.  An enqueuer that sleeps from its
\* look at tail_ to its Link while the node it saw leaves the queue and comes back links
\* behind a node it knows by an old stamp; stamps then run backwards, and tail_ may be
\* left on a freed node (LockFreeEnqQueue.h:93-120).

\* The queue is what the pointers between its nodes say, from head_ to a node that points
\* to the queue itself; tail_ is on the last node or the one before.
Linked ==
  /\ head = chain[1] /\ next[Last.addr] = Pointer(This, 0)
  /\ \A k \in 1..(Len(chain) - 1) : next[chain[k].addr] = chain[k + 1]
  /\ tail = Last \/ (Len(chain) > 1 /\ tail = chain[Len(chain) - 1])

\* No node is in the queue twice, and none is one the pool may hand out or has handed out
\* to somebody else: no item can be written over.
Owned ==
  \A k \in DOMAIN chain :
    /\ chain[k].addr \notin free \cup foreign \cup Private
    /\ \A j \in DOMAIN chain : chain[j].addr = chain[k].addr => j = k

\* What Dequeue would return, in that order.
Queued == [k \in 1..(Len(chain) - 1) |-> data[chain[k + 1].addr]]

\* Every item that was linked has left the queue or is in it, once, in the order of the
\* links (LockFreeEnqQueue.h:93-121, 143-166).
NothingLost == ~late => Linked /\ Owned /\ order = out \o Queued

\* Items leave in the order of their Enqueue: what was enqueued before another
\* Enqueue began does not leave after it.
OrderKept ==
  ~late => \A k \in DOMAIN out : before[out[k]] \subseteq {out[j] : j \in 1..(k - 1)}

\* The queue is lock-free for those who send: an Enqueue ends even if every other
\* thread stops inside its own (LockFreeEnqQueue.h:122-126).
EnqueueEnds == \A p \in Running : pc[p] = "tail" ~> (pc[p] = "idle" \/ late)
=============================================================================
