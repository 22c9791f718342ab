------------------------------ MODULE MemoryPool ------------------------------
(***************************************************************************)
(* The memory pool behind packets, packet sets, queue and tree nodes: a    *)
(* list of free blocks for each thread (MemTLS) over a lock-free stack of  *)
(* chunks that the threads share (ChunkLockFree).                          *)
(*                                                                         *)
(* A thread takes a chunk when its list is empty and returns one when its  *)
(* list is two chunks long; blocks may be freed by another thread than the *)
(* one that took them.  A thread that ends leaves what it has, and then    *)
(* looks whether the pool is three times larger than its use.              *)
(*                                                                         *)
(* Modelled: both layers at the grain of accesses to shared memory; the    *)
(* list of a thread is private to it.  The heap is external: it hands out  *)
(* any address it has, also one that was freed a moment ago.  Not          *)
(* modelled: Destroy, which nothing calls; the guards and codes of blocks. *)
(***************************************************************************)
EXTENDS Integers, Sequences, FiniteSets, SequencesExt

CONSTANTS
  Threads,
  chunkSize,      \* chunkSize_
  InitialChunks,  \* chunkCapacity_ to begin with: 3 * chunkCount
  MaxChunks,      \* bound: chunks made in a behaviour, and addresses for their headers
  MaxOps,         \* bound: Alloc and Free, together
  StampCount      \* values of the upper bits of topChunk_

ASSUME PoolAssumption == /\ chunkSize \in Nat \ {0} /\ StampCount \in Nat \ {0}
                         /\ InitialChunks \in Nat /\ MaxChunks \in Nat /\ MaxOps \in Nat
                         /\ InitialChunks <= MaxChunks

Headers == 1..MaxChunks
NULL == 0
Blocks == 1..(MaxChunks * chunkSize)

VARIABLES
  topChunk,       \* topChunk_: an address and a stamp
  nextChunk,      \* of each header
  content,        \* its blocks, <<>> when the header is back in the heap
  capacity, used, \* chunkCapacity_, chunkUsed_
  loaded,         \* of GarbageCollect: the counter it has read first
  freeChunk,      \* freeChunk_: the blocks of threads that ended
  freeChunkLock,  \* the thread that has it
  cache,          \* Top::data of each thread, and its capacity
  held,           \* blocks in use
  pc, why,        \* where each thread is, and on behalf of what
  localTop, next, \* its local copies
  chunk,          \* the header in its hands
  diff,           \* of GarbageCollect: how many, and how many are left
  made,           \* history: how many chunks were made
  gone,           \* history: the blocks that went back to the heap
  ops,            \* history: Alloc and Free so far
  since,          \* history: how often topChunk_ has changed since it was read
  fooled          \* history: the same at a swap that should have failed

chunkVars  == <<topChunk, nextChunk, content>>
countVars  == <<capacity, used, loaded>>
freeVars   == <<freeChunk, freeChunkLock>>
threadVars == <<localTop, next, chunk>>
blockVars  == <<cache, held, gone, made>>
ghostVars  == <<ops, since, fooled>>
vars == <<chunkVars, countVars, freeVars, threadVars, blockVars, ghostVars, pc, why, diff>>

-----------------------------------------------------------------------------
NewBlocks(k) == [i \in 1..chunkSize |-> (k - 1) * chunkSize + i]

Init ==
  /\ topChunk = [addr |-> IF InitialChunks = 0 THEN NULL ELSE 1, stamp |-> 0]
  /\ nextChunk = [h \in Headers |-> IF h < InitialChunks THEN h + 1 ELSE NULL]
  /\ content = [h \in Headers |-> IF h <= InitialChunks THEN NewBlocks(h) ELSE <<>>]
  /\ capacity = InitialChunks /\ used = 0 /\ loaded = [t \in Threads |-> 0]
  /\ freeChunk = <<>> /\ freeChunkLock = {}
  /\ cache = [t \in Threads |-> <<>>] /\ held = {}
  /\ pc = [t \in Threads |-> "idle"] /\ why = [t \in Threads |-> "alloc"]
  /\ localTop = [t \in Threads |-> [addr |-> NULL, stamp |-> 0]]
  /\ next = [t \in Threads |-> NULL] /\ chunk = [t \in Threads |-> NULL]
  /\ diff = [t \in Threads |-> [all |-> 0, left |-> 0]]
  /\ made = InitialChunks /\ gone = {}
  /\ ops = 0 /\ since = [t \in Threads |-> 0] /\ fooled = 0

Goto(t, from, to) ==
  /\ pc[t] = from
  /\ pc' = [pc EXCEPT ![t] = to]

\* Headers that the heap can hand out.
InHeap == {h \in Headers : content[h] = <<>>}

\* Mutant: the stamp stays as it is.
NextStampSame(stamp) == stamp

NextStamp(stamp) == (stamp + 1) % StampCount

\* A successful InterlockedCompareExchangePointer of topChunk_.
SwapTop(t, addr) ==
  /\ topChunk' = [addr |-> addr, stamp |-> NextStamp(localTop[t].stamp)]
  /\ since' = [u \in Threads |->
                 IF u # t /\ pc[u] \in {"next", "swap", "pushSwap"} THEN since[u] + 1 ELSE 0]
  /\ fooled' = since[t]

-----------------------------------------------------------------------------
(***************************************************************************)
(* ChunkLockFree::Alloc and Free.                                          *)
(***************************************************************************)
ReadTop(t) ==
  /\ Goto(t, "top", IF topChunk.addr = NULL THEN "create" ELSE "next")
  /\ localTop' = [localTop EXCEPT ![t] = topChunk]
  /\ since' = [since EXCEPT ![t] = 0]
  /\ UNCHANGED <<chunkVars, countVars, freeVars, next, chunk, blockVars, ops, fooled, why, diff>>

\* The header may be back in the heap by now; what is read then is not used.
ReadNextChunk(t) ==
  /\ Goto(t, "next", "swap")
  /\ next' = [next EXCEPT ![t] = nextChunk[localTop[t].addr]]
  /\ UNCHANGED <<chunkVars, countVars, freeVars, localTop, chunk, blockVars, ghostVars, why, diff>>

PopChunk(t) ==
  /\ IF topChunk = localTop[t]
     THEN /\ Goto(t, "swap", "took")
          /\ SwapTop(t, next[t])
          /\ chunk' = [chunk EXCEPT ![t] = localTop[t].addr]
     ELSE /\ Goto(t, "swap", "top")
          /\ UNCHANGED <<topChunk, since, fooled, chunk>>
  /\ UNCHANGED <<nextChunk, content, countVars, freeVars, localTop, next, blockVars, ops, why, diff>>

\* Mutant: a chunk made because there is none is not counted.
CreateUncounted(t) ==
  /\ made < MaxChunks
  /\ Goto(t, "create", "took")
  /\ \E h \in InHeap :
       /\ chunk' = [chunk EXCEPT ![t] = h]
       /\ content' = [content EXCEPT ![h] = NewBlocks(made + 1)]
       /\ nextChunk' = [nextChunk EXCEPT ![h] = NULL]
  /\ made' = made + 1
  /\ UNCHANGED <<topChunk, countVars, freeVars, localTop, next, cache, held, gone, ghostVars, why,
                 diff>>

\* No chunk is left: a new one is made, and does not go through the stack.
CreateNewChunk(t) ==
  /\ made < MaxChunks
  /\ Goto(t, "create", "took")
  /\ capacity' = capacity + 1
  /\ \E h \in InHeap :
       /\ chunk' = [chunk EXCEPT ![t] = h]
       /\ content' = [content EXCEPT ![h] = NewBlocks(made + 1)]
       /\ nextChunk' = [nextChunk EXCEPT ![h] = NULL]
  /\ made' = made + 1
  /\ UNCHANGED <<topChunk, used, loaded, freeVars, localTop, next, cache, held, gone, ghostVars, why,
                 diff>>

\* The chunk is used and its header goes back to the heap.  MemTLS::Alloc takes the
\* first block at once; GarbageCollect gives all of them back to the heap.
TakeChunk(t) ==
  LET blocks == content[chunk[t]]
  IN  /\ pc[t] = "took"
      /\ used' = used + 1
      /\ content' = [content EXCEPT ![chunk[t]] = <<>>]
      /\ chunk' = [chunk EXCEPT ![t] = NULL]
      /\ \/ /\ why[t] = "alloc"
            /\ Goto(t, "took", "idle")
            /\ cache' = [cache EXCEPT ![t] = Tail(blocks)]
            /\ held' = held \cup {Head(blocks)}
            /\ UNCHANGED <<gone, diff>>
         \/ /\ why[t] = "collect"
            /\ Goto(t, "took", IF diff[t].left = 1 THEN "used" ELSE "top")
            /\ diff' = [diff EXCEPT ![t].left = @ - 1]
            /\ gone' = gone \cup ToSet(blocks)
            /\ UNCHANGED <<cache, held>>
      /\ UNCHANGED <<topChunk, nextChunk, capacity, loaded, freeVars, localTop, next, made, ghostVars,
                     why>>

\* Free of a chunk: a header is taken from the heap and the chunk is not used any more.
BeginPush(t, blocks) ==
  /\ used' = used - 1
  /\ \E h \in InHeap :
       /\ chunk' = [chunk EXCEPT ![t] = h]
       /\ content' = [content EXCEPT ![h] = blocks]
       /\ nextChunk' = [nextChunk EXCEPT ![h] = NULL]

PushReadTop(t) ==
  /\ Goto(t, "push", "pushSwap")
  /\ localTop' = [localTop EXCEPT ![t] = topChunk]
  /\ nextChunk' = [nextChunk EXCEPT ![chunk[t]] = topChunk.addr]
  /\ since' = [since EXCEPT ![t] = 0]
  /\ UNCHANGED <<topChunk, content, countVars, freeVars, next, chunk, blockVars, ops, fooled, why,
                 diff>>

PushSwap(t) ==
  /\ IF topChunk = localTop[t]
     THEN /\ Goto(t, "pushSwap", IF why[t] = "end" THEN "unlock" ELSE "idle")
          /\ SwapTop(t, chunk[t])
          /\ chunk' = [chunk EXCEPT ![t] = NULL]
     ELSE /\ Goto(t, "pushSwap", "push")
          /\ UNCHANGED <<topChunk, since, fooled, chunk>>
  /\ UNCHANGED <<nextChunk, content, countVars, freeVars, localTop, next, blockVars, ops, why, diff>>

-----------------------------------------------------------------------------
(***************************************************************************)
(* MemTLS::Alloc and Free.                                                 *)
(***************************************************************************)
Alloc(t) ==
  /\ ops < MaxOps
  /\ ops' = ops + 1
  /\ pc[t] = "idle"
  /\ IF cache[t] = <<>>
     THEN /\ Goto(t, "idle", "top")
          /\ why' = [why EXCEPT ![t] = "alloc"]
          /\ UNCHANGED <<cache, held>>
     ELSE /\ held' = held \cup {Head(cache[t])}
          /\ cache' = [cache EXCEPT ![t] = Tail(@)]
          /\ UNCHANGED <<pc, why>>
  /\ UNCHANGED <<chunkVars, countVars, freeVars, threadVars, made, gone, since, fooled, diff>>

\* Mutant: the blocks that are returned stay in the list.
FreeKeeps(t, b) ==
  LET list == <<b>> \o cache[t]
  IN  /\ ops < MaxOps /\ ops' = ops + 1
      /\ pc[t] = "idle"
      /\ held' = held \ {b}
      /\ cache' = [cache EXCEPT ![t] = list]
      /\ IF Len(list) < 2 * chunkSize
         THEN UNCHANGED <<pc, used, chunk, content, nextChunk>>
         ELSE Goto(t, "idle", "push") /\ BeginPush(t, SubSeq(list, 1, chunkSize))
      /\ why' = [why EXCEPT ![t] = "free"]
      /\ UNCHANGED <<topChunk, capacity, loaded, freeVars, localTop, next, made, gone, since, fooled,
                     diff>>

\* ReturnDataToChunkPool cuts the first blocks off a list that is two chunks long.
Free(t, b) ==
  LET list == <<b>> \o cache[t]
  IN  /\ ops < MaxOps /\ ops' = ops + 1
      /\ pc[t] = "idle"
      /\ held' = held \ {b}
      /\ IF Len(list) < 2 * chunkSize
         THEN /\ cache' = [cache EXCEPT ![t] = list]
              /\ UNCHANGED <<pc, used, chunk, content, nextChunk>>
         ELSE /\ cache' = [cache EXCEPT ![t] = SubSeq(list, chunkSize + 1, Len(list))]
              /\ Goto(t, "idle", "push")
              /\ BeginPush(t, SubSeq(list, 1, chunkSize))
      /\ why' = [why EXCEPT ![t] = "free"]
      /\ UNCHANGED <<topChunk, capacity, loaded, freeVars, localTop, next, made, gone, since, fooled,
                     diff>>

-----------------------------------------------------------------------------
(***************************************************************************)
(* RemoveRemainders: a thread ends.                                        *)
(***************************************************************************)
\* A list of exactly one chunk is returned as it is, and nothing is collected.
RemoveRemainders(t) ==
  /\ pc[t] = "idle"
  /\ cache' = [cache EXCEPT ![t] = <<>>]
  /\ \/ /\ cache[t] = <<>>
        /\ Goto(t, "idle", "ended")
        /\ UNCHANGED <<used, chunk, content, nextChunk, freeVars, why>>
     \/ /\ Len(cache[t]) = chunkSize
        /\ Goto(t, "idle", "push")
        /\ why' = [why EXCEPT ![t] = "free"]
        /\ BeginPush(t, cache[t])
        /\ UNCHANGED freeVars
     \/ /\ Len(cache[t]) \notin {0, chunkSize}
        /\ freeChunkLock = {}
        /\ freeChunkLock' = {t}
        /\ Goto(t, "idle", "cut")
        /\ freeChunk' = freeChunk \o cache[t]
        /\ UNCHANGED <<used, chunk, content, nextChunk, why>>
  /\ UNCHANGED <<topChunk, capacity, loaded, localTop, next, held, gone, made, ghostVars, diff>>

\* The left-overs of threads make a chunk when they are enough.
CutFreeChunk(t) ==
  /\ why' = [why EXCEPT ![t] = "end"]
  /\ \/ /\ Len(freeChunk) >= chunkSize
        /\ Goto(t, "cut", "push")
        /\ BeginPush(t, SubSeq(freeChunk, 1, chunkSize))
        /\ freeChunk' = SubSeq(freeChunk, chunkSize + 1, Len(freeChunk))
     \/ /\ Len(freeChunk) < chunkSize
        /\ Goto(t, "cut", "unlock")
        /\ UNCHANGED <<used, chunk, content, nextChunk, freeChunk>>
  /\ UNCHANGED <<topChunk, capacity, loaded, freeChunkLock, localTop, next, blockVars, ghostVars,
                 diff>>

Unlock(t) ==
  /\ Goto(t, "unlock", "collect")
  /\ freeChunkLock' = {}
  /\ UNCHANGED <<chunkVars, countVars, freeChunk, threadVars, blockVars, ghostVars, why, diff>>

\* GarbageCollect reads the two counters, in the order that the build chose.
ReadCounter(t) ==
  /\ \/ Goto(t, "collect", "thenUsed") /\ loaded' = [loaded EXCEPT ![t] = capacity]
     \/ Goto(t, "collect", "thenCapacity") /\ loaded' = [loaded EXCEPT ![t] = used]
  /\ UNCHANGED <<chunkVars, capacity, used, freeVars, threadVars, blockVars, ghostVars, why, diff>>

\* Having read the second, it takes as many chunks as the difference says.
GarbageCollect(t) ==
  LET n == IF pc[t] = "thenUsed" THEN loaded[t] - 3 * used ELSE capacity - 3 * loaded[t]
  IN  /\ pc[t] \in {"thenUsed", "thenCapacity"}
      /\ pc' = [pc EXCEPT ![t] = IF n > 0 THEN "top" ELSE "ended"]
      /\ why' = [why EXCEPT ![t] = "collect"]
      /\ diff' = [diff EXCEPT ![t] = IF n > 0 THEN [all |-> n, left |-> n] ELSE @]
      /\ loaded' = [loaded EXCEPT ![t] = 0]
      /\ UNCHANGED <<chunkVars, capacity, used, freeVars, threadVars, blockVars, ghostVars>>

SubtractUsed(t) ==
  /\ Goto(t, "used", "capacity")
  /\ used' = used - diff[t].all
  /\ UNCHANGED <<chunkVars, capacity, loaded, freeVars, threadVars, blockVars, ghostVars, why, diff>>

SubtractCapacity(t) ==
  /\ Goto(t, "capacity", "ended")
  /\ capacity' = capacity - diff[t].all
  /\ diff' = [diff EXCEPT ![t] = [all |-> 0, left |-> 0]]
  /\ UNCHANGED <<chunkVars, used, loaded, freeVars, threadVars, blockVars, ghostVars, why>>

-----------------------------------------------------------------------------
ThreadStep(t) ==
  \/ ReadTop(t) \/ ReadNextChunk(t) \/ PopChunk(t) \/ CreateNewChunk(t) \/ TakeChunk(t)
  \/ PushReadTop(t) \/ PushSwap(t) \/ CutFreeChunk(t) \/ Unlock(t) \/ ReadCounter(t)
  \/ GarbageCollect(t) \/ SubtractUsed(t) \/ SubtractCapacity(t)

\* A swap that succeeds against a stamp that came round ends the model.
Next ==
  /\ fooled = 0
  /\ \E t \in Threads :
       \/ ThreadStep(t) \/ Alloc(t) \/ RemoveRemainders(t)
       \/ \E b \in held : Free(t, b)

Spec == Init /\ [][Next]_vars

-----------------------------------------------------------------------------
(***************************************************************************)
(* What the pool has to achieve.                                           *)
(***************************************************************************)
\* A set of chunks that has the top one, and with each chunk the one behind it.
Linked(S) ==
  /\ topChunk.addr \in S \cup {NULL}
  /\ \A h \in S : nextChunk[h] \in S \cup {NULL}

\* The chunks behind topChunk_: those that are in every such set.
Stack == {h \in Headers : \A S \in SUBSET Headers : Linked(S) => h \in S}

InHands == {chunk[t] : t \in Threads} \ {NULL}

\* A block that was made is in one place: in use, in the list of one thread, in one
\* chunk of the stack or in the hands of a thread, among the left-overs, or back in
\* the heap (ChunkLockFree.h:234-319, 398-424).
Copies(b) ==
  Cardinality({b} \cap held) + Cardinality({b} \cap gone)
    + Cardinality({i \in DOMAIN freeChunk : freeChunk[i] = b})
    + Cardinality({p \in Threads \X (1..(2 * chunkSize)) :
                     p[2] <= Len(cache[p[1]]) /\ cache[p[1]][p[2]] = b})
    + Cardinality({p \in (Stack \cup InHands) \X (1..chunkSize) :
                     p[2] <= Len(content[p[1]]) /\ content[p[1]][p[2]] = b})

OnePlace ==
  fooled = 0 =>
    /\ \A b \in 1..(made * chunkSize) : Copies(b) = 1
    /\ \A h \in Stack : Len(content[h]) = chunkSize

\* A swap of topChunk_ succeeds against an old value only when the stamp has come
\* round in between: as many changes as it has values, while one thread sleeps
\* between two lines (ChunkLockFree.h:270-274, LockFreeStack.h:106-108, 143-145).
FooledOnlyByWrap == fooled # 0 => fooled >= StampCount

\* When no thread is inside the pool, chunkCapacity_ counts the chunks that exist
\* and chunkUsed_ those outside the stack: collecting never drifts, though other
\* threads write between its reads and its writes of the two (ChunkLockFree.h:400-421).
Quiet == \A t \in Threads : pc[t] \in {"idle", "ended"}
Outside == Cardinality(held) + Len(freeChunk)
             + Cardinality({p \in Threads \X (1..(2 * chunkSize)) : p[2] <= Len(cache[p[1]])})
CountersAgree ==
  Quiet /\ fooled = 0 =>
    /\ capacity * chunkSize = made * chunkSize - Cardinality(gone)
    /\ used * chunkSize = Outside
=============================================================================
