--------------------------- MODULE MemoryPool_proofs ---------------------------
(***************************************************************************)
(* Theorems about MemoryPool, for any threads, sizes and numbers of chunks *)
(* and of stamps: a swap of topChunk_ that should have failed succeeds     *)
(* only when the stamp has come round, and until then every block is in    *)
(* one place.                                                              *)
(*                                                                         *)
(* The stack is what can be reached from topChunk_, the least of all sets  *)
(* that are linked; no two chunks of it point to the same one, and none to *)
(* the top, so that popping takes away one chunk and pushing adds one.     *)
(* What a thread read is what is there as long as the top was not swapped. *)
(*                                                                         *)
(* The counters follow the chunks that were made, those whose blocks went  *)
(* back to the heap and those that have their blocks in them, up to one    *)
(* for each chunk that a collection took and did not subtract yet.         *)
(***************************************************************************)
EXTENDS MemoryPool, FiniteSetTheorems, WellFoundedInduction, TLAPS

Stamps == 0 .. StampCount - 1
Tops == [addr : Headers \cup {NULL}, stamp : Stamps]
Steps == {"idle", "top", "next", "swap", "create", "took", "push", "pushSwap", "cut",
          "unlock", "collect", "thenUsed", "thenCapacity", "used", "capacity", "ended"}

Types ==
  /\ topChunk \in Tops /\ nextChunk \in [Headers -> Headers \cup {NULL}]
  /\ content \in [Headers -> Seq(Nat)] /\ freeChunk \in Seq(Nat)
  /\ cache \in [Threads -> Seq(Nat)] /\ held \subseteq Nat /\ gone \subseteq Nat
  /\ pc \in [Threads -> Steps] /\ why \in [Threads -> {"alloc", "free", "end", "collect"}]
  /\ localTop \in [Threads -> Tops] /\ next \in [Threads -> Headers \cup {NULL}]
  /\ chunk \in [Threads -> Headers \cup {NULL}]
  /\ made \in Nat /\ since \in [Threads -> Nat]

\* How far the stamp has come since a thread read it, as long as it has not come
\* round more than once.
Swapping == {"next", "swap", "pushSwap"}
StampSince ==
  \A t \in Threads : pc[t] \in Swapping /\ since[t] < StampCount =>
    \/ topChunk.stamp = localTop[t].stamp + since[t]
    \/ topChunk.stamp = localTop[t].stamp + since[t] - StampCount

\* What a thread read is what is there, when there was no swap in between.
Seen ==
  \A t \in Threads :
    /\ pc[t] \in {"next", "swap"} => localTop[t].addr # NULL
    /\ since[t] = 0 =>
         /\ pc[t] \in Swapping => localTop[t] = topChunk
         /\ pc[t] = "swap" => next[t] = nextChunk[localTop[t].addr]
         /\ pc[t] = "pushSwap" => nextChunk[chunk[t]] = localTop[t].addr

\* The stack as a function of what it is made of.
LinkedBy(a, nx, S) ==
  /\ a \in S \cup {NULL}
  /\ \A h \in S : nx[h] \in S \cup {NULL}
Reach(a, nx) == {h \in Headers : \A S \in SUBSET Headers : LinkedBy(a, nx, S) => h \in S}

\* No chunk of the stack is behind two others, and the top is behind none.
OnePath ==
  /\ \A h \in Stack : nextChunk[h] # topChunk.addr
  /\ \A h, k \in Stack : nextChunk[h] = nextChunk[k] /\ nextChunk[h] # NULL => h = k

\* A chunk in the hands of a thread is in those of one, and not in the stack.
Hands ==
  /\ \A t \in Threads : chunk[t] # NULL <=> pc[t] \in {"took", "push", "pushSwap"}
  /\ \A t \in Threads : chunk[t] \notin Stack
  /\ \A t, u \in Threads : chunk[t] = chunk[u] /\ chunk[t] # NULL => t = u

\* The other headers are in the heap.
Full ==
  /\ \A h \in Stack \cup InHands : Len(content[h]) = chunkSize
  /\ \A h \in Headers \ (Stack \cup InHands) : content[h] = <<>>

Lists ==
  \A t \in Threads :
    /\ Len(cache[t]) < 2 * chunkSize
    /\ pc[t] \in {"top", "next", "swap", "create", "took"} /\ why[t] = "alloc" =>
         cache[t] = <<>>

Once(s) == \A i, j \in DOMAIN s : s[i] = s[j] => i = j

Distinct == /\ Once(freeChunk)
            /\ \A t \in Threads : Once(cache[t])
            /\ \A h \in Headers : Once(content[h])

Made == 1 .. made * chunkSize

\* The places of a block.
HELD == <<"held", 0>>
GONE == <<"gone", 0>>
LEFT == <<"left", 0>>
CACHE(t) == <<"cache", t>>
CHUNK(h) == <<"chunk", h>>

Places == {HELD, GONE, LEFT} \cup {CACHE(t) : t \in Threads} \cup {CHUNK(h) : h \in Headers}

\* Block b, which was made, is at w[b] and nowhere else.
Placed(w) ==
  /\ \A b \in Made : w[b] \in Places
  /\ \A b \in Nat : b \in held <=> b \in Made /\ w[b] = HELD
  /\ \A b \in Nat : b \in gone <=> b \in Made /\ w[b] = GONE
  /\ \A b \in Nat : b \in ToSet(freeChunk) <=> b \in Made /\ w[b] = LEFT
  /\ \A b \in Nat, t \in Threads :
       b \in ToSet(cache[t]) <=> b \in Made /\ w[b] = CACHE(t)
  /\ \A b \in Nat, h \in Headers :
       b \in ToSet(content[h]) <=> b \in Made /\ w[b] = CHUNK(h)

Blocked == \E w : Placed(w)

Good == /\ Types /\ StampSince /\ Seen /\ OnePath /\ Hands /\ Full /\ Lists
        /\ Distinct /\ Blocked

\* A swap that succeeded though it should have failed ends the behaviour.
IInv == FooledOnlyByWrap /\ fooled \in Nat /\ (fooled = 0 => Good)

-----------------------------------------------------------------------------
(***************************************************************************)
(* Numbers and sequences.                                                  *)
(***************************************************************************)
\* A set of numbers has a least one.
LEMMA LeastOf ==
  ASSUME NEW S, S \subseteq Nat, S # {}
  PROVE  \E n \in S : \A m \in S : n <= m
<1> DEFINE R == OpToRel(<, Nat)
<1>1. IsWellFoundedOn(R, Nat)
  BY NatLessThanWellFounded, Zenon
<1>2. PICK n \in S : \A m \in S : <<m, n>> \notin R
  BY <1>1, WFMin
<1>3. \A m \in S : ~(m < n)
  BY <1>2 DEF OpToRel
<1>. QED  BY <1>3

\* NULL is no header.
LEMMA Numbers == /\ Headers \subseteq Nat /\ NULL \notin Headers /\ 0 \notin Headers
                 /\ chunkSize \in Nat /\ chunkSize > 0
                 /\ StampCount \in Nat /\ StampCount > 0
  BY PoolAssumption DEF Headers, NULL

\* The stamp after another one.
LEMMA NextStampIs ==
  ASSUME NEW x \in Stamps
  PROVE  /\ NextStamp(x) = IF x + 1 = StampCount THEN 0 ELSE x + 1
         /\ NextStamp(x) \in Stamps
  BY PoolAssumption DEF NextStamp, Stamps

\* A chunk more.
LEMMA OneMore ==
  ASSUME NEW n \in Nat, NEW c \in Nat
  PROVE  n * c \in Nat /\ (n + 1) * c = n * c + c /\ (n + 1 - 1) * c = n * c
  OBVIOUS

\* Each block is of one chunk.
LEMMA ChunkOf ==
  ASSUME NEW c \in Nat, c > 0, NEW n \in Nat, NEW b \in 1 .. n * c
  PROVE  \E h \in 1 .. n : (h - 1) * c < b /\ b <= h * c
<1>1. /\ (b - 1) \div c \in Nat /\ b - 1 = c * ((b - 1) \div c) + ((b - 1) % c)
      /\ (b - 1) % c \in 0 .. c - 1
  <2>1. b - 1 \in Nat
    BY OneMore
  <2>. QED  BY <2>1
<1> DEFINE h == ((b - 1) \div c) + 1
<1>2. h \in Nat /\ h > 0
  BY <1>1
<1>3. (h - 1) * c < b
  BY <1>1
<1>4. b <= h * c
  BY <1>1
<1>5. h <= n
  <2>1. (h - 1) * c < n * c
    BY <1>2, <1>3, OneMore
  <2>. HIDE DEF h
  <2>2. h > n => (h - 1) * c >= n * c
    BY <1>2
  <2>. QED  BY <1>2, <2>1, <2>2
<1>6. h \in 1 .. n
  BY <1>2, <1>5
<1>. HIDE DEF h
<1>. QED  BY <1>3, <1>4, <1>6

\* The blocks of two chunks are different ones.
LEMMA ChunksApart ==
  ASSUME NEW c \in Nat, NEW h \in Nat, NEW k \in Nat, h < k
  PROVE  h * c <= (k - 1) * c
  OBVIOUS

\* An element of a sequence of numbers.
LEMMA ElementOf ==
  ASSUME NEW s \in Seq(Nat), NEW i \in DOMAIN s
  PROVE  s[i] \in Nat
  OBVIOUS

\* What is in a sequence.
LEMMA InSeq ==
  ASSUME NEW s
  PROVE  \A b : b \in ToSet(s) <=> \E i \in DOMAIN s : s[i] = b
  BY DEF ToSet

LEMMA EmptyList ==
  ASSUME NEW s, s = <<>>
  PROVE  s \in Seq(Nat) /\ Len(s) = 0 /\ Once(s) /\ ToSet(s) = {}
<1>1. DOMAIN s = {} /\ s \in Seq(Nat) /\ Len(s) = 0
  OBVIOUS
<1>2. ToSet(s) = {}
  BY <1>1, InSeq
<1>3. Once(s)
  BY <1>1 DEF Once
<1>4. QED  BY <1>1, <1>2, <1>3

\* The first block of a list is taken.
LEMMA TakeFirst ==
  ASSUME NEW s \in Seq(Nat), s # <<>>, Once(s)
  PROVE  /\ Head(s) \in Nat /\ Head(s) \in ToSet(s)
         /\ Tail(s) \in Seq(Nat) /\ Len(Tail(s)) = Len(s) - 1 /\ Once(Tail(s))
         /\ \A b : b \in ToSet(Tail(s)) <=> b \in ToSet(s) /\ b # Head(s)
<1>1. /\ Len(s) \in Nat /\ Len(s) > 0 /\ DOMAIN s = 1 .. Len(s) /\ Head(s) = s[1]
      /\ Head(s) \in Nat
  OBVIOUS
<1>2. /\ Tail(s) \in Seq(Nat) /\ Len(Tail(s)) = Len(s) - 1
      /\ DOMAIN Tail(s) = 1 .. Len(s) - 1
      /\ \A i \in 1 .. Len(s) - 1 : Tail(s)[i] = s[i + 1]
  OBVIOUS
<1>. HIDE DEF Once
<1>3. Once(Tail(s))
  <2>1. ASSUME NEW i \in DOMAIN Tail(s), NEW j \in DOMAIN Tail(s), Tail(s)[i] = Tail(s)[j]
        PROVE  i = j
    <3>0. i \in 1 .. Len(s) - 1 /\ j \in 1 .. Len(s) - 1 /\ i \in Nat /\ j \in Nat
      BY <1>1, <1>2
    <3>1. i + 1 \in DOMAIN s /\ j + 1 \in DOMAIN s
      BY <1>1, <3>0
    <3>2. s[i + 1] = s[j + 1]
      BY <1>2, <2>1, <3>0
    <3>3. i + 1 = j + 1
      BY <3>1, <3>2 DEF Once
    <3>. QED  BY <3>0, <3>3
  <2>. QED  BY <2>1 DEF Once
<1>4. \A i \in 2 .. Len(s) : s[i] = Tail(s)[i - 1] /\ i - 1 \in DOMAIN Tail(s) /\ s[i] # s[1]
  BY <1>1, <1>2 DEF Once
<1>5. \A i \in DOMAIN Tail(s) : Tail(s)[i] = s[i + 1] /\ i + 1 \in DOMAIN s /\ s[i + 1] # s[1]
  BY <1>1, <1>2 DEF Once
<1>6. ASSUME NEW b PROVE b \in ToSet(Tail(s)) <=> b \in ToSet(s) /\ b # Head(s)
  <2>1. ASSUME b \in ToSet(Tail(s)) PROVE b \in ToSet(s) /\ b # Head(s)
    <3>1. PICK i \in DOMAIN Tail(s) : Tail(s)[i] = b
      BY <2>1, InSeq
    <3>. QED  BY <1>1, <1>5, <3>1, InSeq
  <2>2. ASSUME b \in ToSet(s), b # Head(s) PROVE b \in ToSet(Tail(s))
    <3>1. PICK i \in DOMAIN s : s[i] = b
      BY <2>2, InSeq
    <3>2. i \in 2 .. Len(s)
      BY <1>1, <2>2, <3>1
    <3>. QED  BY <1>4, <3>1, <3>2, InSeq
  <2>. QED  BY <2>1, <2>2
<1>. QED  BY <1>1, <1>2, <1>3, <1>6, InSeq

\* A block is put in front of a list.
LEMMA PutFirst ==
  ASSUME NEW s \in Seq(Nat), Once(s), NEW b \in Nat, b \notin ToSet(s)
  PROVE  /\ <<b>> \o s \in Seq(Nat) /\ Len(<<b>> \o s) = Len(s) + 1 /\ Once(<<b>> \o s)
         /\ \A c : c \in ToSet(<<b>> \o s) <=> c = b \/ c \in ToSet(s)
<1> DEFINE r == <<b>> \o s
<1>1. /\ r \in Seq(Nat) /\ Len(r) = Len(s) + 1 /\ DOMAIN r = 1 .. Len(s) + 1 /\ r[1] = b
      /\ \A i \in 2 .. Len(s) + 1 : r[i] = s[i - 1] /\ i - 1 \in DOMAIN s
      /\ Len(s) \in Nat /\ DOMAIN s = 1 .. Len(s)
  OBVIOUS
<1>. HIDE DEF r
<1>2. \A i \in DOMAIN s : s[i] = r[i + 1] /\ i + 1 \in DOMAIN r /\ s[i] # b
  BY <1>1, InSeq
<1>3. Once(r)
  <2>1. ASSUME NEW i \in DOMAIN r, NEW j \in DOMAIN r, r[i] = r[j] PROVE i = j
    <3>1. i = 1 \/ i \in 2 .. Len(s) + 1
      BY <1>1
    <3>2. j = 1 \/ j \in 2 .. Len(s) + 1
      BY <1>1
    <3>3. i \in 2 .. Len(s) + 1 => s[i - 1] # b /\ i - 1 \in DOMAIN s /\ r[i] = s[i - 1]
      BY <1>1, InSeq
    <3>4. j \in 2 .. Len(s) + 1 => s[j - 1] # b /\ j - 1 \in DOMAIN s /\ r[j] = s[j - 1]
      BY <1>1, InSeq
    <3>5. i \in 2 .. Len(s) + 1 /\ j \in 2 .. Len(s) + 1 => i - 1 = j - 1
      BY <2>1, <3>3, <3>4 DEF Once
    <3>6. CASE i = 1
      BY <1>1, <2>1, <3>2, <3>4, <3>6
    <3>7. CASE j = 1
      BY <1>1, <2>1, <3>1, <3>3, <3>7
    <3>8. CASE i \in 2 .. Len(s) + 1 /\ j \in 2 .. Len(s) + 1
      BY <1>1, <3>5, <3>8
    <3>. QED  BY <3>1, <3>2, <3>6, <3>7, <3>8
  <2>. QED  BY <2>1 DEF Once
<1>4. ASSUME NEW c PROVE c \in ToSet(r) <=> c = b \/ c \in ToSet(s)
  <2>1. b \in ToSet(r)
    <3>1. 1 \in DOMAIN r
      BY <1>1
    <3>. QED  BY <1>1, <3>1, InSeq
  <2>2. c \in ToSet(s) => c \in ToSet(r)
    BY <1>2, InSeq
  <2>3. ASSUME c \in ToSet(r), c # b PROVE c \in ToSet(s)
    <3>1. PICK i \in DOMAIN r : r[i] = c
      BY <2>3, InSeq
    <3>2. i \in 2 .. Len(s) + 1
      BY <1>1, <2>3, <3>1
    <3>. QED  BY <1>1, <3>1, <3>2, InSeq
  <2>. QED  BY <2>1, <2>2, <2>3
<1>. QED  BY <1>1, <1>3, <1>4 DEF r

\* A list is cut in two.
LEMMA CutList ==
  ASSUME NEW s \in Seq(Nat), Once(s), NEW m \in Nat, m <= Len(s)
  PROVE  LET p == SubSeq(s, 1, m)
             r == SubSeq(s, m + 1, Len(s))
         IN  /\ p \in Seq(Nat) /\ Len(p) = m /\ Once(p)
             /\ r \in Seq(Nat) /\ Len(r) = Len(s) - m /\ Once(r)
             /\ \A b : b \in ToSet(s) <=> b \in ToSet(p) \/ b \in ToSet(r)
             /\ \A b : ~(b \in ToSet(p) /\ b \in ToSet(r))
<1> DEFINE p == SubSeq(s, 1, m)
           r == SubSeq(s, m + 1, Len(s))
<1>1. /\ p \in Seq(Nat) /\ Len(p) = m /\ DOMAIN p = 1 .. m /\ \A i \in 1 .. m : p[i] = s[i]
      /\ Len(s) \in Nat /\ DOMAIN s = 1 .. Len(s)
  OBVIOUS
<1>2. /\ r \in Seq(Nat) /\ Len(r) = Len(s) - m /\ DOMAIN r = 1 .. Len(s) - m
      /\ \A i \in 1 .. Len(s) - m : r[i] = s[i + m]
  OBVIOUS
<1>. HIDE DEF p, r
<1>3. Once(p) /\ Once(r)
  <2>1. Once(p)
    <3>1. \A i \in DOMAIN p : i \in DOMAIN s /\ p[i] = s[i]
      BY <1>1
    <3>. QED  BY <3>1 DEF Once
  <2>2. ASSUME NEW i \in DOMAIN r, NEW j \in DOMAIN r, r[i] = r[j] PROVE i = j
    <3>0. i \in 1 .. Len(s) - m /\ j \in 1 .. Len(s) - m
      BY <1>2
    <3>1. i + m \in DOMAIN s /\ j + m \in DOMAIN s
      BY <1>1, <3>0
    <3>3. r[i] = s[i + m] /\ r[j] = s[j + m]
      BY <1>2, <3>0
    <3>2. i + m = j + m
      BY <2>2, <3>1, <3>3 DEF Once
    <3>. QED  BY <1>2, <3>2
  <2>. QED  BY <2>1, <2>2 DEF Once
<1>4. \A i \in DOMAIN s : IF i <= m THEN i \in DOMAIN p /\ p[i] = s[i]
                          ELSE i - m \in DOMAIN r /\ r[i - m] = s[i]
  BY <1>1, <1>2
<1>5. ASSUME NEW b PROVE b \in ToSet(s) <=> b \in ToSet(p) \/ b \in ToSet(r)
  <2>1. b \in ToSet(s) => b \in ToSet(p) \/ b \in ToSet(r)
    BY <1>4, InSeq
  <2>2. b \in ToSet(p) => b \in ToSet(s)
    BY <1>1, InSeq
  <2>3. b \in ToSet(r) => b \in ToSet(s)
    <3>1. ASSUME NEW i \in DOMAIN r PROVE i + m \in DOMAIN s /\ r[i] = s[i + m]
      <4>1. i \in 1 .. Len(s) - m
        BY <1>2
      <4>2. r[i] = s[i + m]
        BY <1>2, <4>1
      <4>3. i + m \in 1 .. Len(s)
        BY <1>1, <4>1
      <4>. QED  BY <1>1, <4>2, <4>3
    <3>. QED  BY <3>1, InSeq
  <2>. QED  BY <2>1, <2>2, <2>3
<1>6. ASSUME NEW b, b \in ToSet(p), b \in ToSet(r) PROVE FALSE
  <2>1. PICK i \in DOMAIN p : p[i] = b
    BY <1>6, InSeq
  <2>2. PICK j \in DOMAIN r : r[j] = b
    BY <1>6, InSeq
  <2>3. i \in DOMAIN s /\ p[i] = s[i] /\ i <= m
    BY <1>1
  <2>0. j \in 1 .. Len(s) - m
    BY <1>2
  <2>4. /\ j + m \in DOMAIN s /\ j + m > m
        /\ r[j] = s[j + m]
    <3>1. r[j] = s[j + m]
      BY <1>2, <2>0
    <3>2. j + m \in 1 .. Len(s) /\ j + m > m
      BY <1>1, <2>0
    <3>. QED  BY <1>1, <3>1, <3>2
  <2>5. s[i] = s[j + m] /\ i # j + m
    BY <1>1, <2>1, <2>2, <2>3, <2>4
  <2>. QED  BY <2>3, <2>4, <2>5 DEF Once
<1>7. /\ p \in Seq(Nat) /\ Len(p) = m /\ Once(p)
      /\ r \in Seq(Nat) /\ Len(r) = Len(s) - m /\ Once(r)
      /\ \A b : b \in ToSet(s) <=> b \in ToSet(p) \/ b \in ToSet(r)
      /\ \A b : ~(b \in ToSet(p) /\ b \in ToSet(r))
  BY <1>1, <1>2, <1>3, <1>5, <1>6
<1>. QED  BY <1>7 DEF p, r

\* Two lists are joined.
LEMMA JoinLists ==
  ASSUME NEW s \in Seq(Nat), Once(s), NEW r \in Seq(Nat), Once(r),
         \A b \in Nat : ~(b \in ToSet(s) /\ b \in ToSet(r))
  PROVE  /\ s \o r \in Seq(Nat) /\ Once(s \o r)
         /\ \A b : b \in ToSet(s \o r) <=> b \in ToSet(s) \/ b \in ToSet(r)
<1> DEFINE q == s \o r
<1>1. /\ q \in Seq(Nat) /\ DOMAIN q = 1 .. Len(s) + Len(r)
      /\ \A i \in 1 .. Len(s) : q[i] = s[i]
      /\ \A i \in Len(s) + 1 .. Len(s) + Len(r) : q[i] = r[i - Len(s)]
      /\ Len(s) \in Nat /\ DOMAIN s = 1 .. Len(s) /\ Len(r) \in Nat /\ DOMAIN r = 1 .. Len(r)
  OBVIOUS
<1>2. \A i \in DOMAIN s, j \in DOMAIN r : s[i] # r[j]
  <2>1. \A i \in DOMAIN s : s[i] \in Nat
    BY ElementOf
  <2>. QED  BY <2>1, InSeq
<1>. HIDE DEF q
<1>3. \A i \in DOMAIN q : \/ i \in DOMAIN s /\ q[i] = s[i]
                          \/ i - Len(s) \in DOMAIN r /\ q[i] = r[i - Len(s)]
  <2>1. ASSUME NEW i \in DOMAIN q
        PROVE  \/ i \in DOMAIN s /\ q[i] = s[i]
               \/ i - Len(s) \in DOMAIN r /\ q[i] = r[i - Len(s)]
    <3>1. CASE i <= Len(s)
      BY <1>1, <3>1
    <3>2. CASE i > Len(s)
      <4>1. i \in Len(s) + 1 .. Len(s) + Len(r) /\ i - Len(s) \in DOMAIN r
        BY <1>1, <3>2
      <4>. QED  BY <1>1, <4>1
    <3>. QED  BY <1>1, <3>1, <3>2
  <2>. QED  BY <2>1
<1>4. Once(q)
  <2>1. ASSUME NEW i \in DOMAIN q, NEW j \in DOMAIN q, q[i] = q[j] PROVE i = j
    <3>1. \/ i \in DOMAIN s /\ q[i] = s[i]
          \/ i - Len(s) \in DOMAIN r /\ q[i] = r[i - Len(s)]
      BY <1>3
    <3>2. \/ j \in DOMAIN s /\ q[j] = s[j]
          \/ j - Len(s) \in DOMAIN r /\ q[j] = r[j - Len(s)]
      BY <1>3
    <3>3. (i \in DOMAIN s /\ j \in DOMAIN s) \/ i - Len(s) = j - Len(s)
      BY <1>2, <2>1, <3>1, <3>2 DEF Once
    <3>. QED  BY <1>1, <1>2, <2>1, <3>1, <3>2, <3>3 DEF Once
  <2>. QED  BY <2>1 DEF Once
<1>5. ASSUME NEW b PROVE b \in ToSet(q) <=> b \in ToSet(s) \/ b \in ToSet(r)
  <2>1. b \in ToSet(q) => b \in ToSet(s) \/ b \in ToSet(r)
    BY <1>3, InSeq
  <2>2. b \in ToSet(s) => b \in ToSet(q)
    <3>1. \A i \in DOMAIN s : i \in DOMAIN q /\ q[i] = s[i]
      BY <1>1
    <3>. QED  BY <3>1, InSeq
  <2>3. b \in ToSet(r) => b \in ToSet(q)
    <3>1. ASSUME NEW i \in DOMAIN r
          PROVE  i + Len(s) \in DOMAIN q /\ q[i + Len(s)] = r[i]
      <4>0. i \in 1 .. Len(r) /\ Len(s) \in Nat /\ Len(r) \in Nat
        BY <1>1
      <4>1. i + Len(s) \in Len(s) + 1 .. Len(s) + Len(r) /\ (i + Len(s)) - Len(s) = i
        BY ONLY <4>0
      <4>2. i + Len(s) \in 1 .. Len(s) + Len(r)
        BY <1>1, <4>1
      <4>3. q[i + Len(s)] = r[i]
        BY <1>1, <4>1
      <4>. QED  BY <1>1, <4>2, <4>3
    <3>. QED  BY <3>1, InSeq
  <2>. QED  BY <2>1, <2>2, <2>3
<1>. QED  BY <1>1, <1>4, <1>5 DEF q

\* The blocks of the k-th chunk that is made.
LEMMA NewChunk ==
  ASSUME NEW k \in Nat, k > 0
  PROVE  /\ NewBlocks(k) \in Seq(Nat) /\ Len(NewBlocks(k)) = chunkSize
         /\ Once(NewBlocks(k))
         /\ \A b \in Nat : b \in ToSet(NewBlocks(k))
              <=> (k - 1) * chunkSize < b /\ b <= (k - 1) * chunkSize + chunkSize
<1> DEFINE n == (k - 1) * chunkSize
           s == NewBlocks(k)
<1>1. n \in Nat /\ chunkSize \in Nat
  BY Numbers, OneMore
<1>. HIDE DEF n
<1>2. s = [i \in 1 .. chunkSize |-> n + i]
  BY DEF NewBlocks, n
<1>3. s \in Seq(Nat) /\ Len(s) = chunkSize /\ DOMAIN s = 1 .. chunkSize
      /\ \A i \in 1 .. chunkSize : s[i] = n + i
  BY <1>1, <1>2
<1>. HIDE DEF s
<1>4. Once(s)
  BY <1>1, <1>3 DEF Once
<1>5. ASSUME NEW b \in Nat
      PROVE  b \in ToSet(s) <=> n < b /\ b <= n + chunkSize
  <2>1. n < b /\ b <= n + chunkSize => b - n \in DOMAIN s /\ s[b - n] = b
    BY <1>1, <1>3
  <2>. QED  BY <1>1, <1>3, <2>1, InSeq
<1>. QED  BY <1>3, <1>4, <1>5 DEF n, s

-----------------------------------------------------------------------------
(***************************************************************************)
(* The stack.                                                              *)
(***************************************************************************)
\* The stack is what can be reached from the top.
LEMMA StackIs == /\ Stack = Reach(topChunk.addr, nextChunk)
                 /\ Stack' = Reach(topChunk'.addr, nextChunk')
  BY DEF Stack, Reach, Linked, LinkedBy

\* It is linked, and in every set that is.
LEMMA ReachLinked ==
  ASSUME NEW a \in Headers \cup {NULL}, NEW nx \in [Headers -> Headers \cup {NULL}]
  PROVE  /\ Reach(a, nx) \subseteq Headers /\ LinkedBy(a, nx, Reach(a, nx))
         /\ \A S \in SUBSET Headers : LinkedBy(a, nx, S) => Reach(a, nx) \subseteq S
<1>1. a \in Reach(a, nx) \cup {NULL}
  BY DEF Reach, LinkedBy
<1>2. ASSUME NEW h \in Reach(a, nx), nx[h] # NULL PROVE nx[h] \in Reach(a, nx)
  <2>1. nx[h] \in Headers
    BY <1>2 DEF Reach
  <2>2. ASSUME NEW S \in SUBSET Headers, LinkedBy(a, nx, S) PROVE nx[h] \in S
    BY <1>2, <2>2 DEF Reach, LinkedBy
  <2>. QED  BY <2>1, <2>2 DEF Reach
<1>3. LinkedBy(a, nx, Reach(a, nx))
  BY <1>1, <1>2 DEF LinkedBy
<1>. QED  BY <1>3 DEF Reach

\* Popping takes away the top.
LEMMA ReachPop ==
  ASSUME NEW a \in Headers, NEW nx \in [Headers -> Headers \cup {NULL}],
         \A h \in Reach(a, nx) : nx[h] # a
  PROVE  a \in Reach(a, nx) /\ Reach(nx[a], nx) = Reach(a, nx) \ {a}
<1> DEFINE R == Reach(a, nx)
           Q == Reach(nx[a], nx)
<1>1. /\ R \subseteq Headers /\ LinkedBy(a, nx, R)
      /\ \A S \in SUBSET Headers : LinkedBy(a, nx, S) => R \subseteq S
  BY ReachLinked
<1>2. nx[a] \in Headers \cup {NULL}
  OBVIOUS
<1>3. /\ Q \subseteq Headers /\ LinkedBy(nx[a], nx, Q)
      /\ \A S \in SUBSET Headers : LinkedBy(nx[a], nx, S) => Q \subseteq S
  BY <1>2, ReachLinked
<1>4. a \in R
  BY <1>1, Numbers DEF LinkedBy
<1>. HIDE DEF R, Q
<1>5. LinkedBy(nx[a], nx, R \ {a})
  <2>1. \A h \in R : nx[h] # a
    BY DEF R
  <2>. QED  BY <1>1, <1>4, <2>1 DEF LinkedBy
<1>6. Q \subseteq R \ {a}
  BY <1>1, <1>3, <1>5
<1>7. LinkedBy(a, nx, Q \cup {a})
  BY <1>3 DEF LinkedBy
<1>8. R \subseteq Q \cup {a}
  BY <1>1, <1>3, <1>7
<1>. QED  BY <1>4, <1>6, <1>8 DEF R, Q

\* Pushing adds one.
LEMMA ReachPush ==
  ASSUME NEW a \in Headers \cup {NULL}, NEW nx \in [Headers -> Headers \cup {NULL}],
         NEW h \in Headers, h \notin Reach(a, nx), nx[h] = a
  PROVE  Reach(h, nx) = Reach(a, nx) \cup {h}
<1> DEFINE R == Reach(a, nx)
           Q == Reach(h, nx)
<1>1. /\ R \subseteq Headers /\ LinkedBy(a, nx, R)
      /\ \A S \in SUBSET Headers : LinkedBy(a, nx, S) => R \subseteq S
  BY ReachLinked
<1>2. /\ Q \subseteq Headers /\ LinkedBy(h, nx, Q)
      /\ \A S \in SUBSET Headers : LinkedBy(h, nx, S) => Q \subseteq S
  BY ReachLinked
<1>. HIDE DEF R, Q
<1>3. LinkedBy(h, nx, R \cup {h})
  BY <1>1 DEF LinkedBy
<1>4. h \in Q
  BY <1>2, Numbers DEF LinkedBy
<1>5. LinkedBy(a, nx, Q)
  BY <1>2, <1>4 DEF LinkedBy
<1>. QED  BY <1>1, <1>2, <1>3, <1>4, <1>5 DEF R, Q

\* Writing a header that is not in it does not change it.
LEMMA ReachWrite ==
  ASSUME NEW a \in Headers \cup {NULL}, NEW nx \in [Headers -> Headers \cup {NULL}],
         NEW h \in Headers, h \notin Reach(a, nx),
         NEW nw \in [Headers -> Headers \cup {NULL}],
         \A g \in Headers \ {h} : nw[g] = nx[g]
  PROVE  Reach(a, nw) = Reach(a, nx)
<1> DEFINE R == Reach(a, nx)
           Q == Reach(a, nw)
<1>1. /\ R \subseteq Headers /\ LinkedBy(a, nx, R)
      /\ \A S \in SUBSET Headers : LinkedBy(a, nx, S) => R \subseteq S
  BY ReachLinked
<1>2. /\ Q \subseteq Headers /\ LinkedBy(a, nw, Q)
      /\ \A S \in SUBSET Headers : LinkedBy(a, nw, S) => Q \subseteq S
  BY ReachLinked
<1>3. h \notin R
  OBVIOUS
<1>. HIDE DEF R, Q
<1>4. LinkedBy(a, nw, R)
  BY <1>1, <1>3 DEF LinkedBy
<1>5. Q \subseteq R
  BY <1>1, <1>2, <1>4
<1>6. LinkedBy(a, nx, Q)
  BY <1>1, <1>2, <1>3, <1>5 DEF LinkedBy
<1>7. R \subseteq Q
  BY <1>1, <1>2, <1>6
<1>. QED  BY <1>5, <1>7 DEF R, Q

\* At the start it has all chunks: the first that was not reached would be behind one
\* that was.
LEMMA ReachAll ==
  ASSUME NEW n \in Nat, n <= MaxChunks, NEW nx \in [Headers -> Headers \cup {NULL}],
         nx = [h \in Headers |-> IF h < n THEN h + 1 ELSE NULL]
  PROVE  Reach(IF n = 0 THEN NULL ELSE 1, nx) = 1 .. n
<1> DEFINE a == IF n = 0 THEN NULL ELSE 1
           R == Reach(a, nx)
<1>1. 1 .. n \subseteq Headers /\ a \in Headers \cup {NULL}
  BY PoolAssumption DEF Headers
<1>2. /\ R \subseteq Headers /\ LinkedBy(a, nx, R)
      /\ \A S \in SUBSET Headers : LinkedBy(a, nx, S) => R \subseteq S
  BY <1>1, ReachLinked
<1>3. LinkedBy(a, nx, 1 .. n)
  BY <1>1 DEF LinkedBy
<1>4. R \subseteq 1 .. n
  BY <1>1, <1>2, <1>3
<1>. HIDE DEF R
<1>5. ASSUME (1 .. n) \ R # {} PROVE FALSE
  <2> DEFINE T == (1 .. n) \ R
  <2>0. T \subseteq Nat /\ T # {}
    BY <1>5
  <2>. HIDE DEF T
  <2>1. PICK m \in T : \A k \in T : m <= k
    BY <2>0, LeastOf
  <2>. USE DEF T
  <2>2. m # 1
    BY <1>2, <2>1, Numbers DEF LinkedBy, NULL
  <2>3. m - 1 \in R /\ m - 1 \in Headers /\ m - 1 < n
    BY <1>1, <2>1, <2>2
  <2>4. nx[m - 1] = m
    BY <2>3
  <2>. QED  BY <1>2, <2>1, <2>3, <2>4 DEF LinkedBy, NULL
<1>. QED  BY <1>4, <1>5 DEF R

-----------------------------------------------------------------------------
(***************************************************************************)
(* What steps have in common.                                              *)
(***************************************************************************)
\* Places are different ones.
LEMMA PlacesApart ==
  /\ HELD # GONE /\ HELD # LEFT /\ GONE # LEFT
  /\ \A t : CACHE(t) # HELD /\ CACHE(t) # GONE /\ CACHE(t) # LEFT
  /\ \A h : CHUNK(h) # HELD /\ CHUNK(h) # GONE /\ CHUNK(h) # LEFT
  /\ \A t, h : CACHE(t) # CHUNK(h)
  /\ \A t, u : CACHE(t) = CACHE(u) => t = u
  /\ \A h, k : CHUNK(h) = CHUNK(k) => h = k
  /\ HELD \in Places /\ GONE \in Places /\ LEFT \in Places
  /\ \A t \in Threads : CACHE(t) \in Places
  /\ \A h \in Headers : CHUNK(h) \in Places
  BY DEF HELD, GONE, LEFT, CACHE, CHUNK, Places

\* Nothing is moved, and nothing made.
LEMMA BlocksStay ==
  ASSUME Distinct, Blocked, UNCHANGED <<made, held, gone, freeChunk, cache, content>>
  PROVE  Distinct' /\ Blocked'
<1>1. PICK w : Placed(w)
  BY DEF Blocked
<1>2. Placed(w)'
  BY <1>1 DEF Placed, Made
<1>. QED  BY <1>2 DEF Blocked, Distinct

\* The blocks X, which may be new, are put each in the place v says, the others stay.
Moves(X, v) ==
  /\ \A b \in Nat : b \in Made' <=> b \in Made \/ b \in X
  /\ \A b \in X : v[b] \in Places
  /\ \A b \in Nat : b \in held' <=> IF b \in X THEN v[b] = HELD ELSE b \in held
  /\ \A b \in Nat : b \in gone' <=> IF b \in X THEN v[b] = GONE ELSE b \in gone
  /\ \A b \in Nat : b \in ToSet(freeChunk')
                       <=> IF b \in X THEN v[b] = LEFT ELSE b \in ToSet(freeChunk)
  /\ \A b \in Nat, t \in Threads :
       b \in ToSet(cache'[t])
         <=> IF b \in X THEN v[b] = CACHE(t) ELSE b \in ToSet(cache[t])
  /\ \A b \in Nat, h \in Headers :
       b \in ToSet(content'[h])
         <=> IF b \in X THEN v[b] = CHUNK(h) ELSE b \in ToSet(content[h])

\* Blocks that are moved so are each in one place again.
LEMMA BlocksMove ==
  ASSUME Blocked, NEW X \in SUBSET Nat, NEW v, Moves(X, v)
  PROVE  Blocked'
<1>1. PICK w : Placed(w)
  BY DEF Blocked
<1> DEFINE z == [b \in Nat |-> IF b \in X THEN v[b] ELSE w[b]]
<1>2. \A b \in Nat : z[b] = IF b \in X THEN v[b] ELSE w[b]
  OBVIOUS
<1>. HIDE DEF z
<1>3. Made' \subseteq Nat
  BY DEF Made
<1>4. \A b \in Made' : z[b] \in Places
  BY <1>1, <1>2, <1>3 DEF Placed, Moves
<1>5. \A b \in Nat : b \in held' <=> b \in Made' /\ z[b] = HELD
  BY <1>1, <1>2 DEF Placed, Moves
<1>6. \A b \in Nat : b \in gone' <=> b \in Made' /\ z[b] = GONE
  BY <1>1, <1>2 DEF Placed, Moves
<1>7. \A b \in Nat : b \in ToSet(freeChunk') <=> b \in Made' /\ z[b] = LEFT
  BY <1>1, <1>2 DEF Placed, Moves
<1>8. \A b \in Nat, t \in Threads :
        b \in ToSet(cache'[t]) <=> b \in Made' /\ z[b] = CACHE(t)
  BY <1>1, <1>2 DEF Placed, Moves
<1>9. \A b \in Nat, h \in Headers :
        b \in ToSet(content'[h]) <=> b \in Made' /\ z[b] = CHUNK(h)
  BY <1>1, <1>2 DEF Placed, Moves
<1>10. Placed(z)'
  BY <1>4, <1>5, <1>6, <1>7, <1>8, <1>9 DEF Placed
<1>. QED  BY <1>10 DEF Blocked

\* A block is in one place.
LEMMA InOnePlace ==
  ASSUME Blocked
  PROVE  /\ \A b \in Nat : (b \in held \/ b \in gone) => b \in Made
         /\ ToSet(freeChunk) \cap Nat \subseteq Made
         /\ \A t \in Threads : ToSet(cache[t]) \cap Nat \subseteq Made
         /\ \A h \in Headers : ToSet(content[h]) \cap Nat \subseteq Made
         /\ \A b \in Nat :
              /\ b \in held => /\ b \notin gone /\ b \notin ToSet(freeChunk)
                               /\ \A t \in Threads : b \notin ToSet(cache[t])
                               /\ \A h \in Headers : b \notin ToSet(content[h])
              /\ b \in gone => /\ b \notin ToSet(freeChunk)
                               /\ \A t \in Threads : b \notin ToSet(cache[t])
                               /\ \A h \in Headers : b \notin ToSet(content[h])
              /\ b \in ToSet(freeChunk) =>
                               /\ \A t \in Threads : b \notin ToSet(cache[t])
                               /\ \A h \in Headers : b \notin ToSet(content[h])
              /\ \A t \in Threads : b \in ToSet(cache[t]) =>
                               /\ \A u \in Threads : b \in ToSet(cache[u]) => u = t
                               /\ \A h \in Headers : b \notin ToSet(content[h])
              /\ \A h, k \in Headers :
                   b \in ToSet(content[h]) /\ b \in ToSet(content[k]) => h = k
<1>1. PICK w : Placed(w)
  BY DEF Blocked
<1>2. Made \subseteq Nat
  BY DEF Made
<1>3. ASSUME NEW b \in Nat, b \in held
      PROVE  /\ b \notin gone /\ b \notin ToSet(freeChunk)
             /\ \A t \in Threads : b \notin ToSet(cache[t])
             /\ \A h \in Headers : b \notin ToSet(content[h])
  BY <1>1, <1>3, PlacesApart DEF Placed
<1>4. ASSUME NEW b \in Nat, b \in gone
      PROVE  /\ b \notin ToSet(freeChunk)
             /\ \A t \in Threads : b \notin ToSet(cache[t])
             /\ \A h \in Headers : b \notin ToSet(content[h])
  BY <1>1, <1>4, PlacesApart DEF Placed
<1>5. ASSUME NEW b \in Nat, b \in ToSet(freeChunk)
      PROVE  /\ \A t \in Threads : b \notin ToSet(cache[t])
             /\ \A h \in Headers : b \notin ToSet(content[h])
  BY <1>1, <1>5, PlacesApart DEF Placed
<1>6. ASSUME NEW b \in Nat, NEW t \in Threads, b \in ToSet(cache[t])
      PROVE  /\ \A u \in Threads : b \in ToSet(cache[u]) => u = t
             /\ \A h \in Headers : b \notin ToSet(content[h])
  BY <1>1, <1>6, PlacesApart DEF Placed
<1>7. ASSUME NEW b \in Nat, NEW h \in Headers, NEW k \in Headers,
             b \in ToSet(content[h]), b \in ToSet(content[k])
      PROVE  h = k
  BY <1>1, <1>7, PlacesApart DEF Placed
<1>8. /\ ToSet(freeChunk) \cap Nat \subseteq Made
      /\ \A t \in Threads : ToSet(cache[t]) \cap Nat \subseteq Made
      /\ \A h \in Headers : ToSet(content[h]) \cap Nat \subseteq Made
  BY <1>1 DEF Placed
<1>9. \A b \in Nat : (b \in held \/ b \in gone) => b \in Made
  BY <1>1 DEF Placed
<1>. QED  BY <1>3, <1>4, <1>5, <1>6, <1>7, <1>8, <1>9

\* The top is in the stack.
LEMMA TopIn ==
  ASSUME Types
  PROVE  topChunk.addr \in Stack \cup {NULL} /\ Stack \subseteq Headers
  BY StackIs, ReachLinked DEF Types, Tops, LinkedBy

\* Nothing happens to the stack, and nobody has a chunk that had none.
LEMMA StackStays ==
  ASSUME Types, StampSince, Seen, OnePath, Hands,
         NEW t \in Threads, NEW x \in Steps, pc' = [pc EXCEPT ![t] = x],
         pc[t] \notin {"took", "push", "pushSwap"},
         x \notin {"next", "swap", "took", "push", "pushSwap"},
         UNCHANGED <<topChunk, nextChunk, localTop, next, chunk, since>>
  PROVE  /\ StampSince' /\ Seen' /\ OnePath' /\ Hands'
         /\ Stack' = Stack /\ InHands' = InHands
<1>1. Stack' = Stack /\ InHands' = InHands
  BY DEF Stack, Linked, InHands
<1>2. /\ pc'[t] = x /\ \A u \in Threads \ {t} : pc'[u] = pc[u]
  BY DEF Types
<1>3. StampSince'
  BY <1>2 DEF StampSince, Swapping
<1>4. Seen'
  BY <1>2 DEF Seen, Swapping
<1>5. OnePath'
  BY <1>1 DEF OnePath
<1>6. Hands'
  BY <1>1, <1>2 DEF Hands
<1>. QED  BY <1>1, <1>3, <1>4, <1>5, <1>6

\* A thread that has no chunk takes a header from the heap and fills it.
LEMMA HeaderFilled ==
  ASSUME Types, StampSince, Seen, OnePath, Hands, Full,
         NEW t \in Threads, NEW x \in {"took", "push"}, pc' = [pc EXCEPT ![t] = x],
         pc[t] \notin {"took", "push", "pushSwap"},
         NEW h \in InHeap, NEW bs \in Seq(Nat), Len(bs) = chunkSize,
         chunk' = [chunk EXCEPT ![t] = h], content' = [content EXCEPT ![h] = bs],
         nextChunk' = [nextChunk EXCEPT ![h] = NULL],
         UNCHANGED <<topChunk, localTop, next, since>>
  PROVE  /\ StampSince' /\ Seen' /\ OnePath' /\ Hands' /\ Full'
         /\ chunk' \in [Threads -> Headers \cup {NULL}]
         /\ content' \in [Headers -> Seq(Nat)]
         /\ nextChunk' \in [Headers -> Headers \cup {NULL}]
<1>1. h \in Headers /\ content[h] = <<>> /\ Len(content[h]) = 0
  BY DEF InHeap
<1>2. h \notin Stack /\ h \notin InHands
  BY <1>1, Numbers DEF Full
<1>3. Stack' = Stack
  <2>1. NULL \in Headers \cup {NULL} /\ topChunk.addr \in Headers \cup {NULL}
    BY DEF Types, Tops
  <2>2. h \notin Reach(topChunk.addr, nextChunk)
    BY <1>2, StackIs
  <2>3. nextChunk \in [Headers -> Headers \cup {NULL}]
    BY DEF Types
  <2>4. /\ topChunk' = topChunk /\ nextChunk' \in [Headers -> Headers \cup {NULL}]
        /\ \A g \in Headers \ {h} : nextChunk'[g] = nextChunk[g]
    BY <1>1, <2>1, <2>3
  <2>5. PICK a \in Headers \cup {NULL} : a = topChunk.addr
    BY <2>1
  <2>6. PICK nx \in [Headers -> Headers \cup {NULL}] : nx = nextChunk
    BY <2>3
  <2>7. PICK nw \in [Headers -> Headers \cup {NULL}] : nw = nextChunk'
    BY <2>4
  <2>8. /\ h \in Headers /\ a \in Headers \cup {NULL}
        /\ nx \in [Headers -> Headers \cup {NULL}] /\ nw \in [Headers -> Headers \cup {NULL}]
        /\ h \notin Reach(a, nx) /\ \A g \in Headers \ {h} : nw[g] = nx[g]
    BY <1>1, <2>2, <2>4, <2>5, <2>6, <2>7
  <2>9. Reach(a, nw) = Reach(a, nx)
    BY ONLY <2>8, ReachWrite, SMTT(30)
  <2>10. Stack = Reach(a, nx) /\ Stack' = Reach(a, nw)
    BY <2>4, <2>5, <2>6, <2>7, StackIs
  <2>. QED  BY <2>9, <2>10
<1>4. /\ pc'[t] = x /\ \A u \in Threads \ {t} : pc'[u] = pc[u]
      /\ chunk'[t] = h /\ \A u \in Threads \ {t} : chunk'[u] = chunk[u]
      /\ content'[h] = bs /\ \A g \in Headers \ {h} : content'[g] = content[g]
      /\ \A g \in Headers \ {h} : nextChunk'[g] = nextChunk[g]
      /\ chunk[t] = NULL
  BY <1>1 DEF Types, Hands
<1>5. InHands' = InHands \cup {h}
  BY <1>1, <1>4, Numbers DEF InHands
<1>6. StampSince'
  BY <1>4 DEF StampSince, Swapping
<1>7. \A u \in Threads : chunk[u] # h
  BY <1>1, <1>2, Numbers DEF InHands
<1>8. Stack \subseteq Headers
  BY DEF Stack
<1>9. Seen'
  <2>1. SUFFICES ASSUME NEW u \in Threads, u # t
                 PROVE  /\ pc[u] \in {"next", "swap"} => localTop[u].addr # NULL
                        /\ since[u] = 0 =>
                             /\ pc[u] \in Swapping => localTop[u] = topChunk
                             /\ pc[u] = "swap" => next[u] = nextChunk'[localTop[u].addr]
                             /\ pc[u] = "pushSwap" =>
                                  nextChunk'[chunk[u]] = localTop[u].addr
    BY <1>4 DEF Seen, Swapping
  <2>2. pc[u] \in {"next", "swap"} => localTop[u].addr # NULL
    BY DEF Seen
  <2>3. ASSUME since[u] = 0, pc[u] \in Swapping PROVE localTop[u] = topChunk
    BY <2>3 DEF Seen
  <2>4. ASSUME since[u] = 0, pc[u] = "swap" PROVE next[u] = nextChunk'[localTop[u].addr]
    <3>1. localTop[u] = topChunk /\ topChunk.addr \in Headers
      BY <2>4 DEF Seen, Swapping, Types, Tops
    <3>2. topChunk.addr \in Stack
      BY <3>1, TopIn, Numbers
    <3>. QED  BY <1>2, <1>4, <2>4, <3>1, <3>2 DEF Seen
  <2>5. ASSUME since[u] = 0, pc[u] = "pushSwap"
        PROVE  nextChunk'[chunk[u]] = localTop[u].addr
    <3>1. chunk[u] \in Headers
      BY <2>5 DEF Hands, Types
    <3>. QED  BY <1>4, <1>7, <2>5, <3>1 DEF Seen
  <2>. QED  BY <2>2, <2>3, <2>4, <2>5
<1>10. OnePath'
  BY <1>2, <1>3, <1>4, <1>8 DEF OnePath
<1>11. Hands'
  BY <1>1, <1>2, <1>3, <1>4, <1>7, Numbers DEF Hands
<1>12. Full'
  <2>1. InHands \subseteq Headers
    BY DEF InHands, Types
  <2>2. \A g \in Stack' \cup InHands' : Len(content'[g]) = chunkSize
    BY <1>1, <1>2, <1>3, <1>4, <1>5, <1>8, <2>1 DEF Full
  <2>3. \A g \in Headers \ (Stack' \cup InHands') : content'[g] = <<>>
    BY <1>3, <1>4, <1>5 DEF Full
  <2>. QED  BY <2>2, <2>3 DEF Full
<1>. QED  BY <1>1, <1>6, <1>9, <1>10, <1>11, <1>12, Zenon DEF Types

-----------------------------------------------------------------------------
(***************************************************************************)
(* Every action keeps the invariant.                                       *)
(***************************************************************************)
\* At the start every chunk is in the stack, with its own blocks.
LEMMA InitInv == Init => IInv
<1>. SUFFICES ASSUME Init PROVE IInv
  OBVIOUS
<1> DEFINE n == InitialChunks
<1>1. n \in Nat /\ n <= MaxChunks /\ 1 .. n \subseteq Headers
  BY PoolAssumption DEF Headers
<1>2. /\ nextChunk = [h \in Headers |-> IF h < n THEN h + 1 ELSE NULL]
      /\ topChunk = [addr |-> IF n = 0 THEN NULL ELSE 1, stamp |-> 0]
      /\ content = [h \in Headers |-> IF h <= n THEN NewBlocks(h) ELSE <<>>]
      /\ freeChunk = <<>> /\ cache = [t \in Threads |-> <<>>] /\ held = {} /\ gone = {}
      /\ pc = [t \in Threads |-> "idle"] /\ why = [t \in Threads |-> "alloc"]
      /\ chunk = [t \in Threads |-> NULL] /\ next = [t \in Threads |-> NULL]
      /\ localTop = [t \in Threads |-> [addr |-> NULL, stamp |-> 0]]
      /\ made = n /\ since = [t \in Threads |-> 0] /\ fooled = 0
  BY Zenon DEF Init
<1>. HIDE DEF n
<1>3. nextChunk \in [Headers -> Headers \cup {NULL}]
  BY <1>1, <1>2 DEF Headers
<1>4. Stack = 1 .. n
  BY <1>1, <1>2, <1>3, ReachAll, StackIs
<1>5. InHands = {}
  BY <1>2 DEF InHands
<1>6. /\ \A h \in 1 .. n : content[h] = NewBlocks(h)
      /\ \A h \in Headers \ 1 .. n : content[h] = <<>>
  <2>1. \A h \in Headers : h \in 1 .. n <=> h <= n
    BY <1>1 DEF Headers
  <2>. QED  BY <1>1, <1>2, <2>1
<1>7. \A h \in 1 .. n : /\ content[h] \in Seq(Nat) /\ Len(content[h]) = chunkSize
                        /\ Once(content[h])
                        /\ \A b \in Nat : b \in ToSet(content[h])
                             <=> /\ (h - 1) * chunkSize < b
                                 /\ b <= (h - 1) * chunkSize + chunkSize
  <2>1. ASSUME NEW h \in 1 .. n
        PROVE  h \in Nat /\ h > 0 /\ content[h] = NewBlocks(h)
    BY <1>1, <1>6, <2>1
  <2>. QED  BY <2>1, NewChunk
<1>8. \A h \in Headers : content[h] \in Seq(Nat) /\ Once(content[h])
  <2>1. \A h \in Headers \ 1 .. n : content[h] \in Seq(Nat) /\ Once(content[h])
    BY <1>6, EmptyList
  <2>. QED  BY <1>7, <2>1
<1>9. Types
  <2>1. topChunk \in Tops /\ [addr |-> NULL, stamp |-> 0] \in Tops
    BY <1>1, <1>2, Numbers DEF Tops, Stamps, Headers
  <2>2. content \in [Headers -> Seq(Nat)]
    BY <1>2, <1>8
  <2>3. freeChunk \in Seq(Nat) /\ cache \in [Threads -> Seq(Nat)]
    BY <1>2
  <2>4. pc \in [Threads -> Steps] /\ why \in [Threads -> {"alloc", "free", "end", "collect"}]
    BY <1>2 DEF Steps
  <2>5. /\ localTop \in [Threads -> Tops] /\ next \in [Threads -> Headers \cup {NULL}]
        /\ chunk \in [Threads -> Headers \cup {NULL}]
    BY <1>2, <2>1
  <2>. QED  BY <1>1, <1>2, <1>3, <2>1, <2>2, <2>3, <2>4, <2>5 DEF Types
<1>10. StampSince /\ Seen /\ Hands
  BY <1>2, <1>4, Numbers DEF StampSince, Seen, Hands, Swapping, NULL
<1>11. OnePath
  BY <1>1, <1>2, <1>4, Numbers DEF OnePath, NULL
<1>12. Full
  BY <1>4, <1>5, <1>6, <1>7 DEF Full
<1>13. Lists
  BY <1>2, Numbers, EmptyList DEF Lists
<1>14. Distinct
  BY <1>2, <1>8, EmptyList DEF Distinct
<1>15. Blocked
  <2> DEFINE In(b, h) == (h - 1) * chunkSize < b /\ b <= (h - 1) * chunkSize + chunkSize
             w == [b \in Nat |-> CHUNK(CHOOSE h \in 1 .. n : In(b, h))]
  <2>1. \A h \in 1 .. n : h * chunkSize = (h - 1) * chunkSize + chunkSize
    <3>1. \A h \in 1 .. n : h - 1 \in Nat /\ (h - 1) + 1 = h
      BY <1>1
    <3>. QED  BY <3>1, OneMore, Numbers
  <2>2. ASSUME NEW b \in Made PROVE \E h \in 1 .. n : In(b, h)
    <3>1. b \in 1 .. n * chunkSize
      BY <1>2 DEF Made
    <3>2. PICK h \in 1 .. n : (h - 1) * chunkSize < b /\ b <= h * chunkSize
      BY <1>1, <3>1, ChunkOf, Numbers
    <3>. QED  BY <2>1, <3>2
  <2>3. ASSUME NEW b \in Nat, NEW h \in 1 .. n, NEW k \in 1 .. n, In(b, h), In(b, k)
        PROVE  h = k
    <3>1. ASSUME NEW i \in 1 .. n, NEW j \in 1 .. n, i < j, In(b, i), In(b, j) PROVE FALSE
      <4>1. i * chunkSize <= (j - 1) * chunkSize
        BY <1>1, <3>1, ChunksApart, Numbers
      <4>2. i * chunkSize \in Int /\ (j - 1) * chunkSize \in Int
        BY <1>1, <3>1, Numbers
      <4>3. b <= i * chunkSize /\ (j - 1) * chunkSize < b
        BY <2>1, <3>1
      <4>. QED  BY <4>1, <4>2, <4>3
    <3>2. h < k \/ k < h \/ h = k
      BY <1>1
    <3>. QED  BY <2>3, <3>1, <3>2
  <2>4. ASSUME NEW b \in Nat, NEW h \in 1 .. n, In(b, h) PROVE b \in Made
    <3>1. h * chunkSize <= n * chunkSize
      <4>1. h = n \/ h < n
        BY <1>1
      <4>2. n * chunkSize \in Nat /\ (n - 1) * chunkSize \in Int
        BY <1>1, Numbers
      <4>3. h < n => h * chunkSize <= (n - 1) * chunkSize
        BY <1>1, ChunksApart, Numbers
      <4>4. (n - 1) * chunkSize <= n * chunkSize
        BY <1>1, Numbers
      <4>5. h * chunkSize \in Int
        BY Numbers
      <4>. QED  BY <4>1, <4>2, <4>3, <4>4, <4>5
    <3>2. 0 <= (h - 1) * chunkSize /\ (h - 1) * chunkSize \in Int /\ n * chunkSize \in Int
      BY <1>1, Numbers
    <3>3. b > 0 /\ b <= h * chunkSize
      BY <2>1, <2>4, <3>2
    <3>4. h * chunkSize \in Int
      BY Numbers
    <3>. QED  BY <1>2, <3>1, <3>2, <3>3, <3>4 DEF Made
  <2>5. \A b \in Nat, h \in 1 .. n : b \in ToSet(content[h]) <=> In(b, h)
    BY <1>7
  <2>. HIDE DEF In
  <2>6. ASSUME NEW b \in Made, NEW h \in 1 .. n, In(b, h) PROVE w[b] = CHUNK(h)
    <3>1. b \in Nat
      BY DEF Made
    <3>2. (CHOOSE k \in 1 .. n : In(b, k)) = h
      BY <2>3, <2>6, <3>1
    <3>. QED  BY <3>1, <3>2
  <2>. HIDE DEF w
  <2>7. ASSUME NEW b \in Made PROVE \E h \in 1 .. n : w[b] = CHUNK(h)
    BY <2>2, <2>6
  <2>8. \A b \in Made : w[b] \in Places
    BY <1>1, <2>7, PlacesApart
  <2>9. \A b \in Nat : /\ b \in held <=> b \in Made /\ w[b] = HELD
                       /\ b \in gone <=> b \in Made /\ w[b] = GONE
    BY <1>2, <2>7, PlacesApart
  <2>10. \A s : s = <<>> => ToSet(s) = {}
    BY EmptyList
  <2>11. \A b \in Nat : b \in ToSet(freeChunk) <=> b \in Made /\ w[b] = LEFT
    BY <1>2, <2>7, <2>10, PlacesApart
  <2>12. \A b \in Nat, t \in Threads :
           b \in ToSet(cache[t]) <=> b \in Made /\ w[b] = CACHE(t)
    <3>1. \A t \in Threads : cache[t] = <<>>
      BY <1>2
    <3>. QED  BY <2>7, <2>10, <3>1, PlacesApart
  <2>13. ASSUME NEW b \in Nat, NEW h \in Headers
         PROVE  b \in ToSet(content[h]) <=> b \in Made /\ w[b] = CHUNK(h)
    <3>1. CASE h \in 1 .. n
      BY <2>2, <2>4, <2>5, <2>6, <3>1, PlacesApart
    <3>2. CASE h \notin 1 .. n
      BY <1>6, <2>7, <2>10, <3>2, PlacesApart
    <3>. QED  BY <3>1, <3>2
  <2>14. Placed(w)
    BY <2>8, <2>9, <2>11, <2>12, <2>13 DEF Placed
  <2>. QED  BY <2>14 DEF Blocked
<1>16. Good
  BY <1>9, <1>10, <1>11, <1>12, <1>13, <1>14, <1>15 DEF Good
<1>. QED  BY <1>2, <1>16 DEF IInv, FooledOnlyByWrap

\* What the invariant says, taken apart.
LEMMA GoodParts ==
  ASSUME Good
  PROVE  /\ Types /\ StampSince /\ Seen /\ OnePath /\ Hands /\ Full /\ Lists
         /\ Distinct /\ Blocked
  BY DEF Good

\* A thread reads topChunk_, to pop.
LEMMA ReadTopKeeps ==
  ASSUME Good, fooled = 0, NEW t \in Threads, ReadTop(t)
  PROVE  Good' /\ fooled' = 0
<1> DEFINE x == IF topChunk.addr = NULL THEN "create" ELSE "next"
<1>1. /\ Types /\ StampSince /\ Seen /\ OnePath /\ Hands /\ Full /\ Lists
      /\ Distinct /\ Blocked
  BY GoodParts
<1>2. /\ pc[t] = "top" /\ pc' = [pc EXCEPT ![t] = x]
      /\ localTop' = [localTop EXCEPT ![t] = topChunk] /\ since' = [since EXCEPT ![t] = 0]
      /\ UNCHANGED <<topChunk, nextChunk, content, freeChunk, next, chunk, cache, held, gone,
                     made, fooled, why>>
  BY DEF ReadTop, Goto, chunkVars, freeVars, blockVars
<1>3. x \in {"create", "next"} /\ (x = "next" => topChunk.addr # NULL)
  OBVIOUS
<1>. HIDE DEF x
<1>4. /\ pc'[t] = x /\ localTop'[t] = topChunk /\ since'[t] = 0
      /\ \A u \in Threads \ {t} : /\ pc'[u] = pc[u] /\ localTop'[u] = localTop[u]
                                  /\ since'[u] = since[u]
  BY <1>1, <1>2 DEF Types
<1>5. Types'
  BY <1>1, <1>2, <1>3 DEF Types, Steps
<1>6. Stack' = Stack /\ InHands' = InHands
  BY <1>2 DEF Stack, Linked, InHands
<1>7. StampSince'
  BY <1>1, <1>2, <1>4 DEF StampSince, Types, Tops, Stamps
<1>8. Seen'
  BY <1>1, <1>2, <1>3, <1>4 DEF Seen, Swapping
<1>9. OnePath' /\ Full'
  BY <1>1, <1>2, <1>6 DEF OnePath, Full
<1>10. Hands'
  BY <1>1, <1>2, <1>3, <1>4, <1>6 DEF Hands
<1>11. Lists'
  BY <1>1, <1>2, <1>3, <1>4 DEF Lists
<1>12. Distinct' /\ Blocked'
  BY <1>1, <1>2, BlocksStay
<1>. QED  BY <1>2, <1>5, <1>7, <1>8, <1>9, <1>10, <1>11, <1>12 DEF Good

\* It reads what is behind the chunk it saw.
LEMMA ReadNextChunkKeeps ==
  ASSUME Good, fooled = 0, NEW t \in Threads, ReadNextChunk(t)
  PROVE  Good' /\ fooled' = 0
<1>1. /\ Types /\ StampSince /\ Seen /\ OnePath /\ Hands /\ Full /\ Lists
      /\ Distinct /\ Blocked
  BY GoodParts
<1>2. /\ pc[t] = "next" /\ pc' = [pc EXCEPT ![t] = "swap"]
      /\ next' = [next EXCEPT ![t] = nextChunk[localTop[t].addr]]
      /\ UNCHANGED <<topChunk, nextChunk, content, freeChunk, localTop, chunk, cache, held, gone,
                     made, fooled, since, why>>
  BY DEF ReadNextChunk, Goto, chunkVars, freeVars, blockVars, ghostVars
<1>3. localTop[t].addr \in Headers
  BY <1>1, <1>2 DEF Seen, Types, Tops
<1>4. /\ pc'[t] = "swap" /\ next'[t] = nextChunk[localTop[t].addr]
      /\ \A u \in Threads \ {t} : pc'[u] = pc[u] /\ next'[u] = next[u]
  BY <1>1, <1>2 DEF Types
<1>5. Types'
  <2>1. nextChunk[localTop[t].addr] \in Headers \cup {NULL}
    BY <1>1, <1>3 DEF Types
  <2>. QED  BY <1>1, <1>2, <2>1 DEF Types, Steps
<1>6. Stack' = Stack /\ InHands' = InHands
  BY <1>2 DEF Stack, Linked, InHands
<1>7. StampSince'
  BY <1>1, <1>2, <1>4 DEF StampSince, Swapping
<1>8. Seen'
  BY <1>1, <1>2, <1>3, <1>4, Numbers DEF Seen, Swapping
<1>9. OnePath' /\ Full'
  BY <1>1, <1>2, <1>6 DEF OnePath, Full
<1>10. Hands'
  BY <1>1, <1>2, <1>4, <1>6 DEF Hands
<1>11. Lists'
  BY <1>1, <1>2, <1>4 DEF Lists
<1>12. Distinct' /\ Blocked'
  BY <1>1, <1>2, BlocksStay
<1>. QED  BY <1>2, <1>5, <1>7, <1>8, <1>9, <1>10, <1>11, <1>12 DEF Good

\* It swaps topChunk_: it has the chunk it saw and leaves the ones behind it.
LEMMA PopChunkKeeps ==
  ASSUME Good, fooled = 0, NEW t \in Threads, PopChunk(t)
  PROVE  IInv'
<1>1. /\ Types /\ StampSince /\ Seen /\ OnePath /\ Hands /\ Full /\ Lists
      /\ Distinct /\ Blocked
  BY GoodParts
<1>2. /\ pc[t] = "swap"
      /\ UNCHANGED <<nextChunk, content, freeChunk, localTop, next, cache, held, gone, made, why>>
  BY DEF PopChunk, Goto, freeVars, blockVars
<1>3. Distinct' /\ Blocked'
  BY <1>1, <1>2, BlocksStay
<1>4. CASE topChunk # localTop[t]
  <2>1. pc' = [pc EXCEPT ![t] = "top"] /\ UNCHANGED <<topChunk, since, fooled, chunk>>
    BY <1>4 DEF PopChunk, Goto
  <2>2. /\ StampSince' /\ Seen' /\ OnePath' /\ Hands'
        /\ Stack' = Stack /\ InHands' = InHands
    BY <1>1, <1>2, <2>1, StackStays DEF Steps
  <2>3. Types' /\ Full' /\ Lists'
    BY <1>1, <1>2, <2>1, <2>2 DEF Types, Full, Lists, Steps
  <2>. QED  BY <1>3, <2>1, <2>2, <2>3 DEF Good, IInv, FooledOnlyByWrap
<1>5. CASE topChunk = localTop[t] /\ since[t] # 0
  <2>1. fooled' = since[t] /\ since[t] \in Nat
    BY <1>1, <1>5 DEF PopChunk, SwapTop, Types
  <2>2. since[t] >= StampCount
    <3>1. localTop[t].stamp \in Stamps /\ topChunk.stamp = localTop[t].stamp
      BY <1>1, <1>5 DEF Types, Tops
    <3>2. pc[t] \in Swapping
      BY <1>2 DEF Swapping
    <3>. QED  BY <1>1, <1>5, <2>1, <3>1, <3>2, Numbers DEF StampSince, Stamps
  <2>. QED  BY <1>5, <2>1, <2>2 DEF IInv, FooledOnlyByWrap
<1>6. CASE topChunk = localTop[t] /\ since[t] = 0
  <2> DEFINE a == topChunk.addr
  <2>1. a \in Headers /\ localTop[t].addr = a /\ next[t] = nextChunk[a]
        /\ localTop[t].stamp = topChunk.stamp /\ topChunk.stamp \in Stamps
    BY <1>1, <1>2, <1>6 DEF Seen, Types, Tops
  <2>2. /\ pc' = [pc EXCEPT ![t] = "took"] /\ chunk' = [chunk EXCEPT ![t] = a]
        /\ topChunk' = [addr |-> nextChunk[a], stamp |-> NextStamp(topChunk.stamp)]
        /\ fooled' = 0
    BY <1>6, <2>1 DEF PopChunk, SwapTop, Goto
  <2>3. since' = [u \in Threads |->
                    IF u # t /\ pc[u] \in {"next", "swap", "pushSwap"} THEN since[u] + 1 ELSE 0]
    BY <1>6 DEF PopChunk, SwapTop
  <2>4. a \in Stack /\ Stack' = Stack \ {a} /\ Stack \subseteq Headers
    <3>1. nextChunk \in [Headers -> Headers \cup {NULL}]
      BY <1>1 DEF Types
    <3>2. \A h \in Reach(a, nextChunk) : nextChunk[h] # a
      BY <1>1, StackIs DEF OnePath
    <3>3. a \in Reach(a, nextChunk) /\ Reach(nextChunk[a], nextChunk) = Reach(a, nextChunk) \ {a}
      BY <2>1, <3>1, <3>2, ReachPop
    <3>4. topChunk'.addr = nextChunk[a] /\ nextChunk' = nextChunk
      BY <1>2, <2>2
    <3>. QED  BY <1>1, <3>3, <3>4, StackIs, TopIn
  <2>5. topChunk'.addr = nextChunk[a] /\ topChunk'.stamp = NextStamp(topChunk.stamp)
    BY <2>2
  <2>6. /\ NextStamp(topChunk.stamp) =
             IF topChunk.stamp + 1 = StampCount THEN 0 ELSE topChunk.stamp + 1
        /\ NextStamp(topChunk.stamp) \in Stamps
    BY <2>1, NextStampIs
  <2>7. nextChunk[a] \in Headers \cup {NULL}
    BY <1>1, <2>1 DEF Types
  <2>. HIDE DEF a
  <2>8. /\ pc'[t] = "took" /\ chunk'[t] = a /\ chunk[t] = NULL
        /\ \A u \in Threads \ {t} : pc'[u] = pc[u] /\ chunk'[u] = chunk[u]
        /\ \A u \in Threads : pc[u] \in Swapping /\ u # t => since'[u] = since[u] + 1
    BY <1>1, <1>2, <2>2, <2>3 DEF Types, Swapping, Hands
  <2>9. InHands' = InHands \cup {a}
    BY <2>1, <2>8, Numbers DEF InHands
  <2>10. Types'
    <3>1. since' \in [Threads -> Nat]
      BY <1>1, <2>3 DEF Types
    <3>2. topChunk' \in Tops
      BY <2>2, <2>6, <2>7 DEF Tops
    <3>. QED  BY <1>1, <1>2, <2>1, <2>2, <3>1, <3>2 DEF Types, Steps
  <2>11. StampSince'
    <3>1. ASSUME NEW u \in Threads, pc'[u] \in Swapping, since'[u] < StampCount
          PROVE  \/ topChunk'.stamp = localTop'[u].stamp + since'[u]
                 \/ topChunk'.stamp = localTop'[u].stamp + since'[u] - StampCount
      <4>1. u # t
        BY <2>8, <3>1 DEF Swapping
      <4>2. pc[u] \in Swapping /\ since'[u] = since[u] + 1 /\ localTop'[u] = localTop[u]
        BY <1>2, <2>8, <3>1, <4>1
      <4>3. since[u] \in Nat /\ localTop[u].stamp \in Stamps
        BY <1>1 DEF Types, Tops
      <4>4. \/ topChunk.stamp = localTop[u].stamp + since[u]
            \/ topChunk.stamp = localTop[u].stamp + since[u] - StampCount
        BY <1>1, <3>1, <4>2, <4>3, Numbers DEF StampSince
      <4>. QED  BY <2>1, <2>5, <2>6, <3>1, <4>2, <4>3, <4>4, Numbers DEF Stamps
    <3>. QED  BY <3>1 DEF StampSince
  <2>12. Seen'
    <3>1. ASSUME NEW u \in Threads, pc'[u] \in Swapping
          PROVE  u # t /\ pc[u] = pc'[u] /\ since'[u] # 0 /\ localTop'[u] = localTop[u]
      BY <1>1, <1>2, <2>8, <3>1 DEF Swapping, Types
    <3>. QED  BY <1>1, <3>1 DEF Seen, Swapping
  <2>13. OnePath'
    <3>1. nextChunk[a] = NULL => Stack' = {}
      <4>1. ASSUME nextChunk[a] = NULL PROVE Stack' \subseteq {}
        <5>1. nextChunk \in [Headers -> Headers \cup {NULL}]
          BY <1>1 DEF Types
        <5>2. LinkedBy(NULL, nextChunk, {}) /\ {} \in SUBSET Headers
          BY DEF LinkedBy
        <5>3. Reach(NULL, nextChunk) \subseteq {}
          BY <5>1, <5>2, ReachLinked
        <5>4. topChunk'.addr = NULL /\ nextChunk' = nextChunk
          BY <1>2, <2>5, <4>1
        <5>. QED  BY <5>3, <5>4, StackIs
      <4>. QED  BY <4>1
    <3>. QED  BY <1>1, <1>2, <2>4, <2>5, <3>1 DEF OnePath
  <2>14. Hands'
    <3>1. \A u \in Threads : chunk[u] # a
      BY <1>1, <2>4 DEF Hands
    <3>. QED  BY <1>1, <1>2, <2>1, <2>4, <2>8, <3>1, Numbers DEF Hands
  <2>15. Full'
    BY <1>1, <1>2, <2>4, <2>9 DEF Full
  <2>16. Lists'
    BY <1>1, <1>2, <2>8 DEF Lists
  <2>. QED  BY <1>3, <2>2, <2>10, <2>11, <2>12, <2>13, <2>14, <2>15, <2>16
            DEF Good, IInv, FooledOnlyByWrap
<1>. QED  BY <1>4, <1>5, <1>6

\* There is no chunk: a new one is made, of new blocks.
LEMMA CreateNewChunkKeeps ==
  ASSUME Good, fooled = 0, NEW t \in Threads, CreateNewChunk(t)
  PROVE  Good' /\ fooled' = 0
<1>1. /\ Types /\ StampSince /\ Seen /\ OnePath /\ Hands /\ Full /\ Lists
      /\ Distinct /\ Blocked
  BY GoodParts
<1>2. PICK h \in InHeap : /\ chunk' = [chunk EXCEPT ![t] = h]
                          /\ content' = [content EXCEPT ![h] = NewBlocks(made + 1)]
                          /\ nextChunk' = [nextChunk EXCEPT ![h] = NULL]
  BY DEF CreateNewChunk
<1>3. /\ pc[t] = "create" /\ pc' = [pc EXCEPT ![t] = "took"] /\ made' = made + 1
      /\ UNCHANGED <<topChunk, freeChunk, localTop, next, cache, held, gone, fooled, since, why>>
  BY DEF CreateNewChunk, Goto, freeVars, ghostVars
<1> DEFINE bs == NewBlocks(made + 1)
<1>4. /\ bs \in Seq(Nat) /\ Len(bs) = chunkSize /\ Once(bs)
      /\ \A b \in Nat : b \in ToSet(bs)
           <=> made * chunkSize < b /\ b <= made * chunkSize + chunkSize
  <2>1. made \in Nat /\ made + 1 \in Nat /\ made + 1 > 0 /\ (made + 1) - 1 = made
    BY <1>1 DEF Types
  <2>. QED  BY <2>1, NewChunk
<1>5. content' = [content EXCEPT ![h] = bs]
  BY <1>2
<1>. HIDE DEF bs
<1>6. /\ StampSince' /\ Seen' /\ OnePath' /\ Hands' /\ Full'
      /\ chunk' \in [Threads -> Headers \cup {NULL}]
      /\ content' \in [Headers -> Seq(Nat)]
      /\ nextChunk' \in [Headers -> Headers \cup {NULL}]
  BY <1>1, <1>2, <1>3, <1>4, <1>5, HeaderFilled
<1>7. Types' /\ Lists'
  <2>1. pc'[t] = "took" /\ \A u \in Threads \ {t} : pc'[u] = pc[u]
    BY <1>1, <1>3 DEF Types
  <2>2. Lists'
    BY <1>1, <1>3, <2>1 DEF Lists
  <2>3. made' \in Nat /\ pc' \in [Threads -> Steps]
    BY <1>1, <1>3 DEF Types, Steps
  <2>. QED  BY <1>1, <1>3, <1>6, <2>2, <2>3 DEF Types
<1>8. /\ h \in Headers /\ content[h] = <<>> /\ content'[h] = bs
      /\ \A g \in Headers \ {h} : content'[g] = content[g]
  BY <1>1, <1>5 DEF InHeap, Types
<1>9. Distinct'
  BY <1>1, <1>3, <1>4, <1>8 DEF Distinct
<1>10. Blocked'
  <2>0. PICK X \in SUBSET Nat : \A b \in Nat : b \in X <=> b \in ToSet(bs)
    <3>1. WITNESS ToSet(bs) \cap Nat \in SUBSET Nat
    <3>. QED  OBVIOUS
  <2> DEFINE v == [b \in Nat |-> CHUNK(h)]
  <2>1. /\ made * chunkSize \in Nat /\ (made + 1) * chunkSize = made * chunkSize + chunkSize
    BY <1>1, OneMore, Numbers DEF Types
  <2>2. \A b \in Nat : b \in Made' <=> b \in Made \/ b \in X
    BY <1>3, <1>4, <2>0, <2>1, Numbers DEF Made
  <2>3. \A b \in X : b \in Nat /\ b \notin Made
    BY <1>4, <2>0, <2>1 DEF Made
  <2>4. \A b \in Nat : v[b] = CHUNK(h)
    OBVIOUS
  <2>. HIDE DEF v
  <2>6. ToSet(content[h]) = {}
    BY <1>8, EmptyList
  <2>7. \A b \in X : /\ b \notin held /\ b \notin gone /\ b \notin ToSet(freeChunk)
                     /\ \A u \in Threads : b \notin ToSet(cache[u])
                     /\ \A g \in Headers : b \notin ToSet(content[g])
    BY <1>1, <2>3, InOnePlace
  <2>8. \A b \in X : v[b] \in Places
    BY <1>8, <2>3, <2>4, PlacesApart
  <2>9. /\ \A b \in Nat : b \in held' <=> IF b \in X THEN v[b] = HELD ELSE b \in held
        /\ \A b \in Nat : b \in gone' <=> IF b \in X THEN v[b] = GONE ELSE b \in gone
        /\ \A b \in Nat : b \in ToSet(freeChunk')
                            <=> IF b \in X THEN v[b] = LEFT ELSE b \in ToSet(freeChunk)
    BY <1>3, <2>4, <2>7, PlacesApart
  <2>10. \A b \in Nat, u \in Threads :
           b \in ToSet(cache'[u]) <=> IF b \in X THEN v[b] = CACHE(u) ELSE b \in ToSet(cache[u])
    BY <1>3, <2>4, <2>7, PlacesApart
  <2>11. ASSUME NEW b \in Nat, NEW g \in Headers
         PROVE  b \in ToSet(content'[g])
                  <=> IF b \in X THEN v[b] = CHUNK(g) ELSE b \in ToSet(content[g])
    BY <1>8, <2>0, <2>4, <2>6, <2>7, PlacesApart
  <2>12. Moves(X, v)
    BY ONLY <2>2, <2>8, <2>9, <2>10, <2>11 DEF Moves
  <2>. QED  BY <1>1, <2>12, BlocksMove
<1>. QED  BY <1>3, <1>6, <1>7, <1>9, <1>10 DEF Good

\* A push reads topChunk_ and writes it into its chunk.
LEMMA PushReadTopKeeps ==
  ASSUME Good, fooled = 0, NEW t \in Threads, PushReadTop(t)
  PROVE  Good' /\ fooled' = 0
<1>1. /\ Types /\ StampSince /\ Seen /\ OnePath /\ Hands /\ Full /\ Lists
      /\ Distinct /\ Blocked
  BY GoodParts
<1> DEFINE h == chunk[t]
           a == topChunk.addr
<1>2. /\ pc[t] = "push" /\ pc' = [pc EXCEPT ![t] = "pushSwap"]
      /\ localTop' = [localTop EXCEPT ![t] = topChunk] /\ since' = [since EXCEPT ![t] = 0]
      /\ nextChunk' = [nextChunk EXCEPT ![h] = a]
      /\ UNCHANGED <<topChunk, content, freeChunk, next, chunk, cache, held, gone,
                     made, fooled, why>>
  BY DEF PushReadTop, Goto, freeVars, blockVars
<1>3. h \in Headers /\ h \notin Stack /\ a \in Headers \cup {NULL} /\ topChunk \in Tops
  BY <1>1, <1>2 DEF Hands, Types, Tops
<1>. HIDE DEF h, a
<1>4. /\ pc'[t] = "pushSwap" /\ localTop'[t] = topChunk /\ since'[t] = 0
      /\ \A u \in Threads \ {t} : /\ pc'[u] = pc[u] /\ localTop'[u] = localTop[u]
                                  /\ since'[u] = since[u]
      /\ nextChunk'[h] = a /\ \A g \in Headers \ {h} : nextChunk'[g] = nextChunk[g]
  BY <1>1, <1>2, <1>3 DEF Types
<1>5. Types'
  BY <1>1, <1>2, <1>3 DEF Types, Steps
<1>6. Stack' = Stack /\ InHands' = InHands /\ Stack \subseteq Headers
  <2>1. nextChunk \in [Headers -> Headers \cup {NULL}]
    BY <1>1 DEF Types
  <2>2. a = topChunk.addr /\ h \notin Reach(a, nextChunk)
    BY <1>3, StackIs DEF a
  <2>3. nextChunk' \in [Headers -> Headers \cup {NULL}]
    BY <1>5 DEF Types
  <2>5. Reach(a, nextChunk') = Reach(a, nextChunk)
    BY <1>3, <1>4, <2>1, <2>2, <2>3, ReachWrite
  <2>4. topChunk'.addr = a /\ chunk' = chunk
    BY <1>2 DEF a
  <2>. QED  BY <1>1, <2>2, <2>4, <2>5, StackIs, TopIn DEF InHands
<1>7. StampSince'
  BY <1>1, <1>2, <1>3, <1>4 DEF StampSince, Tops, Stamps
<1>8. Seen'
  <2>1. ASSUME NEW u \in Threads, u # t
        PROVE  /\ pc[u] \in {"next", "swap"} => localTop[u].addr # NULL
               /\ since[u] = 0 =>
                    /\ pc[u] \in Swapping => localTop[u] = topChunk
                    /\ pc[u] = "swap" => next[u] = nextChunk'[localTop[u].addr]
                    /\ pc[u] = "pushSwap" => nextChunk'[chunk[u]] = localTop[u].addr
    <3>1. pc[u] \in {"next", "swap"} => localTop[u].addr # NULL
      BY <1>1 DEF Seen
    <3>2. ASSUME since[u] = 0, pc[u] \in Swapping PROVE localTop[u] = topChunk
      BY <1>1, <3>2 DEF Seen
    <3>3. ASSUME since[u] = 0, pc[u] = "swap" PROVE next[u] = nextChunk'[localTop[u].addr]
      <4>1. localTop[u] = topChunk /\ a \in Headers
        BY <1>1, <1>3, <3>3 DEF Seen, Swapping, a
      <4>2. a \in Stack
        BY <1>1, <4>1, TopIn, Numbers DEF a
      <4>. QED  BY <1>1, <1>3, <1>4, <3>3, <4>1, <4>2 DEF Seen, a
    <3>4. ASSUME since[u] = 0, pc[u] = "pushSwap"
          PROVE  nextChunk'[chunk[u]] = localTop[u].addr
      <4>1. chunk[u] \in Headers /\ chunk[u] # h
        BY <1>1, <2>1, <3>4 DEF Hands, Types, h
      <4>. QED  BY <1>1, <1>4, <3>4, <4>1 DEF Seen
    <3>. QED  BY <3>1, <3>2, <3>3, <3>4
  <2>2. nextChunk'[chunk[t]] = topChunk.addr
    BY <1>4 DEF h, a
  <2>. QED  BY <1>2, <1>4, <2>1, <2>2 DEF Seen
<1>9. OnePath'
  BY <1>1, <1>2, <1>3, <1>4, <1>6 DEF OnePath
<1>10. Hands'
  BY <1>1, <1>2, <1>4, <1>6 DEF Hands
<1>11. Full' /\ Lists'
  BY <1>1, <1>2, <1>4, <1>6 DEF Full, Lists
<1>12. Distinct' /\ Blocked'
  BY <1>1, <1>2, BlocksStay
<1>. QED  BY <1>2, <1>5, <1>7, <1>8, <1>9, <1>10, <1>11, <1>12 DEF Good

\* It swaps topChunk_: its chunk is in front of the one it saw.
LEMMA PushSwapKeeps ==
  ASSUME Good, fooled = 0, NEW t \in Threads, PushSwap(t)
  PROVE  IInv'
<1>1. /\ Types /\ StampSince /\ Seen /\ OnePath /\ Hands /\ Full /\ Lists
      /\ Distinct /\ Blocked
  BY GoodParts
<1>2. /\ pc[t] = "pushSwap"
      /\ UNCHANGED <<nextChunk, content, freeChunk, localTop, next, cache, held, gone, made, why>>
  BY DEF PushSwap, Goto, freeVars, blockVars
<1>3. Distinct' /\ Blocked'
  BY <1>1, <1>2, BlocksStay
<1>4. CASE topChunk # localTop[t]
  <2>1. pc' = [pc EXCEPT ![t] = "push"] /\ UNCHANGED <<topChunk, since, fooled, chunk>>
    BY <1>4 DEF PushSwap, Goto
  <2>2. pc'[t] = "push" /\ \A u \in Threads \ {t} : pc'[u] = pc[u]
    BY <1>1, <2>1 DEF Types
  <2>3. Stack' = Stack /\ InHands' = InHands
    BY <1>2, <2>1 DEF Stack, Linked, InHands
  <2>4. StampSince' /\ Seen'
    BY <1>1, <1>2, <2>1, <2>2 DEF StampSince, Seen, Swapping
  <2>5. OnePath' /\ Hands'
    BY <1>1, <1>2, <2>1, <2>2, <2>3 DEF OnePath, Hands
  <2>6. Types' /\ Full' /\ Lists'
    BY <1>1, <1>2, <2>1, <2>2, <2>3 DEF Types, Full, Lists, Steps
  <2>. QED  BY <1>3, <2>1, <2>4, <2>5, <2>6 DEF Good, IInv, FooledOnlyByWrap
<1>5. CASE topChunk = localTop[t] /\ since[t] # 0
  <2>1. fooled' = since[t] /\ since[t] \in Nat
    BY <1>1, <1>5 DEF PushSwap, SwapTop, Types
  <2>2. since[t] >= StampCount
    <3>1. localTop[t].stamp \in Stamps /\ topChunk.stamp = localTop[t].stamp
      BY <1>1, <1>5 DEF Types, Tops
    <3>2. pc[t] \in Swapping
      BY <1>2 DEF Swapping
    <3>. QED  BY <1>1, <1>5, <2>1, <3>1, <3>2, Numbers DEF StampSince, Stamps
  <2>. QED  BY <1>5, <2>1, <2>2 DEF IInv, FooledOnlyByWrap
<1>6. CASE topChunk = localTop[t] /\ since[t] = 0
  <2> DEFINE a == topChunk.addr
             h == chunk[t]
             x == IF why[t] = "end" THEN "unlock" ELSE "idle"
  <2>1. a \in Headers \cup {NULL} /\ localTop[t].addr = a /\ nextChunk[h] = a
        /\ localTop[t].stamp = topChunk.stamp /\ topChunk.stamp \in Stamps
        /\ h \in Headers /\ h \notin Stack
    BY <1>1, <1>2, <1>6 DEF Seen, Types, Tops, Hands, Swapping
  <2>2. /\ pc' = [pc EXCEPT ![t] = x] /\ chunk' = [chunk EXCEPT ![t] = NULL]
        /\ topChunk' = [addr |-> h, stamp |-> NextStamp(topChunk.stamp)]
        /\ fooled' = 0
    BY <1>6, <2>1 DEF PushSwap, SwapTop, Goto
  <2>3. since' = [u \in Threads |->
                    IF u # t /\ pc[u] \in {"next", "swap", "pushSwap"} THEN since[u] + 1 ELSE 0]
    BY <1>6 DEF PushSwap, SwapTop
  <2>4. Stack' = Stack \cup {h} /\ Stack \subseteq Headers /\ a \in Stack \cup {NULL}
    <3>1. nextChunk \in [Headers -> Headers \cup {NULL}]
      BY <1>1 DEF Types
    <3>2. h \notin Reach(a, nextChunk)
      BY <2>1, StackIs
    <3>3. Reach(h, nextChunk) = Reach(a, nextChunk) \cup {h}
      BY <2>1, <3>1, <3>2, ReachPush
    <3>4. topChunk'.addr = h /\ nextChunk' = nextChunk
      BY <1>2, <2>2
    <3>. QED  BY <1>1, <3>3, <3>4, StackIs, TopIn
  <2>5. topChunk'.addr = h /\ topChunk'.stamp = NextStamp(topChunk.stamp)
    BY <2>2
  <2>6. /\ NextStamp(topChunk.stamp) =
             IF topChunk.stamp + 1 = StampCount THEN 0 ELSE topChunk.stamp + 1
        /\ NextStamp(topChunk.stamp) \in Stamps
    BY <2>1, NextStampIs
  <2>7. x \in {"unlock", "idle"}
    OBVIOUS
  <2>8. a = topChunk.addr /\ chunk[t] = h
    OBVIOUS
  <2>. HIDE DEF a, h, x
  <2>9. /\ pc'[t] = x /\ chunk'[t] = NULL
        /\ \A u \in Threads \ {t} : pc'[u] = pc[u] /\ chunk'[u] = chunk[u]
        /\ \A u \in Threads : pc[u] \in Swapping /\ u # t => since'[u] = since[u] + 1
    BY <1>1, <1>2, <2>2, <2>3 DEF Types, Swapping
  <2>10. \A u \in Threads \ {t} : chunk[u] # h
    BY <1>1, <2>1, <2>8, Numbers DEF Hands
  <2>11. InHands' = InHands \ {h} /\ h \in InHands
    BY <2>1, <2>8, <2>9, <2>10, Numbers DEF InHands
  <2>12. Types'
    <3>1. since' \in [Threads -> Nat]
      BY <1>1, <2>3 DEF Types
    <3>2. topChunk' \in Tops
      BY <2>1, <2>2, <2>6 DEF Tops
    <3>. QED  BY <1>1, <1>2, <2>1, <2>2, <2>7, <3>1, <3>2 DEF Types, Steps
  <2>13. StampSince'
    <3>1. ASSUME NEW u \in Threads, pc'[u] \in Swapping, since'[u] < StampCount
          PROVE  \/ topChunk'.stamp = localTop'[u].stamp + since'[u]
                 \/ topChunk'.stamp = localTop'[u].stamp + since'[u] - StampCount
      <4>1. u # t
        BY <2>7, <2>9, <3>1 DEF Swapping
      <4>2. pc[u] \in Swapping /\ since'[u] = since[u] + 1 /\ localTop'[u] = localTop[u]
        BY <1>2, <2>9, <3>1, <4>1
      <4>3. since[u] \in Nat /\ localTop[u].stamp \in Stamps
        BY <1>1 DEF Types, Tops
      <4>4. \/ topChunk.stamp = localTop[u].stamp + since[u]
            \/ topChunk.stamp = localTop[u].stamp + since[u] - StampCount
        BY <1>1, <3>1, <4>2, <4>3, Numbers DEF StampSince
      <4>. QED  BY <2>1, <2>5, <2>6, <3>1, <4>2, <4>3, <4>4, Numbers DEF Stamps
    <3>. QED  BY <3>1 DEF StampSince
  <2>14. Seen'
    <3>1. ASSUME NEW u \in Threads, pc'[u] \in Swapping
          PROVE  u # t /\ pc[u] = pc'[u] /\ since'[u] # 0 /\ localTop'[u] = localTop[u]
      BY <1>1, <1>2, <2>7, <2>9, <3>1 DEF Swapping, Types
    <3>. QED  BY <1>1, <3>1 DEF Seen, Swapping
  <2>15. OnePath'
    <3>1. \A g \in Stack : nextChunk[g] \in Stack \cup {NULL}
      BY <1>1, ReachLinked, StackIs DEF Types, Tops, LinkedBy
    <3>2. h # NULL /\ h # a
      BY <2>1, <2>4, Numbers
    <3>3. \A g \in Stack : nextChunk[g] # a
      BY <1>1, <2>8 DEF OnePath
    <3>. QED  BY <1>1, <1>2, <2>1, <2>4, <2>5, <3>1, <3>2, <3>3 DEF OnePath
  <2>16. Hands'
    <3>1. \A u \in Threads : chunk'[u] # NULL <=> pc'[u] \in {"took", "push", "pushSwap"}
      BY <1>1, <2>7, <2>9 DEF Hands
    <3>2. \A u \in Threads : chunk'[u] \notin Stack'
      BY <1>1, <2>4, <2>9, <2>10, <2>1, Numbers DEF Hands
    <3>3. \A u, r \in Threads : chunk'[u] = chunk'[r] /\ chunk'[u] # NULL => u = r
      BY <1>1, <2>9 DEF Hands
    <3>. QED  BY <3>1, <3>2, <3>3 DEF Hands
  <2>17. Full'
    BY <1>1, <1>2, <2>4, <2>11 DEF Full
  <2>18. Lists'
    BY <1>1, <1>2, <2>7, <2>9 DEF Lists
  <2>. QED  BY <1>3, <2>2, <2>12, <2>13, <2>14, <2>15, <2>16, <2>17, <2>18
            DEF Good, IInv, FooledOnlyByWrap
<1>. QED  BY <1>4, <1>5, <1>6

\* A chunk that was taken is the thread's list from now on, or goes back to the heap.
LEMMA TakeChunkKeeps ==
  ASSUME Good, fooled = 0, NEW t \in Threads, TakeChunk(t)
  PROVE  Good' /\ fooled' = 0
<1>1. /\ Types /\ StampSince /\ Seen /\ OnePath /\ Hands /\ Full /\ Lists
      /\ Distinct /\ Blocked
  BY GoodParts
<1> DEFINE h == chunk[t]
           bs == content[h]
           x == pc'[t]
<1>2. /\ pc[t] = "took" /\ content' = [content EXCEPT ![h] = <<>>]
      /\ chunk' = [chunk EXCEPT ![t] = NULL]
      /\ UNCHANGED <<topChunk, nextChunk, freeChunk, localTop, next, made, fooled, since, why>>
  BY DEF TakeChunk, freeVars, ghostVars
<1>3. h \in Headers /\ h \notin Stack /\ h \in InHands
  BY <1>1, <1>2, Numbers DEF Hands, Types, InHands
<1>4. bs \in Seq(Nat) /\ Len(bs) = chunkSize /\ Once(bs) /\ bs # <<>>
  <2>1. bs \in Seq(Nat) /\ Len(bs) = chunkSize /\ Once(bs)
    BY <1>1, <1>3 DEF Full, Distinct, Types
  <2>. HIDE DEF bs
  <2>. QED  BY <2>1, Numbers, EmptyList
<1>5. /\ pc' = [pc EXCEPT ![t] = x] /\ x \in {"idle", "used", "top"}
      /\ \/ /\ why[t] = "alloc" /\ x = "idle"
            /\ cache' = [cache EXCEPT ![t] = Tail(bs)] /\ held' = held \cup {Head(bs)}
            /\ gone' = gone
         \/ /\ why[t] = "collect"
            /\ gone' = gone \cup ToSet(bs) /\ UNCHANGED <<cache, held>>
  <2>. HIDE DEF bs
  <2>1. pc \in [Threads -> Steps]
    BY <1>1 DEF Types
  <2>. QED  BY <2>1 DEF TakeChunk, Goto, bs
<1>6. content[h] = bs /\ h = chunk[t]
  OBVIOUS
<1>. HIDE DEF h, bs, x
<1>7. /\ pc'[t] = x /\ chunk'[t] = NULL /\ content'[h] = <<>>
      /\ \A u \in Threads \ {t} : pc'[u] = pc[u] /\ chunk'[u] = chunk[u]
      /\ \A g \in Headers \ {h} : content'[g] = content[g]
  BY <1>1, <1>2, <1>3, <1>5 DEF Types
<1>8. /\ Head(bs) \in Nat /\ Head(bs) \in ToSet(bs)
      /\ Tail(bs) \in Seq(Nat) /\ Len(Tail(bs)) = Len(bs) - 1 /\ Once(Tail(bs))
      /\ \A b : b \in ToSet(Tail(bs)) <=> b \in ToSet(bs) /\ b # Head(bs)
  BY <1>4, TakeFirst
<1>9. ToSet(bs) \subseteq Nat
  BY <1>4, ElementOf, InSeq
<1>10. Types'
  <2>1. content' \in [Headers -> Seq(Nat)]
    <3>1. <<>> \in Seq(Nat)
      OBVIOUS
    <3>. QED  BY <1>1, <1>2, <3>1 DEF Types
  <2>2. pc' \in [Threads -> Steps] /\ chunk' \in [Threads -> Headers \cup {NULL}]
    BY <1>1, <1>2, <1>5 DEF Types, Steps
  <2>3. cache' \in [Threads -> Seq(Nat)] /\ held' \subseteq Nat /\ gone' \subseteq Nat
    BY <1>1, <1>5, <1>8, <1>9 DEF Types
  <2>. QED  BY <1>1, <1>2, <2>1, <2>2, <2>3 DEF Types
<1>11. Stack' = Stack /\ Stack \subseteq Headers
  BY <1>2 DEF Stack, Linked
<1>12. \A u \in Threads \ {t} : chunk[u] # h
  BY <1>1, <1>3, <1>6, Numbers DEF Hands
<1>13. InHands' = InHands \ {h} /\ InHands \subseteq Headers
  <2>1. InHands \subseteq Headers
    BY <1>1 DEF InHands, Types
  <2>2. InHands' = InHands \ {h}
    BY <1>3, <1>6, <1>7, <1>12, Numbers DEF InHands
  <2>. QED  BY <2>1, <2>2
<1>14. StampSince' /\ Seen'
  BY <1>1, <1>2, <1>5, <1>7 DEF StampSince, Seen, Swapping
<1>15. OnePath'
  BY <1>1, <1>2, <1>11 DEF OnePath
<1>16. Hands'
  <2>1. \A u \in Threads : chunk'[u] # NULL <=> pc'[u] \in {"took", "push", "pushSwap"}
    BY <1>1, <1>5, <1>7 DEF Hands
  <2>2. \A u \in Threads : chunk'[u] \notin Stack'
    BY <1>1, <1>7, <1>11, Numbers DEF Hands
  <2>3. \A u, r \in Threads : chunk'[u] = chunk'[r] /\ chunk'[u] # NULL => u = r
    BY <1>1, <1>7 DEF Hands
  <2>. QED  BY <2>1, <2>2, <2>3 DEF Hands
<1>17. Full'
  BY <1>1, <1>3, <1>7, <1>11, <1>13 DEF Full
<1>18. Lists'
  <2>1. Len(Tail(bs)) < 2 * chunkSize
    BY <1>4, <1>8, Numbers
  <2>2. Len(cache[t]) < 2 * chunkSize
    BY <1>1 DEF Lists
  <2>3. \/ why[t] = "alloc" /\ x = "idle" /\ cache'[t] = Tail(bs)
        \/ why[t] = "collect" /\ cache'[t] = cache[t]
    BY <1>1, <1>5 DEF Types
  <2>4. \A u \in Threads \ {t} : cache'[u] = cache[u]
    BY <1>1, <1>5 DEF Types
  <2>5. Len(cache'[t]) < 2 * chunkSize
    BY <2>1, <2>2, <2>3
  <2>6. ~(x \in {"top", "next", "swap", "create", "took"} /\ why[t] = "alloc")
    BY <2>3
  <2>7. ASSUME NEW u \in Threads
        PROVE  /\ Len(cache'[u]) < 2 * chunkSize
               /\ pc'[u] \in {"top", "next", "swap", "create", "took"} /\ why'[u] = "alloc" =>
                    cache'[u] = <<>>
    <3>1. CASE u = t
      BY <1>2, <1>7, <2>5, <2>6, <3>1
    <3>2. CASE u # t
      BY <1>1, <1>2, <1>7, <2>4, <3>2 DEF Lists
    <3>. QED  BY <3>1, <3>2
  <2>. QED  BY <2>7 DEF Lists
<1>19. Distinct'
  BY <1>1, <1>2, <1>5, <1>7, <1>8, EmptyList DEF Distinct, Types
<1>20. Blocked'
  <2>1. PICK X \in SUBSET Nat : X = ToSet(bs)
    BY <1>9
  <2> DEFINE v == [b \in Nat |-> IF why[t] = "collect" THEN GONE
                                 ELSE IF b = Head(bs) THEN HELD ELSE CACHE(t)]
  <2>2. \A b \in Nat : v[b] = IF why[t] = "collect" THEN GONE
                              ELSE IF b = Head(bs) THEN HELD ELSE CACHE(t)
    OBVIOUS
  <2>. HIDE DEF v
  <2>3. \A b \in X : /\ b \notin held /\ b \notin gone /\ b \notin ToSet(freeChunk)
                     /\ \A u \in Threads : b \notin ToSet(cache[u])
                     /\ \A g \in Headers : b \in ToSet(content[g]) => g = h
                     /\ b \in Made
    BY <1>1, <1>3, <1>6, <2>1, InOnePlace
  <2>4. \A b \in Nat : b \in Made' <=> b \in Made \/ b \in X
    BY <1>2, <2>3 DEF Made
  <2>5. \A b \in X : v[b] \in Places
    BY <2>2, PlacesApart
  <2>6. \A b \in Nat : b \in held' <=> IF b \in X THEN v[b] = HELD ELSE b \in held
    BY <1>5, <1>8, <2>1, <2>2, <2>3, PlacesApart
  <2>7. \A b \in Nat : b \in gone' <=> IF b \in X THEN v[b] = GONE ELSE b \in gone
    BY <1>5, <2>1, <2>2, <2>3, PlacesApart
  <2>8. \A b \in Nat : b \in ToSet(freeChunk')
                         <=> IF b \in X THEN v[b] = LEFT ELSE b \in ToSet(freeChunk)
    BY <1>2, <2>2, <2>3, PlacesApart
  <2>9. ASSUME NEW b \in Nat, NEW u \in Threads
        PROVE  b \in ToSet(cache'[u])
                 <=> IF b \in X THEN v[b] = CACHE(u) ELSE b \in ToSet(cache[u])
    <3>1. CASE why[t] = "collect"
      BY <1>5, <2>2, <2>3, <3>1, PlacesApart
    <3>2. CASE why[t] = "alloc" /\ u # t
      <4>1. cache'[u] = cache[u]
        BY <1>1, <1>5, <3>2 DEF Types
      <4>. QED  BY <2>2, <2>3, <3>2, <4>1, PlacesApart
    <3>3. CASE why[t] = "alloc" /\ u = t
      <4>1. cache'[t] = Tail(bs)
        BY <1>1, <1>5, <3>3 DEF Types
      <4>2. ToSet(cache[t]) = {}
        BY <1>1, <1>2, <3>3, EmptyList DEF Lists
      <4>. QED  BY <1>8, <2>1, <2>2, <2>3, <3>3, <4>1, <4>2, PlacesApart
    <3>. QED  BY <1>5, <3>1, <3>2, <3>3
  <2>10. ASSUME NEW b \in Nat, NEW g \in Headers
         PROVE  b \in ToSet(content'[g])
                  <=> IF b \in X THEN v[b] = CHUNK(g) ELSE b \in ToSet(content[g])
    <3>1. v[b] # CHUNK(g)
      BY <2>2, PlacesApart
    <3>2. CASE g = h
      <4>1. ToSet(content'[g]) = {}
        BY <1>7, <3>2, EmptyList
      <4>. QED  BY <1>6, <2>1, <3>1, <3>2, <4>1
    <3>3. CASE g # h
      BY <1>7, <2>3, <3>1, <3>3
    <3>. QED  BY <3>2, <3>3
  <2>11. Moves(X, v)
    BY ONLY <2>4, <2>5, <2>6, <2>7, <2>8, <2>9, <2>10 DEF Moves
  <2>. QED  BY <1>1, <2>11, BlocksMove
<1>. QED  BY <1>2, <1>10, <1>14, <1>15, <1>16, <1>17, <1>18, <1>19, <1>20 DEF Good

\* A block is taken from the list of the thread, or a chunk is fetched.
LEMMA AllocKeeps ==
  ASSUME Good, fooled = 0, NEW t \in Threads, Alloc(t)
  PROVE  Good' /\ fooled' = 0
<1>1. /\ Types /\ StampSince /\ Seen /\ OnePath /\ Hands /\ Full /\ Lists
      /\ Distinct /\ Blocked
  BY GoodParts
<1>2. /\ pc[t] = "idle"
      /\ UNCHANGED <<topChunk, nextChunk, content, freeChunk, localTop, next, chunk, made, gone,
                     since, fooled>>
  BY DEF Alloc, chunkVars, freeVars, threadVars
<1>3. CASE cache[t] = <<>>
  <2>1. /\ pc' = [pc EXCEPT ![t] = "top"] /\ why' = [why EXCEPT ![t] = "alloc"]
        /\ UNCHANGED <<cache, held>>
    BY <1>3 DEF Alloc, Goto
  <2>2. /\ StampSince' /\ Seen' /\ OnePath' /\ Hands'
        /\ Stack' = Stack /\ InHands' = InHands
    BY <1>1, <1>2, <2>1, StackStays DEF Steps
  <2>3. Types' /\ Full' /\ Lists'
    BY <1>1, <1>2, <1>3, <2>1, <2>2 DEF Types, Full, Lists, Steps
  <2>4. Distinct' /\ Blocked'
    BY <1>1, <1>2, <2>1, BlocksStay
  <2>. QED  BY <1>2, <2>2, <2>3, <2>4 DEF Good
<1>4. CASE cache[t] # <<>>
  <2> DEFINE s == cache[t]
  <2>1. /\ UNCHANGED <<pc, why>> /\ cache' = [cache EXCEPT ![t] = Tail(s)]
        /\ held' = held \cup {Head(s)}
    BY <1>4 DEF Alloc
  <2>2. s \in Seq(Nat) /\ Once(s) /\ s # <<>> /\ Len(s) < 2 * chunkSize /\ Len(s) \in Nat
    BY <1>1, <1>4 DEF Types, Distinct, Lists
  <2>3. s = cache[t]
    OBVIOUS
  <2>. HIDE DEF s
  <2>4. /\ Head(s) \in Nat /\ Head(s) \in ToSet(s)
        /\ Tail(s) \in Seq(Nat) /\ Len(Tail(s)) = Len(s) - 1 /\ Once(Tail(s))
        /\ \A b : b \in ToSet(Tail(s)) <=> b \in ToSet(s) /\ b # Head(s)
    BY <2>2, TakeFirst
  <2>5. cache'[t] = Tail(s) /\ \A u \in Threads \ {t} : cache'[u] = cache[u]
    BY <1>1, <2>1 DEF Types
  <2>6. Types'
    BY <1>1, <1>2, <2>1, <2>4 DEF Types
  <2>7. pc' = [pc EXCEPT ![t] = "idle"]
    BY <1>1, <1>2, <2>1 DEF Types
  <2>8. /\ StampSince' /\ Seen' /\ OnePath' /\ Hands'
        /\ Stack' = Stack /\ InHands' = InHands
    BY <1>1, <1>2, <2>7, StackStays DEF Steps
  <2>9. Full' /\ Lists'
    <3>1. Full'
      BY <1>1, <1>2, <2>8 DEF Full
    <3>2. Len(cache'[t]) < 2 * chunkSize
      BY <2>2, <2>4, <2>5, Numbers
    <3>3. \A u \in Threads \ {t} : Len(cache'[u]) < 2 * chunkSize
      BY <1>1, <2>5 DEF Lists
    <3>4. \A u \in Threads : pc'[u] = pc[u] /\ why'[u] = why[u]
      BY <2>1
    <3>. QED  BY <1>1, <1>2, <2>5, <3>1, <3>2, <3>3, <3>4 DEF Lists
  <2>10. Distinct'
    BY <1>1, <1>2, <2>4, <2>5 DEF Distinct
  <2>11. Blocked'
    <3>1. PICK X \in SUBSET Nat : X = {Head(s)}
      BY <2>4
    <3> DEFINE v == [b \in Nat |-> HELD]
    <3>2. \A b \in Nat : v[b] = HELD
      OBVIOUS
    <3>. HIDE DEF v
    <3>3. \A b \in X : /\ b \in ToSet(s) /\ b \notin held /\ b \notin gone
                       /\ b \notin ToSet(freeChunk)
                       /\ \A u \in Threads : b \in ToSet(cache[u]) => u = t
                       /\ \A g \in Headers : b \notin ToSet(content[g])
                       /\ b \in Made
      BY <1>1, <2>3, <2>4, <3>1, InOnePlace
    <3>4. \A b \in Nat : b \in Made' <=> b \in Made \/ b \in X
      BY <1>2, <3>3 DEF Made
    <3>5. \A b \in X : v[b] \in Places
      BY <3>2, PlacesApart
    <3>6. /\ \A b \in Nat : b \in held' <=> IF b \in X THEN v[b] = HELD ELSE b \in held
          /\ \A b \in Nat : b \in gone' <=> IF b \in X THEN v[b] = GONE ELSE b \in gone
          /\ \A b \in Nat : b \in ToSet(freeChunk')
                              <=> IF b \in X THEN v[b] = LEFT ELSE b \in ToSet(freeChunk)
      BY <1>2, <2>1, <3>1, <3>2, <3>3, PlacesApart
    <3>7. \A b \in Nat, u \in Threads :
            b \in ToSet(cache'[u])
              <=> IF b \in X THEN v[b] = CACHE(u) ELSE b \in ToSet(cache[u])
      BY <2>3, <2>4, <2>5, <3>1, <3>2, <3>3, PlacesApart
    <3>8. \A b \in Nat, g \in Headers :
            b \in ToSet(content'[g])
              <=> IF b \in X THEN v[b] = CHUNK(g) ELSE b \in ToSet(content[g])
      BY <1>2, <3>2, <3>3, PlacesApart
    <3>9. Moves(X, v)
      BY ONLY <3>4, <3>5, <3>6, <3>7, <3>8 DEF Moves
    <3>. QED  BY <1>1, <3>9, BlocksMove
  <2>. QED  BY <1>2, <2>6, <2>8, <2>9, <2>10, <2>11 DEF Good
<1>. QED  BY <1>3, <1>4


\* The blocks X leave the lists and the hands of callers.
Leave(X) ==
  /\ \A b \in X : b \in Made /\ b \notin gone /\ \A g \in Headers : b \notin ToSet(content[g])
  /\ \A b \in Nat : b \in held' <=> b \in held /\ b \notin X
  /\ \A b \in Nat : b \in ToSet(freeChunk') <=> b \in ToSet(freeChunk) /\ b \notin X
  /\ \A b \in Nat, u \in Threads :
       b \in ToSet(cache'[u]) <=> b \in ToSet(cache[u]) /\ b \notin X
  /\ Once(freeChunk') /\ \A u \in Threads : Once(cache'[u])

\* Blocks that leave go into a chunk.
LEMMA ChunkFilled ==
  ASSUME Types, StampSince, Seen, OnePath, Hands, Full, Distinct, Blocked,
         NEW t \in Threads, pc[t] \notin {"took", "push", "pushSwap"},
         pc' = [pc EXCEPT ![t] = "push"],
         NEW bs \in Seq(Nat), Len(bs) = chunkSize, Once(bs),
         BeginPush(t, bs), Leave(ToSet(bs)),
         UNCHANGED <<topChunk, localTop, next, since, made, gone>>
  PROVE  /\ StampSince' /\ Seen' /\ OnePath' /\ Hands' /\ Full' /\ Distinct' /\ Blocked'
         /\ chunk' \in [Threads -> Headers \cup {NULL}]
         /\ content' \in [Headers -> Seq(Nat)]
         /\ nextChunk' \in [Headers -> Headers \cup {NULL}]
<1>1. PICK h \in InHeap : /\ chunk' = [chunk EXCEPT ![t] = h]
                          /\ content' = [content EXCEPT ![h] = bs]
                          /\ nextChunk' = [nextChunk EXCEPT ![h] = NULL]
  BY DEF BeginPush
<1>2. /\ StampSince' /\ Seen' /\ OnePath' /\ Hands' /\ Full'
      /\ chunk' \in [Threads -> Headers \cup {NULL}]
      /\ content' \in [Headers -> Seq(Nat)]
      /\ nextChunk' \in [Headers -> Headers \cup {NULL}]
  BY <1>1, HeaderFilled
<1>3. /\ h \in Headers /\ content[h] = <<>> /\ content'[h] = bs
      /\ \A g \in Headers \ {h} : content'[g] = content[g]
  BY <1>1 DEF InHeap, Types
<1>4. Distinct'
  BY <1>3 DEF Distinct, Leave
<1>5. ToSet(bs) \subseteq Nat
  BY ElementOf, InSeq
<1>6. PICK X \in SUBSET Nat : X = ToSet(bs)
  BY <1>5
<1>7. Leave(X)
  BY <1>6
<1> DEFINE v == [b \in Nat |-> CHUNK(h)]
<1>8. \A b \in Nat : v[b] = CHUNK(h)
  OBVIOUS
<1>. HIDE DEF v
<1>9. ToSet(content[h]) = {}
  BY <1>3, EmptyList
<1>10. \A b \in Nat : b \in Made' <=> b \in Made \/ b \in X
  BY <1>7 DEF Leave, Made
<1>11. \A b \in X : v[b] \in Places
  BY <1>3, <1>8, PlacesApart
<1>12. /\ \A b \in Nat : b \in held' <=> IF b \in X THEN v[b] = HELD ELSE b \in held
       /\ \A b \in Nat : b \in gone' <=> IF b \in X THEN v[b] = GONE ELSE b \in gone
       /\ \A b \in Nat : b \in ToSet(freeChunk')
                           <=> IF b \in X THEN v[b] = LEFT ELSE b \in ToSet(freeChunk)
  BY <1>7, <1>8, PlacesApart DEF Leave
<1>13. \A b \in Nat, u \in Threads :
         b \in ToSet(cache'[u]) <=> IF b \in X THEN v[b] = CACHE(u) ELSE b \in ToSet(cache[u])
  BY <1>7, <1>8, PlacesApart DEF Leave
<1>14. ASSUME NEW b \in Nat, NEW g \in Headers
       PROVE  b \in ToSet(content'[g])
                <=> IF b \in X THEN v[b] = CHUNK(g) ELSE b \in ToSet(content[g])
  BY <1>3, <1>6, <1>7, <1>8, <1>9, PlacesApart DEF Leave
<1>15. Moves(X, v)
  BY ONLY <1>10, <1>11, <1>12, <1>13, <1>14 DEF Moves
<1>16. Blocked'
  BY <1>15, BlocksMove
<1>. QED  BY <1>2, <1>4, <1>16

\* A block is put in front of the list of the thread, which is cut when it is two
\* chunks long.
LEMMA FreeKeepsIt ==
  ASSUME Good, fooled = 0, NEW t \in Threads, NEW b \in held, Free(t, b)
  PROVE  Good' /\ fooled' = 0
<1>1. /\ Types /\ StampSince /\ Seen /\ OnePath /\ Hands /\ Full /\ Lists
      /\ Distinct /\ Blocked
  BY GoodParts
<1> DEFINE s == cache[t]
           r == <<b>> \o s
           n == Len(r)
           first == SubSeq(r, 1, chunkSize)
           rest == SubSeq(r, chunkSize + 1, n)
<1>2. /\ pc[t] = "idle" /\ held' = held \ {b} /\ why' = [why EXCEPT ![t] = "free"]
      /\ UNCHANGED <<topChunk, freeChunk, localTop, next, made, gone, since, fooled>>
  BY DEF Free, freeVars
<1>3. /\ n < 2 * chunkSize => /\ cache' = [cache EXCEPT ![t] = r]
                              /\ UNCHANGED <<pc, chunk, content, nextChunk>>
      /\ ~(n < 2 * chunkSize) => /\ cache' = [cache EXCEPT ![t] = rest]
                                 /\ pc' = [pc EXCEPT ![t] = "push"]
                                 /\ BeginPush(t, first)
  BY DEF Free, Goto
<1>4. /\ b \in Nat /\ b \in Made /\ b \notin gone /\ b \notin ToSet(freeChunk)
      /\ \A u \in Threads : b \notin ToSet(cache[u])
      /\ \A g \in Headers : b \notin ToSet(content[g])
  <2>1. b \in Nat
    BY <1>1 DEF Types
  <2>. QED  BY <1>1, <2>1, InOnePlace
<1>5. s \in Seq(Nat) /\ Once(s) /\ Len(s) < 2 * chunkSize /\ Len(s) \in Nat /\ s = cache[t]
  BY <1>1 DEF Types, Distinct, Lists
<1>. HIDE DEF s
<1>6. /\ r \in Seq(Nat) /\ n = Len(s) + 1 /\ Once(r) /\ n \in Nat
      /\ \A c : c \in ToSet(r) <=> c = b \/ c \in ToSet(s)
  BY <1>4, <1>5, PutFirst
<1>7. r[1] = b /\ Len(r) = n
  BY <1>5
<1>. HIDE DEF r, n
<1>8. n <= 2 * chunkSize
  BY <1>5, <1>6, Numbers
<1>9. CASE n < 2 * chunkSize
  <2>1. cache'[t] = r /\ \A u \in Threads \ {t} : cache'[u] = cache[u]
    BY <1>1, <1>3, <1>9 DEF Types
  <2>2. Types'
    BY <1>1, <1>2, <1>3, <1>6, <1>9 DEF Types
  <2>3. pc' = [pc EXCEPT ![t] = "idle"]
    BY <1>1, <1>2, <1>3, <1>9 DEF Types
  <2>4. /\ StampSince' /\ Seen' /\ OnePath' /\ Hands'
        /\ Stack' = Stack /\ InHands' = InHands
    BY <1>1, <1>2, <1>3, <1>9, <2>3, StackStays DEF Steps
  <2>5. Full' /\ Lists'
    <3>1. Full'
      BY <1>1, <1>3, <1>9, <2>4 DEF Full
    <3>2. Len(cache'[t]) < 2 * chunkSize
      BY <1>7, <1>9, <2>1
    <3>3. pc' = pc /\ \A u \in Threads \ {t} : why'[u] = why[u]
      BY <1>1, <1>2, <1>3, <1>9 DEF Types
    <3>. QED  BY <1>1, <1>2, <2>1, <3>1, <3>2, <3>3 DEF Lists
  <2>6. Distinct'
    BY <1>1, <1>2, <1>3, <1>6, <1>9, <2>1 DEF Distinct
  <2>7. Blocked'
    <3>1. PICK X \in SUBSET Nat : X = {b}
      BY <1>4
    <3> DEFINE v == [c \in Nat |-> CACHE(t)]
    <3>2. \A c \in Nat : v[c] = CACHE(t)
      OBVIOUS
    <3>. HIDE DEF v
    <3>3. \A c \in Nat : c \in Made' <=> c \in Made \/ c \in X
      BY <1>2, <1>4, <3>1 DEF Made
    <3>4. \A c \in X : v[c] \in Places
      BY <3>2, PlacesApart
    <3>5. /\ \A c \in Nat : c \in held' <=> IF c \in X THEN v[c] = HELD ELSE c \in held
          /\ \A c \in Nat : c \in gone' <=> IF c \in X THEN v[c] = GONE ELSE c \in gone
          /\ \A c \in Nat : c \in ToSet(freeChunk')
                              <=> IF c \in X THEN v[c] = LEFT ELSE c \in ToSet(freeChunk)
      BY <1>2, <1>4, <3>1, <3>2, PlacesApart
    <3>6. ASSUME NEW c \in Nat, NEW u \in Threads
          PROVE  c \in ToSet(cache'[u])
                   <=> IF c \in X THEN v[c] = CACHE(u) ELSE c \in ToSet(cache[u])
      <4>1. CASE u = t
        BY <1>5, <1>6, <2>1, <3>1, <3>2, <4>1
      <4>2. CASE u # t
        BY <1>4, <2>1, <3>1, <3>2, <4>2, PlacesApart
      <4>. QED  BY <4>1, <4>2
    <3>7. \A c \in Nat, g \in Headers :
            c \in ToSet(content'[g])
              <=> IF c \in X THEN v[c] = CHUNK(g) ELSE c \in ToSet(content[g])
      BY <1>3, <1>4, <1>9, <3>1, <3>2, PlacesApart
    <3>8. Moves(X, v)
      BY ONLY <3>3, <3>4, <3>5, <3>6, <3>7 DEF Moves
    <3>. QED  BY <1>1, <3>8, BlocksMove
  <2>. QED  BY <1>2, <2>2, <2>4, <2>5, <2>6, <2>7 DEF Good
<1>10. CASE ~(n < 2 * chunkSize)
  <2>1. chunkSize <= Len(r)
    BY <1>6, <1>7, <1>10, Numbers
  <2>2. /\ first \in Seq(Nat) /\ Len(first) = chunkSize /\ Once(first)
        /\ rest \in Seq(Nat) /\ Len(rest) = n - chunkSize /\ Once(rest)
        /\ \A c : c \in ToSet(r) <=> c \in ToSet(first) \/ c \in ToSet(rest)
        /\ \A c : ~(c \in ToSet(first) /\ c \in ToSet(rest))
    <3>1. /\ chunkSize \in Nat /\ r \in Seq(Nat) /\ Once(r) /\ chunkSize <= Len(r)
          /\ Len(r) = n
      BY <1>6, <1>7, <2>1, Numbers
    <3>. QED  BY ONLY <3>1, CutList
  <2>3. b \in ToSet(first)
    <3>1. 1 \in DOMAIN first /\ first[1] = r[1]
      BY <1>6, <2>1, <2>2, Numbers
    <3>. QED  BY <1>7, <3>1, InSeq
  <2>4. /\ cache' = [cache EXCEPT ![t] = rest] /\ pc' = [pc EXCEPT ![t] = "push"]
        /\ BeginPush(t, first)
    BY <1>3, <1>10
  <2>. HIDE DEF first, rest
  <2>5. cache'[t] = rest /\ \A u \in Threads \ {t} : cache'[u] = cache[u]
    BY <1>1, <2>4 DEF Types
  <2>6. \A c : c \in ToSet(first) => c = b \/ (c \in Nat /\ c \in ToSet(cache[t]))
    <3>1. \A c : c \in ToSet(s) => c \in Nat
      BY <1>5, ElementOf, InSeq
    <3>. QED  BY <1>5, <1>6, <2>2, <3>1
  <2>7. Leave(ToSet(first))
    <3>1. ASSUME NEW c \in ToSet(first)
          PROVE  /\ c \in Nat /\ c \in Made /\ c \notin gone
                 /\ \A g \in Headers : c \notin ToSet(content[g])
      <4>1. CASE c = b
        BY <1>4, <4>1
      <4>2. CASE c # b
        <5>1. c \in Nat /\ c \in ToSet(cache[t])
          BY <2>6, <4>2
        <5>. QED  BY <1>1, <5>1, InOnePlace
      <4>. QED  BY <4>1, <4>2
    <3>2. \A c \in Nat : c \in held' <=> c \in held /\ c \notin ToSet(first)
      <4>1. \A c \in Nat : c \in held => c \notin ToSet(cache[t])
        BY <1>1, InOnePlace
      <4>. QED  BY <1>2, <2>3, <2>6, <4>1
    <3>3. \A c \in Nat : c \in ToSet(freeChunk')
                           <=> c \in ToSet(freeChunk) /\ c \notin ToSet(first)
      <4>1. \A c \in Nat : c \in ToSet(freeChunk) => c \notin ToSet(cache[t])
        BY <1>1, InOnePlace
      <4>. QED  BY <1>2, <1>4, <2>6, <4>1
    <3>4. ASSUME NEW c \in Nat, NEW u \in Threads
          PROVE  c \in ToSet(cache'[u]) <=> c \in ToSet(cache[u]) /\ c \notin ToSet(first)
      <4>1. CASE u = t
        BY <1>4, <1>5, <1>6, <2>2, <2>3, <2>5, <4>1
      <4>2. CASE u # t
        <5>1. c \in ToSet(cache[u]) => c \notin ToSet(cache[t])
          BY <1>1, <4>2, InOnePlace
        <5>. QED  BY <1>4, <2>5, <2>6, <4>2, <5>1
      <4>. QED  BY <4>1, <4>2
    <3>5. Once(freeChunk') /\ \A u \in Threads : Once(cache'[u])
      BY <1>1, <1>2, <2>2, <2>5 DEF Distinct
    <3>. QED  BY <3>1, <3>2, <3>3, <3>4, <3>5 DEF Leave
  <2>8. pc[t] \notin {"took", "push", "pushSwap"}
    BY <1>2
  <2>9. /\ StampSince' /\ Seen' /\ OnePath' /\ Hands' /\ Full' /\ Distinct' /\ Blocked'
        /\ chunk' \in [Threads -> Headers \cup {NULL}]
        /\ content' \in [Headers -> Seq(Nat)]
        /\ nextChunk' \in [Headers -> Headers \cup {NULL}]
    BY <1>1, <1>2, <2>2, <2>4, <2>7, <2>8, ChunkFilled
  <2>10. Types'
    <3>1. pc' \in [Threads -> Steps] /\ cache' \in [Threads -> Seq(Nat)]
      BY <1>1, <2>2, <2>4 DEF Types, Steps
    <3>2. held' \subseteq Nat /\ why' \in [Threads -> {"alloc", "free", "end", "collect"}]
      BY <1>1, <1>2 DEF Types
    <3>. QED  BY <1>1, <1>2, <2>9, <3>1, <3>2 DEF Types
  <2>11. Lists'
    <3>1. Len(cache'[t]) < 2 * chunkSize
      BY <1>6, <1>8, <2>2, <2>5, Numbers
    <3>2. pc'[t] = "push" /\ \A u \in Threads \ {t} : pc'[u] = pc[u] /\ why'[u] = why[u]
      BY <1>1, <1>2, <2>4 DEF Types
    <3>. QED  BY <1>1, <2>5, <3>1, <3>2 DEF Lists
  <2>. QED  BY <1>2, <2>9, <2>10, <2>11 DEF Good
<1>. QED  BY <1>9, <1>10

\* A thread ends: what it has becomes a chunk or is left over.
LEMMA RemoveRemaindersKeeps ==
  ASSUME Good, fooled = 0, NEW t \in Threads, RemoveRemainders(t)
  PROVE  Good' /\ fooled' = 0
<1>1. /\ Types /\ StampSince /\ Seen /\ OnePath /\ Hands /\ Full /\ Lists
      /\ Distinct /\ Blocked
  BY GoodParts
<1>2. /\ pc[t] = "idle" /\ cache' = [cache EXCEPT ![t] = <<>>]
      /\ UNCHANGED <<topChunk, localTop, next, held, made, gone, since, fooled>>
  BY DEF RemoveRemainders, ghostVars
<1>3. /\ cache'[t] = <<>> /\ \A u \in Threads \ {t} : cache'[u] = cache[u]
      /\ <<>> \in Seq(Nat)
  BY <1>1, <1>2 DEF Types
<1>4. /\ Len(cache'[t]) = 0 /\ Once(cache'[t]) /\ ToSet(cache'[t]) = {}
  BY <1>3, EmptyList
<1>5. cache' \in [Threads -> Seq(Nat)]
  BY <1>1, <1>2, <1>3 DEF Types
<1> DEFINE s == cache[t]
<1>6. s \in Seq(Nat) /\ Once(s) /\ s = cache[t] /\ ToSet(s) \subseteq Nat
  <2>1. s \in Seq(Nat) /\ Once(s)
    BY <1>1 DEF Types, Distinct
  <2>. QED  BY <2>1, ElementOf, InSeq
<1>7. ASSUME NEW b \in Nat
      PROVE  /\ b \in ToSet(s) => /\ b \in Made /\ b \notin held /\ b \notin gone
                                  /\ b \notin ToSet(freeChunk)
                                  /\ \A u \in Threads : b \in ToSet(cache[u]) => u = t
                                  /\ \A g \in Headers : b \notin ToSet(content[g])
  BY <1>1, InOnePlace
<1>8. CASE s = <<>> /\ pc' = [pc EXCEPT ![t] = "ended"]
             /\ UNCHANGED <<chunk, content, nextChunk, freeChunk, why>>
  <2>1. cache' = cache
    BY <1>1, <1>2, <1>8 DEF Types
  <2>2. /\ StampSince' /\ Seen' /\ OnePath' /\ Hands'
        /\ Stack' = Stack /\ InHands' = InHands
    BY <1>1, <1>2, <1>8, StackStays DEF Steps
  <2>3. Distinct' /\ Blocked'
    BY <1>1, <1>2, <1>8, <2>1, BlocksStay
  <2>4. Types' /\ Full' /\ Lists'
    BY <1>1, <1>2, <1>8, <2>1, <2>2 DEF Types, Full, Lists, Steps
  <2>. QED  BY <1>2, <2>2, <2>3, <2>4 DEF Good
<1>9. CASE /\ Len(s) = chunkSize /\ pc' = [pc EXCEPT ![t] = "push"]
           /\ why' = [why EXCEPT ![t] = "free"] /\ BeginPush(t, s) /\ UNCHANGED freeChunk
  <2>. HIDE DEF s
  <2>1. Leave(ToSet(s))
    <3>1. \A b \in ToSet(s) :
            b \in Made /\ b \notin gone /\ \A g \in Headers : b \notin ToSet(content[g])
      BY <1>6, <1>7
    <3>2. \A b \in Nat : /\ b \in held' <=> b \in held /\ b \notin ToSet(s)
                         /\ b \in ToSet(freeChunk')
                              <=> b \in ToSet(freeChunk) /\ b \notin ToSet(s)
      BY <1>2, <1>7, <1>9
    <3>3. \A b \in Nat, u \in Threads :
            b \in ToSet(cache'[u]) <=> b \in ToSet(cache[u]) /\ b \notin ToSet(s)
      BY <1>3, <1>4, <1>6, <1>7
    <3>4. Once(freeChunk') /\ \A u \in Threads : Once(cache'[u])
      BY <1>1, <1>3, <1>4, <1>9 DEF Distinct
    <3>. QED  BY <3>1, <3>2, <3>3, <3>4 DEF Leave
  <2>2. pc[t] \notin {"took", "push", "pushSwap"}
    BY <1>2
  <2>3. /\ StampSince' /\ Seen' /\ OnePath' /\ Hands' /\ Full' /\ Distinct' /\ Blocked'
        /\ chunk' \in [Threads -> Headers \cup {NULL}]
        /\ content' \in [Headers -> Seq(Nat)]
        /\ nextChunk' \in [Headers -> Headers \cup {NULL}]
    BY <1>1, <1>2, <1>6, <1>9, <2>1, <2>2, ChunkFilled
  <2>4. Types'
    <3>1. /\ pc' \in [Threads -> Steps]
          /\ why' \in [Threads -> {"alloc", "free", "end", "collect"}]
      BY <1>1, <1>9 DEF Types, Steps
    <3>. QED  BY <1>1, <1>2, <1>5, <1>9, <2>3, <3>1 DEF Types
  <2>5. Lists'
    <3>1. Len(cache'[t]) < 2 * chunkSize
      BY <1>4, Numbers
    <3>2. pc'[t] = "push" /\ \A u \in Threads \ {t} : pc'[u] = pc[u] /\ why'[u] = why[u]
      BY <1>1, <1>9 DEF Types
    <3>. QED  BY <1>1, <1>3, <3>1, <3>2 DEF Lists
  <2>. QED  BY <1>2, <2>3, <2>4, <2>5 DEF Good
<1>10. CASE /\ pc' = [pc EXCEPT ![t] = "cut"] /\ freeChunk' = freeChunk \o s
            /\ UNCHANGED <<chunk, content, nextChunk, why>>
  <2>. HIDE DEF s
  <2>1. /\ freeChunk' \in Seq(Nat) /\ Once(freeChunk')
        /\ \A b : b \in ToSet(freeChunk') <=> b \in ToSet(freeChunk) \/ b \in ToSet(s)
    <3>1. freeChunk \in Seq(Nat) /\ Once(freeChunk)
      BY <1>1 DEF Types, Distinct
    <3>2. \A b \in Nat : ~(b \in ToSet(freeChunk) /\ b \in ToSet(s))
      BY <1>7
    <3>3. PICK f : f = freeChunk \o s
      OBVIOUS
    <3>4. /\ f \in Seq(Nat) /\ Once(f)
          /\ \A b : b \in ToSet(f) <=> b \in ToSet(freeChunk) \/ b \in ToSet(s)
      BY <1>6, <3>1, <3>2, <3>3, JoinLists
    <3>. QED  BY <1>10, <3>3, <3>4
  <2>2. /\ StampSince' /\ Seen' /\ OnePath' /\ Hands'
        /\ Stack' = Stack /\ InHands' = InHands
    BY <1>1, <1>2, <1>10, StackStays DEF Steps
  <2>3. Types'
    <3>1. pc' \in [Threads -> Steps]
      BY <1>1, <1>10 DEF Types, Steps
    <3>. QED  BY <1>1, <1>2, <1>5, <1>10, <2>1, <3>1 DEF Types
  <2>4. Full'
    BY <1>1, <1>10, <2>2 DEF Full
  <2>5. Lists'
    <3>1. Len(cache'[t]) < 2 * chunkSize
      BY <1>4, Numbers
    <3>2. pc'[t] = "cut" /\ \A u \in Threads \ {t} : pc'[u] = pc[u]
      BY <1>1, <1>10 DEF Types
    <3>. QED  BY <1>1, <1>3, <1>10, <3>1, <3>2 DEF Lists
  <2>6. Distinct'
    BY <1>1, <1>3, <1>4, <1>10, <2>1 DEF Distinct
  <2>7. Blocked'
    <3>1. PICK X \in SUBSET Nat : X = ToSet(s)
      BY <1>6
    <3> DEFINE v == [b \in Nat |-> LEFT]
    <3>2. \A b \in Nat : v[b] = LEFT
      OBVIOUS
    <3>. HIDE DEF v
    <3>3. \A b \in Nat : b \in Made' <=> b \in Made \/ b \in X
      BY <1>2, <1>7, <3>1 DEF Made
    <3>4. \A b \in X : v[b] \in Places
      BY <3>2, PlacesApart
    <3>5. /\ \A b \in Nat : b \in held' <=> IF b \in X THEN v[b] = HELD ELSE b \in held
          /\ \A b \in Nat : b \in gone' <=> IF b \in X THEN v[b] = GONE ELSE b \in gone
          /\ \A b \in Nat : b \in ToSet(freeChunk')
                              <=> IF b \in X THEN v[b] = LEFT ELSE b \in ToSet(freeChunk)
      BY <1>2, <1>7, <2>1, <3>1, <3>2, PlacesApart
    <3>6. ASSUME NEW b \in Nat, NEW u \in Threads
          PROVE  b \in ToSet(cache'[u])
                   <=> IF b \in X THEN v[b] = CACHE(u) ELSE b \in ToSet(cache[u])
      BY <1>3, <1>4, <1>6, <1>7, <3>1, <3>2, PlacesApart
    <3>7. \A b \in Nat, g \in Headers :
            b \in ToSet(content'[g])
              <=> IF b \in X THEN v[b] = CHUNK(g) ELSE b \in ToSet(content[g])
      BY <1>7, <1>10, <3>1, <3>2, PlacesApart
    <3>8. Moves(X, v)
      BY ONLY <3>3, <3>4, <3>5, <3>6, <3>7 DEF Moves
    <3>. QED  BY <1>1, <3>8, BlocksMove
  <2>. QED  BY <1>2, <2>2, <2>3, <2>4, <2>5, <2>6, <2>7 DEF Good
<1>11. \/ /\ s = <<>> /\ pc' = [pc EXCEPT ![t] = "ended"]
          /\ UNCHANGED <<chunk, content, nextChunk, freeChunk, why>>
       \/ /\ Len(s) = chunkSize /\ pc' = [pc EXCEPT ![t] = "push"]
          /\ why' = [why EXCEPT ![t] = "free"] /\ BeginPush(t, s) /\ UNCHANGED freeChunk
       \/ /\ pc' = [pc EXCEPT ![t] = "cut"] /\ freeChunk' = freeChunk \o s
          /\ UNCHANGED <<chunk, content, nextChunk, why>>
  BY Zenon DEF RemoveRemainders, Goto, freeVars
<1>. QED  BY <1>8, <1>9, <1>10, <1>11

\* The left-overs of threads are cut.
LEMMA CutFreeChunkKeeps ==
  ASSUME Good, fooled = 0, NEW t \in Threads, CutFreeChunk(t)
  PROVE  Good' /\ fooled' = 0
<1>1. /\ Types /\ StampSince /\ Seen /\ OnePath /\ Hands /\ Full /\ Lists
      /\ Distinct /\ Blocked
  BY GoodParts
<1>2. /\ why' = [why EXCEPT ![t] = "end"]
      /\ UNCHANGED <<topChunk, localTop, next, cache, held, made, gone, since, fooled>>
  BY DEF CutFreeChunk, blockVars, ghostVars
<1>3. pc[t] = "cut"
  BY DEF CutFreeChunk, Goto
<1> DEFINE first == SubSeq(freeChunk, 1, chunkSize)
           rest == SubSeq(freeChunk, chunkSize + 1, Len(freeChunk))
<1>4. CASE /\ Len(freeChunk) >= chunkSize /\ pc' = [pc EXCEPT ![t] = "push"]
           /\ BeginPush(t, first) /\ freeChunk' = rest
  <2>1. freeChunk \in Seq(Nat) /\ Once(freeChunk) /\ Len(freeChunk) \in Nat
    BY <1>1 DEF Types, Distinct
  <2>2. /\ first \in Seq(Nat) /\ Len(first) = chunkSize /\ Once(first)
        /\ rest \in Seq(Nat) /\ Once(rest)
        /\ \A c : c \in ToSet(freeChunk) <=> c \in ToSet(first) \/ c \in ToSet(rest)
        /\ \A c : ~(c \in ToSet(first) /\ c \in ToSet(rest))
    BY <1>4, <2>1, CutList, Numbers
  <2>3. BeginPush(t, first) /\ freeChunk' = rest
    BY <1>4
  <2>. HIDE DEF first, rest
  <2>4. ToSet(first) \subseteq Nat
    BY <2>2, ElementOf, InSeq
  <2>5. Leave(ToSet(first))
    <3>1. \A b \in ToSet(first) : /\ b \in Made /\ b \notin held /\ b \notin gone
                                  /\ \A u \in Threads : b \notin ToSet(cache[u])
                                  /\ \A g \in Headers : b \notin ToSet(content[g])
      BY <1>1, <2>2, <2>4, InOnePlace
    <3>2. /\ \A b \in Nat : b \in held' <=> b \in held /\ b \notin ToSet(first)
          /\ \A b \in Nat : b \in ToSet(freeChunk')
                              <=> b \in ToSet(freeChunk) /\ b \notin ToSet(first)
          /\ \A b \in Nat, u \in Threads :
               b \in ToSet(cache'[u]) <=> b \in ToSet(cache[u]) /\ b \notin ToSet(first)
      BY <1>2, <2>2, <2>3, <3>1
    <3>3. Once(freeChunk') /\ \A u \in Threads : Once(cache'[u])
      BY <1>1, <1>2, <2>2, <2>3 DEF Distinct
    <3>. QED  BY <3>1, <3>2, <3>3 DEF Leave
  <2>6. pc[t] \notin {"took", "push", "pushSwap"} /\ pc' = [pc EXCEPT ![t] = "push"]
    BY <1>3, <1>4
  <2>7. /\ StampSince' /\ Seen' /\ OnePath' /\ Hands' /\ Full' /\ Distinct' /\ Blocked'
        /\ chunk' \in [Threads -> Headers \cup {NULL}]
        /\ content' \in [Headers -> Seq(Nat)]
        /\ nextChunk' \in [Headers -> Headers \cup {NULL}]
    BY <1>1, <1>2, <2>2, <2>3, <2>5, <2>6, ChunkFilled
  <2>8. Types'
    <3>1. /\ pc' \in [Threads -> Steps]
          /\ why' \in [Threads -> {"alloc", "free", "end", "collect"}]
      BY <1>1, <1>2, <2>6 DEF Types, Steps
    <3>. QED  BY <1>1, <1>2, <2>2, <2>3, <2>7, <3>1 DEF Types
  <2>9. Lists'
    <3>1. pc'[t] = "push" /\ \A u \in Threads \ {t} : pc'[u] = pc[u] /\ why'[u] = why[u]
      BY <1>1, <1>2, <2>6 DEF Types
    <3>. QED  BY <1>1, <1>2, <3>1 DEF Lists
  <2>. QED  BY <1>2, <2>7, <2>8, <2>9 DEF Good
<1>5. CASE /\ pc' = [pc EXCEPT ![t] = "unlock"]
           /\ UNCHANGED <<chunk, content, nextChunk, freeChunk>>
  <2>1. /\ StampSince' /\ Seen' /\ OnePath' /\ Hands'
        /\ Stack' = Stack /\ InHands' = InHands
    BY <1>1, <1>2, <1>3, <1>5, StackStays DEF Steps
  <2>2. Distinct' /\ Blocked'
    BY <1>1, <1>2, <1>5, BlocksStay
  <2>3. Types' /\ Full'
    BY <1>1, <1>2, <1>5, <2>1 DEF Types, Full, Steps
  <2>4. Lists'
    <3>1. pc'[t] = "unlock" /\ \A u \in Threads \ {t} : pc'[u] = pc[u] /\ why'[u] = why[u]
      BY <1>1, <1>2, <1>5 DEF Types
    <3>. QED  BY <1>1, <1>2, <3>1 DEF Lists
  <2>. QED  BY <1>2, <2>1, <2>2, <2>3, <2>4 DEF Good
<1>6. \/ /\ Len(freeChunk) >= chunkSize /\ pc' = [pc EXCEPT ![t] = "push"]
         /\ BeginPush(t, first) /\ freeChunk' = rest
      \/ /\ pc' = [pc EXCEPT ![t] = "unlock"]
         /\ UNCHANGED <<chunk, content, nextChunk, freeChunk>>
  BY Zenon DEF CutFreeChunk, Goto
<1>. QED  BY <1>4, <1>5, <1>6

\* The steps that only count, or open the lock.
LEMMA CountingKeeps ==
  ASSUME Good, fooled = 0, NEW t \in Threads,
         \/ Unlock(t) \/ ReadCounter(t) \/ GarbageCollect(t)
         \/ SubtractUsed(t) \/ SubtractCapacity(t)
  PROVE  Good' /\ fooled' = 0
<1>1. /\ Types /\ StampSince /\ Seen /\ OnePath /\ Hands /\ Full /\ Lists
      /\ Distinct /\ Blocked
  BY GoodParts
<1>2. /\ UNCHANGED <<topChunk, nextChunk, content, freeChunk, localTop, next, chunk, cache, held,
                     gone, made, since, fooled>>
      /\ pc[t] \in {"unlock", "collect", "thenUsed", "thenCapacity", "used", "capacity"}
  BY DEF Unlock, ReadCounter, GarbageCollect, SubtractUsed, SubtractCapacity, Goto, chunkVars,
         freeVars, threadVars, blockVars, ghostVars
<1>3. \/ /\ pc' = [pc EXCEPT ![t] = pc'[t]]
         /\ pc'[t] \in {"collect", "thenUsed", "thenCapacity", "ended", "capacity"}
         /\ why' = why
      \/ /\ pc' = [pc EXCEPT ![t] = pc'[t]] /\ pc'[t] \in {"top", "ended"}
         /\ why' = [why EXCEPT ![t] = "collect"]
  <2>1. pc \in [Threads -> Steps]
    BY <1>1 DEF Types
  <2>. QED  BY <2>1 DEF Unlock, ReadCounter, GarbageCollect, SubtractUsed, SubtractCapacity, Goto
<1>4. PICK x : x = pc'[t]
  OBVIOUS
<1>5. /\ pc' = [pc EXCEPT ![t] = x]
      /\ x \in {"collect", "thenUsed", "thenCapacity", "ended", "capacity", "top"}
      /\ why' = why \/ why' = [why EXCEPT ![t] = "collect"]
      /\ x = "top" => why'[t] = "collect"
  BY <1>1, <1>3, <1>4 DEF Types
<1>6. /\ StampSince' /\ Seen' /\ OnePath' /\ Hands'
      /\ Stack' = Stack /\ InHands' = InHands
  BY <1>1, <1>2, <1>5, StackStays DEF Steps
<1>7. Distinct' /\ Blocked'
  BY <1>1, <1>2, BlocksStay
<1>8. Types' /\ Full'
  BY <1>1, <1>2, <1>5, <1>6 DEF Types, Full, Steps
<1>9. Lists'
  <2>1. /\ pc'[t] = x /\ \A u \in Threads \ {t} : pc'[u] = pc[u] /\ why'[u] = why[u]
    BY <1>1, <1>5 DEF Types
  <2>. QED  BY <1>1, <1>2, <1>5, <2>1 DEF Lists
<1>. QED  BY <1>2, <1>6, <1>7, <1>8, <1>9 DEF Good

\* Every step keeps the invariant.
LEMMA NextInv == IInv /\ [Next]_vars => IInv'
<1>1. ASSUME IInv, Next PROVE IInv'
  <2>1. fooled = 0 /\ Good
    BY <1>1 DEF Next, IInv
  <2>2. Good' /\ fooled' = 0 => IInv'
    BY DEF IInv, FooledOnlyByWrap
  <2>3. PICK t \in Threads : \/ ThreadStep(t) \/ Alloc(t) \/ RemoveRemainders(t)
                             \/ \E b \in held : Free(t, b)
    BY <1>1 DEF Next
  <2>4. CASE ThreadStep(t)
    <3>1. CASE ReadTop(t) \/ ReadNextChunk(t) \/ PopChunk(t)
      BY <2>1, <2>2, <3>1, ReadTopKeeps, ReadNextChunkKeeps, PopChunkKeeps
    <3>2. CASE CreateNewChunk(t) \/ TakeChunk(t)
      BY <2>1, <2>2, <3>2, CreateNewChunkKeeps, TakeChunkKeeps
    <3>3. CASE PushReadTop(t) \/ PushSwap(t) \/ CutFreeChunk(t)
      BY <2>1, <2>2, <3>3, PushReadTopKeeps, PushSwapKeeps, CutFreeChunkKeeps
    <3>4. CASE \/ Unlock(t) \/ ReadCounter(t) \/ GarbageCollect(t)
               \/ SubtractUsed(t) \/ SubtractCapacity(t)
      BY <2>1, <2>2, <3>4, CountingKeeps
    <3>. QED  BY <2>4, <3>1, <3>2, <3>3, <3>4 DEF ThreadStep
  <2>5. CASE Alloc(t) \/ RemoveRemainders(t)
    BY <2>1, <2>2, <2>5, AllocKeeps, RemoveRemaindersKeeps
  <2>6. CASE \E b \in held : Free(t, b)
    BY <2>1, <2>2, <2>6, FreeKeepsIt
  <2>. QED  BY <2>3, <2>4, <2>5, <2>6
<1>2. ASSUME IInv, UNCHANGED vars PROVE IInv'
  <2>1. UNCHANGED <<topChunk, nextChunk, content, freeChunk, cache, held, gone, pc, why, localTop,
                    next, chunk, made, since, fooled>>
    BY <1>2 DEF vars, chunkVars, freeVars, threadVars, blockVars, ghostVars
  <2>2. Stack' = Stack /\ InHands' = InHands
    BY <2>1 DEF Stack, Linked, InHands
  <2>3. ASSUME Good PROVE Good'
    <3>1. /\ Types /\ StampSince /\ Seen /\ OnePath /\ Hands /\ Full /\ Lists
          /\ Distinct /\ Blocked
      BY <2>3, GoodParts
    <3>2. Distinct' /\ Blocked'
      BY <2>1, <3>1, BlocksStay
    <3>3. Types' /\ StampSince' /\ Seen' /\ Lists'
      BY <2>1, <3>1 DEF Types, StampSince, Seen, Lists
    <3>4. OnePath' /\ Hands' /\ Full'
      BY <2>1, <2>2, <3>1 DEF OnePath, Hands, Full
    <3>. QED  BY <3>2, <3>3, <3>4 DEF Good
  <2>. QED  BY <1>2, <2>1, <2>3 DEF IInv, FooledOnlyByWrap
<1>. QED  BY <1>1, <1>2

-----------------------------------------------------------------------------
(***************************************************************************)
(* What follows from it.                                                   *)
(***************************************************************************)
\* How many there are of something that is there once, or not at all.
LEMMA OneOrNone ==
  ASSUME NEW S
  PROVE  /\ (\E x \in S : \A y \in S : y = x) => Cardinality(S) = 1
         /\ (\A y \in S : FALSE) => Cardinality(S) = 0
<1>1. ASSUME NEW x \in S, \A y \in S : y = x PROVE Cardinality(S) = 1
  <2>1. S = {x}
    BY <1>1
  <2>. QED  BY <2>1, FS_Singleton
<1>2. ASSUME \A y \in S : FALSE PROVE Cardinality(S) = 0
  <2>1. S = {}
    BY <1>2
  <2>. QED  BY <2>1, FS_EmptySet
<1>. QED  BY <1>1, <1>2

\* Where a block is in the lists f of K.
Spots(K, f, m, b) == {p \in K \X (1 .. m) : p[2] <= Len(f[p[1]]) /\ f[p[1]][p[2]] = b}

\* A block is counted once in all of the lists it may be in.
LEMMA CountedOnce ==
  ASSUME NEW K, NEW f, NEW m \in Nat, NEW b,
         \A k \in K : f[k] \in Seq(Nat) /\ Len(f[k]) <= m /\ Once(f[k]),
         \A j, k \in K : b \in ToSet(f[j]) /\ b \in ToSet(f[k]) => j = k
  PROVE  Cardinality(Spots(K, f, m, b)) = IF \E k \in K : b \in ToSet(f[k]) THEN 1 ELSE 0
<1> DEFINE S == Spots(K, f, m, b)
<1>1. \A k \in K, i \in 1 .. m :
        <<k, i>> \in S <=> i \in DOMAIN f[k] /\ f[k][i] = b
  <2>1. \A k \in K, i \in 1 .. m : i \in DOMAIN f[k] <=> i <= Len(f[k])
    OBVIOUS
  <2>. QED  BY <2>1 DEF Spots
<1>2. \A p \in S : \E k \in K, i \in 1 .. m : p = <<k, i>>
  BY DEF Spots
<1>. HIDE DEF S
<1>3. CASE \E k \in K : b \in ToSet(f[k])
  <2>1. PICK k \in K : b \in ToSet(f[k])
    BY <1>3
  <2>2. PICK i \in DOMAIN f[k] : f[k][i] = b
    BY <2>1, InSeq
  <2>3. i \in 1 .. m
    <3>1. f[k] \in Seq(Nat) /\ Len(f[k]) <= m /\ Len(f[k]) \in Nat /\ DOMAIN f[k] = 1 .. Len(f[k])
      OBVIOUS
    <3>. QED  BY <2>2, <3>1
  <2>4. <<k, i>> \in S
    BY <1>1, <2>2, <2>3
  <2>5. ASSUME NEW p \in S PROVE p = <<k, i>>
    <3>1. PICK j \in K, n \in 1 .. m : p = <<j, n>>
      BY <1>2
    <3>2. n \in DOMAIN f[j] /\ f[j][n] = b
      BY <1>1, <3>1
    <3>3. j = k
      BY <2>1, <3>2, InSeq
    <3>4. n = i
      BY <2>2, <3>2, <3>3 DEF Once
    <3>. QED  BY <3>1, <3>3, <3>4
  <2>6. Cardinality(S) = 1
    BY <2>4, <2>5, OneOrNone
  <2>. QED  BY <1>3, <2>6 DEF S
<1>4. CASE ~\E k \in K : b \in ToSet(f[k])
  <2>1. ASSUME NEW p \in S PROVE FALSE
    <3>1. PICK j \in K, n \in 1 .. m : p = <<j, n>>
      BY <1>2
    <3>2. n \in DOMAIN f[j] /\ f[j][n] = b
      BY <1>1, <3>1
    <3>. QED  BY <1>4, <3>2, InSeq
  <2>2. Cardinality(S) = 0
    BY <2>1, OneOrNone
  <2>. QED  BY <1>4, <2>2 DEF S
<1>. QED  BY <1>3, <1>4

\* As long as no swap was fooled, every block is in one place.
LEMMA GoodIsOnePlace == Good => OnePlace
<1>. SUFFICES ASSUME Good PROVE OnePlace
  OBVIOUS
<1>1. /\ Types /\ StampSince /\ Seen /\ OnePath /\ Hands /\ Full /\ Lists
      /\ Distinct /\ Blocked
  BY GoodParts
<1>2. PICK w : Placed(w)
  BY <1>1 DEF Blocked
<1>3. Stack \cup InHands \subseteq Headers
  BY <1>1 DEF Stack, InHands, Types
<1>4. ASSUME NEW b \in Made PROVE Copies(b) = 1
  <2> DEFINE n1 == Cardinality({b} \cap held)
             n2 == Cardinality({b} \cap gone)
             n3 == Cardinality({i \in DOMAIN freeChunk : freeChunk[i] = b})
             n4 == Cardinality({p \in Threads \X (1..(2 * chunkSize)) :
                                  p[2] <= Len(cache[p[1]]) /\ cache[p[1]][p[2]] = b})
             n5 == Cardinality({p \in (Stack \cup InHands) \X (1..chunkSize) :
                                  p[2] <= Len(content[p[1]]) /\ content[p[1]][p[2]] = b})
  <2>0. b \in Nat
    BY DEF Made
  <2>1. n1 = IF w[b] = HELD THEN 1 ELSE 0
    <3>1. b \in held <=> w[b] = HELD
      BY <1>2, <2>0 DEF Placed
    <3>2. b \in held => {b} \cap held = {b}
      OBVIOUS
    <3>3. b \notin held => {b} \cap held = {}
      OBVIOUS
    <3>. QED  BY <3>1, <3>2, <3>3, FS_Singleton, FS_EmptySet
  <2>2. n2 = IF w[b] = GONE THEN 1 ELSE 0
    <3>1. b \in gone <=> w[b] = GONE
      BY <1>2, <2>0 DEF Placed
    <3>2. b \in gone => {b} \cap gone = {b}
      OBVIOUS
    <3>3. b \notin gone => {b} \cap gone = {}
      OBVIOUS
    <3>. QED  BY <3>1, <3>2, <3>3, FS_Singleton, FS_EmptySet
  <2>3. n3 = IF w[b] = LEFT THEN 1 ELSE 0
    <3> DEFINE S == {i \in DOMAIN freeChunk : freeChunk[i] = b}
    <3>1. b \in ToSet(freeChunk) <=> w[b] = LEFT
      BY <1>2, <2>0 DEF Placed
    <3>2. ASSUME w[b] = LEFT PROVE Cardinality(S) = 1
      <4>1. PICK i \in DOMAIN freeChunk : freeChunk[i] = b
        BY <3>1, <3>2, InSeq
      <4>2. \A j \in S : j = i
        BY <1>1, <4>1 DEF Distinct, Once
      <4>. QED  BY <4>1, <4>2, OneOrNone
    <3>3. ASSUME w[b] # LEFT PROVE Cardinality(S) = 0
      <4>1. \A j \in S : FALSE
        BY <3>1, <3>3, InSeq
      <4>. QED  BY <4>1, OneOrNone
    <3>. QED  BY <3>2, <3>3
  <2>4. n4 = IF \E t \in Threads : w[b] = CACHE(t) THEN 1 ELSE 0
    <3>1. \A t \in Threads : b \in ToSet(cache[t]) <=> w[b] = CACHE(t)
      BY <1>2, <2>0 DEF Placed
    <3>2. 2 * chunkSize \in Nat
      BY Numbers
    <3>3. \A t \in Threads :
            cache[t] \in Seq(Nat) /\ Len(cache[t]) <= 2 * chunkSize /\ Once(cache[t])
      <4>1. \A t \in Threads : /\ cache[t] \in Seq(Nat) /\ Len(cache[t]) \in Nat
                               /\ Len(cache[t]) < 2 * chunkSize /\ Once(cache[t])
        BY <1>1 DEF Types, Lists, Distinct
      <4>. QED  BY <3>2, <4>1
    <3>4. \A t, u \in Threads : b \in ToSet(cache[t]) /\ b \in ToSet(cache[u]) => t = u
      BY <3>1, PlacesApart
    <3>5. n4 = Cardinality(Spots(Threads, cache, 2 * chunkSize, b))
      BY DEF Spots
    <3>. HIDE DEF n4
    <3>6. n4 = IF \E t \in Threads : b \in ToSet(cache[t]) THEN 1 ELSE 0
      BY <3>2, <3>3, <3>4, <3>5, CountedOnce
    <3>. QED  BY <3>1, <3>6
  <2>5. n5 = IF \E h \in Headers : w[b] = CHUNK(h) THEN 1 ELSE 0
    <3>1. \A h \in Headers : b \in ToSet(content[h]) <=> w[b] = CHUNK(h)
      BY <1>2, <2>0 DEF Placed
    <3>2. \A h \in Headers : b \in ToSet(content[h]) => h \in Stack \cup InHands
      <4>1. \A h \in Headers \ (Stack \cup InHands) : ToSet(content[h]) = {}
        BY <1>1, EmptyList DEF Full
      <4>. QED  BY <4>1
    <3>3. \A h \in Stack \cup InHands :
            content[h] \in Seq(Nat) /\ Len(content[h]) <= chunkSize /\ Once(content[h])
      <4>1. \A h \in Stack \cup InHands :
              content[h] \in Seq(Nat) /\ Len(content[h]) = chunkSize /\ Once(content[h])
        BY <1>1, <1>3 DEF Types, Full, Distinct
      <4>. QED  BY <4>1, Numbers
    <3>4. \A h, k \in Stack \cup InHands :
            b \in ToSet(content[h]) /\ b \in ToSet(content[k]) => h = k
      BY <1>3, <3>1, PlacesApart
    <3>5. PICK K : K = Stack \cup InHands
      OBVIOUS
    <3>6. /\ \A h \in K : content[h] \in Seq(Nat) /\ Len(content[h]) <= chunkSize
                          /\ Once(content[h])
          /\ \A h, k \in K : b \in ToSet(content[h]) /\ b \in ToSet(content[k]) => h = k
      BY <3>3, <3>4, <3>5
    <3>7. Cardinality(Spots(K, content, chunkSize, b))
            = IF \E h \in K : b \in ToSet(content[h]) THEN 1 ELSE 0
      BY <3>6, CountedOnce, Numbers
    <3>8. (\E h \in K : b \in ToSet(content[h])) <=> (\E h \in Headers : w[b] = CHUNK(h))
      BY <1>3, <3>1, <3>2, <3>5
    <3>9. n5 = Cardinality(Spots(K, content, chunkSize, b))
      BY <3>5 DEF Spots
    <3>. QED  BY <3>7, <3>8, <3>9
  <2>6. Copies(b) = n1 + n2 + n3 + n4 + n5
    BY DEF Copies
  <2>. HIDE DEF n1, n2, n3, n4, n5
  <2>7. \/ w[b] = HELD \/ w[b] = GONE \/ w[b] = LEFT
        \/ \E t \in Threads : w[b] = CACHE(t)
        \/ \E h \in Headers : w[b] = CHUNK(h)
    BY <1>2 DEF Placed, Places
  <2>8. n1 + n2 + n3 + n4 + n5 = 1
    BY <2>1, <2>2, <2>3, <2>4, <2>5, <2>7, PlacesApart
  <2>. QED  BY <2>6, <2>8
<1>5. \A h \in Stack : Len(content[h]) = chunkSize
  BY <1>1 DEF Full
<1>. QED  BY <1>4, <1>5 DEF OnePlace, Made

\* In every state: until a swap is fooled, the stack is one list without the chunks in
\* hands, and what threads read of it is there or the stamp tells them otherwise.
THEOREM InvariantHolds == Spec => []IInv
  BY InitInv, NextInv, PTL DEF Spec

\* A thread that swaps topChunk_ against an old value saw it change as often as the
\* stamp has values, for any number of threads and of values: the stamp does what it
\* is for (ChunkLockFree.h:234-319).
THEOREM FooledOnlyByWrapHolds == Spec => []FooledOnlyByWrap
<1>1. IInv => FooledOnlyByWrap
  BY DEF IInv
<1>. QED  BY <1>1, InvariantHolds, PTL

\* No block is ever in two places or in none, and no chunk of the stack lacks a block,
\* whichever threads take, return and end, until a swap is fooled.
THEOREM OnePlaceHolds == Spec => []OnePlace
<1>1. IInv => OnePlace
  BY GoodIsOnePlace DEF IInv, OnePlace
<1>. QED  BY <1>1, InvariantHolds, PTL

-----------------------------------------------------------------------------
(***************************************************************************)
(* The two counters.  The chunks are those of the stack and in hands, those*)
(* whose blocks went back to the heap, and those whose blocks are outside; *)
(* what a collection took it subtracts later, from one counter after the   *)
(* other.                                                                  *)
(***************************************************************************)
\* A thread takes chunks in order to give them back to the heap.
Collecting(t) == why[t] = "collect" /\ pc[t] \in {"top", "next", "swap", "create", "took"}

\* What a collection has in mind: nothing before it begins and after it ended.
Diffs ==
  /\ diff \in [Threads -> [all : Nat, left : Nat]] /\ capacity \in Int /\ used \in Int
  /\ \A t \in Threads :
       /\ diff[t].left <= diff[t].all
       /\ Collecting(t) => diff[t].left > 0
       /\ pc[t] \in {"used", "capacity"} => diff[t].left = 0
       /\ ~Collecting(t) /\ pc[t] \notin {"used", "capacity"} => diff[t].all = 0

\* One for each chunk that a collection has taken and not yet subtracted from
\* chunkCapacity_, and from chunkUsed_.
Collected   == {p \in Threads \X Nat : p[2] < diff[p[1]].all - diff[p[1]].left}
Uncorrected == {p \in Collected : pc[p[1]] # "capacity"}

Filled == Headers \ InHeap

\* The counters, when the blocks of g chunks went back to the heap.
CountedBy(g) ==
  /\ Cardinality(gone) = chunkSize * g
  /\ capacity = made - g + Cardinality(Collected)
  /\ used = made - g - Cardinality(Filled) + Cardinality(Uncorrected)

Counted == Diffs /\ IsFiniteSet(Collected) /\ \E g \in Nat : CountedBy(g)

\* What a collection has read may be long out of date: it is a number.
Loaded == loaded \in [Threads -> Int]

\* Two sets of which one counts the other.
LEMMA SameSize ==
  ASSUME NEW S, NEW T, NEW f \in [S -> T], IsFiniteSet(S) \/ IsFiniteSet(T),
         \A a, b \in S : f[a] = f[b] => a = b, \A t \in T : \E s \in S : f[s] = t
  PROVE  IsFiniteSet(S) /\ IsFiniteSet(T) /\ Cardinality(S) = Cardinality(T)
<1>1. f \in Injection(S, T) /\ f \in Surjection(S, T)
  BY DEF Injection, Surjection, IsInjective
<1>2. CASE IsFiniteSet(S)
  BY <1>1, <1>2, FS_Surjection
<1>3. CASE IsFiniteSet(T)
  BY <1>1, <1>3, FS_Injection
<1>. QED  BY <1>2, <1>3

\* The blocks of the lists f of K, and the places they have in them.
BlocksOf(K, f) == {b \in Nat : \E k \in K : b \in ToSet(f[k])}
SpotsOf(K, f, m) == {p \in K \X (1 .. m) : p[2] <= Len(f[p[1]])}

\* Lists that have nothing twice and nothing in common have as many blocks as places.
LEMMA AsManyBlocks ==
  ASSUME NEW K, NEW f, NEW m \in Nat,
         \A k \in K : f[k] \in Seq(Nat) /\ Len(f[k]) <= m /\ Once(f[k]),
         \A b \in Nat, j, k \in K : b \in ToSet(f[j]) /\ b \in ToSet(f[k]) => j = k,
         IsFiniteSet(BlocksOf(K, f)) \/ IsFiniteSet(SpotsOf(K, f, m))
  PROVE  /\ IsFiniteSet(BlocksOf(K, f)) /\ IsFiniteSet(SpotsOf(K, f, m))
         /\ Cardinality(SpotsOf(K, f, m)) = Cardinality(BlocksOf(K, f))
<1> DEFINE S == SpotsOf(K, f, m)
           B == BlocksOf(K, f)
           F == [p \in S |-> f[p[1]][p[2]]]
<1>1. \A k \in K, i \in 1 .. m : <<k, i>> \in S <=> i \in DOMAIN f[k]
  <2>1. \A k \in K, i \in 1 .. m : i \in DOMAIN f[k] <=> i <= Len(f[k])
    OBVIOUS
  <2>. QED  BY <2>1 DEF SpotsOf
<1>2. \A p \in S : \E k \in K, i \in 1 .. m : p = <<k, i>>
  BY DEF SpotsOf
<1>3. \A b : b \in B <=> b \in Nat /\ \E k \in K : b \in ToSet(f[k])
  BY DEF BlocksOf
<1>4. \A p \in S : F[p] = f[p[1]][p[2]]
  OBVIOUS
<1>5. F = [p \in S |-> F[p]]
  OBVIOUS
<1>. HIDE DEF S, B, F
<1>6. ASSUME NEW k \in K, NEW i \in 1 .. m, <<k, i>> \in S
      PROVE  /\ i \in DOMAIN f[k] /\ F[<<k, i>>] = f[k][i] /\ f[k][i] \in ToSet(f[k])
             /\ f[k][i] \in Nat
  <2>1. i \in DOMAIN f[k] /\ F[<<k, i>>] = f[k][i]
    BY <1>1, <1>4, <1>6
  <2>2. f[k] \in Seq(Nat)
    OBVIOUS
  <2>. QED  BY <2>1, <2>2, InSeq, ElementOf
<1>7. \A p \in S : F[p] \in B
  BY <1>2, <1>3, <1>6
<1>8. ASSUME NEW p \in S, NEW q \in S, F[p] = F[q] PROVE p = q
  <2>1. PICK k \in K, i \in 1 .. m : p = <<k, i>>
    BY <1>2
  <2>2. PICK j \in K, n \in 1 .. m : q = <<j, n>>
    BY <1>2
  <2>3. /\ i \in DOMAIN f[k] /\ F[p] = f[k][i] /\ f[k][i] \in ToSet(f[k]) /\ f[k][i] \in Nat
        /\ n \in DOMAIN f[j] /\ F[q] = f[j][n] /\ f[j][n] \in ToSet(f[j])
    BY <1>6, <2>1, <2>2
  <2>4. k = j
    BY <1>8, <2>3
  <2>5. i = n
    BY <1>8, <2>3, <2>4 DEF Once
  <2>. QED  BY <2>1, <2>2, <2>4, <2>5
<1>9. ASSUME NEW b \in B PROVE \E p \in S : F[p] = b
  <2>1. PICK k \in K : b \in ToSet(f[k])
    BY <1>3
  <2>2. PICK i \in DOMAIN f[k] : f[k][i] = b
    BY <2>1, InSeq
  <2>3. i \in 1 .. m
    <3>1. f[k] \in Seq(Nat) /\ Len(f[k]) <= m /\ Len(f[k]) \in Nat /\ DOMAIN f[k] = 1 .. Len(f[k])
      OBVIOUS
    <3>. QED  BY <2>2, <3>1
  <2>4. <<k, i>> \in S
    BY <1>1, <2>2, <2>3
  <2>. QED  BY <1>6, <2>2, <2>3, <2>4
<1>10. F \in [S -> B]
  BY <1>5, <1>7
<1>11. IsFiniteSet(S) \/ IsFiniteSet(B)
  BY DEF S, B
<1>12. IsFiniteSet(S) /\ IsFiniteSet(B) /\ Cardinality(S) = Cardinality(B)
  BY <1>8, <1>9, <1>10, <1>11, SameSize
<1>. QED  BY <1>12 DEF S, B

\* The blocks of one list.
LEMMA ListSize ==
  ASSUME NEW s \in Seq(Nat), Once(s)
  PROVE  IsFiniteSet(ToSet(s)) /\ Cardinality(ToSet(s)) = Len(s)
<1>1. PICK n \in Nat : n = Len(s) /\ DOMAIN s = 1 .. n
  OBVIOUS
<1> DEFINE S == 1 .. n
           T == ToSet(s)
<1>2. IsFiniteSet(S) /\ Cardinality(S) = n
  BY FS_Interval
<1>3. \A b : b \in T <=> \E i \in S : s[i] = b
  BY <1>1, InSeq
<1>4. s = [i \in S |-> s[i]]
  BY <1>1
<1>5. \A i, j \in S : s[i] = s[j] => i = j
  BY <1>1 DEF Once
<1>. HIDE DEF S, T, Once
<1>6. s \in [S -> T]
  BY ONLY <1>3, <1>4
<1>7. IsFiniteSet(T) /\ Cardinality(S) = Cardinality(T)
  BY ONLY <1>2, <1>3, <1>5, <1>6, SameSize
<1>. QED  BY <1>1, <1>2, <1>7 DEF T

\* There are finitely many blocks and chunks.
LEMMA FiniteBlocks ==
  ASSUME Good
  PROVE  /\ made \in Nat /\ made * chunkSize \in Nat
         /\ IsFiniteSet(Made) /\ Cardinality(Made) = made * chunkSize
         /\ IsFiniteSet(gone) /\ IsFiniteSet(Filled) /\ Cardinality(Filled) \in Nat
<1>1. made \in Nat /\ made * chunkSize \in Nat
  <2>1. made \in Nat
    BY DEF Good, Types
  <2>. QED  BY <2>1, Numbers, OneMore
<1>2. IsFiniteSet(Made) /\ Cardinality(Made) = made * chunkSize
  BY <1>1, FS_Interval DEF Made
<1>3. IsFiniteSet(gone)
  <2>1. gone \subseteq Made
    <3>1. gone \subseteq Nat /\ Blocked
      BY DEF Good, Types
    <3>. QED  BY <3>1, InOnePlace
  <2>. QED  BY <1>2, <2>1, FS_Subset
<1>4. IsFiniteSet(Filled) /\ Cardinality(Filled) \in Nat
  <2>1. IsFiniteSet(Headers)
    BY PoolAssumption, FS_Interval DEF Headers
  <2>2. Filled \in SUBSET Headers
    BY DEF Filled
  <2>3. IsFiniteSet(Filled)
    BY <2>1, <2>2, FS_Subset
  <2>. QED  BY <2>3, FS_CardinalityType
<1>. QED  BY <1>1, <1>2, <1>3, <1>4

\* A chunk is filled.
LEMMA OneFilled ==
  ASSUME Good, NEW h \in InHeap, NEW bs \in Seq(Nat), Len(bs) = chunkSize,
         content' = [content EXCEPT ![h] = bs]
  PROVE  Cardinality(Filled') = Cardinality(Filled) + 1
<1>1. h \in Headers /\ content[h] = <<>> /\ content \in [Headers -> Seq(Nat)]
  BY DEF InHeap, Good, Types
<1>2. bs # <<>>
  <2>1. Len(bs) # 0
    BY Numbers
  <2>. QED  BY <2>1, EmptyList
<1>3. content'[h] = bs /\ \A k \in Headers : k # h => content'[k] = content[k]
  BY <1>1
<1>4. Filled' = Filled \cup {h} /\ h \notin Filled
  BY <1>1, <1>2, <1>3 DEF Filled, InHeap
<1>. QED  BY <1>4, FiniteBlocks, FS_AddElement

\* A chunk is emptied.
LEMMA OneEmptied ==
  ASSUME Good, NEW h \in Headers, content[h] # <<>>, content' = [content EXCEPT ![h] = <<>>]
  PROVE  Cardinality(Filled') = Cardinality(Filled) - 1
<1>1. content \in [Headers -> Seq(Nat)]
  BY DEF Good, Types
<1>2. content'[h] = <<>> /\ \A k \in Headers : k # h => content'[k] = content[k]
  BY <1>1
<1>3. Filled' = Filled \ {h} /\ h \in Filled
  BY <1>2 DEF Filled, InHeap
<1>. QED  BY <1>3, FiniteBlocks, FS_RemoveElement

\* What is collected, pair by pair.
LEMMA CollectedIs ==
  /\ \A t, n : <<t, n>> \in Collected <=> t \in Threads /\ n \in Nat /\ n < diff[t].all - diff[t].left
  /\ \A t, n : <<t, n>> \in Collected' <=> t \in Threads /\ n \in Nat /\ n < diff'[t].all - diff'[t].left
  /\ \A p \in Collected \cup Collected' : p = <<p[1], p[2]>>
  /\ \A t, n : <<t, n>> \in Uncorrected <=> <<t, n>> \in Collected /\ pc[t] # "capacity"
  /\ \A t, n : <<t, n>> \in Uncorrected' <=> <<t, n>> \in Collected' /\ pc'[t] # "capacity"
  /\ Uncorrected \subseteq Collected /\ Uncorrected' \subseteq Collected'
  BY DEF Collected, Uncorrected

\* A step outside a collection.
LEMMA CollectedStays ==
  ASSUME Counted, diff' = diff, NEW t \in Threads,
         \A u \in Threads \ {t} : pc'[u] = pc[u] /\ why'[u] = why[u],
         Collecting(t)' <=> Collecting(t),
         pc[t] \notin {"used", "capacity"}, pc'[t] \notin {"used", "capacity"},
         capacity' \in Int, used' \in Int
  PROVE  Diffs' /\ Collected' = Collected /\ Uncorrected' = Uncorrected
<1>1. Diffs
  BY DEF Counted
<1>2. Collected' = Collected
  BY DEF Collected
<1>3. \A p \in Collected : pc'[p[1]] = "capacity" <=> pc[p[1]] = "capacity"
  BY DEF Collected
<1>4. Uncorrected' = Uncorrected
  BY <1>2, <1>3 DEF Uncorrected
<1>5. \A u \in Threads \ {t} : Collecting(u)' <=> Collecting(u)
  BY DEF Collecting
<1>. HIDE DEF Collecting
<1>6. Diffs'
  <2>1. \A u \in Threads :
          /\ diff'[u].left <= diff'[u].all
          /\ Collecting(u)' => diff'[u].left > 0
          /\ pc'[u] \in {"used", "capacity"} => diff'[u].left = 0
          /\ ~Collecting(u)' /\ pc'[u] \notin {"used", "capacity"} => diff'[u].all = 0
    BY <1>1, <1>5 DEF Diffs
  <2>2. diff' \in [Threads -> [all : Nat, left : Nat]]
    BY <1>1 DEF Diffs
  <2>. QED  BY <2>1, <2>2 DEF Diffs
<1>. QED  BY <1>2, <1>4, <1>6

\* Nothing that is counted changes.
LEMMA CountsStay ==
  ASSUME Counted, diff' = diff, NEW t \in Threads,
         \A u \in Threads \ {t} : pc'[u] = pc[u] /\ why'[u] = why[u],
         Collecting(t)' <=> Collecting(t),
         pc[t] \notin {"used", "capacity"}, pc'[t] \notin {"used", "capacity"},
         UNCHANGED <<capacity, used, made, gone, content>>
  PROVE  Counted'
<1>1. Diffs /\ IsFiniteSet(Collected)
  BY DEF Counted
<1>2. PICK g \in Nat : CountedBy(g)
  BY DEF Counted
<1>3. capacity' \in Int /\ used' \in Int
  BY <1>1 DEF Diffs
<1>4. Diffs' /\ Collected' = Collected /\ Uncorrected' = Uncorrected
  BY <1>3, CollectedStays
<1>5. Filled' = Filled
  BY DEF Filled, InHeap
<1>6. CountedBy(g)'
  BY <1>2, <1>4, <1>5 DEF CountedBy
<1>7. IsFiniteSet(Collected')
  BY <1>1, <1>4
<1>. QED  BY <1>4, <1>6, <1>7 DEF Counted

\* What is collected is finite, and of it what is not corrected.
LEMMA FinitePairs ==
  ASSUME Counted
  PROVE  /\ IsFiniteSet(Collected) /\ IsFiniteSet(Uncorrected)
         /\ Cardinality(Collected) \in Nat /\ Cardinality(Uncorrected) \in Nat
<1>1. IsFiniteSet(Collected) /\ Uncorrected \in SUBSET Collected
  BY DEF Counted, Uncorrected
<1>2. IsFiniteSet(Uncorrected)
  BY <1>1, FS_Subset
<1>. QED  BY <1>1, <1>2, FS_CardinalityType

\* A chunk is made: one more, in hands, and one more capacity.
LEMMA CreateCounted ==
  ASSUME Good, Counted, NEW t \in Threads, CreateNewChunk(t)
  PROVE  Counted'
<1>1. PICK h \in InHeap : content' = [content EXCEPT ![h] = NewBlocks(made + 1)]
  BY DEF CreateNewChunk
<1>2. /\ pc[t] = "create" /\ pc' = [pc EXCEPT ![t] = "took"] /\ made' = made + 1
      /\ capacity' = capacity + 1 /\ UNCHANGED <<why, diff, used, gone>>
  BY DEF CreateNewChunk, Goto
<1>3. pc'[t] = "took" /\ \A u \in Threads \ {t} : pc'[u] = pc[u]
  BY <1>2 DEF Good, Types
<1>4. Diffs /\ IsFiniteSet(Collected)
  BY DEF Counted
<1>5. PICK g \in Nat : CountedBy(g)
  BY DEF Counted
<1>6. made \in Nat /\ Cardinality(Filled) \in Nat
  BY FiniteBlocks
<1>7. Cardinality(Filled') = Cardinality(Filled) + 1
  <2> DEFINE bs == NewBlocks(made + 1)
  <2>1. made + 1 \in Nat /\ made + 1 > 0
    BY <1>6
  <2>2. bs \in Seq(Nat) /\ Len(bs) = chunkSize
    BY <2>1, NewChunk
  <2>3. content' = [content EXCEPT ![h] = bs]
    BY <1>1
  <2>. HIDE DEF bs
  <2>. QED  BY <2>2, <2>3, OneFilled
<1>8. capacity' \in Int /\ used' \in Int
  BY <1>2, <1>4 DEF Diffs
<1>9. Collecting(t)' <=> Collecting(t)
  BY <1>2, <1>3 DEF Collecting
<1>10. Diffs' /\ Collected' = Collected /\ Uncorrected' = Uncorrected
  BY <1>2, <1>3, <1>8, <1>9, CollectedStays
<1>11. CountedBy(g)'
  <2>1. /\ Cardinality(gone') = chunkSize * g
        /\ capacity = made - g + Cardinality(Collected)
        /\ used = made - g - Cardinality(Filled) + Cardinality(Uncorrected)
    BY <1>2, <1>5 DEF CountedBy
  <2>2. Cardinality(Collected) \in Nat /\ Cardinality(Uncorrected) \in Nat
    BY FinitePairs
  <2>3. capacity' = made' - g + Cardinality(Collected')
    BY <1>2, <1>6, <1>10, <2>1, <2>2
  <2>4. used' = made' - g - Cardinality(Filled') + Cardinality(Uncorrected')
    BY <1>2, <1>6, <1>7, <1>10, <2>1, <2>2
  <2>. QED  BY <2>1, <2>3, <2>4 DEF CountedBy
<1>. QED  BY <1>4, <1>10, <1>11 DEF Counted

\* A chunk is pushed: its blocks are outside no more.
LEMMA BeginPushCounted ==
  ASSUME Good, Counted, NEW t \in Threads, NEW bs \in Seq(Nat), Len(bs) = chunkSize,
         BeginPush(t, bs), Goto(t, pc[t], "push"), pc[t] \in {"idle", "cut"},
         \A u \in Threads \ {t} : why'[u] = why[u],
         UNCHANGED <<diff, capacity, made, gone>>
  PROVE  Counted'
<1>1. PICK h \in InHeap : content' = [content EXCEPT ![h] = bs]
  BY DEF BeginPush
<1>2. used' = used - 1
  BY DEF BeginPush
<1>3. pc'[t] = "push" /\ \A u \in Threads \ {t} : pc'[u] = pc[u]
  BY DEF Good, Types, Goto
<1>4. Diffs /\ IsFiniteSet(Collected)
  BY DEF Counted
<1>5. PICK g \in Nat : CountedBy(g)
  BY DEF Counted
<1>6. made \in Nat /\ Cardinality(Filled) \in Nat
  BY FiniteBlocks
<1>7. Cardinality(Filled') = Cardinality(Filled) + 1
  BY <1>1, OneFilled
<1>8. capacity' \in Int /\ used' \in Int
  BY <1>2, <1>4 DEF Diffs
<1>9. ~Collecting(t)' /\ ~Collecting(t)
  BY <1>3 DEF Collecting
<1>10. Diffs' /\ Collected' = Collected /\ Uncorrected' = Uncorrected
  BY <1>3, <1>8, <1>9, CollectedStays
<1>11. CountedBy(g)'
  <2>1. /\ Cardinality(gone') = chunkSize * g
        /\ capacity' = made' - g + Cardinality(Collected')
        /\ used = made - g - Cardinality(Filled) + Cardinality(Uncorrected)
    BY <1>5, <1>10 DEF CountedBy
  <2>2. Cardinality(Uncorrected) \in Nat
    BY FinitePairs
  <2>3. used' = made' - g - Cardinality(Filled') + Cardinality(Uncorrected')
    BY <1>2, <1>6, <1>7, <1>10, <2>1, <2>2
  <2>. QED  BY <2>1, <2>3 DEF CountedBy
<1>. QED  BY <1>4, <1>10, <1>11 DEF Counted

\* A chunk is used: its blocks are outside, or go back to the heap, which is counted later.
LEMMA TakeCounted ==
  ASSUME Good, Counted, NEW t \in Threads, TakeChunk(t)
  PROVE  Counted'
<1> DEFINE h == chunk[t]
           bs == content[h]
<1>1. /\ pc[t] = "took" /\ content' = [content EXCEPT ![h] = <<>>] /\ used' = used + 1
      /\ UNCHANGED <<made, why, capacity>>
  BY DEF TakeChunk
<1>2. h \in Headers /\ h \in InHands
  BY <1>1, Numbers DEF Good, Hands, Types, InHands
<1>3. bs \in Seq(Nat) /\ Len(bs) = chunkSize /\ Once(bs) /\ bs # <<>>
  <2>1. bs \in Seq(Nat) /\ Len(bs) = chunkSize /\ Once(bs)
    BY <1>2 DEF Good, Full, Distinct, Types
  <2>. HIDE DEF bs
  <2>. QED  BY <2>1, Numbers, EmptyList
<1>4. Diffs /\ IsFiniteSet(Collected)
  BY DEF Counted
<1>5. PICK g \in Nat : CountedBy(g)
  BY DEF Counted
<1>6. made \in Nat /\ Cardinality(Filled) \in Nat
  BY FiniteBlocks
<1>7. Cardinality(Filled') = Cardinality(Filled) - 1
  BY <1>1, <1>2, <1>3, OneEmptied
<1>8. capacity' \in Int /\ used' \in Int
  BY <1>1, <1>4 DEF Diffs
<1>9. /\ Cardinality(gone) = chunkSize * g
      /\ capacity = made - g + Cardinality(Collected)
      /\ used = made - g - Cardinality(Filled) + Cardinality(Uncorrected)
  BY <1>5 DEF CountedBy
<1>10. Cardinality(Collected) \in Nat /\ Cardinality(Uncorrected) \in Nat
  BY FinitePairs
<1>11. pc \in [Threads -> Steps]
  BY DEF Good, Types
<1>12. CASE why[t] = "alloc"
  <2>1. pc' = [pc EXCEPT ![t] = "idle"] /\ gone' = gone /\ diff' = diff
    BY <1>12 DEF TakeChunk, Goto
  <2>2. pc'[t] = "idle" /\ \A u \in Threads \ {t} : pc'[u] = pc[u]
    BY <1>11, <2>1
  <2>3. ~Collecting(t)' /\ ~Collecting(t)
    BY <1>12, <2>2 DEF Collecting
  <2>4. Diffs' /\ Collected' = Collected /\ Uncorrected' = Uncorrected
    BY <1>1, <1>8, <2>1, <2>2, <2>3, CollectedStays
  <2>5. used' = made' - g - Cardinality(Filled') + Cardinality(Uncorrected')
    BY <1>1, <1>6, <1>7, <1>9, <1>10, <2>4
  <2>6. CountedBy(g)'
    BY <1>1, <1>9, <2>1, <2>4, <2>5 DEF CountedBy
  <2>. QED  BY <1>4, <2>4, <2>6 DEF Counted
<1>13. CASE why[t] # "alloc"
  <2>1. /\ why[t] = "collect" /\ gone' = gone \cup ToSet(bs)
        /\ diff' = [diff EXCEPT ![t].left = @ - 1]
        /\ pc' = [pc EXCEPT ![t] = IF diff[t].left = 1 THEN "used" ELSE "top"]
    BY <1>13 DEF TakeChunk, Goto
  <2>2. /\ pc'[t] = (IF diff[t].left = 1 THEN "used" ELSE "top")
        /\ \A u \in Threads \ {t} : pc'[u] = pc[u]
    BY <1>11, <2>1
  <2>3. diff[t] \in [all : Nat, left : Nat] /\ diff[t].left <= diff[t].all /\ diff[t].left > 0
    BY <1>1, <1>4, <2>1 DEF Diffs, Collecting
  <2>4. /\ diff'[t].all = diff[t].all /\ diff'[t].left = diff[t].left - 1
        /\ \A u \in Threads \ {t} : diff'[u] = diff[u]
        /\ diff' \in [Threads -> [all : Nat, left : Nat]]
    <3>1. diff \in [Threads -> [all : Nat, left : Nat]]
      BY <1>4 DEF Diffs
    <3>2. diff[t].left - 1 \in Nat
      BY <2>3
    <3>. QED  BY <2>1, <3>1, <3>2
  <2> DEFINE n == diff[t].all - diff[t].left
  <2>5. n \in Nat /\ diff'[t].all - diff'[t].left = n + 1
    BY <2>3, <2>4
  <2>6. Collected' = Collected \cup {<<t, n>>} /\ <<t, n>> \notin Collected
    <3>1. \A u, k : <<u, k>> \in Collected' <=> <<u, k>> \in Collected \/ (u = t /\ k = n)
      <4>1. ASSUME NEW k PROVE k \in Nat /\ k < n + 1 <=> (k \in Nat /\ k < n) \/ k = n
        BY <2>5
      <4>. HIDE DEF n
      <4>2. diff[t].all - diff[t].left = n
        BY DEF n
      <4>3. \A k : <<t, k>> \in Collected <=> k \in Nat /\ k < n
        BY <4>2, CollectedIs
      <4>4. \A k : <<t, k>> \in Collected' <=> k \in Nat /\ k < n + 1
        BY <2>5, CollectedIs
      <4>5. ASSUME NEW u, u # t, NEW k PROVE <<u, k>> \in Collected' <=> <<u, k>> \in Collected
        BY <2>4, <4>5, CollectedIs
      <4>. QED  BY <4>1, <4>3, <4>4, <4>5
    <3>2. <<t, n>> \notin Collected
      BY <2>5, CollectedIs
    <3>. HIDE DEF n
    <3>. QED  BY <3>1, <3>2, CollectedIs
  <2>7. Uncorrected' = Uncorrected \cup {<<t, n>>} /\ <<t, n>> \notin Uncorrected
    <3>1. pc'[t] # "capacity" /\ pc[t] # "capacity"
      BY <1>1, <2>2
    <3>. HIDE DEF n
    <3>2. \A u, k : <<u, k>> \in Uncorrected' <=> <<u, k>> \in Uncorrected \/ (u = t /\ k = n)
      <4>1. \A u, k : <<u, k>> \in Collected' <=> <<u, k>> \in Collected \/ (u = t /\ k = n)
        BY <2>6
      <4>2. \A u, k : <<u, k>> \in Collected => u \in Threads
        BY CollectedIs
      <4>. QED  BY <2>2, <3>1, <4>1, <4>2, CollectedIs
    <3>. QED  BY <2>6, <3>2, CollectedIs
  <2>8. /\ IsFiniteSet(Collected') /\ Cardinality(Collected') = Cardinality(Collected) + 1
        /\ Cardinality(Uncorrected') = Cardinality(Uncorrected) + 1
    BY <2>6, <2>7, FinitePairs, FS_AddElement
  <2>9. Cardinality(gone') = chunkSize * (g + 1)
    <3>1. IsFiniteSet(ToSet(bs)) /\ Cardinality(ToSet(bs)) = chunkSize
      BY <1>3, ListSize
    <3>2. gone \cap ToSet(bs) = {}
      <4>1. Blocked /\ gone \subseteq Nat
        BY DEF Good, Types
      <4>. QED  BY <1>2, <4>1, InOnePlace
    <3>3. IsFiniteSet(gone)
      BY FiniteBlocks
    <3>4. Cardinality(gone') = Cardinality(gone) + Cardinality(ToSet(bs)) - Cardinality({})
      BY <2>1, <3>1, <3>2, <3>3, FS_Union
    <3>. HIDE DEF bs
    <3>5. Cardinality(gone') = chunkSize * g + chunkSize
      BY <1>9, <3>1, <3>4, FS_EmptySet, Numbers
    <3>. QED  BY <3>5, Numbers
  <2>10. Diffs'
    <3>1. /\ diff'[t].left <= diff'[t].all
          /\ Collecting(t)' => diff'[t].left > 0
          /\ pc'[t] \in {"used", "capacity"} => diff'[t].left = 0
          /\ ~Collecting(t)' /\ pc'[t] \notin {"used", "capacity"} => diff'[t].all = 0
      BY <1>1, <2>1, <2>2, <2>3, <2>4 DEF Collecting
    <3>2. ASSUME NEW u \in Threads \ {t}
          PROVE  /\ diff'[u].left <= diff'[u].all
                 /\ Collecting(u)' => diff'[u].left > 0
                 /\ pc'[u] \in {"used", "capacity"} => diff'[u].left = 0
                 /\ ~Collecting(u)' /\ pc'[u] \notin {"used", "capacity"} => diff'[u].all = 0
      BY <1>1, <1>4, <2>2, <2>4 DEF Diffs, Collecting
    <3>. QED  BY <1>8, <2>4, <3>1, <3>2 DEF Diffs
  <2>11. CountedBy(g + 1)'
    <3>0. PICK m, f, c, d \in Nat :
            /\ m = made /\ f = Cardinality(Filled) /\ c = Cardinality(Collected)
            /\ d = Cardinality(Uncorrected)
      BY <1>6, <1>10
    <3>1. capacity' = made' - (g + 1) + Cardinality(Collected')
      <4>1. capacity' = m - g + c
        BY <1>1, <1>9, <3>0
      <4>2. m - g + c = m - (g + 1) + (c + 1)
        OBVIOUS
      <4>. QED  BY <1>1, <2>8, <3>0, <4>1, <4>2
    <3>2. used' = made' - (g + 1) - Cardinality(Filled') + Cardinality(Uncorrected')
      <4>1. used' = m - g - f + d + 1
        BY <1>1, <1>9, <3>0
      <4>2. m - g - f + d + 1 = m - (g + 1) - (f - 1) + (d + 1)
        OBVIOUS
      <4>. QED  BY <1>1, <1>7, <2>8, <3>0, <4>1, <4>2
    <3>. QED  BY <2>9, <3>1, <3>2 DEF CountedBy
  <2>12. g + 1 \in Nat
    OBVIOUS
  <2>. QED  BY <2>8, <2>10, <2>11, <2>12 DEF Counted
<1>. QED  BY <1>12, <1>13

\* A collection begins: nothing was taken yet.
LEMMA CollectCounted ==
  ASSUME Good, Counted, Loaded, NEW t \in Threads, GarbageCollect(t)
  PROVE  Counted'
<1> DEFINE n == IF pc[t] = "thenUsed" THEN loaded[t] - 3 * used ELSE capacity - 3 * loaded[t]
<1>1. /\ pc[t] \in {"thenUsed", "thenCapacity"}
      /\ pc' = [pc EXCEPT ![t] = IF n > 0 THEN "top" ELSE "ended"]
      /\ why' = [why EXCEPT ![t] = "collect"]
      /\ diff' = [diff EXCEPT ![t] = IF n > 0 THEN [all |-> n, left |-> n] ELSE @]
      /\ UNCHANGED <<capacity, used, made, gone, content>>
  BY DEF GarbageCollect, chunkVars, blockVars
<1>2. Diffs /\ IsFiniteSet(Collected)
  BY DEF Counted
<1>3. PICK g \in Nat : CountedBy(g)
  BY DEF Counted
<1>4. n \in Int /\ (n > 0 => n \in Nat)
  <2>1. capacity \in Int /\ used \in Int /\ loaded[t] \in Int
    BY <1>2 DEF Diffs, Loaded
  <2>. QED  BY <2>1
<1>5. /\ pc \in [Threads -> Steps] /\ why \in [Threads -> {"alloc", "free", "end", "collect"}]
      /\ diff \in [Threads -> [all : Nat, left : Nat]]
  BY <1>2 DEF Good, Types, Diffs
<1>6. diff[t].all = 0 /\ diff[t].left = 0 /\ diff[t] \in [all : Nat, left : Nat]
  <2>1. diff[t].all = 0 /\ diff[t].left <= diff[t].all /\ diff[t] \in [all : Nat, left : Nat]
    BY <1>1, <1>2 DEF Diffs, Collecting
  <2>. QED  BY <2>1
<1>. HIDE DEF n
<1>7. /\ pc'[t] = (IF n > 0 THEN "top" ELSE "ended") /\ why'[t] = "collect"
      /\ \A u \in Threads \ {t} : pc'[u] = pc[u] /\ why'[u] = why[u] /\ diff'[u] = diff[u]
      /\ diff'[t] = IF n > 0 THEN [all |-> n, left |-> n] ELSE diff[t]
  BY <1>1, <1>5
<1>8. /\ diff'[t].all = (IF n > 0 THEN n ELSE 0) /\ diff'[t].left = (IF n > 0 THEN n ELSE 0)
      /\ diff'[t] \in [all : Nat, left : Nat]
  BY <1>4, <1>6, <1>7
<1>9. Collected' = Collected /\ Uncorrected' = Uncorrected
  <2>1. \A k : <<t, k>> \notin Collected /\ <<t, k>> \notin Collected'
    <3>1. diff[t].all - diff[t].left = 0 /\ diff'[t].all - diff'[t].left = 0
      BY <1>4, <1>6, <1>8
    <3>. QED  BY <3>1, CollectedIs
  <2>2. \A u, k : <<u, k>> \in Collected' <=> <<u, k>> \in Collected
    <3>1. ASSUME NEW u, NEW k, u # t PROVE <<u, k>> \in Collected' <=> <<u, k>> \in Collected
      BY <1>7, <3>1, CollectedIs
    <3>. QED  BY <2>1, <3>1
  <2>3. \A u, k : <<u, k>> \in Uncorrected' <=> <<u, k>> \in Uncorrected
    <3>1. ASSUME NEW u, NEW k, <<u, k>> \in Collected PROVE pc'[u] = pc[u]
      <4>1. u \in Threads
        BY <3>1, CollectedIs
      <4>2. u # t
        BY <2>1, <3>1
      <4>. QED  BY <1>7, <4>1, <4>2
    <3>2. ASSUME NEW u, NEW k PROVE <<u, k>> \in Uncorrected' <=> <<u, k>> \in Uncorrected
      <4>1. <<u, k>> \in Uncorrected' <=> <<u, k>> \in Collected' /\ pc'[u] # "capacity"
        BY CollectedIs
      <4>2. <<u, k>> \in Uncorrected <=> <<u, k>> \in Collected /\ pc[u] # "capacity"
        BY CollectedIs
      <4>3. <<u, k>> \in Collected' <=> <<u, k>> \in Collected
        BY <2>2
      <4>. QED  BY <3>1, <4>1, <4>2, <4>3
    <3>. QED  BY <3>2
  <2>5. \A p \in Collected \cup Collected' \cup Uncorrected \cup Uncorrected' : p = <<p[1], p[2]>>
    BY CollectedIs
  <2>4. Collected' = Collected
    BY <2>2, <2>5
  <2>6. Uncorrected' = Uncorrected
    BY <2>3, <2>5
  <2>. QED  BY <2>4, <2>6
<1>10. Diffs'
  <2>1. /\ diff'[t].left <= diff'[t].all
        /\ Collecting(t)' => diff'[t].left > 0
        /\ pc'[t] \in {"used", "capacity"} => diff'[t].left = 0
        /\ ~Collecting(t)' /\ pc'[t] \notin {"used", "capacity"} => diff'[t].all = 0
    BY <1>4, <1>7, <1>8 DEF Collecting
  <2>2. ASSUME NEW u \in Threads \ {t}
        PROVE  /\ diff'[u].left <= diff'[u].all
               /\ Collecting(u)' => diff'[u].left > 0
               /\ pc'[u] \in {"used", "capacity"} => diff'[u].left = 0
               /\ ~Collecting(u)' /\ pc'[u] \notin {"used", "capacity"} => diff'[u].all = 0
    BY <1>2, <1>7 DEF Diffs, Collecting
  <2>3. diff' \in [Threads -> [all : Nat, left : Nat]]
    <3>1. diff' = [u \in Threads |-> diff'[u]]
      BY <1>1, <1>5
    <3>2. \A u \in Threads : diff'[u] \in [all : Nat, left : Nat]
      BY <1>5, <1>7, <1>8
    <3>. QED  BY <3>1, <3>2
  <2>. QED  BY <1>1, <1>2, <2>1, <2>2, <2>3 DEF Diffs
<1>11. Filled' = Filled
  BY <1>1 DEF Filled, InHeap
<1>12. CountedBy(g)'
  BY <1>1, <1>3, <1>9, <1>11 DEF CountedBy
<1>. QED  BY <1>2, <1>9, <1>10, <1>12 DEF Counted

\* How many pairs a thread has.
PairsOf(t) == {p \in Collected : p[1] = t}

LEMMA PairsAre ==
  ASSUME Counted, NEW t \in Threads, diff[t].left = 0
  PROVE  /\ IsFiniteSet(PairsOf(t)) /\ Cardinality(PairsOf(t)) = diff[t].all
         /\ PairsOf(t) \subseteq Collected /\ diff[t].all \in Nat
<1>1. PICK n \in Nat : n = diff[t].all
  BY DEF Counted, Diffs
<1>2. IsFiniteSet(Collected) /\ PairsOf(t) \in SUBSET Collected
  BY DEF Counted, PairsOf
<1> DEFINE S == 1 .. n
           T == PairsOf(t)
           f == [i \in S |-> <<t, i - 1>>]
<1>3. IsFiniteSet(S) /\ Cardinality(S) = n
  BY FS_Interval
<1>4. \A p : p \in T <=> \E i \in S : p = <<t, i - 1>>
  <2>1. \A k : <<t, k>> \in Collected <=> k \in Nat /\ k < n
    <3>1. n - 0 = n
      OBVIOUS
    <3>. QED  BY <1>1, <3>1, CollectedIs
  <2>2. \A i \in S : i - 1 \in Nat /\ i - 1 < n
    OBVIOUS
  <2>3. \A k \in Nat : k < n => k + 1 \in S /\ (k + 1) - 1 = k
    OBVIOUS
  <2>4. ASSUME NEW p \in T PROVE \E i \in S : p = <<t, i - 1>>
    <3>1. p \in Collected /\ p = <<t, p[2]>>
      BY CollectedIs DEF PairsOf
    <3>2. p[2] \in Nat /\ p[2] < n
      BY <2>1, <3>1
    <3>. QED  BY <2>3, <3>1, <3>2
  <2>5. ASSUME NEW i \in S PROVE <<t, i - 1>> \in T
    BY <2>1, <2>2 DEF PairsOf
  <2>. QED  BY <2>4, <2>5
<1>5. \A i \in S : f[i] = <<t, i - 1>>
  OBVIOUS
<1>6. \A i, j \in S : <<t, i - 1>> = <<t, j - 1>> => i = j
  OBVIOUS
<1>7. f = [i \in S |-> f[i]]
  OBVIOUS
<1>. HIDE DEF f, S, T
<1>8. f \in [S -> T]
  BY <1>4, <1>5, <1>7
<1>9. \A i, j \in S : f[i] = f[j] => i = j
  BY <1>5, <1>6
<1>10. \A p \in T : \E i \in S : f[i] = p
  BY <1>4, <1>5
<1>11. IsFiniteSet(T) /\ Cardinality(T) = n
  BY <1>3, <1>8, <1>9, <1>10, SameSize
<1>. QED  BY <1>1, <1>2, <1>11 DEF T

\* A part of a finite set is taken out.
LEMMA TakenOut ==
  ASSUME NEW S, IsFiniteSet(S), NEW T, T \subseteq S
  PROVE  /\ IsFiniteSet(S \ T) /\ Cardinality(S \ T) = Cardinality(S) - Cardinality(T)
         /\ Cardinality(S) \in Nat /\ Cardinality(T) \in Nat
<1>1. IsFiniteSet(T) /\ IsFiniteSet(S \ T)
  <2>1. T \in SUBSET S /\ S \ T \in SUBSET S
    OBVIOUS
  <2>. QED  BY <2>1, FS_Subset
<1>2. /\ Cardinality(S) \in Nat /\ Cardinality(T) \in Nat /\ Cardinality(S \ T) \in Nat
  BY <1>1, FS_CardinalityType
<1>3. Cardinality(T \cup (S \ T)) = Cardinality(T) + Cardinality(S \ T) - Cardinality(T \cap (S \ T))
  BY <1>1, FS_Union
<1>4. T \cup (S \ T) = S /\ T \cap (S \ T) = {} /\ Cardinality({}) = 0
  BY FS_EmptySet
<1>5. Cardinality(S) = Cardinality(T) + Cardinality(S \ T) - 0
  BY <1>3, <1>4
<1>6. \A x, y, z \in Nat : x = y + z - 0 => z = x - y
  OBVIOUS
<1>7. Cardinality(S) \in Nat /\ Cardinality(T) \in Nat
  BY <1>1, FS_CardinalityType
<1>8. Cardinality(S \ T) = Cardinality(S) - Cardinality(T)
  BY <1>2, <1>5, <1>6
<1>. QED  BY <1>1, <1>7, <1>8

\* chunkUsed_ is corrected by what was taken.
LEMMA SubtractUsedCounted ==
  ASSUME Good, Counted, NEW t \in Threads, SubtractUsed(t)
  PROVE  Counted'
<1>1. /\ pc[t] = "used" /\ pc' = [pc EXCEPT ![t] = "capacity"] /\ used' = used - diff[t].all
      /\ UNCHANGED <<why, diff, capacity, made, gone, content>>
  BY DEF SubtractUsed, Goto, chunkVars, blockVars
<1>2. pc'[t] = "capacity" /\ \A u \in Threads \ {t} : pc'[u] = pc[u]
  BY <1>1 DEF Good, Types
<1>3. Diffs /\ IsFiniteSet(Collected)
  BY DEF Counted
<1>4. PICK g \in Nat : CountedBy(g)
  BY DEF Counted
<1>5. diff[t].left = 0
  BY <1>1, <1>3 DEF Diffs
<1>6. /\ Cardinality(PairsOf(t)) = diff[t].all /\ PairsOf(t) \subseteq Collected
      /\ diff[t].all \in Nat
  BY <1>5, PairsAre
<1>7. Collected' = Collected
  BY <1>1 DEF Collected
<1>8. Uncorrected' = Uncorrected \ PairsOf(t) /\ PairsOf(t) \subseteq Uncorrected
  <2>1. \A p \in Collected : p[1] \in Threads
    BY DEF Collected
  <2>2. \A p \in Collected : pc'[p[1]] # "capacity" <=> pc[p[1]] # "capacity" /\ p[1] # t
    BY <1>2, <2>1
  <2>3. Uncorrected' = {p \in Collected : pc'[p[1]] # "capacity"}
    BY <1>7 DEF Uncorrected
  <2>. QED  BY <1>1, <2>2, <2>3 DEF Uncorrected, PairsOf
<1>9. Cardinality(Uncorrected') = Cardinality(Uncorrected) - diff[t].all
  BY <1>6, <1>8, FinitePairs, TakenOut
<1>10. Diffs'
  <2>1. \A u \in Threads :
          /\ diff[u].left <= diff[u].all
          /\ Collecting(u)' => diff[u].left > 0
          /\ pc'[u] \in {"used", "capacity"} => diff[u].left = 0
          /\ ~Collecting(u)' /\ pc'[u] \notin {"used", "capacity"} => diff[u].all = 0
    BY <1>1, <1>2, <1>3, <1>5 DEF Diffs, Collecting
  <2>2. used' \in Int /\ capacity' \in Int
    BY <1>1, <1>3, <1>6 DEF Diffs
  <2>. QED  BY <1>1, <1>3, <2>1, <2>2 DEF Diffs
<1>11. CountedBy(g)'
  <2>1. /\ Cardinality(gone') = chunkSize * g
        /\ capacity' = made' - g + Cardinality(Collected')
        /\ used = made - g - Cardinality(Filled) + Cardinality(Uncorrected)
    BY <1>1, <1>4, <1>7 DEF CountedBy
  <2>2. Filled' = Filled
    BY <1>1 DEF Filled, InHeap
  <2>3. Cardinality(Uncorrected) \in Nat /\ made \in Nat /\ Cardinality(Filled) \in Nat
    BY FinitePairs, FiniteBlocks
  <2>4. used' = made' - g - Cardinality(Filled') + Cardinality(Uncorrected')
    BY <1>1, <1>6, <1>9, <2>1, <2>2, <2>3
  <2>. QED  BY <2>1, <2>4 DEF CountedBy
<1>. QED  BY <1>3, <1>7, <1>10, <1>11 DEF Counted

\* chunkCapacity_ is corrected, and the collection is over.
LEMMA SubtractCapacityCounted ==
  ASSUME Good, Counted, NEW t \in Threads, SubtractCapacity(t)
  PROVE  Counted'
<1>1. /\ pc[t] = "capacity" /\ pc' = [pc EXCEPT ![t] = "ended"]
      /\ capacity' = capacity - diff[t].all
      /\ diff' = [diff EXCEPT ![t] = [all |-> 0, left |-> 0]]
      /\ UNCHANGED <<why, used, made, gone, content>>
  BY DEF SubtractCapacity, Goto, chunkVars, blockVars
<1>2. pc'[t] = "ended" /\ \A u \in Threads \ {t} : pc'[u] = pc[u]
  BY <1>1 DEF Good, Types
<1>3. Diffs /\ IsFiniteSet(Collected)
  BY DEF Counted
<1>4. PICK g \in Nat : CountedBy(g)
  BY DEF Counted
<1>5. diff[t].left = 0
  BY <1>1, <1>3 DEF Diffs
<1>6. /\ Cardinality(PairsOf(t)) = diff[t].all /\ PairsOf(t) \subseteq Collected
      /\ diff[t].all \in Nat
  BY <1>5, PairsAre
<1>7. /\ diff'[t] = [all |-> 0, left |-> 0] /\ \A u \in Threads \ {t} : diff'[u] = diff[u]
      /\ diff' \in [Threads -> [all : Nat, left : Nat]]
  <2>1. diff \in [Threads -> [all : Nat, left : Nat]]
    BY <1>3 DEF Diffs
  <2>. QED  BY <1>1, <2>1
<1>8. Collected' = Collected \ PairsOf(t)
  <2>1. \A k : <<t, k>> \notin Collected'
    <3>1. diff'[t].all - diff'[t].left = 0
      BY <1>7
    <3>. QED  BY <3>1, CollectedIs
  <2>2. \A u, k : u # t => (<<u, k>> \in Collected' <=> <<u, k>> \in Collected)
    <3>1. ASSUME NEW u, NEW k, u # t PROVE <<u, k>> \in Collected' <=> <<u, k>> \in Collected
      BY <1>7, <3>1, CollectedIs
    <3>. QED  BY <3>1
  <2>3. \A u, k : <<u, k>> \in Collected \ PairsOf(t) <=> <<u, k>> \in Collected /\ u # t
    BY DEF PairsOf
  <2>4. \A u, k : <<u, k>> \in Collected' <=> <<u, k>> \in Collected \ PairsOf(t)
    BY <2>1, <2>2, <2>3
  <2>. QED  BY <2>4, CollectedIs
<1>9. Uncorrected' = Uncorrected
  <2>1. \A p \in Collected : p[1] \in Threads
    BY DEF Collected
  <2>2. \A p \in Collected : p[1] # t => (pc'[p[1]] # "capacity" <=> pc[p[1]] # "capacity")
    BY <1>2, <2>1
  <2>3. Uncorrected' = {p \in Collected' : pc'[p[1]] # "capacity"}
    BY DEF Uncorrected
  <2>. QED  BY <1>1, <1>8, <2>2, <2>3 DEF Uncorrected, PairsOf
<1>10. IsFiniteSet(Collected') /\ Cardinality(Collected') = Cardinality(Collected) - diff[t].all
  BY <1>3, <1>6, <1>8, TakenOut
<1>11. Diffs'
  <2>1. \A u \in Threads :
          /\ diff'[u].left <= diff'[u].all
          /\ Collecting(u)' => diff'[u].left > 0
          /\ pc'[u] \in {"used", "capacity"} => diff'[u].left = 0
          /\ ~Collecting(u)' /\ pc'[u] \notin {"used", "capacity"} => diff'[u].all = 0
    BY <1>1, <1>2, <1>3, <1>7 DEF Diffs, Collecting
  <2>2. used' \in Int /\ capacity' \in Int
    BY <1>1, <1>3, <1>6 DEF Diffs
  <2>. QED  BY <1>7, <2>1, <2>2 DEF Diffs
<1>12. CountedBy(g)'
  <2>1. /\ Cardinality(gone') = chunkSize * g
        /\ capacity = made - g + Cardinality(Collected)
        /\ used' = made' - g - Cardinality(Filled) + Cardinality(Uncorrected')
    BY <1>1, <1>4, <1>9 DEF CountedBy
  <2>2. Filled' = Filled
    BY <1>1 DEF Filled, InHeap
  <2>3. Cardinality(Collected) \in Nat /\ made \in Nat
    BY FinitePairs, FiniteBlocks
  <2>4. capacity' = made' - g + Cardinality(Collected')
    BY <1>1, <1>6, <1>10, <2>1, <2>3
  <2>. QED  BY <2>1, <2>2, <2>4 DEF CountedBy
<1>. QED  BY <1>10, <1>11, <1>12 DEF Counted

\* At first nothing is collected, and every chunk is in the stack.
LEMMA InitCounted == Init => Counted
<1>. SUFFICES ASSUME Init PROVE Counted
  OBVIOUS
<1> DEFINE n == InitialChunks
<1>1. n \in Nat /\ n <= MaxChunks /\ MaxChunks \in Nat
  BY PoolAssumption
<1>2. /\ content = [h \in Headers |-> IF h <= n THEN NewBlocks(h) ELSE <<>>]
      /\ gone = {} /\ pc = [t \in Threads |-> "idle"] /\ capacity = n /\ used = 0
      /\ diff = [t \in Threads |-> [all |-> 0, left |-> 0]] /\ made = n
  BY Zenon DEF Init
<1>. HIDE DEF n
<1>3. \A t \in Threads : diff[t] = [all |-> 0, left |-> 0] /\ pc[t] = "idle"
  BY <1>2
<1>4. Diffs
  <2>1. diff \in [Threads -> [all : Nat, left : Nat]]
    BY <1>2
  <2>2. capacity \in Int /\ used \in Int
    BY <1>1, <1>2
  <2>3. \A t \in Threads : ~Collecting(t) /\ diff[t].left <= diff[t].all /\ diff[t].all = 0
    BY <1>3 DEF Collecting
  <2>. QED  BY <1>3, <2>1, <2>2, <2>3 DEF Diffs
<1>5. Collected = {} /\ Uncorrected = {}
  <2>1. \A t \in Threads : diff[t].all - diff[t].left = 0
    BY <1>3
  <2>2. \A k \in Nat : ~(k < 0)
    OBVIOUS
  <2>3. \A p \in Collected : FALSE
    BY <2>1, <2>2 DEF Collected
  <2>. QED  BY <2>3, CollectedIs
<1>6. Filled = 1 .. n
  <2>1. ASSUME NEW h \in Headers, h <= n PROVE content[h] # <<>>
    <3>1. h \in Nat /\ h > 0
      BY <1>1 DEF Headers
    <3>2. NewBlocks(h) \in Seq(Nat) /\ Len(NewBlocks(h)) = chunkSize
      BY <3>1, NewChunk
    <3>3. content[h] = NewBlocks(h)
      BY <1>2, <2>1
    <3>4. Len(content[h]) # 0
      BY <3>2, <3>3, Numbers
    <3>. QED  BY <3>4, EmptyList
  <2>2. \A h \in Headers : ~(h <= n) => content[h] = <<>>
    BY <1>2
  <2>3. \A h : h \in 1 .. n <=> h \in Headers /\ h <= n
    BY <1>1 DEF Headers
  <2>. QED  BY <2>1, <2>2, <2>3 DEF Filled, InHeap
<1>7. Cardinality(Filled) = n
  BY <1>1, <1>6, FS_Interval
<1>8. IsFiniteSet(Collected) /\ Cardinality(Collected) = 0 /\ Cardinality(Uncorrected) = 0
      /\ Cardinality(gone) = 0
  BY <1>2, <1>5, FS_EmptySet
<1>9. CountedBy(0)
  <2>1. Cardinality(gone) = chunkSize * 0
    BY <1>8, Numbers
  <2>2. capacity = made - 0 + Cardinality(Collected)
    BY <1>1, <1>2, <1>8
  <2>3. used = made - 0 - Cardinality(Filled) + Cardinality(Uncorrected)
    BY <1>1, <1>2, <1>7, <1>8
  <2>. QED  BY <2>1, <2>2, <2>3 DEF CountedBy
<1>. QED  BY <1>4, <1>8, <1>9 DEF Counted

\* What a thread does at the stack, and what it keeps to itself.
LEMMA StackCounted ==
  ASSUME Good, Counted, NEW t \in Threads,
         \/ ReadTop(t) \/ ReadNextChunk(t) \/ PopChunk(t)
         \/ PushReadTop(t) \/ PushSwap(t) \/ Alloc(t) \/ Unlock(t) \/ ReadCounter(t)
  PROVE  Counted'
<1>1. pc \in [Threads -> Steps] /\ why \in [Threads -> {"alloc", "free", "end", "collect"}]
  BY DEF Good, Types
<1>2. UNCHANGED <<diff, capacity, used, made, gone, content>>
  BY DEF ReadTop, ReadNextChunk, PopChunk, PushReadTop, PushSwap, Alloc, Unlock, ReadCounter,
         chunkVars, countVars, blockVars
<1>3. /\ pc[t] \notin {"used", "capacity"} /\ pc'[t] \notin {"used", "capacity"}
      /\ \A u \in Threads \ {t} : pc'[u] = pc[u] /\ why'[u] = why[u]
      /\ Collecting(t)' <=> Collecting(t)
  <2>1. CASE ReadTop(t)
    BY <1>1, <2>1 DEF ReadTop, Goto, Collecting
  <2>2. CASE ReadNextChunk(t)
    BY <1>1, <2>2 DEF ReadNextChunk, Goto, Collecting
  <2>3. CASE PopChunk(t)
    BY <1>1, <2>3 DEF PopChunk, Goto, Collecting
  <2>4. CASE PushReadTop(t)
    BY <1>1, <2>4 DEF PushReadTop, Goto, Collecting
  <2>5. CASE PushSwap(t)
    BY <1>1, <2>5 DEF PushSwap, Goto, Collecting
  <2>6. CASE Alloc(t)
    BY <1>1, <2>6 DEF Alloc, Goto, Collecting
  <2>7. CASE Unlock(t)
    BY <1>1, <2>7 DEF Unlock, Goto, Collecting
  <2>8. CASE ReadCounter(t)
    BY <1>1, <2>8 DEF ReadCounter, Goto, Collecting
  <2>. QED  BY <2>1, <2>2, <2>3, <2>4, <2>5, <2>6, <2>7, <2>8
<1>. QED  BY <1>2, <1>3, CountsStay

\* A block comes back to the list of a thread, which may push a chunk.
LEMMA FreeCounted ==
  ASSUME Good, Counted, NEW t \in Threads, NEW b \in held, Free(t, b)
  PROVE  Counted'
<1> DEFINE list == <<b>> \o cache[t]
<1>1. pc \in [Threads -> Steps] /\ why \in [Threads -> {"alloc", "free", "end", "collect"}]
  BY DEF Good, Types
<1>2. /\ pc[t] = "idle" /\ why' = [why EXCEPT ![t] = "free"]
      /\ UNCHANGED <<diff, capacity, made, gone>>
  BY DEF Free
<1>3. \A u \in Threads \ {t} : why'[u] = why[u]
  BY <1>1, <1>2
<1>4. CASE Len(list) < 2 * chunkSize
  <2>1. UNCHANGED <<pc, used, content>>
    BY <1>4 DEF Free
  <2>2. ~Collecting(t)' /\ ~Collecting(t)
    BY <1>2, <2>1 DEF Collecting
  <2>. QED  BY <1>2, <1>3, <2>1, <2>2, CountsStay
<1>5. CASE ~(Len(list) < 2 * chunkSize)
  <2> DEFINE bs == SubSeq(list, 1, chunkSize)
  <2>1. Goto(t, "idle", "push") /\ BeginPush(t, bs)
    BY <1>5 DEF Free
  <2>2. bs \in Seq(Nat) /\ Len(bs) = chunkSize
    <3>1. b \in Nat /\ cache[t] \in Seq(Nat) /\ Once(cache[t]) /\ b \notin ToSet(cache[t])
      <4>1. b \in Nat /\ cache[t] \in Seq(Nat) /\ Once(cache[t]) /\ Blocked
        BY DEF Good, Types, Distinct
      <4>. QED  BY <4>1, InOnePlace
    <3>2. list \in Seq(Nat) /\ Once(list) /\ Len(list) \in Nat
      BY <3>1, PutFirst
    <3>. HIDE DEF list
    <3>3. chunkSize \in Nat /\ chunkSize <= Len(list)
      BY <1>5, <3>2, Numbers
    <3>. QED  BY <3>2, <3>3, CutList
  <2>3. Goto(t, pc[t], "push") /\ pc[t] \in {"idle", "cut"}
    BY <1>2, <2>1
  <2>. HIDE DEF bs
  <2>. QED  BY <1>2, <1>3, <2>1, <2>2, <2>3, BeginPushCounted
<1>. QED  BY <1>4, <1>5

\* The list of a thread that ends is pushed, or left over.
LEMMA RemoveRemaindersCounted ==
  ASSUME Good, Counted, NEW t \in Threads, RemoveRemainders(t)
  PROVE  Counted'
<1>1. pc \in [Threads -> Steps] /\ why \in [Threads -> {"alloc", "free", "end", "collect"}]
      /\ cache[t] \in Seq(Nat)
  BY DEF Good, Types
<1>2. pc[t] = "idle" /\ UNCHANGED <<diff, capacity, made, gone>>
  BY DEF RemoveRemainders
<1>3. CASE /\ Goto(t, "idle", "push") /\ why' = [why EXCEPT ![t] = "free"]
           /\ Len(cache[t]) = chunkSize /\ BeginPush(t, cache[t])
  <2>1. \A u \in Threads \ {t} : why'[u] = why[u]
    BY <1>1, <1>3
  <2>2. Goto(t, pc[t], "push") /\ pc[t] \in {"idle", "cut"}
    BY <1>2, <1>3
  <2>. QED  BY <1>1, <1>2, <1>3, <2>1, <2>2, BeginPushCounted
<1>4. CASE /\ Goto(t, "idle", "ended") \/ Goto(t, "idle", "cut")
           /\ UNCHANGED <<used, content, why>>
  <2>1. /\ \A u \in Threads \ {t} : pc'[u] = pc[u] /\ why'[u] = why[u]
        /\ pc'[t] \in {"ended", "cut"}
    BY <1>1, <1>4 DEF Goto
  <2>2. ~Collecting(t)' /\ ~Collecting(t)
    BY <1>2, <2>1 DEF Collecting
  <2>. QED  BY <1>2, <1>4, <2>1, <2>2, CountsStay
<1>. QED  BY <1>3, <1>4 DEF RemoveRemainders

\* What was left over is pushed when it makes a chunk.
LEMMA CutFreeChunkCounted ==
  ASSUME Good, Counted, NEW t \in Threads, CutFreeChunk(t)
  PROVE  Counted'
<1> DEFINE bs == SubSeq(freeChunk, 1, chunkSize)
<1>1. pc \in [Threads -> Steps] /\ why \in [Threads -> {"alloc", "free", "end", "collect"}]
  BY DEF Good, Types
<1>2. /\ why' = [why EXCEPT ![t] = "end"] /\ UNCHANGED <<diff, capacity, made, gone>>
  BY DEF CutFreeChunk, blockVars
<1>3. \A u \in Threads \ {t} : why'[u] = why[u]
  BY <1>1, <1>2
<1>4. CASE Len(freeChunk) >= chunkSize /\ Goto(t, "cut", "push") /\ BeginPush(t, bs)
  <2>1. bs \in Seq(Nat) /\ Len(bs) = chunkSize
    <3>1. freeChunk \in Seq(Nat) /\ Once(freeChunk) /\ Len(freeChunk) \in Nat
      BY DEF Good, Types, Distinct
    <3>2. chunkSize \in Nat /\ chunkSize <= Len(freeChunk)
      BY <1>4, <3>1, Numbers
    <3>. QED  BY <3>1, <3>2, CutList
  <2>2. Goto(t, pc[t], "push") /\ pc[t] \in {"idle", "cut"}
    BY <1>4 DEF Goto
  <2>. HIDE DEF bs
  <2>. QED  BY <1>2, <1>3, <1>4, <2>1, <2>2, BeginPushCounted
<1>5. CASE Goto(t, "cut", "unlock") /\ UNCHANGED <<used, content>>
  <2>1. pc[t] = "cut" /\ pc'[t] = "unlock" /\ \A u \in Threads \ {t} : pc'[u] = pc[u]
    BY <1>1, <1>5 DEF Goto
  <2>2. ~Collecting(t)' /\ ~Collecting(t)
    BY <2>1 DEF Collecting
  <2>. QED  BY <1>2, <1>3, <1>5, <2>1, <2>2, CountsStay
<1>. QED  BY <1>4, <1>5 DEF CutFreeChunk

\* Whatever the counters are when a collection reads them, they are numbers.
LEMMA NextLoaded ==
  ASSUME Loaded, fooled = 0 => Counted, [Next]_vars
  PROVE  Loaded'
<1>1. ASSUME Next PROVE Loaded'
  <2>1. capacity \in Int /\ used \in Int
    BY <1>1 DEF Next, Counted, Diffs
  <2>2. PICK t \in Threads : \/ ThreadStep(t) \/ Alloc(t) \/ RemoveRemainders(t)
                             \/ \E b \in held : Free(t, b)
    BY <1>1 DEF Next
  <2>3. CASE ReadCounter(t) \/ GarbageCollect(t)
    <3>1. \E x \in Int : loaded' = [loaded EXCEPT ![t] = x]
      BY <2>1, <2>3 DEF ReadCounter, GarbageCollect
    <3>. QED  BY <3>1 DEF Loaded
  <2>4. CASE \/ ReadTop(t) \/ ReadNextChunk(t) \/ PopChunk(t) \/ PushReadTop(t) \/ PushSwap(t)
             \/ Alloc(t) \/ Unlock(t)
    BY <2>4 DEF ReadTop, ReadNextChunk, PopChunk, PushReadTop, PushSwap, Alloc, Unlock, countVars,
               Loaded
  <2>5. CASE \/ CreateNewChunk(t) \/ TakeChunk(t) \/ CutFreeChunk(t) \/ RemoveRemainders(t)
             \/ SubtractUsed(t) \/ SubtractCapacity(t) \/ \E b \in held : Free(t, b)
    BY <2>5 DEF CreateNewChunk, TakeChunk, CutFreeChunk, RemoveRemainders, SubtractUsed,
               SubtractCapacity, Free, Loaded
  <2>. QED  BY <2>2, <2>3, <2>4, <2>5 DEF ThreadStep
<1>. QED  BY <1>1 DEF vars, countVars, Loaded

\* Every step keeps the counts.
LEMMA NextCounted ==
  ASSUME IInv, fooled = 0 => Counted, Loaded, [Next]_vars
  PROVE  fooled' = 0 => Counted'
<1>1. ASSUME Next PROVE Counted'
  <2>1. Good /\ Counted
    BY <1>1 DEF Next, IInv
  <2>2. PICK t \in Threads : \/ ThreadStep(t) \/ Alloc(t) \/ RemoveRemainders(t)
                             \/ \E b \in held : Free(t, b)
    BY <1>1 DEF Next
  <2>3. CASE \/ ReadTop(t) \/ ReadNextChunk(t) \/ PopChunk(t)
             \/ PushReadTop(t) \/ PushSwap(t) \/ Alloc(t) \/ Unlock(t) \/ ReadCounter(t)
    BY <2>1, <2>3, StackCounted
  <2>4. CASE CreateNewChunk(t) \/ TakeChunk(t)
    BY <2>1, <2>4, CreateCounted, TakeCounted
  <2>5. CASE GarbageCollect(t) \/ SubtractUsed(t) \/ SubtractCapacity(t)
    BY <2>1, <2>5, CollectCounted, SubtractUsedCounted, SubtractCapacityCounted
  <2>6. CASE RemoveRemainders(t) \/ CutFreeChunk(t)
    BY <2>1, <2>6, RemoveRemaindersCounted, CutFreeChunkCounted
  <2>7. CASE \E b \in held : Free(t, b)
    BY <2>1, <2>7, FreeCounted
  <2>. QED  BY <2>2, <2>3, <2>4, <2>5, <2>6, <2>7 DEF ThreadStep
<1>2. ASSUME UNCHANGED vars, fooled' = 0 PROVE Counted'
  <2>1. UNCHANGED <<content, capacity, used, gone, made, pc, why, diff, fooled>>
    BY <1>2 DEF vars, chunkVars, countVars, blockVars, ghostVars
  <2>2. Counted
    BY <1>2, <2>1
  <2>. QED  BY <2>1, <2>2 DEF Counted, Diffs, Collecting, Collected, Uncorrected, CountedBy,
                              Filled, InHeap
<1>. QED  BY <1>1, <1>2

\* Two sets that have nothing in common.
LEMMA Together ==
  ASSUME NEW S, NEW T, IsFiniteSet(S), IsFiniteSet(T), \A x : ~(x \in S /\ x \in T)
  PROVE  /\ IsFiniteSet(S \cup T) /\ Cardinality(S \cup T) = Cardinality(S) + Cardinality(T)
         /\ Cardinality(S) \in Nat /\ Cardinality(T) \in Nat
<1>1. Cardinality(S) \in Nat /\ Cardinality(T) \in Nat
  BY FS_CardinalityType
<1>2. /\ IsFiniteSet(S \cup T)
      /\ Cardinality(S \cup T) = Cardinality(S) + Cardinality(T) - Cardinality(S \cap T)
  BY FS_Union
<1>3. S \cap T = {}
  OBVIOUS
<1>4. Cardinality(S \cap T) = 0
  BY <1>3, FS_EmptySet
<1>. QED  BY <1>1, <1>2, <1>4

\* The blocks in the lists of threads, and those in chunks.
LEMMA CacheSize ==
  ASSUME Good
  PROVE  LET C == BlocksOf(Threads, cache)
             S == {p \in Threads \X (1 .. 2 * chunkSize) : p[2] <= Len(cache[p[1]])}
         IN  IsFiniteSet(C) /\ Cardinality(C) = Cardinality(S)
<1>1. /\ Types /\ Lists /\ Distinct /\ Blocked
  BY GoodParts
<1>2. PICK w : Placed(w)
  BY <1>1 DEF Blocked
<1>3. 2 * chunkSize \in Nat
  BY Numbers
<1>4. \A t \in Threads :
        cache[t] \in Seq(Nat) /\ Len(cache[t]) <= 2 * chunkSize /\ Once(cache[t])
  <2>1. \A t \in Threads : /\ cache[t] \in Seq(Nat) /\ Len(cache[t]) \in Nat
                           /\ Len(cache[t]) < 2 * chunkSize /\ Once(cache[t])
    BY <1>1 DEF Types, Lists, Distinct
  <2>. QED  BY <1>3, <2>1
<1>5. \A b \in Nat, t, u \in Threads : b \in ToSet(cache[t]) /\ b \in ToSet(cache[u]) => t = u
  <2>1. \A b \in Nat, t \in Threads :
          b \in ToSet(cache[t]) => w[b] = CACHE(t)
    BY <1>2 DEF Placed
  <2>. QED  BY <2>1, PlacesApart
<1>6. IsFiniteSet(BlocksOf(Threads, cache))
  <2>1. BlocksOf(Threads, cache) \in SUBSET Made
    BY <1>2 DEF Placed, BlocksOf
  <2>. QED  BY <2>1, FiniteBlocks, FS_Subset
<1>7. Cardinality(SpotsOf(Threads, cache, 2 * chunkSize)) = Cardinality(BlocksOf(Threads, cache))
  BY <1>3, <1>4, <1>5, <1>6, AsManyBlocks
<1>. QED  BY <1>6, <1>7 DEF SpotsOf

LEMMA ContentSize ==
  ASSUME Good
  PROVE  LET D == BlocksOf(Filled, content)
         IN  IsFiniteSet(D) /\ Cardinality(D) = Cardinality(Filled) * chunkSize
<1>1. /\ Types /\ Full /\ Distinct /\ Blocked
  BY GoodParts
<1>2. PICK w : Placed(w)
  BY <1>1 DEF Blocked
<1>3. chunkSize \in Nat
  BY Numbers
<1>4. Filled \subseteq Headers
  BY DEF Filled
<1>5. \A h \in Filled :
        content[h] \in Seq(Nat) /\ Len(content[h]) = chunkSize /\ Once(content[h])
  <2>1. \A h \in Filled : h \in Headers /\ h \in Stack \cup InHands
    BY <1>1 DEF Filled, InHeap, Full
  <2>. QED  BY <1>1, <2>1 DEF Types, Full, Distinct
<1>6. \A h \in Filled :
        content[h] \in Seq(Nat) /\ Len(content[h]) <= chunkSize /\ Once(content[h])
  BY <1>3, <1>5
<1>7. \A b \in Nat, h, k \in Filled : b \in ToSet(content[h]) /\ b \in ToSet(content[k]) => h = k
  <2>1. \A b \in Nat, h \in Headers : b \in ToSet(content[h]) => w[b] = CHUNK(h)
    BY <1>2 DEF Placed
  <2>. QED  BY <1>4, <2>1, PlacesApart
<1>8. IsFiniteSet(BlocksOf(Filled, content))
  <2>1. BlocksOf(Filled, content) \in SUBSET Made
    BY <1>2, <1>4 DEF Placed, BlocksOf
  <2>. QED  BY <2>1, FiniteBlocks, FS_Subset
<1>9. PICK K : K = Filled
  OBVIOUS
<1>10. Cardinality(SpotsOf(K, content, chunkSize)) = Cardinality(BlocksOf(K, content))
  <2>1. /\ \A h \in K : content[h] \in Seq(Nat) /\ Len(content[h]) <= chunkSize /\ Once(content[h])
        /\ \A b \in Nat, h, k \in K : b \in ToSet(content[h]) /\ b \in ToSet(content[k]) => h = k
        /\ IsFiniteSet(BlocksOf(K, content))
    BY <1>6, <1>7, <1>8, <1>9
  <2>. QED  BY <1>3, <2>1, AsManyBlocks
<1>11. SpotsOf(K, content, chunkSize) = K \X (1 .. chunkSize)
  <2>1. \A h \in K : Len(content[h]) = chunkSize
    BY <1>5, <1>9
  <2>2. \A i \in 1 .. chunkSize : i <= chunkSize
    BY <1>3
  <2>. QED  BY <2>1, <2>2 DEF SpotsOf
<1>12. Cardinality(K \X (1 .. chunkSize)) = Cardinality(K) * chunkSize
  <2>1. IsFiniteSet(1 .. chunkSize) /\ Cardinality(1 .. chunkSize) = chunkSize
    BY <1>3, FS_Interval
  <2>2. IsFiniteSet(K)
    BY <1>9, FiniteBlocks
  <2>. QED  BY <2>1, <2>2, FS_Product
<1>. QED  BY <1>8, <1>9, <1>10, <1>11, <1>12

\* The blocks that were made, place by place.
LEMMA AllBlocks ==
  ASSUME Good
  PROVE  made * chunkSize = Cardinality(gone) + Outside + Cardinality(Filled) * chunkSize
         /\ Outside \in Nat /\ Cardinality(gone) \in Nat
<1>1. /\ Types /\ Distinct /\ Blocked
  BY GoodParts
<1>2. PICK w : Placed(w)
  BY <1>1 DEF Blocked
<1> DEFINE L == ToSet(freeChunk)
           C == BlocksOf(Threads, cache)
           D == BlocksOf(Filled, content)
           S == {p \in Threads \X (1 .. 2 * chunkSize) : p[2] <= Len(cache[p[1]])}
<1>3. IsFiniteSet(L) /\ Cardinality(L) = Len(freeChunk)
  <2>1. freeChunk \in Seq(Nat) /\ Once(freeChunk)
    BY <1>1 DEF Types, Distinct
  <2>. QED  BY <2>1, ListSize
<1>4. IsFiniteSet(C) /\ Cardinality(C) = Cardinality(S)
  BY CacheSize
<1>5. IsFiniteSet(D) /\ Cardinality(D) = Cardinality(Filled) * chunkSize
  BY ContentSize
<1>6. held \subseteq Nat /\ gone \subseteq Nat /\ L \subseteq Nat
  <2>1. freeChunk \in Seq(Nat) /\ held \subseteq Nat /\ gone \subseteq Nat
    BY <1>1 DEF Types
  <2>2. L \subseteq Nat
    BY <2>1, InSeq, ElementOf
  <2>. QED  BY <2>1, <2>2
<1>7. \A b : /\ b \in held <=> b \in Made /\ w[b] = HELD
             /\ b \in gone <=> b \in Made /\ w[b] = GONE
             /\ b \in L <=> b \in Made /\ w[b] = LEFT
             /\ b \in C <=> b \in Made /\ \E t \in Threads : w[b] = CACHE(t)
             /\ b \in D <=> b \in Made /\ \E h \in Headers : w[b] = CHUNK(h)
  <2>1. Made \subseteq Nat
    BY FiniteBlocks DEF Made
  <2>2. \A b : /\ b \in held <=> b \in Made /\ w[b] = HELD
               /\ b \in gone <=> b \in Made /\ w[b] = GONE
               /\ b \in L <=> b \in Made /\ w[b] = LEFT
    BY <1>2, <1>6, <2>1 DEF Placed
  <2>3. \A b : b \in C <=> b \in Made /\ \E t \in Threads : w[b] = CACHE(t)
    BY <1>2, <2>1 DEF Placed, BlocksOf
  <2>4. \A b \in Nat : \A h \in Headers : b \in ToSet(content[h]) => h \in Filled
    BY EmptyList DEF Filled, InHeap
  <2>5. Filled \subseteq Headers
    BY DEF Filled
  <2>6. \A b : b \in D <=> b \in Nat /\ \E h \in Headers : b \in ToSet(content[h])
    BY <2>4, <2>5 DEF BlocksOf
  <2>7. \A b : b \in D <=> b \in Made /\ \E h \in Headers : w[b] = CHUNK(h)
    BY <1>2, <2>1, <2>6 DEF Placed
  <2>. QED  BY <2>2, <2>3, <2>7
<1>8. Outside = Cardinality(held) + Len(freeChunk) + Cardinality(S)
  BY DEF Outside
<1>9. Len(freeChunk) \in Nat
  BY <1>1 DEF Types
<1>10. Made = held \cup (gone \cup (L \cup (C \cup D)))
  <2>1. \A b \in Made : \/ w[b] = HELD \/ w[b] = GONE \/ w[b] = LEFT
                        \/ \E t \in Threads : w[b] = CACHE(t)
                        \/ \E h \in Headers : w[b] = CHUNK(h)
    BY <1>2 DEF Placed, Places
  <2>. HIDE DEF L, C, D
  <2>. QED  BY <1>7, <2>1
<1>. HIDE DEF L, C, D, S
<1>11. /\ \A b : ~(b \in C /\ b \in D)
       /\ \A b : ~(b \in L /\ b \in C \cup D)
       /\ \A b : ~(b \in gone /\ b \in L \cup (C \cup D))
       /\ \A b : ~(b \in held /\ b \in gone \cup (L \cup (C \cup D)))
  BY <1>7, PlacesApart
<1>12. IsFiniteSet(gone) /\ IsFiniteSet(held)
  <2>1. held \in SUBSET Made
    BY <1>10
  <2>. QED  BY <2>1, FiniteBlocks, FS_Subset
<1>13. /\ IsFiniteSet(C \cup D) /\ Cardinality(C \cup D) = Cardinality(C) + Cardinality(D)
       /\ Cardinality(C) \in Nat /\ Cardinality(D) \in Nat
  BY <1>4, <1>5, <1>11, Together
<1>14. /\ IsFiniteSet(L \cup (C \cup D))
       /\ Cardinality(L \cup (C \cup D)) = Cardinality(L) + Cardinality(C \cup D)
  BY <1>3, <1>11, <1>13, Together
<1>15. /\ IsFiniteSet(gone \cup (L \cup (C \cup D)))
       /\ Cardinality(gone \cup (L \cup (C \cup D)))
            = Cardinality(gone) + Cardinality(L \cup (C \cup D))
       /\ Cardinality(gone) \in Nat
  BY <1>11, <1>12, <1>14, Together
<1>16. Cardinality(Made) = Cardinality(held) + Cardinality(gone \cup (L \cup (C \cup D)))
       /\ Cardinality(held) \in Nat
  <2>1. /\ Cardinality(held \cup (gone \cup (L \cup (C \cup D))))
             = Cardinality(held) + Cardinality(gone \cup (L \cup (C \cup D)))
        /\ Cardinality(held) \in Nat
    BY <1>11, <1>12, <1>15, Together
  <2>. QED  BY <1>10, <2>1
<1>17. Cardinality(Made)
         = Cardinality(held) + (Cardinality(gone) + (Len(freeChunk) + (Cardinality(S) + Cardinality(D))))
  BY <1>3, <1>4, <1>13, <1>14, <1>15, <1>16
<1>18. Cardinality(Made) = made * chunkSize
  BY FiniteBlocks
<1>19. /\ Cardinality(S) \in Nat /\ Cardinality(D) \in Nat /\ Cardinality(gone) \in Nat
       /\ Cardinality(held) \in Nat
  BY <1>4, <1>13, <1>15, <1>16
<1>20. Cardinality(Made) = Cardinality(gone) + Outside + Cardinality(D) /\ Outside \in Nat
  <2>1. PICK h, k, l, c, d \in Nat :
          /\ h = Cardinality(held) /\ k = Cardinality(gone) /\ l = Len(freeChunk)
          /\ c = Cardinality(S) /\ d = Cardinality(D)
    BY <1>9, <1>19
  <2>2. Cardinality(Made) = h + (k + (l + (c + d))) /\ Outside = h + l + c
    BY <1>8, <1>17, <2>1
  <2>3. h + (k + (l + (c + d))) = k + (h + l + c) + d /\ h + l + c \in Nat
    OBVIOUS
  <2>. QED  BY <2>1, <2>2, <2>3
<1>. QED  BY <1>5, <1>15, <1>18, <1>20

\* What the counters are when no thread is inside the pool.
LEMMA CountedAgrees ==
  ASSUME Good, Counted, Quiet
  PROVE  /\ capacity * chunkSize = made * chunkSize - Cardinality(gone)
         /\ used * chunkSize = Outside
<1>1. Diffs
  BY DEF Counted
<1>2. PICK g \in Nat : CountedBy(g)
  BY DEF Counted
<1>3. Collected = {} /\ Uncorrected = {}
  <2>1. \A t \in Threads : diff[t].all - diff[t].left = 0
    <3>1. \A t \in Threads : /\ diff[t].all = 0 /\ diff[t].left \in Nat
                             /\ diff[t].left <= diff[t].all
      BY <1>1 DEF Diffs, Collecting, Quiet
    <3>2. \A t \in Threads : diff[t].all = 0 /\ diff[t].left = 0
      BY <3>1
    <3>. QED  BY <3>2
  <2>2. \A k \in Nat : ~(k < 0)
    OBVIOUS
  <2>3. \A p \in Collected : FALSE
    BY <2>1, <2>2 DEF Collected
  <2>. QED  BY <2>3, CollectedIs
<1>4. Cardinality(Collected) = 0 /\ Cardinality(Uncorrected) = 0
  BY <1>3, FS_EmptySet
<1>5. PICK F \in Nat : F = Cardinality(Filled)
  BY FiniteBlocks
<1>6. PICK m \in Nat : m = made
  BY FiniteBlocks
<1>7. PICK c \in Nat : c = chunkSize
  BY Numbers
<1>8. PICK k \in Nat : k = Cardinality(gone)
  BY AllBlocks
<1>9. PICK x \in Nat : x = Outside
  BY AllBlocks
<1>10. k = c * g /\ capacity = m - g + 0 /\ used = m - g - F + 0
  BY <1>2, <1>4, <1>5, <1>6, <1>7, <1>8 DEF CountedBy
<1>11. m * c = k + x + F * c
  BY <1>5, <1>6, <1>7, <1>8, <1>9, AllBlocks
<1>12. (m - g + 0) * c = m * c - c * g
  OBVIOUS
<1>13. (m - g - F + 0) * c = m * c - c * g - F * c
  OBVIOUS
<1>14. capacity * c = m * c - k
  BY <1>10, <1>12
<1>15. used * c = x
  <2>1. m * c \in Nat /\ F * c \in Nat
    OBVIOUS
  <2>2. \A a, b, y, d \in Nat : a = b + y + d => a - b - d = y
    OBVIOUS
  <2>3. m * c - k - F * c = x
    BY <1>11, <2>1, <2>2
  <2>. QED  BY <1>10, <1>13, <2>3
<1>. QED  BY <1>6, <1>7, <1>8, <1>9, <1>14, <1>15

\* When no thread is inside the pool, chunkCapacity_ is the number of chunks that exist
\* and chunkUsed_ of those whose blocks are outside the stack, for any number of threads
\* that collect at once: no interleaving of the two reads, of either one first, and the two
\* subtractions drifts, until a swap is fooled (ChunkLockFree.h:400-421).
THEOREM CountersAgreeHolds == Spec => []CountersAgree
<1> DEFINE CInv == IInv /\ (fooled = 0 => Counted) /\ Loaded
<1>1. Init => CInv
  BY InitInv, InitCounted DEF Init, Loaded
<1>2. CInv /\ [Next]_vars => CInv'
  BY NextInv, NextCounted, NextLoaded
<1>3. CInv => CountersAgree
  <2>1. ASSUME CInv, Quiet, fooled = 0
        PROVE  /\ capacity * chunkSize = made * chunkSize - Cardinality(gone)
               /\ used * chunkSize = Outside
    <3>1. Good /\ Counted
      BY <2>1 DEF IInv
    <3>. QED  BY <2>1, <3>1, CountedAgrees
  <2>. QED  BY <2>1 DEF CountersAgree
<1>. QED  BY <1>1, <1>2, <1>3, PTL DEF Spec
=============================================================================
