--------------------------- MODULE LazyPackProofs ---------------------------
(***************************************************************************)
(* Proofs about lazypack.js for every chunk size, pack, cache size and     *)
(* file bound.                                                             *)
(***************************************************************************)
EXTENDS LazyPack, TLAPS

\* The provers a leaf is tried with, one after the other, and for how long.
USE SMTT(40), Z3T(40), ZenonT(40)

-----------------------------------------------------------------------------
(* Arithmetic of chunk indices.                                            *)

\* A chunk starts at a natural number.
LEMMA ChunkStart == \A ci \in Nat : ci * CHUNK \in Nat
  BY ConstantsAssumption

\* An earlier chunk ends before a later one starts.
LEMMA MulMonotonic ==
    ASSUME NEW a \in Nat, NEW b \in Nat, a < b
    PROVE  (a * CHUNK) + CHUNK <= b * CHUNK
  BY ConstantsAssumption

\* The next chunk starts where this one ends.
LEMMA NextChunk ==
    ASSUME NEW ci \in Nat
    PROVE  (ci + 1) * CHUNK = (ci * CHUNK) + CHUNK
  BY ConstantsAssumption

\* A position is its chunk and an offset within it.
LEMMA DivMod ==
    \A p \in Nat : /\ p \div CHUNK \in Nat
                   /\ p % CHUNK \in 0..(CHUNK - 1)
                   /\ p = ((p \div CHUNK) * CHUNK) + (p % CHUNK)
  BY ConstantsAssumption

\* A position inside chunk ci has that chunk index and its distance from the
\* chunk's start as its offset.
LEMMA Locate ==
    ASSUME NEW p \in Nat, NEW ci \in Nat,
           ci * CHUNK <= p, p < (ci * CHUNK) + CHUNK
    PROVE  p \div CHUNK = ci /\ p % CHUNK = p - (ci * CHUNK)
  <1> DEFINE q == p \div CHUNK
             r == p % CHUNK
  <1>1. q \in Nat /\ r \in 0..(CHUNK - 1) /\ p = (q * CHUNK) + r
    BY DivMod
  <1> HIDE DEF q, r
  <1>2. CHUNK \in Nat /\ ci * CHUNK \in Nat /\ q * CHUNK \in Nat
    BY ConstantsAssumption, <1>1
  <1>3. ~(q < ci)
    <2> SUFFICES ASSUME q < ci PROVE FALSE
      OBVIOUS
    <2>1. (q * CHUNK) + CHUNK <= ci * CHUNK
      BY <1>1, MulMonotonic
    <2> QED
      BY <2>1, <1>1, <1>2
  <1>4. ~(ci < q)
    <2> SUFFICES ASSUME ci < q PROVE FALSE
      OBVIOUS
    <2>1. (ci * CHUNK) + CHUNK <= q * CHUNK
      BY <1>1, MulMonotonic
    <2> QED
      BY <2>1, <1>1, <1>2
  <1>5. q = ci
    BY <1>1, <1>3, <1>4
  <1>6. r = p - (ci * CHUNK)
    BY <1>5, <1>1, <1>2
  <1> QED
    BY <1>5, <1>6 DEF q, r

\* Where the loop of read or write stands: the piece is not empty and stays
\* inside one chunk.
LEMMA PieceInChunk ==
    ASSUME TypeOK, op.done < op.n
    PROVE  /\ P \in Nat /\ Ci \in Nat /\ Ci * CHUNK \in Nat
           /\ Off \in 0..(CHUNK - 1)
           /\ P = (Ci * CHUNK) + Off
           /\ K \in 1..(op.n - op.done)
           /\ Off + K <= CHUNK
  <1>1. op.pos \in Nat /\ op.done \in Nat /\ op.n \in Nat
    BY ConstantsAssumption DEF TypeOK, OpOK
  <1>2. P \in Nat
    BY <1>1 DEF P
  <1>3. P \div CHUNK \in Nat /\ P % CHUNK \in 0..(CHUNK - 1)
        /\ P = ((P \div CHUNK) * CHUNK) + (P % CHUNK)
    BY <1>2, DivMod
  <1>4. Ci \in Nat /\ Ci * CHUNK \in Nat
    BY <1>3, ChunkStart DEF Ci
  <1>5. Off \in 0..(CHUNK - 1) /\ P = (Ci * CHUNK) + Off
    BY <1>2, <1>3, <1>4, ConstantsAssumption DEF Off, Ci
  <1>6. K \in 1..(op.n - op.done) /\ Off + K <= CHUNK
    BY <1>1, <1>5, ConstantsAssumption DEF K, Min2
  <1> QED
    BY <1>2, <1>4, <1>5, <1>6

\* After a piece the loop is done or stands at the start of the next chunk.
LEMMA NextPieceAligned ==
    ASSUME TypeOK, op.done < op.n, op.done + K < op.n
    PROVE  (P + K) % CHUNK = 0
  <1>1. /\ P \in Nat /\ Ci \in Nat /\ Ci * CHUNK \in Nat /\ Off \in 0..(CHUNK - 1)
        /\ P = (Ci * CHUNK) + Off
    BY PieceInChunk
  <1>2. op.n \in Nat /\ op.done \in Nat /\ CHUNK \in Nat \ {0}
    BY ConstantsAssumption DEF TypeOK, OpOK
  <1>3. K = CHUNK - Off
    BY <1>1, <1>2 DEF K, Min2
  <1>4. P + K = (Ci * CHUNK) + CHUNK
    BY <1>1, <1>2, <1>3
  <1>5. P + K = (Ci + 1) * CHUNK
    BY <1>1, <1>4, NextChunk
  <1>6. P + K \in Nat /\ Ci + 1 \in Nat /\ (Ci + 1) * CHUNK \in Nat
    BY <1>1, <1>2, <1>4, <1>5
  <1>7. (P + K) % CHUNK = (P + K) - ((Ci + 1) * CHUNK)
    BY <1>2, <1>5, <1>6, Locate
  <1> QED
    BY <1>5, <1>6, <1>7

\* Looking a chunk up gives the file's bytes, wherever the chunk is found.
LEMMA ChunkIsContent ==
    ASSUME TypeOK, CacheIsClean, NEW ci \in Nat, NEW p \in Nat,
           p \div CHUNK = ci
    PROVE  ByteOf(chunk(ci), p % CHUNK) = ByteAt(p)
  <1>1. p % CHUNK \in 0..(CHUNK - 1) /\ p = (ci * CHUNK) + (p % CHUNK) /\ ci * CHUNK \in Nat
    BY DivMod, ChunkStart
  <1> DEFINE o == p % CHUNK
             s == ci * CHUNK
  <1>2. o \in 0..(CHUNK - 1) /\ p = s + o /\ s \in Nat
    BY <1>1
  <1>3. CASE ci \in DOMAIN dirty
    BY ZenonT(40), <1>2, <1>3 DEF TypeOK, Buffer, ByteOf, chunk, ByteAt
  <1>4. CASE ci \notin DOMAIN dirty /\ s < packEnd
    <2>1. chunk(ci) = Fetch(ci)
      BY <1>4 DEF chunk, Miss, CacheIsClean
    <2> HIDE DEF o, s
    <2>2. ByteOf(Fetch(ci), o) = IF p < packEnd THEN Pack[p] ELSE 0
      BY <1>2, <1>4, ConstantsAssumption DEF Fetch, Min2, ByteOf, TypeOK, s
    <2> QED
      BY <2>1, <2>2, <1>4 DEF ByteAt, o
  <1>5. CASE ci \notin DOMAIN dirty /\ ~(s < packEnd)
    <2>1. ci \notin DOMAIN cache
      BY <1>5 DEF CacheIsClean
    <2>2. ~(p < packEnd)
      BY <1>2, <1>5 DEF TypeOK
    <2> QED
      BY <1>2, <1>5, <2>1, <2>2 DEF chunk, Miss, ByteOf, ByteAt
  <1> QED
    BY <1>3, <1>4, <1>5

\* Every position of the file holds a byte.
LEMMA ContentIsByte ==
    ASSUME TypeOK, NEW p \in Nat
    PROVE  ByteAt(p) \in Byte
  <1>1. p \div CHUNK \in Nat /\ p % CHUNK \in 0..(CHUNK - 1)
    BY DivMod
  <1>2. packEnd \in 0..Size /\ Pack \in [0..(Size - 1) -> Byte] /\ 0 \in Byte /\ Size \in Nat
    BY ConstantsAssumption DEF TypeOK
  <1>3. \A ci \in DOMAIN dirty : dirty[ci] \in [0..(CHUNK - 1) -> Byte]
    BY DEF TypeOK, Buffer
  <1>4. CASE p \div CHUNK \in DOMAIN dirty
    BY ZenonT(40), <1>1, <1>3, <1>4 DEF ByteAt
  <1>5. p < packEnd => p \in 0..(Size - 1)
    BY <1>2
  <1> QED
    BY <1>2, <1>4, <1>5 DEF ByteAt

-----------------------------------------------------------------------------
(* The cache.                                                              *)

Distinct(s) == \A i, j \in DOMAIN s : s[i] = s[j] => i = j

\* Taking a chunk out of the recency list leaves the others, each once.
LEMMA WithoutProperties ==
    ASSUME NEW s \in Seq(Nat), NEW x, Distinct(s)
    PROVE  /\ Without(s, x) \in Seq(Nat)
           /\ Distinct(Without(s, x))
           /\ Keys(Without(s, x)) = Keys(s) \ {x}
           /\ Len(Without(s, x)) <= Len(s)
           /\ x \in Keys(s) => Len(Without(s, x)) = Len(s) - 1
  <1>1. CASE x \notin Keys(s)
    BY <1>1 DEF Without
  <1>2. CASE x \in Keys(s)
    <2> DEFINE i == CHOOSE j \in DOMAIN s : s[j] = x
               w == [k \in 1..(Len(s) - 1) |-> IF k < i THEN s[k] ELSE s[k + 1]]
    <2>1. i \in 1..Len(s) /\ s[i] = x /\ Len(s) \in Nat /\ DOMAIN s = 1..Len(s)
      BY <1>2 DEF Keys
    <2> HIDE DEF i
    <2>2. \A k \in 1..Len(s) : s[k] \in Nat
      OBVIOUS
    <2>3. Len(s) - 1 \in Nat /\ w \in [1..(Len(s) - 1) -> Nat]
      BY <2>1, <2>2
    <2>4. w \in Seq(Nat) /\ Len(w) = Len(s) - 1 /\ DOMAIN w = 1..(Len(s) - 1)
      BY <2>3
    <2>5. \A k \in 1..(Len(s) - 1) : w[k] = IF k < i THEN s[k] ELSE s[k + 1]
      OBVIOUS
    <2> HIDE DEF w
    <2>6. Distinct(w)
      <3> SUFFICES ASSUME NEW k \in 1..(Len(s) - 1), NEW l \in 1..(Len(s) - 1), w[k] = w[l]
                   PROVE  k = l
        BY ZenonT(40), <2>4 DEF Distinct
      <3> DEFINE up(m) == IF m < i THEN m ELSE m + 1
      <3>1. up(k) \in DOMAIN s /\ up(l) \in DOMAIN s /\ s[up(k)] = s[up(l)]
        BY <2>1, <2>5
      <3>2. up(k) = up(l)
        BY <3>1 DEF Distinct
      <3> QED
        BY <2>1, <3>2
    <2>7. ASSUME NEW k \in DOMAIN w
          PROVE  w[k] \in Keys(s) \ {x}
      <3>1. PICK m \in DOMAIN s : m # i /\ w[k] = s[m]
        <4>1. CASE k < i
          <5>1. k \in 1..(Len(s) - 1)
            BY <2>4
          <5>2. k \in 1..Len(s) /\ k # i
            BY <4>1, <2>1, <5>1
          <5>3. w[k] = s[k]
            BY <4>1, <2>5, <5>1
          <5> QED
            BY <2>1, <5>2, <5>3
        <4>2. CASE ~(k < i)
          <5>1. k \in 1..(Len(s) - 1)
            BY <2>4
          <5>2. k + 1 \in DOMAIN s /\ k + 1 # i
            BY <4>2, <2>1, <5>1
          <5>3. w[k] = s[k + 1]
            BY <4>2, <2>5, <5>1
          <5> QED
            BY <5>2, <5>3
        <4> QED
          BY <4>1, <4>2
      <3>2. s[m] # x
        BY <3>1, <2>1 DEF Distinct
      <3> QED
        BY <3>1, <3>2 DEF Keys
    <2>8. ASSUME NEW j \in DOMAIN s, s[j] # x
          PROVE  s[j] \in Keys(w)
      <3>1. CASE j < i
        <4>1. j \in DOMAIN w /\ w[j] = s[j]
          BY <3>1, <2>1, <2>4, <2>5
        <4> QED
          BY <4>1 DEF Keys
      <3>2. CASE i < j
        <4>1. j - 1 \in DOMAIN w /\ w[j - 1] = s[j]
          BY <3>2, <2>1, <2>4, <2>5
        <4> QED
          BY <4>1 DEF Keys
      <3>3. j # i
        BY <2>1, <2>8
      <3> QED
        BY <3>1, <3>2, <3>3, <2>1
    <2>9. Keys(w) = Keys(s) \ {x}
      BY <2>7, <2>8 DEF Keys
    <2>10. Without(s, x) = w
      BY <1>2 DEF Without, w, i
    <2> QED
      BY <1>2, <2>4, <2>6, <2>9, <2>10
  <1> QED
    BY <1>1, <1>2

\* What looking a chunk up, or writing to it, does to the keys of the cache.
LEMMA LruAfterProperties ==
    ASSUME TypeOK, CacheBounded, NEW ci \in Nat
    PROVE  /\ LruAfter(ci) \in Seq(Nat)
           /\ Distinct(LruAfter(ci))
           /\ Len(LruAfter(ci)) <= keep
           /\ \A c \in Keys(LruAfter(ci)) : c \in DOMAIN cache \/ (c = ci /\ Miss(ci))
  <1>1. lru \in Seq(Nat) /\ Distinct(lru) /\ Keys(lru) = DOMAIN cache /\ Len(lru) <= keep
        /\ keep \in Nat \ {0} /\ Len(lru) \in Nat
    BY ConstantsAssumption DEF TypeOK, CacheBounded, Distinct
  <1>2. CASE ci \in DOMAIN dirty \/ (ci \notin DOMAIN cache /\ ~Miss(ci))
    BY <1>1, <1>2 DEF LruAfter
  <1>3. CASE ci \notin DOMAIN dirty /\ ci \in DOMAIN cache
    <2> DEFINE w == Without(lru, ci)
    <2>1. w \in Seq(Nat) /\ Distinct(w) /\ Keys(w) = Keys(lru) \ {ci} /\ Len(w) = Len(lru) - 1
      BY ZenonT(40), <1>1, <1>3, WithoutProperties
    <2> HIDE DEF w
    <2>2. Append(w, ci) \in Seq(Nat) /\ Len(Append(w, ci)) = Len(lru)
          /\ DOMAIN Append(w, ci) = 1..Len(lru)
          /\ \A k \in 1..Len(w) : Append(w, ci)[k] = w[k]
          /\ Append(w, ci)[Len(lru)] = ci
      BY <1>1, <2>1
    <2>3. \A k \in 1..Len(w) : w[k] # ci /\ w[k] \in DOMAIN cache
      <3>1. DOMAIN w = 1..Len(w)
        BY <2>1
      <3>2. \A k \in DOMAIN w : w[k] \in Keys(w)
        BY DEF Keys
      <3> QED
        BY ZenonT(40), <3>1, <3>2, <2>1, <1>1
    <2>4. Distinct(Append(w, ci))
      BY <1>1, <2>1, <2>2, <2>3 DEF Distinct
    <2>5. \A c \in Keys(Append(w, ci)) : c \in DOMAIN cache
      BY <1>1, <1>3, <2>1, <2>2, <2>3 DEF Keys
    <2>6. LruAfter(ci) = Append(w, ci)
      BY <1>3 DEF LruAfter, w
    <2> QED
      BY <1>1, <2>2, <2>4, <2>5, <2>6
  <1>4. CASE Miss(ci)
    <2> DEFINE a == Append(lru, ci)
    <2>1. ci \notin DOMAIN cache /\ ci \notin DOMAIN dirty
      BY <1>4 DEF Miss
    <2>2. a \in Seq(Nat) /\ Len(a) = Len(lru) + 1 /\ DOMAIN a = 1..(Len(lru) + 1)
          /\ (\A k \in 1..Len(lru) : a[k] = lru[k]) /\ a[Len(lru) + 1] = ci
      BY <1>1
    <2>3. \A k \in 1..Len(lru) : lru[k] # ci /\ lru[k] \in DOMAIN cache
      BY <1>1, <2>1 DEF Keys
    <2> HIDE DEF a
    <2>4. Distinct(a) /\ \A k \in DOMAIN a : a[k] \in DOMAIN cache \/ a[k] = ci
      <3>1. \A k \in DOMAIN a : k \in 1..Len(lru) \/ k = Len(lru) + 1
        BY <1>1, <2>2
      <3>2. DOMAIN lru = 1..Len(lru)
        BY <1>1
      <3> QED
        BY <1>1, <2>2, <2>3, <3>1, <3>2 DEF Distinct
    <2>5. CASE Len(lru) < keep
      <3>1. LruAfter(ci) = a
        BY <1>4, <2>1, <2>5 DEF LruAfter, a
      <3> QED
        BY <1>1, <1>4, <2>2, <2>4, <2>5, <3>1 DEF Keys
    <2>6. CASE ~(Len(lru) < keep)
      <3>1. LruAfter(ci) = Tail(a)
        BY <1>4, <2>1, <2>6 DEF LruAfter, a
      <3>2. Tail(a) \in Seq(Nat) /\ Len(Tail(a)) = Len(lru) /\ DOMAIN Tail(a) = 1..Len(lru)
            /\ \A k \in 1..Len(lru) : Tail(a)[k] = a[k + 1]
        BY <1>1, <2>2
      <3>3. \A k \in 1..Len(lru) : k + 1 \in DOMAIN a
        BY <1>1, <2>2
      <3>4. \A k \in DOMAIN Tail(a) : Tail(a)[k] \in DOMAIN cache \/ Tail(a)[k] = ci
        BY <2>4, <3>2, <3>3
      <3>5. Distinct(Tail(a))
        <4> SUFFICES ASSUME NEW k \in 1..Len(lru), NEW l \in 1..Len(lru), Tail(a)[k] = Tail(a)[l]
                     PROVE  k = l
          BY ZenonT(40), <3>2 DEF Distinct
        <4>1. k + 1 = l + 1
          BY <2>4, <3>2, <3>3 DEF Distinct
        <4> QED
          BY <4>1
      <3> QED
        BY <1>1, <1>4, <3>1, <3>2, <3>4, <3>5 DEF Keys
    <2> QED
      BY <2>5, <2>6
  <1> QED
    BY <1>2, <1>3, <1>4

\* A map rebuilt from lru keys that are clean chunks is clean.
LEMMA CacheWithProperties ==
    ASSUME TypeOK, CacheIsClean, NEW keys \in Seq(Nat),
           NEW ci, \A c \in Keys(keys) : c \in DOMAIN cache \/ (c = ci /\ Miss(ci))
    PROVE  /\ DOMAIN CacheWith(keys) = Keys(keys)
           /\ \A c \in Keys(keys) : /\ CacheWith(keys)[c] = Fetch(c)
                                     /\ c \notin DOMAIN dirty
                                     /\ c * CHUNK < packEnd
                                     /\ c \in Nat
  <1>1. \A c \in Keys(keys) : c \in Nat
    BY DEF Keys
  <1> QED
    BY <1>1 DEF CacheWith, CacheIsClean, Miss

-----------------------------------------------------------------------------
(* The inductive invariant.                                                *)

IInv == TypeOK /\ CacheIsClean /\ CacheBounded /\ ZeroPastEnd /\ ReadIsExact

\* A pack just opened has an empty cache and nothing written.
LEMMA InitIInv == Init => IInv
  <1> SUFFICES ASSUME Init PROVE IInv
    OBVIOUS
  <1>1. usedBytes = Size /\ packEnd = Size /\ lru = << >> /\ op = Idle
        /\ DOMAIN cache = {} /\ DOMAIN dirty = {}
    BY DEF Init
  <1>2. Idle \in [kind : {"idle", "read", "write"}, pos : Nat, n : 0..MaxLen,
                  done : 0..MaxLen, buf : UNION {Buffer(m) : m \in 0..MaxLen}]
    <2>1. NoBytes \in Buffer(0)
      BY DEF NoBytes, Buffer
    <2>2. 0 \in 0..MaxLen
      BY ConstantsAssumption
    <2> QED
      BY <2>1, <2>2 DEF Idle
  <1>3. OpOK
    BY <1>1, <1>2 DEF OpOK, Idle
  <1>4. TypeOK
    BY <1>1, <1>3, ConstantsAssumption DEF TypeOK
  <1>5. CacheIsClean /\ CacheBounded /\ ReadIsExact
    BY <1>1, ConstantsAssumption DEF CacheIsClean, CacheBounded, Keys, ReadIsExact, Idle
  <1>6. ZeroPastEnd
    <2> SUFFICES ASSUME NEW p \in Addr, p >= usedBytes PROVE ByteAt(p) = 0
      BY DEF ZeroPastEnd
    <2>1. ~(p < packEnd)
      BY <1>1, ConstantsAssumption DEF Addr
    <2> QED
      BY <1>1, <2>1 DEF ByteAt
  <1> QED
    BY <1>4, <1>5, <1>6 DEF IInv

\* Starting a call changes only op.
LEMMA StartReadStep ==
    ASSUME IInv, NEW pos \in Addr, NEW length \in 1..MaxLen, StartRead(pos, length)
    PROVE  IInv'
  <1>1. usedBytes \in Nat /\ pos \in Nat /\ length \in 1..MaxLen /\ MaxLen \in Nat /\ pos < usedBytes
    BY ConstantsAssumption DEF IInv, TypeOK, Addr, StartRead
  <1> DEFINE n == Min2(length, usedBytes - pos)
  <1>2. n \in 0..MaxLen /\ pos + n <= usedBytes
    BY <1>1 DEF Min2
  <1> HIDE DEF n
  <1>3. op' = [kind |-> "read", pos |-> pos, n |-> n, done |-> 0, buf |-> NoBytes]
    BY DEF StartRead, n
  <1>4. NoBytes \in Buffer(0) /\ 0 \in 0..MaxLen
    BY <1>1 DEF NoBytes, Buffer
  <1>5. OpOK'
    BY <1>1, <1>2, <1>3, <1>4 DEF OpOK, StartRead, P
  <1>6. TypeOK'
    BY <1>5 DEF IInv, TypeOK, StartRead
  <1>7. CacheIsClean' /\ CacheBounded'
    BY DEF IInv, CacheIsClean, CacheBounded, StartRead, Fetch
  <1>8. ZeroPastEnd' /\ ReadIsExact'
    BY <1>3 DEF IInv, ZeroPastEnd, ReadIsExact, ByteAt, StartRead, Idle
  <1> QED
    BY <1>6, <1>7, <1>8 DEF IInv

\* A write begins; the file is as it was.
LEMMA StartWriteStep ==
    ASSUME IInv, NEW pos \in Addr, NEW length \in 1..MaxLen, NEW src \in Buffer(length),
           pos + length <= MaxFile, StartWrite(pos, length, src)
    PROVE  IInv'
  <1>1. pos \in Nat /\ length \in 0..MaxLen /\ MaxLen \in Nat
    BY ConstantsAssumption DEF Addr
  <1>2. op' = [kind |-> "write", pos |-> pos, n |-> length, done |-> 0, buf |-> src]
    BY DEF StartWrite
  <1>3. OpOK'
    BY <1>1, <1>2 DEF OpOK, P
  <1>4. TypeOK'
    BY <1>3 DEF IInv, TypeOK, StartWrite
  <1>5. CacheIsClean' /\ CacheBounded'
    BY DEF IInv, CacheIsClean, CacheBounded, StartWrite, Fetch
  <1>6. ZeroPastEnd' /\ ReadIsExact'
    BY <1>2 DEF IInv, ZeroPastEnd, ReadIsExact, ByteAt, StartWrite, Idle
  <1> QED
    BY <1>4, <1>5, <1>6 DEF IInv

\* A returning write covers with usedBytes everything it has stored.
LEMMA ReturnStep ==
    ASSUME IInv, Return
    PROVE  IInv'
  <1>1. op.pos \in Nat /\ op.n \in Nat /\ op.done = op.n /\ usedBytes \in 0..MaxFile /\ MaxFile \in Nat
        /\ (op.kind = "write" => op.pos + op.n <= MaxFile) /\ MaxLen \in Nat
    BY ConstantsAssumption DEF IInv, TypeOK, OpOK, Return
  <1>2. usedBytes' \in 0..MaxFile /\ usedBytes' >= usedBytes
        /\ (op.kind = "write" => usedBytes' >= op.pos + op.n)
    BY <1>1 DEF Return
  <1>3. op' = Idle /\ UNCHANGED <<packEnd, lru, cache, dirty>>
    BY DEF Return
  <1>4. NoBytes \in Buffer(0) /\ 0 \in 0..MaxLen
    BY <1>1 DEF NoBytes, Buffer
  <1>5. OpOK'
    BY <1>3, <1>4 DEF OpOK, Idle
  <1>6. TypeOK'
    BY <1>1, <1>2, <1>3, <1>5, ConstantsAssumption DEF IInv, TypeOK
  <1>7. CacheIsClean' /\ CacheBounded' /\ ReadIsExact'
    BY <1>3 DEF IInv, CacheIsClean, CacheBounded, ReadIsExact, Fetch, Idle
  <1>8. ZeroPastEnd'
    <2> SUFFICES ASSUME NEW p \in Addr, p >= usedBytes' PROVE ByteAt(p) = 0
      BY <1>3 DEF ZeroPastEnd, ByteAt
    <2>1. p >= usedBytes /\ ~(op.kind = "write" /\ op.pos <= p /\ p < P)
      BY <1>1, <1>2 DEF P, Addr
    <2> QED
      BY <2>1 DEF IInv, ZeroPastEnd
  <1> QED
    BY <1>6, <1>7, <1>8 DEF IInv

\* A fetch that throws does so at the start of a chunk the pack backs, so all
\* the call has stored lies below usedBytes.
LEMMA FetchFailsStep ==
    ASSUME IInv, FetchFails
    PROVE  IInv'
  <1>1. op.done < op.n /\ Miss(Ci) /\ op' = Idle /\ UNCHANGED <<usedBytes, packEnd, lru, cache, dirty>>
    BY DEF FetchFails
  <1>2. TypeOK /\ op.pos \in Nat /\ op.done \in Nat /\ MaxLen \in Nat
        /\ packEnd <= usedBytes /\ packEnd \in Nat /\ usedBytes \in Nat
    BY ConstantsAssumption DEF IInv, TypeOK, OpOK
  <1>3. NoBytes \in Buffer(0) /\ 0 \in 0..MaxLen
    BY <1>2 DEF NoBytes, Buffer
  <1>4. OpOK'
    BY <1>1, <1>3 DEF OpOK, Idle
  <1>5. TypeOK'
    BY <1>1, <1>2, <1>4 DEF TypeOK
  <1>6. CacheIsClean' /\ CacheBounded' /\ ReadIsExact'
    BY <1>1 DEF IInv, CacheIsClean, CacheBounded, ReadIsExact, Fetch, Idle
  <1>7. op.done > 0 => P < usedBytes
    <2> SUFFICES ASSUME op.done > 0 PROVE P < usedBytes
      OBVIOUS
    <2>1. P % CHUNK = 0
      BY <1>1, <1>2 DEF TypeOK, OpOK
    <2>2. P \in Nat
      BY <1>2 DEF P
    <2>3. P = (Ci * CHUNK) + (P % CHUNK) /\ Ci \in Nat
      BY <2>2, DivMod DEF Ci
    <2>4. P = Ci * CHUNK
      BY <2>1, <2>2, <2>3, ChunkStart
    <2>5. P < packEnd
      BY <1>1, <2>4 DEF Miss
    <2> QED
      BY <1>2, <2>2, <2>5
  <1>8. ZeroPastEnd'
    <2> SUFFICES ASSUME NEW p \in Addr, p >= usedBytes PROVE ByteAt(p) = 0
      BY <1>1 DEF ZeroPastEnd, ByteAt
    <2>1. ~(op.kind = "write" /\ op.pos <= p /\ p < P)
      BY <1>2, <1>7 DEF P, Addr
    <2> QED
      BY <2>1 DEF IInv, ZeroPastEnd
  <1> QED
    BY <1>5, <1>6, <1>8 DEF IInv

\* setattr with a larger size, and allocate: the file grows by zeros.
LEMMA GrowStep ==
    ASSUME IInv, NEW sz \in 0..MaxFile, Grow(sz) \/ Allocate(sz)
    PROVE  IInv'
  <1>1. op = Idle /\ usedBytes' = sz /\ sz >= usedBytes /\ UNCHANGED <<packEnd, lru, cache, dirty, op>>
    BY ConstantsAssumption DEF Grow, Allocate, IInv, TypeOK
  <1>2. TypeOK'
    BY <1>1, ConstantsAssumption DEF IInv, TypeOK, OpOK, Idle, P
  <1>3. CacheIsClean' /\ CacheBounded' /\ ReadIsExact'
    BY <1>1 DEF IInv, CacheIsClean, CacheBounded, ReadIsExact, Fetch, Idle
  <1>4. ZeroPastEnd'
    <2> SUFFICES ASSUME NEW p \in Addr, p >= usedBytes' PROVE ByteAt(p) = 0
      BY <1>1 DEF ZeroPastEnd, ByteAt
    <2>1. p >= usedBytes
      BY <1>1, ConstantsAssumption DEF IInv, TypeOK, Addr
    <2> QED
      BY <1>1, <2>1 DEF IInv, ZeroPastEnd, Idle
  <1> QED
    BY <1>2, <1>3, <1>4 DEF IInv

\* A truncate keeps the bytes below sz and zeroes the others.
LEMMA ShrinkContent ==
    ASSUME TypeOK, NEW sz \in 0..MaxFile, Shrink(sz), NEW p \in Nat
    PROVE  ByteAt(p)' = IF p < sz THEN ByteAt(p) ELSE 0
  <1> DEFINE ci == p \div CHUNK
             o == p % CHUNK
             cz == sz \div CHUNK
             oz == sz % CHUNK
  <1>1. sz \in Nat /\ packEnd \in Nat /\ CHUNK \in Nat \ {0}
    BY ConstantsAssumption DEF TypeOK
  <1>2. ci \in Nat /\ o \in 0..(CHUNK - 1) /\ p = (ci * CHUNK) + o /\ ci * CHUNK \in Nat
    BY DivMod, ChunkStart
  <1>3. cz \in Nat /\ oz \in 0..(CHUNK - 1) /\ sz = (cz * CHUNK) + oz /\ cz * CHUNK \in Nat
    BY <1>1, DivMod, ChunkStart
  <1>4. ci * CHUNK <= sz /\ sz < (ci * CHUNK) + CHUNK => ci = cz
    BY ZenonT(40), <1>1, <1>2, Locate
  <1>5. /\ packEnd' = Min2(packEnd, sz)
        /\ DOMAIN dirty' = {c \in DOMAIN dirty : c * CHUNK < sz}
        /\ \A c \in DOMAIN dirty' :
               dirty'[c] = IF c = cz
                           THEN [k \in 0..(CHUNK - 1) |-> IF k < oz THEN dirty[c][k] ELSE 0]
                           ELSE dirty[c]
    BY DEF Shrink, DirtyBelow
  <1>6. ByteAt(p) = IF ci \in DOMAIN dirty THEN dirty[ci][o] ELSE IF p < packEnd THEN Pack[p] ELSE 0
    BY DEF ByteAt
  <1>7. ByteAt(p)' = IF ci \in DOMAIN dirty' THEN dirty'[ci][o] ELSE IF p < packEnd' THEN Pack[p] ELSE 0
    BY DEF ByteAt
  <1> HIDE DEF ci, o, cz, oz
  <1>8. p < packEnd' <=> (p < packEnd /\ p < sz)
    BY <1>1, <1>5 DEF Min2
  <1>9. CASE p < sz
    <2>1. ci * CHUNK < sz
      BY <1>1, <1>2, <1>9
    <2>2. CASE ci \notin DOMAIN dirty
      BY <1>5, <1>6, <1>7, <1>8, <1>9, <2>2
    <2>3. CASE ci \in DOMAIN dirty /\ ci # cz
      BY <1>5, <1>6, <1>7, <1>9, <2>1, <2>3
    <2>4. CASE ci \in DOMAIN dirty /\ ci = cz
      <3>1. o < oz
        BY <1>1, <1>2, <1>3, <1>9, <2>4
      <3>2. ci \in DOMAIN dirty' /\ dirty'[ci][o] = dirty[ci][o]
        BY ZenonT(40), <1>2, <1>5, <2>1, <2>4, <3>1
      <3> QED
        BY <1>6, <1>7, <1>9, <2>4, <3>2
    <2> QED
      BY <2>2, <2>3, <2>4
  <1>10. CASE ~(p < sz)
    <2>1. CASE ci \in DOMAIN dirty'
      <3>1. ci * CHUNK < sz
        BY <1>5, <2>1
      <3>2. sz < (ci * CHUNK) + CHUNK
        BY <1>1, <1>2, <1>10
      <3>3. ci = cz
        BY <1>1, <1>2, <1>4, <3>1, <3>2
      <3>4. ~(o < oz)
        BY <1>1, <1>2, <1>3, <1>10, <3>3
      <3>5. dirty'[ci][o] = 0
        BY ZenonT(40), <1>2, <1>5, <2>1, <3>3, <3>4
      <3> QED
        BY <1>7, <1>10, <2>1, <3>5
    <2>2. CASE ci \notin DOMAIN dirty'
      BY <1>7, <1>8, <1>10, <2>2
    <2> QED
      BY <2>1, <2>2
  <1> QED
    BY <1>9, <1>10

\* setattr with a smaller size cuts the written chunks and the pack.
LEMMA ShrinkStep ==
    ASSUME IInv, NEW sz \in 0..MaxFile, Shrink(sz)
    PROVE  IInv'
  <1>1. TypeOK /\ sz \in Nat /\ packEnd \in Nat /\ CHUNK \in Nat \ {0} /\ MaxFile \in Nat
        /\ packEnd \in 0..Size /\ Size \in Nat
    BY ConstantsAssumption DEF IInv, TypeOK
  <1>2. op = Idle /\ op' = op /\ usedBytes' = sz /\ packEnd' = Min2(packEnd, sz)
    BY DEF Shrink
  <1>3. packEnd' \in 0..Size /\ packEnd' <= sz
    BY <1>1, <1>2 DEF Min2
  <1>4. DOMAIN dirty' \subseteq DOMAIN dirty /\ DOMAIN dirty' \subseteq Nat
        /\ \A c \in DOMAIN dirty' : dirty'[c] \in Buffer(CHUNK)
    <2>1. DOMAIN dirty' = {c \in DOMAIN dirty : c * CHUNK < sz}
      BY DEF Shrink, DirtyBelow
    <2>2. \A c \in DOMAIN dirty : dirty[c] \in [0..(CHUNK - 1) -> Byte]
      BY <1>1 DEF TypeOK, Buffer
    <2>3. ASSUME NEW c \in DOMAIN dirty'
          PROVE  dirty'[c] \in [0..(CHUNK - 1) -> Byte]
      <3>1. dirty'[c] = IF c = sz \div CHUNK
                        THEN [k \in 0..(CHUNK - 1) |-> IF k < sz % CHUNK THEN dirty[c][k] ELSE 0]
                        ELSE dirty[c]
        BY <2>1 DEF Shrink, DirtyBelow
      <3> QED
        BY <2>1, <2>2, <3>1, ConstantsAssumption
    <2> QED
      BY <1>1, <2>1, <2>3 DEF TypeOK, Buffer
  <1>5. lru' \in Seq(Nat) /\ DOMAIN cache' \subseteq Nat
    BY <1>1 DEF Shrink, TypeOK
  <1>6. OpOK'
    BY <1>1, <1>2 DEF OpOK, TypeOK, Idle
  <1>7. TypeOK'
    BY <1>1, <1>2, <1>3, <1>4, <1>5, <1>6 DEF TypeOK
  <1>8. CacheIsClean' /\ CacheBounded'
    <2>1. CASE sz < packEnd
      BY <2>1, ConstantsAssumption DEF Shrink, CacheIsClean, CacheBounded, Keys
    <2>2. CASE ~(sz < packEnd)
      <3>1. packEnd' = packEnd /\ lru' = lru /\ cache' = cache
        BY <1>1, <2>2 DEF Shrink, Min2
      <3> QED
        BY <1>4, <3>1 DEF IInv, CacheIsClean, CacheBounded, Fetch
    <2> QED
      BY <2>1, <2>2
  <1>9. ZeroPastEnd'
    <2> SUFFICES ASSUME NEW p \in Addr, p >= sz PROVE ByteAt(p)' = 0
      BY <1>2 DEF ZeroPastEnd
    <2>1. p \in Nat /\ ~(p < sz)
      BY <1>1 DEF Addr
    <2> QED
      BY <1>1, <2>1, ShrinkContent
  <1>10. ReadIsExact'
    BY <1>2 DEF ReadIsExact, Idle
  <1> QED
    BY <1>7, <1>8, <1>9, <1>10 DEF IInv

\* What the piece of a read copies is the file's content.
LEMMA PieceContent ==
    ASSUME TypeOK, CacheIsClean, op.done < op.n, NEW i \in op.done..(op.done + K - 1)
    PROVE  ByteOf(chunk(Ci), Off + (i - op.done)) = ByteAt(op.pos + i)
  <1>1. /\ P \in Nat /\ Ci \in Nat /\ Ci * CHUNK \in Nat /\ Off \in 0..(CHUNK - 1)
        /\ P = (Ci * CHUNK) + Off /\ K \in 1..(op.n - op.done) /\ Off + K <= CHUNK
    BY PieceInChunk
  <1>2. op.pos \in Nat /\ op.done \in Nat /\ op.n \in Nat /\ P = op.pos + op.done /\ CHUNK \in Nat
    BY ConstantsAssumption DEF TypeOK, OpOK, P
  <1> DEFINE p == op.pos + i
  <1>3. p \in Nat /\ Ci * CHUNK <= p /\ p < (Ci * CHUNK) + CHUNK
        /\ p - (Ci * CHUNK) = Off + (i - op.done)
    BY <1>1, <1>2
  <1> HIDE DEF p
  <1>4. p \div CHUNK = Ci /\ p % CHUNK = Off + (i - op.done)
    BY <1>1, <1>3, Locate
  <1>5. ByteOf(chunk(Ci), p % CHUNK) = ByteAt(p)
    BY <1>1, <1>3, <1>4, ChunkIsContent
  <1> QED
    BY <1>4, <1>5 DEF p

\* One turn of the loop of a read.
LEMMA ReadChunkStep ==
    ASSUME IInv, ReadChunk
    PROVE  IInv'
  <1>1. /\ TypeOK /\ CacheIsClean /\ CacheBounded /\ op.kind = "read" /\ op.done < op.n
        /\ UNCHANGED <<usedBytes, packEnd, dirty>>
    BY DEF IInv, ReadChunk
  <1>2. /\ P \in Nat /\ Ci \in Nat /\ Off \in 0..(CHUNK - 1)
        /\ K \in 1..(op.n - op.done)
    BY <1>1, PieceInChunk
  <1>3. op.pos \in Nat /\ op.done \in 0..MaxLen /\ op.n \in 0..MaxLen /\ MaxLen \in Nat
        /\ op.buf \in [0..(op.done - 1) -> Byte]
    BY <1>1, ConstantsAssumption DEF TypeOK, OpOK, Buffer
  <1> DEFINE d == op.done + K
             b == ReadBuffer
  <1>4. d \in 0..MaxLen /\ d <= op.n /\ d \in Nat /\ d = op.done + K
    BY <1>2, <1>3
  <1>16. b = [i \in 0..(d - 1) |-> IF i < op.done THEN op.buf[i]
                                  ELSE ByteOf(chunk(Ci), Off + (i - op.done))]
    <2>1. op.done + K - 1 = d - 1
      BY <1>2, <1>3
    <2> QED
      BY <2>1 DEF ReadBuffer
  <1> HIDE DEF b, d
  <1>5. \A i \in 0..(d - 1) : b[i] = ByteAt(op.pos + i)
    <2> TAKE i \in 0..(d - 1)
    <2>1. CASE i < op.done
      <3>1. i \in 0..(op.done - 1)
        BY <1>3, <1>4, <2>1
      <3> QED
        BY <1>1, <1>16, <2>1, <3>1 DEF IInv, ReadIsExact
    <2>2. CASE ~(i < op.done)
      <3>1. i \in op.done..(op.done + K - 1)
        BY <1>2, <1>3, <1>4, <2>2
      <3>2. ByteOf(chunk(Ci), Off + (i - op.done)) = ByteAt(op.pos + i)
        BY <1>1, <3>1, PieceContent
      <3> QED
        BY <1>16, <2>2, <3>2
    <2> QED
      BY <2>1, <2>2
  <1>6. b \in Buffer(d)
    <2>1. \A i \in 0..(d - 1) : op.pos + i \in Nat
      BY <1>3, <1>4
    <2>2. \A i \in 0..(d - 1) : b[i] \in Byte
      BY <1>1, <1>5, <2>1, ContentIsByte
    <2> QED
      BY <1>16, <2>2 DEF Buffer
  <1>7. op' = [kind |-> "read", pos |-> op.pos, n |-> op.n, done |-> d, buf |-> b]
    BY DEF ReadChunk, b, d
  <1>8. op'.kind = "read" /\ op'.pos = op.pos /\ op'.n = op.n /\ op'.done = d /\ op'.buf = b
        /\ op' \in [kind : {"idle", "read", "write"}, pos : Nat, n : 0..MaxLen,
                    done : 0..MaxLen, buf : UNION {Buffer(m) : m \in 0..MaxLen}]
    BY <1>1, <1>4, <1>6, <1>7 DEF TypeOK, OpOK
  <1>9. 0 < d /\ d < op.n => P' % CHUNK = 0
    <2>1. P' = P + K
      BY <1>2, <1>3, <1>4, <1>8 DEF P
    <2> QED
      BY <1>1, <1>4, <2>1, NextPieceAligned
  <1>10. OpOK'
    BY <1>1, <1>4, <1>6, <1>8, <1>9 DEF OpOK, TypeOK
  <1>11. /\ lru' = LruAfter(Ci) /\ cache' = CacheWith(LruAfter(Ci))
         /\ LruAfter(Ci) \in Seq(Nat) /\ Distinct(LruAfter(Ci)) /\ Len(LruAfter(Ci)) <= keep
         /\ \A c \in Keys(LruAfter(Ci)) : c \in DOMAIN cache \/ (c = Ci /\ Miss(Ci))
    BY <1>1, <1>2, LruAfterProperties DEF ReadChunk
  <1>12. /\ DOMAIN cache' = Keys(lru')
         /\ \A c \in Keys(lru') : cache'[c] = Fetch(c) /\ c \notin DOMAIN dirty
                                   /\ c * CHUNK < packEnd /\ c \in Nat
    BY <1>1, <1>11, CacheWithProperties
  <1>13. TypeOK'
    BY <1>1, <1>10, <1>11, <1>12 DEF TypeOK
  <1>14. CacheIsClean' /\ CacheBounded'
    BY <1>1, <1>11, <1>12 DEF CacheIsClean, CacheBounded, Fetch, Distinct
  <1>15. ZeroPastEnd' /\ ReadIsExact'
    BY <1>1, <1>5, <1>8 DEF IInv, ZeroPastEnd, ReadIsExact, ByteAt
  <1> QED
    BY <1>13, <1>14, <1>15 DEF IInv

\* A piece of a write changes exactly the bytes it covers.
LEMMA WriteContent ==
    ASSUME TypeOK, CacheIsClean, WriteChunk, NEW p \in Nat
    PROVE  ByteAt(p)' = IF P <= p /\ p < P + K THEN op.buf[p - op.pos] ELSE ByteAt(p)
  <1>1. /\ P \in Nat /\ Ci \in Nat /\ Ci * CHUNK \in Nat /\ Off \in 0..(CHUNK - 1)
        /\ P = (Ci * CHUNK) + Off /\ K \in 1..(op.n - op.done) /\ Off + K <= CHUNK
    BY PieceInChunk DEF WriteChunk
  <1>2. op.pos \in Nat /\ op.done \in Nat /\ op.n \in Nat /\ P = op.pos + op.done /\ CHUNK \in Nat \ {0}
    BY ConstantsAssumption DEF TypeOK, OpOK, P
  <1> DEFINE ci == p \div CHUNK
             o == p % CHUNK
  <1>3. ci \in Nat /\ o \in 0..(CHUNK - 1) /\ p = (ci * CHUNK) + o /\ ci * CHUNK \in Nat
    BY DivMod, ChunkStart
  <1>4. /\ packEnd' = packEnd
        /\ DOMAIN dirty' = DOMAIN dirty \cup {Ci}
        /\ \A c \in DOMAIN dirty : c # Ci => dirty'[c] = dirty[c]
        /\ dirty'[Ci] = [k \in 0..(CHUNK - 1) |->
                             IF Off <= k /\ k < Off + K THEN op.buf[op.done + (k - Off)]
                             ELSE ByteOf(chunk(Ci), k)]
    BY DEF WriteChunk
  <1>5. ByteAt(p) = IF ci \in DOMAIN dirty THEN dirty[ci][o] ELSE IF p < packEnd THEN Pack[p] ELSE 0
    BY DEF ByteAt
  <1>6. ByteAt(p)' = IF ci \in DOMAIN dirty' THEN dirty'[ci][o] ELSE IF p < packEnd' THEN Pack[p] ELSE 0
    BY DEF ByteAt
  <1>7. P <= p /\ p < P + K => ci = Ci
    <2> SUFFICES ASSUME P <= p, p < P + K PROVE ci = Ci
      OBVIOUS
    <2>1. Ci * CHUNK <= p /\ p < (Ci * CHUNK) + CHUNK
      BY <1>1, <1>2
    <2> QED
      BY <1>1, <2>1, Locate
  <1>8. ci = Ci => ByteOf(chunk(Ci), o) = ByteAt(p)
    BY <1>1, ChunkIsContent
  <1> HIDE DEF ci, o
  <1>9. CASE ci # Ci
    BY <1>4, <1>5, <1>6, <1>7, <1>9
  <1>10. CASE ci = Ci
    <2>1. Off <= o /\ o < Off + K <=> P <= p /\ p < P + K
      BY <1>1, <1>2, <1>3, <1>10
    <2>2. op.done + (o - Off) = p - op.pos
      BY <1>1, <1>2, <1>3, <1>10
    <2>3. dirty'[Ci][o] = IF Off <= o /\ o < Off + K THEN op.buf[op.done + (o - Off)]
                          ELSE ByteOf(chunk(Ci), o)
      BY <1>3, <1>4
    <2>4. ByteAt(p)' = dirty'[Ci][o]
      BY ZenonT(40), <1>4, <1>6, <1>10
    <2> QED
      BY <1>8, <1>10, <2>1, <2>2, <2>3, <2>4
  <1> QED
    BY <1>9, <1>10

\* One turn of the loop of a write.
LEMMA WriteChunkStep ==
    ASSUME IInv, WriteChunk
    PROVE  IInv'
  <1>1. /\ TypeOK /\ CacheIsClean /\ CacheBounded /\ op.kind = "write" /\ op.done < op.n
        /\ UNCHANGED <<usedBytes, packEnd>>
    BY DEF IInv, WriteChunk
  <1>2. /\ P \in Nat /\ Ci \in Nat /\ Off \in 0..(CHUNK - 1)
        /\ K \in 1..(op.n - op.done)
    BY <1>1, PieceInChunk
  <1>3. op.pos \in Nat /\ op.done \in 0..MaxLen /\ op.n \in 0..MaxLen /\ MaxLen \in Nat
        /\ op.buf \in [0..(op.n - 1) -> Byte]
    BY <1>1, ConstantsAssumption DEF TypeOK, OpOK, Buffer
  <1> DEFINE d == op.done + K
  <1>4. d \in 0..MaxLen /\ d <= op.n /\ d \in Nat
    BY <1>2, <1>3
  <1>5. op' = [op EXCEPT !.done = d]
    BY DEF WriteChunk
  <1>6. P' = P + K
    BY <1>1, <1>2, <1>3, <1>5 DEF P, TypeOK, OpOK
  <1>7. d < op.n => P' % CHUNK = 0
    BY <1>1, <1>6, NextPieceAligned
  <1> HIDE DEF d
  <1>8. op'.kind = "write" /\ op'.pos = op.pos /\ op'.n = op.n /\ op'.done = d /\ op'.buf = op.buf
        /\ op' \in [kind : {"idle", "read", "write"}, pos : Nat, n : 0..MaxLen,
                    done : 0..MaxLen, buf : UNION {Buffer(m) : m \in 0..MaxLen}]
    BY <1>1, <1>4, <1>5 DEF TypeOK, OpOK
  <1>9. OpOK'
    BY <1>1, <1>4, <1>7, <1>8 DEF OpOK, TypeOK
  <1>10. /\ LruAfter(Ci) \in Seq(Nat) /\ Distinct(LruAfter(Ci)) /\ Len(LruAfter(Ci)) <= keep
         /\ \A c \in Keys(LruAfter(Ci)) : c \in DOMAIN cache \/ (c = Ci /\ Miss(Ci))
    BY ZenonT(40), <1>1, <1>2, LruAfterProperties
  <1>11. /\ LruAfterWrite(Ci) \in Seq(Nat) /\ Distinct(LruAfterWrite(Ci))
         /\ Len(LruAfterWrite(Ci)) <= keep
         /\ \A c \in Keys(LruAfterWrite(Ci)) : c \in DOMAIN cache /\ c # Ci
    <2>1. CASE Ci \in DOMAIN dirty
      <3>1. LruAfterWrite(Ci) = lru
        BY <2>1 DEF LruAfterWrite
      <3> QED
        BY <1>1, <2>1, <3>1 DEF TypeOK, CacheBounded, CacheIsClean, Distinct
    <2>2. CASE Ci \notin DOMAIN dirty
      <3> DEFINE l == LruAfter(Ci)
                 w == Without(l, Ci)
      <3>1. LruAfterWrite(Ci) = w
        BY <2>2 DEF LruAfterWrite
      <3>2. l \in Seq(Nat) /\ Distinct(l) /\ Len(l) <= keep
        BY <1>10
      <3> HIDE DEF l
      <3>3. w \in Seq(Nat) /\ Distinct(w) /\ Keys(w) = Keys(l) \ {Ci} /\ Len(w) <= Len(l)
        BY <3>2, WithoutProperties
      <3>4. Len(w) \in Nat /\ Len(l) \in Nat /\ keep \in Nat
        BY <3>2, <3>3, ConstantsAssumption
      <3>5. Len(w) <= keep
        BY <3>2, <3>3, <3>4
      <3> QED
        BY <1>10, <3>1, <3>3, <3>5 DEF l
    <2> QED
      BY <2>1, <2>2
  <1>12. lru' = LruAfterWrite(Ci) /\ cache' = CacheWith(LruAfterWrite(Ci))
    BY DEF WriteChunk
  <1>13. /\ DOMAIN cache' = Keys(lru')
         /\ \A c \in Keys(lru') : cache'[c] = Fetch(c) /\ c \notin DOMAIN dirty
                                   /\ c * CHUNK < packEnd /\ c \in Nat
    BY <1>1, <1>11, <1>12, CacheWithProperties
  <1>14. /\ DOMAIN dirty' = DOMAIN dirty \cup {Ci}
         /\ \A c \in DOMAIN dirty' : dirty'[c] \in Buffer(CHUNK)
    <2>1. /\ DOMAIN dirty' = DOMAIN dirty \cup {Ci}
          /\ \A c \in DOMAIN dirty : c # Ci => dirty'[c] = dirty[c]
          /\ dirty'[Ci] = [k \in 0..(CHUNK - 1) |->
                               IF Off <= k /\ k < Off + K THEN op.buf[op.done + (k - Off)]
                               ELSE ByteOf(chunk(Ci), k)]
      BY DEF WriteChunk
    <2>2. ASSUME NEW k \in 0..(CHUNK - 1)
          PROVE  dirty'[Ci][k] \in Byte
      <3>1. CASE Off <= k /\ k < Off + K
        <4>1. op.done + (k - Off) \in 0..(op.n - 1)
          BY <1>2, <1>3, <3>1
        <4>2. dirty'[Ci][k] = op.buf[op.done + (k - Off)]
          BY <2>1, <3>1
        <4> QED
          BY <1>3, <4>1, <4>2
      <3>2. CASE ~(Off <= k /\ k < Off + K)
        <4> DEFINE p == (Ci * CHUNK) + k
        <4>1. CHUNK \in Nat /\ Ci * CHUNK \in Nat
          BY <1>2, ChunkStart, ConstantsAssumption
        <4>2. p \in Nat /\ Ci * CHUNK <= p /\ p < (Ci * CHUNK) + CHUNK /\ p - (Ci * CHUNK) = k
          BY <4>1
        <4> HIDE DEF p
        <4>3. p \div CHUNK = Ci /\ p % CHUNK = k
          BY <1>2, <4>2, Locate
        <4>4. ByteOf(chunk(Ci), k) = ByteAt(p)
          BY <1>1, <1>2, <4>2, <4>3, ChunkIsContent
        <4>5. ByteAt(p) \in Byte
          BY <1>1, <4>2, ContentIsByte
        <4> QED
          BY <2>1, <3>2, <4>4, <4>5
      <3> QED
        BY <3>1, <3>2
    <2>3. dirty'[Ci] \in Buffer(CHUNK)
      BY <2>1, <2>2 DEF Buffer
    <2> QED
      BY ZenonT(40), <1>1, <2>1, <2>3 DEF TypeOK
  <1>15. TypeOK'
    BY <1>1, <1>2, <1>9, <1>11, <1>12, <1>13, <1>14 DEF TypeOK
  <1>16. CacheIsClean' /\ CacheBounded'
    BY <1>1, <1>11, <1>12, <1>13, <1>14 DEF CacheIsClean, CacheBounded, Fetch, Distinct
  <1>17. ReadIsExact'
    BY <1>8 DEF ReadIsExact
  <1>18. ZeroPastEnd'
    <2> SUFFICES ASSUME NEW p \in Addr, p >= usedBytes, ~(op.pos <= p /\ p < P')
                 PROVE  ByteAt(p)' = 0
      BY <1>1, <1>8 DEF ZeroPastEnd
    <2>1. p \in Nat /\ P = op.pos + op.done /\ op.done \in Nat /\ op.pos \in Nat
      BY <1>3 DEF Addr, P
    <2>2. ~(P <= p /\ p < P + K) /\ ~(op.pos <= p /\ p < P)
      BY <1>2, <1>6, <2>1
    <2>3. ByteAt(p) = 0
      BY <2>2 DEF IInv, ZeroPastEnd
    <2> QED
      BY <1>1, <2>1, <2>2, <2>3, WriteContent
  <1> QED
    BY <1>15, <1>16, <1>17, <1>18 DEF IInv

-----------------------------------------------------------------------------
(* Safety.                                                                 *)

\* Each action of the file keeps the invariant.
LEMMA NextIInv == IInv /\ [Next]_vars => IInv'
  <1> SUFFICES ASSUME IInv, [Next]_vars PROVE IInv'
    OBVIOUS
  <1>1. ASSUME NEW pos \in Addr, NEW length \in 1..MaxLen, StartRead(pos, length)
        PROVE  IInv'
    BY <1>1, StartReadStep
  <1>2. ASSUME NEW pos \in Addr, NEW length \in 1..MaxLen, NEW src \in Buffer(length),
               pos + length <= MaxFile, StartWrite(pos, length, src)
        PROVE  IInv'
    BY <1>2, StartWriteStep
  <1>3. CASE ReadChunk
    BY <1>3, ReadChunkStep
  <1>4. CASE WriteChunk
    BY <1>4, WriteChunkStep
  <1>5. CASE FetchFails
    BY <1>5, FetchFailsStep
  <1>6. CASE Return
    BY <1>6, ReturnStep
  <1>7. ASSUME NEW sz \in 0..MaxFile, Shrink(sz)
        PROVE  IInv'
    BY <1>7, ShrinkStep
  <1>8. ASSUME NEW sz \in 0..MaxFile, Grow(sz) \/ Allocate(sz)
        PROVE  IInv'
    BY <1>8, GrowStep
  <1>9. CASE UNCHANGED vars
    BY <1>9 DEF vars, IInv, TypeOK, OpOK, P, CacheIsClean, Fetch, CacheBounded,
                ZeroPastEnd, ReadIsExact, ByteAt
  <1> QED
    BY <1>1, <1>2, <1>3, <1>4, <1>5, <1>6, <1>7, <1>8, <1>9 DEF Next

\* IInv holds in every reachable state of a lazily loaded file.
THEOREM Invariance == Spec => []IInv
  BY InitIInv, NextIInv, PTL DEF Spec

\* The variables of makeLazy keep their types: the loops of read and write never
\* run past their length and private copies are whole chunks.
THEOREM TypeCorrect == Spec => []TypeOK
  <1>1. IInv => TypeOK
    BY DEF IInv
  <1> QED
    BY <1>1, Invariance, PTL

\* Clean chunks always agree with the pack below packEnd (cache.clear in setattr,
\* cache.delete in write).
THEOREM CacheStaysClean == Spec => []CacheIsClean
  <1>1. IInv => CacheIsClean
    BY DEF IInv
  <1> QED
    BY <1>1, Invariance, PTL

\* The LRU never holds more than `keep' chunks.
THEOREM CacheStaysBounded == Spec => []CacheBounded
  <1>1. IInv => CacheBounded
    BY DEF IInv
  <1> QED
    BY <1>1, Invariance, PTL

\* Nothing but zeros is ever stored past the end of the file, failed writes and
\* truncates included.
THEOREM EndStaysZero == Spec => []ZeroPastEnd
  <1>1. IInv => ZeroPastEnd
    BY DEF IInv
  <1> QED
    BY <1>1, Invariance, PTL

\* A read returns the file's bytes.
THEOREM ReadsAreExact == Spec => []ReadIsExact
  <1>1. IInv => ReadIsExact
    BY DEF IInv
  <1> QED
    BY <1>1, Invariance, PTL

-----------------------------------------------------------------------------
(* Refinement of the flat file.                                            *)

\* A pack just opened is the flat file with the bytes of the pack.
LEMMA InitRefines == Init => F!Init
  <1> SUFFICES ASSUME Init PROVE F!Init
    OBVIOUS
  <1>1. usedBytes = Size /\ op = Idle /\ packEnd = Size /\ DOMAIN dirty = {}
    BY DEF Init
  <1>2. \A p \in Addr : ByteAt(p) = IF p < Size THEN Pack[p] ELSE 0
    BY <1>1 DEF ByteAt
  <1>3. Data = [p \in F!Addr |-> IF p < Size THEN Pack[p] ELSE 0]
    BY <1>2 DEF Data, Addr, F!Addr
  <1>4. op = F!Idle
    BY <1>1 DEF Idle, NoBytes, F!Idle, F!NoBytes
  <1> QED
    BY <1>1, <1>3, <1>4 DEF F!Init

\* A step that leaves the overlay alone leaves the flat file's bytes alone.
LEMMA SameData ==
    ASSUME UNCHANGED <<packEnd, dirty>>
    PROVE  Data' = Data
  BY DEF Data, ByteAt

\* Between calls both files are idle alike.
LEMMA IdleSame == Idle = F!Idle
  BY DEF Idle, NoBytes, F!Idle, F!NoBytes

\* Each action is one of the flat file, or leaves it as it is.
LEMMA NextRefines == IInv /\ [Next]_vars => [F!Next]_(F!vars)
  <1> SUFFICES ASSUME IInv, [Next]_vars PROVE [F!Next]_(F!vars)
    OBVIOUS
  <1>0. TypeOK /\ CacheIsClean /\ Addr = F!Addr /\ \A n : Buffer(n) = F!Buffer(n)
    BY DEF IInv, Addr, F!Addr, Buffer, F!Buffer
  <1>1. ASSUME NEW pos \in Addr, NEW length \in 1..MaxLen, StartRead(pos, length)
        PROVE  F!Next
    <2>1. Data' = Data
      BY <1>1, SameData DEF StartRead
    <2>2. F!StartRead(pos, length)
      BY <1>1, <2>1, IdleSame DEF StartRead, F!StartRead, Min2, NoBytes, F!NoBytes
    <2> QED
      BY <1>0, <2>2 DEF F!Next
  <1>2. ASSUME NEW pos \in Addr, NEW length \in 1..MaxLen, NEW src \in Buffer(length),
               pos + length <= MaxFile, StartWrite(pos, length, src)
        PROVE  F!Next
    <2>1. Data' = Data
      BY <1>2, SameData DEF StartWrite
    <2>2. F!StartWrite(pos, length, src)
      BY <1>2, <2>1, IdleSame DEF StartWrite, F!StartWrite
    <2> QED
      BY <1>0, <1>2, <2>2 DEF F!Next
  <1>3. CASE ReadChunk
    <2>1. op.done < op.n /\ op.kind = "read" /\ Data' = Data /\ usedBytes' = usedBytes
      BY <1>3, SameData DEF ReadChunk
    <2>2. /\ op.pos \in Nat /\ op.done \in Nat /\ op.n \in 0..MaxLen /\ MaxLen \in Nat
          /\ op.pos + op.n <= usedBytes /\ usedBytes \in 0..MaxFile /\ MaxFile \in Nat
      BY <1>0, <2>1, ConstantsAssumption DEF TypeOK, OpOK
    <2>3. K \in 1..(op.n - op.done)
      BY <1>0, <2>1, PieceInChunk
    <2>4. K \in 1..MaxLen /\ op.done + K <= op.n /\ op.done + K \in Nat
      BY <2>2, <2>3
    <2>5. ASSUME NEW i \in 0..(op.done + K - 1)
          PROVE  ReadBuffer[i] = IF i < op.done THEN op.buf[i] ELSE Data[op.pos + i]
      <3>1. CASE i < op.done
        BY <3>1 DEF ReadBuffer
      <3>2. CASE ~(i < op.done)
        <4>1. i \in op.done..(op.done + K - 1) /\ op.pos + i \in Addr
          BY <2>2, <2>3, <2>4, <3>2 DEF Addr
        <4>2. ByteOf(chunk(Ci), Off + (i - op.done)) = ByteAt(op.pos + i)
          BY <1>0, <2>1, <4>1, PieceContent
        <4>3. Data[op.pos + i] = ByteAt(op.pos + i)
          BY <4>1 DEF Data
        <4> QED
          BY <3>2, <4>2, <4>3 DEF ReadBuffer
      <3> QED
        BY <3>1, <3>2
    <2>6. ReadBuffer = [i \in 0..(op.done + K - 1) |->
                           IF i < op.done THEN op.buf[i] ELSE Data[op.pos + i]]
      BY <2>5 DEF ReadBuffer
    <2>7. op' = [kind |-> "read", pos |-> op.pos, n |-> op.n, done |-> op.done + K, buf |-> ReadBuffer]
      BY <1>3 DEF ReadChunk
    <2>8. F!ReadSome(K)
      BY <2>1, <2>4, <2>6, <2>7 DEF F!ReadSome
    <2> QED
      BY <2>4, <2>8 DEF F!Next
  <1>4. CASE WriteChunk
    <2>1. op.done < op.n /\ op.kind = "write" /\ usedBytes' = usedBytes
          /\ op' = [op EXCEPT !.done = op.done + K]
      BY <1>4 DEF WriteChunk
    <2>2. op.pos \in Nat /\ op.done \in Nat /\ op.n \in 0..MaxLen /\ MaxLen \in Nat
      BY <1>0, ConstantsAssumption DEF TypeOK, OpOK
    <2>3. K \in 1..(op.n - op.done)
      BY <1>0, <2>1, PieceInChunk
    <2>4. K \in 1..MaxLen /\ op.done + K <= op.n
      BY <2>2, <2>3
    <2>5. \A p \in Addr : ByteAt(p)' = IF P <= p /\ p < P + K THEN op.buf[p - op.pos] ELSE ByteAt(p)
      BY <1>0, <1>4, WriteContent DEF Addr
    <2>6. Data' = [p \in Addr |-> IF op.pos + op.done <= p /\ p < op.pos + op.done + K
                                  THEN op.buf[p - op.pos] ELSE Data[p]]
      BY <2>5 DEF Data, P
    <2>7. F!WriteSome(K)
      BY <1>0, <2>1, <2>4, <2>6 DEF F!WriteSome
    <2> QED
      BY <2>4, <2>7 DEF F!Next
  <1>5. CASE FetchFails
    <2>1. op.kind # "idle" /\ op.done < op.n /\ Miss(Ci) /\ op' = Idle /\ Data' = Data /\ usedBytes' = usedBytes
      BY <1>5, SameData DEF FetchFails
    <2>2. op.pos \in Nat /\ op.done \in Nat /\ packEnd \in Nat /\ usedBytes \in Nat
          /\ packEnd <= usedBytes
      BY <1>0, ConstantsAssumption DEF TypeOK, OpOK
    <2>3. op.done > 0 => op.pos + op.done <= usedBytes
      <3> SUFFICES ASSUME op.done > 0 PROVE op.pos + op.done <= usedBytes
        OBVIOUS
      <3>1. P % CHUNK = 0 /\ P \in Nat /\ P = op.pos + op.done
        BY <1>0, <2>1, <2>2 DEF TypeOK, OpOK, P
      <3>2. P = (Ci * CHUNK) + (P % CHUNK) /\ Ci \in Nat
        BY <3>1, DivMod DEF Ci
      <3>3. P = Ci * CHUNK
        BY <3>1, <3>2, ChunkStart
      <3>4. P < packEnd
        BY <2>1, <3>3 DEF Miss
      <3> QED
        BY <2>2, <3>1, <3>4
    <2>4. F!Fail
      BY <2>1, <2>3, IdleSame DEF F!Fail
    <2> QED
      BY <2>4 DEF F!Next
  <1>6. CASE Return
    <2>1. Data' = Data
      BY <1>6, SameData DEF Return
    <2>2. F!Return
      BY <1>6, <2>1, IdleSame DEF Return, F!Return
    <2> QED
      BY <2>2 DEF F!Next
  <1>7. ASSUME NEW sz \in 0..MaxFile, Shrink(sz)
        PROVE  F!Next
    <2>1. \A p \in Addr : ByteAt(p)' = IF p < sz THEN ByteAt(p) ELSE 0
      BY <1>0, <1>7, ShrinkContent DEF Addr
    <2>2. Data' = [p \in Addr |-> IF p < sz THEN Data[p] ELSE 0]
      BY <2>1 DEF Data
    <2>3. F!Truncate(sz)
      BY <1>0, <1>7, <2>2, IdleSame DEF Shrink, F!Truncate
    <2> QED
      BY <2>3 DEF F!Next
  <1>8. ASSUME NEW sz \in 0..MaxFile, Grow(sz)
        PROVE  F!Next
    <2>1. Data' = Data /\ op = Idle /\ usedBytes' = sz /\ sz >= usedBytes /\ op' = op
      BY <1>8, SameData DEF Grow
    <2>2. ASSUME NEW p \in Addr, ~(p < sz)
          PROVE  Data[p] = 0
      <3>1. p >= usedBytes
        BY <1>0, <2>1, <2>2, ConstantsAssumption DEF TypeOK, Addr
      <3> QED
        BY <2>1, <3>1 DEF IInv, ZeroPastEnd, Data, Idle
    <2>3. Data = [p \in Addr |-> IF p < sz THEN Data[p] ELSE 0]
      BY <2>2 DEF Data
    <2>4. F!Truncate(sz)
      BY <1>0, <2>1, <2>3, IdleSame DEF F!Truncate
    <2> QED
      BY <2>4 DEF F!Next
  <1>9. ASSUME NEW sz \in 0..MaxFile, Allocate(sz)
        PROVE  F!Next
    <2>1. Data' = Data
      BY <1>9, SameData DEF Allocate
    <2>2. F!Allocate(sz)
      BY <1>9, <2>1, IdleSame DEF Allocate, F!Allocate
    <2> QED
      BY <2>2 DEF F!Next
  <1>10. CASE UNCHANGED vars
    <2>1. Data' = Data
      BY <1>10, SameData DEF vars
    <2> QED
      BY <1>10, <2>1 DEF vars, F!vars
  <1> QED
    BY <1>1, <1>2, <1>3, <1>4, <1>5, <1>6, <1>7, <1>8, <1>9, <1>10 DEF Next

\* The chunked, cached, copy-on-write file of makeLazy implements the flat file
\* for every chunk size, pack, cache size and sequence of calls.
THEOREM Refinement == Spec => RefinesPackFile
  <1>1. Init => F!Init
    BY InitRefines
  <1>2. IInv /\ [Next]_vars => [F!Next]_(F!vars)
    BY NextRefines
  <1> QED
    BY <1>1, <1>2, Invariance, PTL DEF Spec, RefinesPackFile, F!Spec
=============================================================================
