------------------------------ MODULE LazyPack ------------------------------
(***************************************************************************)
(* lazypack.js, makeLazy: a MEMFS node turned into a window of the guest   *)
(* pack.  Reads fetch CHUNK bytes at a time with a synchronous Range       *)
(* request and keep at most `keep' clean chunks, least recently used       *)
(* first; writes go to private copies of the touched chunks.               *)
(*                                                                         *)
(* QEMU's file calls are proxied to the page's main thread, one at a time. *)
(* A call is a start, one step per chunk of its loop, and a return: a      *)
(* fetch may throw at any chunk and leave the earlier ones in effect.      *)
(***************************************************************************)
EXTENDS Integers, Sequences

CONSTANTS
    CHUNK,    \* on-demand read granularity
    Size,     \* length of the file inside the pack
    Byte,     \* the byte values told apart; 0 is one of them
    Pack,     \* the bytes of the file inside the pack
    keep,     \* most clean chunks kept in memory
    MaxFile,  \* bound: the file never grows past this many bytes
    MaxLen    \* bound: the longest read or write

ASSUME ConstantsAssumption ==
    /\ CHUNK \in Nat \ {0}
    /\ Size \in Nat
    /\ MaxFile \in Nat
    /\ Size <= MaxFile
    /\ MaxLen \in Nat
    /\ keep \in Nat \ {0}
    /\ 0 \in Byte
    /\ Pack \in [0..(Size - 1) -> Byte]

VARIABLES
    usedBytes,  \* node.usedBytes: the length of the file
    packEnd,    \* bytes still backed by the pack
    lru,        \* the keys of the Map `cache', in insertion order
    cache,      \* chunk index -> clean bytes
    dirty,      \* chunk index -> privately written bytes (never evicted)
    op          \* the read or write in progress

vars == <<usedBytes, packEnd, lru, cache, dirty, op>>

NoBytes == [i \in {} |-> 0]
Idle == [kind |-> "idle", pos |-> 0, n |-> 0, done |-> 0, buf |-> NoBytes]
Buffer(n) == [0..(n - 1) -> Byte]
Addr == 0..(MaxFile - 1)

Min2(a, b) == IF a <= b THEN a ELSE b
Keys(s) == {s[i] : i \in DOMAIN s}
\* Map.delete: the key leaves its place, the others keep their order.
Without(s, x) ==
    IF x \notin Keys(s) THEN s
    ELSE LET i == CHOOSE j \in DOMAIN s : s[j] = x
         IN  [k \in 1..(Len(s) - 1) |-> IF k < i THEN s[k] ELSE s[k + 1]]

-----------------------------------------------------------------------------
(* chunk(ci): the bytes of a chunk, and what looking it up does to the     *)
(* cache.                                                                  *)

\* Mutant: the fetch ignores packEnd and reads the pack's whole chunk.
FetchPastTruncate(ci) ==
    LET s == ci * CHUNK
        e == Min2(Size, s + CHUNK)
    IN  [o \in 0..(e - s - 1) |-> Pack[s + o]]

\* syncRange(url, base + s, base + e): the clean bytes, short at packEnd.
Fetch(ci) ==
    LET s == ci * CHUNK
        e == Min2(packEnd, s + CHUNK)
    IN  [o \in 0..(e - s - 1) |-> Pack[s + o]]

\* The chunk is in neither map and the pack still backs it.
Miss(ci) ==
    /\ ci \notin DOMAIN dirty
    /\ ci \notin DOMAIN cache
    /\ ci * CHUNK < packEnd

chunk(ci) ==
    IF ci \in DOMAIN dirty THEN dirty[ci]
    ELSE IF ci \in DOMAIN cache THEN cache[ci]
    ELSE IF Miss(ci) THEN Fetch(ci)
    ELSE [o \in 0..(CHUNK - 1) |-> 0]

\* The cache's keys after chunk(ci): a hit moves to the young end, a fetched
\* chunk is added there and the oldest one leaves when there are too many.
LruAfter(ci) ==
    IF ci \in DOMAIN dirty THEN lru
    ELSE IF ci \in DOMAIN cache THEN Append(Without(lru, ci), ci)
    ELSE IF ~Miss(ci) THEN lru
    ELSE IF Len(lru) < keep THEN Append(lru, ci)
    ELSE Tail(Append(lru, ci))

\* The cache with exactly these keys; a key it did not have was fetched.
CacheWith(keys) ==
    [ci \in Keys(keys) |-> IF ci \in DOMAIN cache THEN cache[ci] ELSE Fetch(ci)]

\* A byte of a chunk; bytes past a short chunk read as zeros.
ByteOf(c, o) == IF o \in DOMAIN c THEN c[o] ELSE 0

-----------------------------------------------------------------------------
(* The piece of the operation the loop of read or write is at.             *)

P == op.pos + op.done
Ci == P \div CHUNK
Off == P - Ci * CHUNK
K == Min2(op.n - op.done, CHUNK - Off)

Init ==
    /\ usedBytes = Size
    /\ packEnd = Size
    /\ lru = <<>>
    /\ cache = [ci \in {} |-> NoBytes]
    /\ dirty = [ci \in {} |-> NoBytes]
    /\ op = Idle

\* read: nothing is read at or past the end of the file.
StartRead(pos, length) ==
    /\ op = Idle
    /\ pos < usedBytes
    /\ op' = [kind |-> "read", pos |-> pos, n |-> Min2(length, usedBytes - pos),
              done |-> 0, buf |-> NoBytes]
    /\ UNCHANGED <<usedBytes, packEnd, lru, cache, dirty>>

\* The reader's buffer with this chunk's piece of it filled in.
ReadBuffer ==
    [i \in 0..(op.done + K - 1) |->
        IF i < op.done THEN op.buf[i] ELSE ByteOf(chunk(Ci), Off + (i - op.done))]

ReadChunk ==
    /\ op.kind = "read"
    /\ op.done < op.n
    /\ op' = [kind |-> "read", pos |-> op.pos, n |-> op.n,
              done |-> op.done + K, buf |-> ReadBuffer]
    /\ lru' = LruAfter(Ci)
    /\ cache' = CacheWith(LruAfter(Ci))
    /\ UNCHANGED <<usedBytes, packEnd, dirty>>

StartWrite(pos, length, src) ==
    /\ op = Idle
    /\ op' = [kind |-> "write", pos |-> pos, n |-> length, done |-> 0, buf |-> src]
    /\ UNCHANGED <<usedBytes, packEnd, lru, cache, dirty>>

\* The keys after a write to the chunk: its clean copy is dropped.
LruAfterWrite(ci) ==
    IF ci \in DOMAIN dirty THEN lru ELSE Without(LruAfter(ci), ci)

\* The first write to a chunk copies it whole; the piece is stored in the copy.
WriteChunk ==
    /\ op.kind = "write"
    /\ op.done < op.n
    /\ dirty' = [ci \in DOMAIN dirty \cup {Ci} |->
                    IF ci # Ci THEN dirty[ci]
                    ELSE [o \in 0..(CHUNK - 1) |->
                             IF Off <= o /\ o < Off + K THEN op.buf[op.done + (o - Off)]
                             ELSE ByteOf(chunk(Ci), o)]]
    /\ lru' = LruAfterWrite(Ci)
    /\ cache' = CacheWith(LruAfterWrite(Ci))
    /\ op' = [op EXCEPT !.done = op.done + K]
    /\ UNCHANGED <<usedBytes, packEnd>>

\* syncRange throws inside chunk(ci): the call ends with what it has done so
\* far, usedBytes not yet updated.
FetchFails ==
    /\ op.kind # "idle"
    /\ op.done < op.n
    /\ Miss(Ci)
    /\ op' = Idle
    /\ UNCHANGED <<usedBytes, packEnd, lru, cache, dirty>>

\* Mutant: a write past the end does not grow the file.
ReturnNoGrow ==
    /\ op.kind # "idle"
    /\ op.done = op.n
    /\ op' = Idle
    /\ UNCHANGED <<usedBytes, packEnd, lru, cache, dirty>>

Return ==
    /\ op.kind # "idle"
    /\ op.done = op.n
    /\ usedBytes' = IF op.kind = "write" /\ op.pos + op.n > usedBytes
                    THEN op.pos + op.n ELSE usedBytes
    /\ op' = Idle
    /\ UNCHANGED <<packEnd, lru, cache, dirty>>

\* fallocate: just extend the logical size.
Allocate(end) ==
    /\ op = Idle
    /\ end > usedBytes
    /\ usedBytes' = end
    /\ UNCHANGED <<packEnd, lru, cache, dirty, op>>

\* Mutant: the private copy sz falls in keeps its old bytes.
DirtyTailKept(sz) == [ci \in {c \in DOMAIN dirty : c * CHUNK < sz} |-> dirty[ci]]

\* The private copies kept by a truncate to sz; the one sz falls in is zeroed
\* from there on.
DirtyBelow(sz) ==
    [ci \in {c \in DOMAIN dirty : c * CHUNK < sz} |->
        IF ci = sz \div CHUNK
        THEN [o \in 0..(CHUNK - 1) |-> IF o < sz % CHUNK THEN dirty[ci][o] ELSE 0]
        ELSE dirty[ci]]

\* node_ops.setattr with a size smaller than the file.
Shrink(sz) ==
    /\ op = Idle
    /\ sz < usedBytes
    /\ packEnd' = Min2(packEnd, sz)
    /\ lru' = IF sz < packEnd THEN <<>> ELSE lru
    /\ cache' = IF sz < packEnd THEN [ci \in {} |-> NoBytes] ELSE cache
    /\ dirty' = DirtyBelow(sz)
    /\ usedBytes' = sz
    /\ UNCHANGED op

\* node_ops.setattr with a size at least the file's.
Grow(sz) ==
    /\ op = Idle
    /\ sz >= usedBytes
    /\ usedBytes' = sz
    /\ UNCHANGED <<packEnd, lru, cache, dirty, op>>

Next ==
    \/ \E pos \in Addr, length \in 1..MaxLen : StartRead(pos, length)
    \/ \E pos \in Addr, length \in 1..MaxLen : \E src \in Buffer(length) :
           pos + length <= MaxFile /\ StartWrite(pos, length, src)
    \/ ReadChunk
    \/ WriteChunk
    \/ FetchFails
    \/ Return
    \/ \E sz \in 0..MaxFile : Shrink(sz) \/ Grow(sz) \/ Allocate(sz)

Spec == Init /\ [][Next]_vars

-----------------------------------------------------------------------------
(* Properties.                                                             *)

\* A read's buffer holds what has been read, a write's the whole of its bytes;
\* a read stays inside the file and a write inside the bound; between two
\* pieces the loop stands at the start of a chunk.
OpOK ==
    /\ op \in [kind : {"idle", "read", "write"}, pos : Nat, n : 0..MaxLen,
               done : 0..MaxLen, buf : UNION {Buffer(m) : m \in 0..MaxLen}]
    /\ op.done <= op.n
    /\ 0 < op.done /\ op.done < op.n => P % CHUNK = 0
    /\ op.kind = "idle" => op = Idle
    /\ op.kind = "read" => op.buf \in Buffer(op.done) /\ op.pos + op.n <= usedBytes
    /\ op.kind = "write" => op.buf \in Buffer(op.n) /\ op.pos + op.n <= MaxFile

\* The types: the loops of read and write (lines 104, 120) never run past their
\* length, private copies are whole chunks, the pack backs no byte past the end.
TypeOK ==
    /\ usedBytes \in 0..MaxFile
    /\ packEnd \in 0..Size
    /\ packEnd <= usedBytes
    /\ lru \in Seq(Nat)
    /\ DOMAIN cache \subseteq Nat
    /\ DOMAIN dirty \subseteq Nat
    /\ \A ci \in DOMAIN dirty : dirty[ci] \in Buffer(CHUNK)
    /\ OpOK

\* The byte at p, read through the overlay and not through the cache.
ByteAt(p) ==
    IF p \div CHUNK \in DOMAIN dirty THEN dirty[p \div CHUNK][p % CHUNK]
    ELSE IF p < packEnd THEN Pack[p] ELSE 0

Data == [p \in Addr |-> ByteAt(p)]

F == INSTANCE PackFile WITH data <- Data, size <- usedBytes

\* The chunked, cached, copy-on-write file implements the flat file: every
\* read, write, truncate and fallocate of makeLazy has the effect and the
\* result it would have on one array of bytes, failed fetches included.
RefinesPackFile == F!Spec

\* A clean chunk in the cache (line 88) is what the pack holds below packEnd,
\* whatever truncates came after it was fetched, and is never kept next to a
\* private copy of the same chunk (line 126).
CacheIsClean ==
    \A ci \in DOMAIN cache :
        /\ ci \notin DOMAIN dirty
        /\ ci * CHUNK < packEnd
        /\ cache[ci] = Fetch(ci)

\* At most `keep' clean chunks are in memory, each listed once (line 89).
CacheBounded ==
    /\ Len(lru) <= keep
    /\ Keys(lru) = DOMAIN cache
    /\ \A i, j \in DOMAIN lru : lru[i] = lru[j] => i = j

\* Every byte at or past the end of the file is zero, so that a later truncate
\* up, fallocate or write beyond the end exposes zeros and never old data
\* (lines 147-150), even after a write that failed half-way.
ZeroPastEnd ==
    \A p \in Addr :
        p >= usedBytes /\ ~(op.kind = "write" /\ op.pos <= p /\ p < P) => ByteAt(p) = 0

\* What a read has put in QEMU's buffer so far is the file's content at these
\* offsets, whichever mix of private, cached, fetched and zero chunks it came
\* from (lines 104-111).
ReadIsExact ==
    op.kind = "read" => \A i \in 0..(op.done - 1) : op.buf[i] = ByteAt(op.pos + i)
=============================================================================
