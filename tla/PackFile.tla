------------------------------ MODULE PackFile ------------------------------
(***************************************************************************)
(* What a file of a lazily loaded guest pack promises to QEMU: it behaves  *)
(* like one flat array of bytes with a size.  There are no chunks, no      *)
(* cache and no private copies here; LazyPack is shown to implement this   *)
(* specification.                                                          *)
(*                                                                         *)
(* A read or a write moves its bytes in pieces of any length, because it   *)
(* may fail between two of them (the pack could not be fetched).           *)
(***************************************************************************)
EXTENDS Integers

CONSTANTS
    Size,     \* length of the file inside the pack
    Byte,     \* the byte values told apart; 0 is one of them
    Pack,     \* the bytes of the file inside the pack, [0..Size-1 -> Byte]
    MaxFile,  \* bound: the file never grows past this many bytes
    MaxLen    \* bound: the longest read or write

VARIABLES
    data,     \* every byte, those past the end of the file included
    size,     \* length of the file
    op        \* the read or write in progress

vars == <<data, size, op>>

Addr == 0..(MaxFile - 1)
NoBytes == [i \in {} |-> 0]
Idle == [kind |-> "idle", pos |-> 0, n |-> 0, done |-> 0, buf |-> NoBytes]

\* Buffers of exactly n bytes.
Buffer(n) == [0..(n - 1) -> Byte]

Init ==
    /\ data = [p \in Addr |-> IF p < Size THEN Pack[p] ELSE 0]
    /\ size = Size
    /\ op = Idle

\* A read is cut at the end of the file.
StartRead(pos, length) ==
    /\ op = Idle
    /\ pos < size
    /\ LET n == IF length <= size - pos THEN length ELSE size - pos
       IN  op' = [kind |-> "read", pos |-> pos, n |-> n, done |-> 0, buf |-> NoBytes]
    /\ UNCHANGED <<data, size>>

StartWrite(pos, length, src) ==
    /\ op = Idle
    /\ op' = [kind |-> "write", pos |-> pos, n |-> length, done |-> 0, buf |-> src]
    /\ UNCHANGED <<data, size>>

\* The next k bytes of the file reach the reader's buffer.
ReadSome(k) ==
    /\ op.kind = "read"
    /\ op.done + k <= op.n
    /\ op' = [kind |-> "read", pos |-> op.pos, n |-> op.n, done |-> op.done + k,
              buf |-> [i \in 0..(op.done + k - 1) |->
                          IF i < op.done THEN op.buf[i] ELSE data[op.pos + i]]]
    /\ UNCHANGED <<data, size>>

\* The next k bytes of the writer's buffer reach the file.
WriteSome(k) ==
    /\ op.kind = "write"
    /\ op.done + k <= op.n
    /\ data' = [p \in Addr |->
                    IF op.pos + op.done <= p /\ p < op.pos + op.done + k
                    THEN op.buf[p - op.pos] ELSE data[p]]
    /\ op' = [op EXCEPT !.done = op.done + k]
    /\ UNCHANGED size

\* The operation returns; a write that went past the end has grown the file.
Return ==
    /\ op.kind # "idle"
    /\ op.done = op.n
    /\ size' = IF op.kind = "write" /\ op.pos + op.n > size THEN op.pos + op.n ELSE size
    /\ op' = Idle
    /\ UNCHANGED data

\* The operation fails after some of its pieces.  The size stays, and no byte
\* past the end of the file has been stored.
Fail ==
    /\ op.kind # "idle"
    /\ op.kind = "write" /\ op.done > 0 => op.pos + op.done <= size
    /\ op' = Idle
    /\ UNCHANGED <<data, size>>

\* ftruncate: what is cut off reads as zeros if the file grows again.
Truncate(sz) ==
    /\ op = Idle
    /\ data' = [p \in Addr |-> IF p < sz THEN data[p] ELSE 0]
    /\ size' = sz
    /\ UNCHANGED op

\* fallocate only ever extends the file.
Allocate(end) ==
    /\ op = Idle
    /\ end > size
    /\ size' = end
    /\ UNCHANGED <<data, op>>

Next ==
    \/ \E pos \in Addr, length \in 1..MaxLen : StartRead(pos, length)
    \/ \E pos \in Addr, length \in 1..MaxLen : \E src \in Buffer(length) :
           pos + length <= MaxFile /\ StartWrite(pos, length, src)
    \/ \E k \in 1..MaxLen : ReadSome(k) \/ WriteSome(k)
    \/ Return
    \/ Fail
    \/ \E sz \in 0..MaxFile : Truncate(sz) \/ Allocate(sz)

Spec == Init /\ [][Next]_vars
=============================================================================
