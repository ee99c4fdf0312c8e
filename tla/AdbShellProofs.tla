--------------------------- MODULE AdbShellProofs ---------------------------
(***************************************************************************)
(* The adb session, for input, output and resizes of any length and number *)
(* and any limit on a WRTE: input and output are exact, one WRTE is         *)
(* unacknowledged, the pty gets the window's size, and the exit is told     *)
(* once.                                                                    *)
(***************************************************************************)
EXTENDS AdbShell, TLAPS

\* What a queue holds of a command: at most one message, or none.
AtMostOne(q, c) == \A i, j \in 1..Len(q) : q[i].cmd = c /\ q[j].cmd = c => i = j
Absent(q, c) == \A i \in 1..Len(q) : q[i].cmd # c

\* The client's WRTE, or its OKAY, is under way when `writing' is set; once the
\* shell is gone it may have been dropped.
Acks(rdy, w, td, th) ==
    /\ rdy => /\ AtMostOne(td, "WRTE") /\ AtMostOne(th, "OKAY")
              /\ Absent(td, "WRTE") \/ Absent(th, "OKAY")
              /\ ~w => Absent(td, "WRTE") /\ Absent(th, "OKAY")
              /\ w /\ dev.phase = "shell" => ~Absent(td, "WRTE") \/ ~Absent(th, "OKAY")
    /\ ~rdy => ~w /\ Absent(td, "WRTE")

\* The device's WRTE, or its OKAY.
DevAcks(busy, td, th) ==
    /\ AtMostOne(th, "WRTE") /\ AtMostOne(td, "OKAY")
    /\ Absent(th, "WRTE") \/ Absent(td, "OKAY")
    /\ ~busy => Absent(th, "WRTE") /\ Absent(td, "OKAY")

\* The device before it opened a shell.
Fresh == dev.phase = "listen" /\ dev.out = <<>> /\ dev.made = 0 /\ ~dev.busy /\ dev.got = <<>>

\* The handshake, step by step.
Greeting ==
    /\ v2buf = <<>> /\ told = <<>> /\ ~closed
    /\ \/ Len(toDev) = 1 /\ toDev[1].cmd = "CNXN" /\ toHost = <<>> /\ Fresh
       \/ /\ toDev = <<>> /\ Len(toHost) = 1 /\ toHost[1].cmd \in {"CNXN", "AUTH"} /\ Fresh
          /\ toHost[1].cmd = "CNXN" => toHost[1].v2 = dev.v2
       \/ Len(toDev) = 1 /\ toDev[1].cmd = "OPEN" /\ toHost = <<>> /\ Fresh /\ v2 = dev.v2
       \/ /\ toDev = <<>> /\ Len(toHost) = 1 /\ toHost[1].cmd = "CLSE"
          /\ dev.phase = "gone" /\ dev.out = <<>>
       \/ /\ toDev = <<>> /\ Len(toHost) >= 1 /\ toHost[1].cmd = "OKAY"
          /\ \A i \in 2..Len(toHost) : toHost[i].cmd \in {"WRTE", "CLSE"}
          /\ dev.phase # "listen" /\ v2 = dev.v2

\* The open stream.
Streaming ==
    /\ v2 = dev.v2 /\ dev.phase # "listen"
    /\ \A i \in 1..Len(toDev) : toDev[i].cmd \in {"WRTE", "OKAY"}
    /\ \A i \in 1..Len(toHost) : toHost[i].cmd \in {"OKAY", "WRTE", "CLSE"}

\* The shell's output, cell by cell: after the packets made comes the exit.
Num(k) == IF k <= dev.made THEN k ELSE 0
Cell(i) ==
    IF ~dev.v2 THEN <<"body", Num(i)>>
    ELSE IF i % 2 = 1 THEN <<"head", Num((i + 1) \div 2)>> ELSE <<"body", Num(i \div 2)>>
Piece(s, at) == \A i \in 1..Len(s) : s[i] = Cell(at + i)

\* Cells of the packets told so far.
Done == IF dev.v2 THEN 2 * Len(told) ELSE Len(told)

\* With `air' in the device's WRTE: what is told, left over, under way and still
\* to be sent is the shell's output in order, to its last cell.
Flow(air) ==
    /\ \A k \in 1..Len(told) : told[k] = Num(k)
    /\ Piece(v2buf, Done)
    /\ Piece(air, Done + Len(v2buf))
    /\ Piece(dev.out, Done + Len(v2buf) + Len(air))
    /\ LET all == Done + Len(v2buf) + Len(air) + Len(dev.out)
       IN  IF dev.v2 THEN \/ all = 2 * dev.made
                          \/ all = 2 * dev.made + 2 /\ dev.phase \in {"exited", "gone"}
           ELSE all = dev.made
    /\ Len(v2buf) <= 1 /\ (~dev.v2 => v2buf = <<>>)
    /\ closed <=> Len(told) = dev.made + 1

\* What the device's WRTE in a queue holds, nothing if there is none.
InAir(air, th) ==
    /\ \A i \in 1..Len(th) : th[i].cmd = "WRTE" => th[i].data = air
    /\ Absent(th, "WRTE") => air = <<>>
Airs(th) == {<<>>} \cup {th[i].data : i \in {k \in 1..Len(th) : th[k].cmd = "WRTE"}}

Output == \E air \in Airs(toHost) : InAir(air, toHost) /\ Flow(air)

\* No resize is lost: it is pending, in a WRTE under way, or has arrived.
IsWin(m) == m.cmd = "WRTE" /\ m.win
Window(pending, sz, td) ==
    v2 /\ dev.phase = "shell" =>
        \/ pending
        \/ /\ \A i \in 1..Len(td) : IsWin(td[i]) => td[i].size = sz
           /\ (\A i \in 1..Len(td) : ~IsWin(td[i])) => dev.size = sz

\* InputExact of a queue of strings and a queue of messages.
First(q, n) == IF q = <<>> THEN n ELSE q[1].from
Chain(q, n) == \A i \in 1..Len(q) : q[i].to = IF i = Len(q) THEN n ELSE q[i + 1].from
Input(q, n, td) ==
    /\ dev.got = [i \in 1..Len(dev.got) |-> i]
    /\ \A i \in 1..Len(td) :
          IsInput(td[i]) => td[i].from = Len(dev.got) /\ td[i].to = First(q, n)
    /\ (\A i \in 1..Len(td) : ~IsInput(td[i])) => Len(dev.got) = First(q, n)
    /\ Chain(q, n)

\* What is told, whatever the state of the connection; and a pump has been at
\* work since anything was queued.
Told == \A i \in 1..Len(told) : told[i] = i \/ (told[i] = 0 /\ i = Len(told) /\ closed)
Settled == ready /\ ~writing => ~(resizePending /\ v2)

Connecting ==
    /\ toDev = <<>> /\ toHost = <<>> /\ v2buf = <<>> /\ told = <<>>
    /\ ~ready /\ ~writing /\ ~closed /\ Fresh
    /\ Input(outq, typed, toDev)

Open ==
    /\ IF ready THEN Streaming ELSE Greeting
    /\ Acks(ready, writing, toDev, toHost)
    /\ DevAcks(dev.busy, toDev, toHost)
    /\ Output
    /\ ready /\ ~closed => Window(resizePending, size, toDev)
    /\ dev.phase \in {"listen", "shell"} => Input(outq, typed, toDev)

\* The inductive invariant.
IInv ==
    /\ Typed /\ Told /\ Settled
    /\ ws = "connecting" => Connecting
    /\ ws = "open" => Open

-----------------------------------------------------------------------------
(* Queues.                                                                 *)

\* The provers a leaf is tried with, one after the other, and for how long.
USE SMTT(40), Z3T(40), ZenonT(40)

\* A message at the end of a queue.
LEMMA Appended ==
    ASSUME NEW S, NEW q \in Seq(S), NEW m \in S
    PROVE  /\ Append(q, m) \in Seq(S) /\ Len(Append(q, m)) = Len(q) + 1 /\ Len(q) \in Nat
           /\ \A i \in 1..Len(q) : Append(q, m)[i] = q[i]
           /\ Append(q, m)[Len(q) + 1] = m
OBVIOUS

\* The queue without its first message.
LEMMA Tailed ==
    ASSUME NEW S, NEW q \in Seq(S), q # <<>>
    PROVE  /\ Tail(q) \in Seq(S) /\ Len(q) \in Nat \ {0} /\ Len(Tail(q)) = Len(q) - 1
           /\ \A i \in 1..(Len(q) - 1) : Tail(q)[i] = q[i + 1]
           /\ Head(q) = q[1] /\ Head(q) \in S
OBVIOUS

\* A message of another command, and of a command there was none of.
LEMMA AppendCount ==
    ASSUME NEW S, NEW q \in Seq(S), NEW m \in S, NEW c
    PROVE  /\ AtMostOne(q, c) /\ (m.cmd # c \/ Absent(q, c)) => AtMostOne(Append(q, m), c)
           /\ Absent(q, c) /\ m.cmd # c => Absent(Append(q, m), c)
           /\ ~Absent(q, c) \/ m.cmd = c => ~Absent(Append(q, m), c)
<1>1. DEFINE r == Append(q, m)
<1>2. /\ Len(r) = Len(q) + 1 /\ Len(q) \in Nat /\ r[Len(q) + 1] = m
      /\ \A i \in 1..Len(q) : r[i] = q[i]
  BY Appended
<1>3. \A i \in 1..Len(r) : i \in 1..Len(q) \/ i = Len(q) + 1
  BY <1>2
<1>4. 1..Len(q) \subseteq 1..Len(r) /\ Len(q) + 1 \in 1..Len(r)
  BY <1>2
<1> HIDE DEF r
<1>5. AtMostOne(q, c) /\ (m.cmd # c \/ Absent(q, c)) => AtMostOne(r, c)
  BY <1>2, <1>3 DEF AtMostOne, Absent
<1>6. Absent(q, c) /\ m.cmd # c => Absent(r, c)
  BY <1>2, <1>3 DEF Absent
<1>7. ~Absent(q, c) \/ m.cmd = c => ~Absent(r, c)
  BY <1>2, <1>4 DEF Absent
<1> QED
  BY <1>5, <1>6, <1>7 DEF r

\* The first message taken off, of that command or another.
LEMMA TailCount ==
    ASSUME NEW S, NEW q \in Seq(S), q # <<>>, NEW c
    PROVE  /\ AtMostOne(q, c) => AtMostOne(Tail(q), c)
           /\ Absent(q, c) => Absent(Tail(q), c)
           /\ AtMostOne(q, c) /\ Head(q).cmd = c => Absent(Tail(q), c)
           /\ ~Absent(q, c) /\ Head(q).cmd # c => ~Absent(Tail(q), c)
<1>1. DEFINE r == Tail(q)
<1>2. /\ Len(q) \in Nat \ {0} /\ Len(r) = Len(q) - 1 /\ Head(q) = q[1]
      /\ \A i \in 1..Len(r) : r[i] = q[i + 1]
  BY Tailed
<1>3. /\ \A i \in 1..Len(r) : i + 1 \in 1..Len(q) /\ i + 1 # 1
      /\ \A i, j \in 1..Len(r) : i + 1 = j + 1 => i = j
      /\ 1 \in 1..Len(q)
  BY <1>2
<1>4. \A i \in 1..Len(q) : i = 1 \/ \E j \in 1..Len(r) : i = j + 1
  <2> SUFFICES ASSUME NEW i \in 1..Len(q), i # 1
               PROVE  \E j \in 1..Len(r) : i = j + 1
    OBVIOUS
  <2>1. i - 1 \in 1..Len(r) /\ i = (i - 1) + 1
    BY <1>2
  <2> QED
    BY <2>1
<1> HIDE DEF r
<1>5. AtMostOne(q, c) => AtMostOne(r, c)
  BY <1>2, <1>3 DEF AtMostOne
<1>6. Absent(q, c) => Absent(r, c)
  BY <1>2, <1>3 DEF Absent
<1>7. AtMostOne(q, c) /\ Head(q).cmd = c => Absent(r, c)
  BY <1>2, <1>3 DEF AtMostOne, Absent
<1>8. ~Absent(q, c) /\ Head(q).cmd # c => ~Absent(r, c)
  BY ZenonT(40), <1>2, <1>4 DEF Absent
<1> QED
  BY <1>5, <1>6, <1>7, <1>8 DEF r

\* The empty queue.
LEMMA EmptyCount == \A c : AtMostOne(<<>>, c) /\ Absent(<<>>, c)
BY DEF AtMostOne, Absent

\* A string of at least one byte.
LEMMA StringType ==
    ASSUME NEW x \in 0..MaxTyped, NEW y \in 0..MaxTyped, x < y
    PROVE  String(x, y) \in Strings /\ String(x, y).from = x /\ String(x, y).to = y
BY DEF Strings, String

\* The queue of input: what pump takes is where the queue begins, and what is
\* left begins where that ends.
LEMMA Cut ==
    ASSUME NEW q \in Seq(Strings), q # <<>>, NEW n \in Nat, Chain(q, n)
    PROVE  /\ Chunk(q) \in Strings /\ Rest(q) \in Seq(Strings)
           /\ Chunk(q).from = First(q, n) /\ Chunk(q).to = First(Rest(q), n)
           /\ Chain(Rest(q), n)
<1>1. /\ Tail(q) \in Seq(Strings) /\ Len(q) \in Nat \ {0} /\ Len(Tail(q)) = Len(q) - 1
      /\ \A i \in 1..(Len(q) - 1) : Tail(q)[i] = q[i + 1]
      /\ Head(q) = q[1] /\ Head(q) \in Strings
  BY Tailed
<1>2. PICK a, b \in 0..MaxTyped : q[1].from = a /\ q[1].to = b /\ a < b
  BY <1>1 DEF Strings
<1>3. MaxChunk \in Nat \ {0} /\ MaxTyped \in Nat
  BY AdbShellAssumption
<1>4. Chunk(q).from = First(q, n)
  BY <1>1, <1>2 DEF Chunk, First, String
<1>5. CASE Long(q[1])
  <2>1. b - a > MaxChunk
    BY <1>2, <1>5 DEF Long
  <2>a. a + MaxChunk \in 0..MaxTyped /\ a + MaxChunk < b /\ a < a + MaxChunk
    BY <1>2, <1>3, <2>1
  <2>2. PICK s \in Strings : s = String(a + MaxChunk, b)
    BY <1>2, <2>a, StringType
  <2>3. s.from = a + MaxChunk /\ s.to = b
    BY <2>2 DEF String
  <2>4. Chunk(q) = String(a, a + MaxChunk) /\ Rest(q) = <<s>> \o Tail(q)
    BY <1>1, <1>2, <1>5, <2>2 DEF Chunk, Rest
  <2>5. Chunk(q) \in Strings /\ Chunk(q).to = a + MaxChunk
    BY <1>2, <2>a, <2>4, StringType
  <2>6. PICK r \in Seq(Strings) : r = Rest(q)
    BY <1>1, <2>4
  <2>7. /\ Len(r) = Len(q) /\ r[1] = s
        /\ \A i \in 2..Len(q) : r[i] = q[i]
    BY <1>1, <2>4, <2>6
  <2>8. First(r, n) = a + MaxChunk
    BY <1>1, <2>3, <2>7 DEF First
  <2>9. Chain(r, n)
    <3> SUFFICES ASSUME NEW i \in 1..Len(q)
                 PROVE  r[i].to = IF i = Len(q) THEN n ELSE r[i + 1].from
      BY <2>7 DEF Chain
    <3>1. r[i].to = q[i].to
      BY <1>1, <1>2, <2>3, <2>7
    <3>a. i # Len(q) => i + 1 \in 2..Len(q)
      <4>1. Len(q) \in Int /\ i \in Int /\ 1 <= i /\ i <= Len(q)
        BY <1>1
      <4> QED
        BY <4>1
    <3>2. i # Len(q) => r[i + 1] = q[i + 1]
      BY <2>7, <3>a
    <3> QED
      BY <3>1, <3>2 DEF Chain
  <2> QED
    BY <1>4, <2>5, <2>6, <2>8, <2>9
<1>6. CASE ~Long(q[1])
  <2>1. Chunk(q) = q[1] /\ Rest(q) = Tail(q)
    BY <1>1, <1>6 DEF Chunk, Rest
  <2>2. PICK r \in Seq(Strings) : r = Tail(q)
    BY ZenonT(40), <1>1
  <2>3. Len(r) = Len(q) - 1 /\ \A i \in 1..Len(r) : r[i] = q[i + 1]
    BY <1>1, <2>2
  <2>4. q[1].to = First(r, n)
    <3>1. CASE Len(q) = 1
      BY <1>1, <2>3, <3>1 DEF Chain, First
    <3>2. CASE Len(q) # 1
      <4>1. 1 \in 1..Len(q) /\ 1 \in 1..Len(r) /\ r # <<>> /\ r[1] = q[1 + 1]
        BY <1>1, <2>3, <3>2
      <4> QED
        BY ZenonT(40), <3>2, <4>1 DEF Chain, First
    <3> QED
      BY <3>1, <3>2
  <2>5. Chain(r, n)
    <3> SUFFICES ASSUME NEW i \in 1..Len(r)
                 PROVE  r[i].to = IF i = Len(r) THEN n ELSE r[i + 1].from
      BY DEF Chain
    <3>1. i + 1 \in 1..Len(q) /\ (i = Len(r) <=> i + 1 = Len(q)) /\ r[i] = q[i + 1]
      BY <1>1, <2>3
    <3>a. i # Len(r) => i + 1 \in 1..Len(r)
      <4>1. Len(r) \in Int /\ i \in Int /\ 1 <= i /\ i <= Len(r)
        BY <1>1, <2>3
      <4> QED
        BY <4>1
    <3>2. i # Len(r) => r[i + 1] = q[(i + 1) + 1]
      BY <2>3, <3>a
    <3> QED
      BY <3>1, <3>2 DEF Chain
  <2> QED
    BY <1>1, <1>4, <2>1, <2>2, <2>4, <2>5
<1> QED
  BY <1>5, <1>6

\* What pump takes and leaves is made of strings.
LEMMA CutTypes ==
    ASSUME NEW q \in Seq(Strings), q # <<>>
    PROVE  Chunk(q) \in Strings /\ Rest(q) \in Seq(Strings)
<1>1. Tail(q) \in Seq(Strings) /\ Head(q) \in Strings
  BY Tailed
<1>2. PICK a, b \in 0..MaxTyped : Head(q).from = a /\ Head(q).to = b /\ a < b
  BY <1>1 DEF Strings
<1>3. CASE Long(Head(q))
  <2>1. b - a > MaxChunk
    BY <1>2, <1>3 DEF Long
  <2>2. a + MaxChunk \in 0..MaxTyped /\ a + MaxChunk < b /\ a < a + MaxChunk
    BY <1>2, <2>1, AdbShellAssumption
  <2>3. String(a, a + MaxChunk) \in Strings /\ String(a + MaxChunk, b) \in Strings
    BY <1>2, <2>2, StringType
  <2>4. Chunk(q) = String(a, a + MaxChunk) /\ Rest(q) = <<String(a + MaxChunk, b)>> \o Tail(q)
    BY <1>2, <1>3 DEF Chunk, Rest
  <2> QED
    BY <1>1, <2>3, <2>4
<1>4. CASE ~Long(Head(q))
  BY <1>1, <1>4 DEF Chunk, Rest
<1> QED
  BY <1>3, <1>4

\* The two kinds of WRTE.
LEMMA WrteTypes ==
    /\ \A s \in Strings : /\ Stdin(s) \in ToDevice /\ Stdin(s).cmd = "WRTE" /\ IsInput(Stdin(s))
                          /\ ~IsWin(Stdin(s)) /\ Stdin(s).from = s.from /\ Stdin(s).to = s.to
    /\ \A z \in 0..MaxResize : /\ WindowPacket(z) \in ToDevice /\ WindowPacket(z).cmd = "WRTE"
                               /\ IsWin(WindowPacket(z)) /\ ~IsInput(WindowPacket(z))
                               /\ WindowPacket(z).size = z
<1>1. ASSUME NEW s \in Strings
      PROVE  /\ Stdin(s) \in ToDevice /\ Stdin(s).cmd = "WRTE" /\ IsInput(Stdin(s))
             /\ ~IsWin(Stdin(s)) /\ Stdin(s).from = s.from /\ Stdin(s).to = s.to
  <2>1. s.from \in 0..MaxTyped /\ s.to \in 0..MaxTyped /\ s.from < s.to
    BY DEF Strings
  <2> QED
    BY ZenonT(40), <2>1 DEF Stdin, ToDevice, IsInput, IsWin
<1>2. ASSUME NEW z \in 0..MaxResize
      PROVE  /\ WindowPacket(z) \in ToDevice /\ WindowPacket(z).cmd = "WRTE"
             /\ IsWin(WindowPacket(z)) /\ ~IsInput(WindowPacket(z)) /\ WindowPacket(z).size = z
  BY ZenonT(40) DEF WindowPacket, ToDevice, IsInput, IsWin
<1> QED
  BY <1>1, <1>2

\* The messages that are a command alone.
LEMMA Plain ==
    /\ \A c \in {"CNXN", "OPEN", "OKAY", "CLSE"} : [cmd |-> c] \in ToDevice /\ [cmd |-> c].cmd = c
    /\ \A c \in {"AUTH", "OKAY", "CLSE"} : [cmd |-> c] \in ToClient /\ [cmd |-> c].cmd = c
<1>1. ASSUME NEW c \in {"CNXN", "OPEN", "OKAY", "CLSE"}
      PROVE  [cmd |-> c] \in ToDevice /\ [cmd |-> c].cmd = c
  <2>1. [cmd |-> c] \in [cmd : {"CNXN", "OPEN", "OKAY", "CLSE"}]
    OBVIOUS
  <2> QED
    BY ZenonT(40), <2>1 DEF ToDevice
<1>2. ASSUME NEW c \in {"AUTH", "OKAY", "CLSE"}
      PROVE  [cmd |-> c] \in ToClient /\ [cmd |-> c].cmd = c
  <2>1. [cmd |-> c] \in [cmd : {"AUTH", "OKAY", "CLSE"}]
    OBVIOUS
  <2> QED
    BY <2>1 DEF ToClient
<1> QED
  BY <1>1, <1>2

\* pump keeps the types, whatever the state of the connection.
LEMMA PumpTypes ==
    ASSUME toDev \in Seq(ToDevice), NEW q \in Seq(Strings), NEW pending \in BOOLEAN,
           NEW w \in BOOLEAN, NEW rdy \in BOOLEAN, NEW sz \in 0..MaxResize,
           Pump(q, pending, w, rdy, sz)
    PROVE  /\ outq' \in Seq(Strings) /\ resizePending' \in BOOLEAN /\ writing' \in BOOLEAN
           /\ toDev' \in Seq(ToDevice)
           /\ rdy /\ ~writing' => ~(resizePending' /\ v2)
<1>1. CASE outq' = q /\ resizePending' = pending /\ writing' = w /\ toDev' = toDev
           /\ (w \/ ~rdy \/ (q = <<>> /\ ~(pending /\ v2)))
  BY <1>1
<1>2. CASE outq' = q /\ resizePending' = FALSE /\ writing' = TRUE
           /\ toDev' = Sent(toDev, WindowPacket(sz))
  <2>1. WindowPacket(sz) \in ToDevice
    BY WrteTypes
  <2>2. toDev' \in Seq(ToDevice)
    BY <1>2, <2>1, Appended DEF Sent
  <2> QED
    BY ZenonT(40), <1>2, <2>2
<1>3. CASE q # <<>> /\ outq' = Rest(q) /\ resizePending' = pending /\ writing' = TRUE
           /\ toDev' = Sent(toDev, Stdin(Chunk(q)))
  <2>1. Chunk(q) \in Strings /\ Rest(q) \in Seq(Strings)
    BY <1>3, CutTypes
  <2>2. Stdin(Chunk(q)) \in ToDevice
    BY <2>1, WrteTypes
  <2>3. toDev' \in Seq(ToDevice)
    BY <1>3, <2>2, Appended DEF Sent
  <2> QED
    BY <1>3, <2>1, <2>3
<1> QED
  BY ZenonT(40), <1>1, <1>2, <1>3 DEF Pump

\* A WRTE is sent when none is unacknowledged.
LEMMA WrteSent ==
    ASSUME toDev \in Seq(ToDevice), NEW m \in ToDevice, m.cmd = "WRTE", NEW th,
           Acks(TRUE, FALSE, toDev, th), DevAcks(dev.busy, toDev, th)
    PROVE  Acks(TRUE, TRUE, Append(toDev, m), th) /\ DevAcks(dev.busy, Append(toDev, m), th)
<1>1. Absent(toDev, "WRTE") /\ Absent(th, "OKAY") /\ AtMostOne(th, "OKAY")
  BY DEF Acks
<1>2. /\ AtMostOne(Append(toDev, m), "WRTE") /\ ~Absent(Append(toDev, m), "WRTE")
      /\ AtMostOne(toDev, "OKAY") => AtMostOne(Append(toDev, m), "OKAY")
      /\ Absent(toDev, "OKAY") => Absent(Append(toDev, m), "OKAY")
  <2>1. AtMostOne(toDev, "WRTE")
    BY <1>1 DEF Absent, AtMostOne
  <2> QED
    BY <1>1, <2>1, AppendCount
<1> QED
  BY <1>1, <1>2 DEF Acks, DevAcks

\* A pump, with the queue and the flags as its caller leaves them: one WRTE is
\* unacknowledged, the input goes on where it was, and a new size is on its way.
LEMMA PumpStep ==
    ASSUME ws = "open", toDev \in Seq(ToDevice), NEW q \in Seq(Strings), NEW pending \in BOOLEAN,
           NEW w \in BOOLEAN, NEW rdy \in BOOLEAN, NEW sz \in 0..MaxResize,
           NEW th, NEW n \in 0..MaxTyped,
           Acks(rdy, w, toDev, th), DevAcks(dev.busy, toDev, th),
           Pump(q, pending, w, rdy, sz)
    PROVE  /\ Acks(rdy, writing', toDev', th) /\ DevAcks(dev.busy, toDev', th)
           /\ Window(pending, sz, toDev) => Window(resizePending', sz, toDev')
           /\ Input(q, n, toDev) => Input(outq', n, toDev')
           /\ \A i \in 1..Len(toDev') : toDev'[i].cmd = "WRTE" \/ (i \in 1..Len(toDev) /\ toDev'[i] = toDev[i])
           /\ ~rdy => toDev' = toDev
<1>1. CASE outq' = q /\ resizePending' = pending /\ writing' = w /\ toDev' = toDev
  BY <1>1
<1>2. ASSUME NEW m \in ToDevice, m.cmd = "WRTE", ~w, rdy, writing' = TRUE,
             toDev' = Append(toDev, m)
      PROVE  /\ Acks(rdy, writing', toDev', th) /\ DevAcks(dev.busy, toDev', th)
             /\ Len(toDev) \in Nat /\ Len(toDev') = Len(toDev) + 1 /\ toDev'[Len(toDev) + 1] = m
             /\ \A i \in 1..Len(toDev) : toDev'[i] = toDev[i] /\ toDev'[i].cmd # "WRTE"
             /\ \A i \in 1..Len(toDev') : i = Len(toDev) + 1 \/ i \in 1..Len(toDev)
  <2>1. w = FALSE /\ rdy = TRUE
    BY <1>2
  <2>2. Acks(TRUE, FALSE, toDev, th)
    BY ZenonT(40), <2>1
  <2>3. Acks(TRUE, TRUE, toDev', th) /\ DevAcks(dev.busy, toDev', th)
    BY ZenonT(40), <1>2, <2>2, WrteSent
  <2>4. /\ Len(toDev) \in Nat /\ Len(toDev') = Len(toDev) + 1 /\ toDev'[Len(toDev) + 1] = m
        /\ \A i \in 1..Len(toDev) : toDev'[i] = toDev[i]
    BY <1>2, Appended
  <2>5. \A i \in 1..Len(toDev) : toDev[i].cmd # "WRTE"
    BY <2>2 DEF Acks, Absent
  <2>6. \A i \in 1..Len(toDev') : i = Len(toDev) + 1 \/ i \in 1..Len(toDev)
    BY <2>4
  <2> QED
    BY ZenonT(40), <1>2, <2>1, <2>3, <2>4, <2>5, <2>6
<1>3. CASE /\ ~w /\ rdy /\ pending /\ v2
           /\ outq' = q /\ resizePending' = FALSE /\ writing' = TRUE
           /\ toDev' = Sent(toDev, WindowPacket(sz))
  <2>1. PICK m \in ToDevice : m = WindowPacket(sz)
    BY WrteTypes
  <2>2. m.cmd = "WRTE" /\ IsWin(m) /\ ~IsInput(m) /\ m.size = sz
    BY <2>1, WrteTypes
  <2>3. toDev' = Append(toDev, m)
    BY <1>3, <2>1 DEF Sent
  <2>4. /\ Acks(rdy, writing', toDev', th) /\ DevAcks(dev.busy, toDev', th)
        /\ Len(toDev) \in Nat /\ Len(toDev') = Len(toDev) + 1 /\ toDev'[Len(toDev) + 1] = m
        /\ \A i \in 1..Len(toDev) : toDev'[i] = toDev[i] /\ toDev'[i].cmd # "WRTE"
        /\ \A i \in 1..Len(toDev') : i = Len(toDev) + 1 \/ i \in 1..Len(toDev)
    BY ZenonT(40), <1>2, <1>3, <2>2, <2>3
  <2>5. Len(toDev) + 1 \in 1..Len(toDev')
    BY <2>4
  <2>6. Window(resizePending', sz, toDev')
    <3>1. \A i \in 1..Len(toDev') : IsWin(toDev'[i]) => toDev'[i].size = sz
      BY <2>2, <2>4 DEF IsWin
    <3> QED
      BY <2>2, <2>4, <2>5, <3>1 DEF Window
  <2>7. ASSUME Input(q, n, toDev)
        PROVE  Input(outq', n, toDev')
    <3>1. \A i \in 1..Len(toDev) : ~IsInput(toDev[i])
      BY <2>4 DEF IsInput
    <3>2. \A i \in 1..Len(toDev') : ~IsInput(toDev'[i])
      BY <2>2, <2>4, <3>1
    <3> QED
      BY <1>3, <2>7, <3>1, <3>2 DEF Input
  <2>8. \A i \in 1..Len(toDev') :
            toDev'[i].cmd = "WRTE" \/ (i \in 1..Len(toDev) /\ toDev'[i] = toDev[i])
    BY <2>2, <2>4
  <2>9. rdy
    BY <1>3
  <2> QED
    BY <2>4, <2>6, <2>7, <2>8, <2>9
<1>4. CASE /\ ~w /\ rdy /\ q # <<>> /\ ~(pending /\ v2)
           /\ outq' = Rest(q) /\ resizePending' = pending /\ writing' = TRUE
           /\ toDev' = Sent(toDev, Stdin(Chunk(q)))
  <2>1. PICK s \in Strings : s = Chunk(q)
    BY <1>4, CutTypes
  <2>a. PICK m \in ToDevice : m = Stdin(s)
    BY WrteTypes
  <2>2. m.cmd = "WRTE" /\ ~IsWin(m) /\ IsInput(m) /\ m.from = s.from /\ m.to = s.to
    BY <2>a, WrteTypes
  <2>3. toDev' = Append(toDev, m)
    BY <1>4, <2>1, <2>a DEF Sent
  <2>4. /\ Acks(rdy, writing', toDev', th) /\ DevAcks(dev.busy, toDev', th)
        /\ Len(toDev) \in Nat /\ Len(toDev') = Len(toDev) + 1 /\ toDev'[Len(toDev) + 1] = m
        /\ \A i \in 1..Len(toDev) : toDev'[i] = toDev[i] /\ toDev'[i].cmd # "WRTE"
        /\ \A i \in 1..Len(toDev') : i = Len(toDev) + 1 \/ i \in 1..Len(toDev)
    BY ZenonT(40), <1>2, <1>4, <2>2, <2>3
  <2>5. Len(toDev) + 1 \in 1..Len(toDev')
    BY <2>4
  <2>6. ASSUME Window(pending, sz, toDev)
        PROVE  Window(resizePending', sz, toDev')
    <3>1. /\ \A i \in 1..Len(toDev) : ~IsWin(toDev[i])
          /\ \A i \in 1..Len(toDev') : ~IsWin(toDev'[i])
      BY <2>2, <2>4 DEF IsWin
    <3> QED
      BY <1>4, <2>6, <3>1 DEF Window
  <2>7. ASSUME Input(q, n, toDev)
        PROVE  Input(outq', n, toDev')
    <3>1. \A i \in 1..Len(toDev) : ~IsInput(toDev[i])
      BY <2>4 DEF IsInput
    <3>2. Chain(q, n) /\ Len(dev.got) = First(q, n)
      BY <2>7, <3>1 DEF Input
    <3>3. s.from = First(q, n) /\ s.to = First(Rest(q), n) /\ Chain(Rest(q), n)
      BY <1>4, <2>1, <3>2, Cut
    <3>4. \A i \in 1..Len(toDev') : IsInput(toDev'[i]) => i = Len(toDev) + 1
      BY <2>4 DEF IsInput
    <3>5. /\ \A i \in 1..Len(toDev') :
                IsInput(toDev'[i]) => toDev'[i].from = Len(dev.got) /\ toDev'[i].to = First(outq', n)
          /\ ~\A i \in 1..Len(toDev') : ~IsInput(toDev'[i])
      BY <1>4, <2>2, <2>4, <2>5, <3>2, <3>3, <3>4
    <3> QED
      BY <1>4, <2>7, <3>3, <3>5 DEF Input
  <2>8. \A i \in 1..Len(toDev') :
            toDev'[i].cmd = "WRTE" \/ (i \in 1..Len(toDev) /\ toDev'[i] = toDev[i])
    BY <2>2, <2>4
  <2>9. rdy
    BY <1>4
  <2> QED
    BY <2>4, <2>6, <2>7, <2>8, <2>9
<1> QED
  BY ZenonT(40), <1>1, <1>3, <1>4 DEF Pump

-----------------------------------------------------------------------------
(* What a step leaves alone.                                               *)

\* The connection is no longer open, or not yet lost.
LEMMA Offline ==
    ASSUME Typed', Told', Settled', ws' \notin {"connecting", "open"}
    PROVE  IInv'
BY DEF IInv

\* The device makes and sends nothing.
SameOutput ==
    /\ dev'.v2 = dev.v2 /\ dev'.made = dev.made /\ dev'.out = dev.out
    /\ dev.phase \in {"exited", "gone"} => dev'.phase \in {"exited", "gone"}

\* The order of the output depends on what is told, left over and made.
LEMMA FlowKept ==
    ASSUME NEW air, Flow(air), UNCHANGED <<told, v2buf, closed>>, SameOutput
    PROVE  Flow(air)'
<1>1. /\ told' = told /\ v2buf' = v2buf /\ closed' = closed
      /\ dev'.v2 = dev.v2 /\ dev'.made = dev.made /\ dev'.out = dev.out
      /\ dev.phase \in {"exited", "gone"} => dev'.phase \in {"exited", "gone"}
  BY DEF SameOutput
<1>2. \A k : Num(k)' = Num(k)
  BY <1>1 DEF Num
<1>3. \A k : Cell(k)' = Cell(k)
  BY <1>1, <1>2 DEF Cell
<1>4. Done' = Done
  BY <1>1 DEF Done
<1>5. \A k \in 1..Len(told') : told'[k] = Num(k)'
  BY <1>1, <1>2 DEF Flow
<1>6. /\ Piece(v2buf, Done)' /\ Piece(air, Done + Len(v2buf))'
      /\ Piece(dev.out, Done + Len(v2buf) + Len(air))'
  BY <1>1, <1>3, <1>4 DEF Flow, Piece
<1> QED
  BY <1>1, <1>4, <1>5, <1>6 DEF Flow

\* Nothing the device sent is read.
LEMMA OutputKept ==
    ASSUME Output, UNCHANGED <<toHost, told, v2buf, closed>>, SameOutput
    PROVE  Output'
<1>1. PICK air \in Airs(toHost) : InAir(air, toHost) /\ Flow(air)
  BY DEF Output
<1>2. Flow(air)'
  BY <1>1, FlowKept
<1>3. air \in Airs(toHost') /\ InAir(air, toHost')
  BY <1>1
<1> QED
  BY <1>2, <1>3 DEF Output, Airs, InAir, Absent

\* What the device's WRTE holds is what one of its messages holds.
LEMMA AirType ==
    ASSUME toHost \in Seq(ToClient), NEW air \in Airs(toHost)
    PROVE  air \in Seq(Cells)
<1>1. CASE air = <<>>
  BY <1>1
<1>2. CASE air # <<>>
  <2>1. PICK i \in 1..Len(toHost) : toHost[i].cmd = "WRTE" /\ air = toHost[i].data
    BY <1>2 DEF Airs
  <2>2. toHost[i] \in ToClient
    OBVIOUS
  <2> QED
    BY <2>1, <2>2 DEF ToClient
<1> QED
  BY <1>1, <1>2

\* A queue with a WRTE determines what is in the air.
LEMMA AirFound ==
    ASSUME NEW th, NEW air, InAir(air, th)
    PROVE  air \in Airs(th)
<1>1. CASE Absent(th, "WRTE")
  BY <1>1 DEF InAir, Airs
<1>2. CASE ~Absent(th, "WRTE")
  BY <1>2 DEF InAir, Airs, Absent
<1> QED
  BY <1>1, <1>2

\* A message that is not a WRTE is taken off the queue, or put on it.
LEMMA OutputPassed ==
    ASSUME Output, toHost \in Seq(ToClient), UNCHANGED <<told, v2buf, closed>>, SameOutput,
           \/ toHost # <<>> /\ Head(toHost).cmd # "WRTE" /\ toHost' = Tail(toHost)
           \/ \E m \in ToClient : m.cmd # "WRTE" /\ toHost' = Append(toHost, m)
    PROVE  Output'
<1>1. PICK air \in Airs(toHost) : InAir(air, toHost) /\ Flow(air)
  BY DEF Output
<1>2. Flow(air)'
  BY <1>1, FlowKept
<1>3. InAir(air, toHost')
  <2>1. CASE toHost # <<>> /\ Head(toHost).cmd # "WRTE" /\ toHost' = Tail(toHost)
    <3>1. /\ Len(toHost) \in Nat \ {0} /\ Len(toHost') = Len(toHost) - 1
          /\ \A i \in 1..(Len(toHost) - 1) : toHost'[i] = toHost[i + 1]
      BY <2>1, Tailed
    <3>2. \A i \in 1..Len(toHost') : i + 1 \in 1..Len(toHost) /\ toHost'[i] = toHost[i + 1]
      BY <3>1
    <3>3. Absent(toHost', "WRTE") => Absent(toHost, "WRTE")
      BY <2>1, TailCount
    <3> QED
      BY <1>1, <3>2, <3>3 DEF InAir
  <2>2. CASE \E m \in ToClient : m.cmd # "WRTE" /\ toHost' = Append(toHost, m)
    <3>1. PICK m \in ToClient : m.cmd # "WRTE" /\ toHost' = Append(toHost, m)
      BY <2>2
    <3>2. /\ Len(toHost) \in Nat /\ Len(toHost') = Len(toHost) + 1 /\ toHost'[Len(toHost) + 1] = m
          /\ \A i \in 1..Len(toHost) : toHost'[i] = toHost[i]
      BY <3>1, Appended
    <3>3. \A i \in 1..Len(toHost') : i \in 1..Len(toHost) \/ i = Len(toHost) + 1
      BY <3>2
    <3>4. Absent(toHost', "WRTE") => Absent(toHost, "WRTE")
      BY <3>1, AppendCount
    <3> QED
      BY <1>1, <3>1, <3>2, <3>3, <3>4 DEF InAir
  <2> QED
    BY <2>1, <2>2
<1>4. air \in Airs(toHost')
  BY <1>3, AirFound
<1> QED
  BY <1>2, <1>3, <1>4 DEF Output, Airs, InAir, Absent

\* A handler that ends with a pump, on an open connection.
LEMMA PumpOpen ==
    ASSUME ws = "open", UNCHANGED <<ws, v2, v2buf, told, closed, dev>>,
           toDev \in Seq(ToDevice), dev \in Device, ready' \in BOOLEAN, typed' \in 0..MaxTyped,
           size' \in 0..MaxResize,
           NEW q \in Seq(Strings), NEW pending \in BOOLEAN, NEW w \in BOOLEAN,
           Pump(q, pending, w, ready', size'),
           Acks(ready', w, toDev, toHost'), DevAcks(dev.busy, toDev, toHost'), Output',
           ready' /\ ~closed => Window(pending, size', toDev),
           dev.phase \in {"listen", "shell"} => Input(q, typed', toDev),
           ready' => /\ v2 = dev.v2 /\ dev.phase # "listen"
                     /\ \A i \in 1..Len(toDev) : toDev[i].cmd \in {"WRTE", "OKAY"}
                     /\ \A i \in 1..Len(toHost') : toHost'[i].cmd \in {"OKAY", "WRTE", "CLSE"},
           ~ready' => Greeting /\ toHost' = toHost
    PROVE  Open'
<1>1. PICK rdy \in BOOLEAN : rdy = ready'
  OBVIOUS
<1>2. PICK th : th = toHost'
  OBVIOUS
<1>3. PICK sz \in 0..MaxResize : sz = size'
  OBVIOUS
<1>4. PICK n \in 0..MaxTyped : n = typed'
  OBVIOUS
<1>5. /\ Acks(rdy, w, toDev, th) /\ DevAcks(dev.busy, toDev, th) /\ Pump(q, pending, w, rdy, sz)
      /\ rdy /\ ~closed => Window(pending, sz, toDev)
      /\ dev.phase \in {"listen", "shell"} => Input(q, n, toDev)
  BY <1>1, <1>2, <1>3, <1>4
<1>6. /\ Acks(rdy, writing', toDev', th) /\ DevAcks(dev.busy, toDev', th)
      /\ Window(pending, sz, toDev) => Window(resizePending', sz, toDev')
      /\ Input(q, n, toDev) => Input(outq', n, toDev')
      /\ \A i \in 1..Len(toDev') :
            toDev'[i].cmd = "WRTE" \/ (i \in 1..Len(toDev) /\ toDev'[i] = toDev[i])
      /\ ~rdy => toDev' = toDev
  BY <1>5, PumpStep
<1>7. Acks(ready, writing, toDev, toHost)'
  BY <1>1, <1>2, <1>6 DEF Acks
<1>8. DevAcks(dev.busy, toDev, toHost)'
  BY <1>2, <1>6 DEF DevAcks
<1>9. (ready /\ ~closed => Window(resizePending, size, toDev))'
  BY <1>1, <1>3, <1>5, <1>6 DEF Window
<1>10. (dev.phase \in {"listen", "shell"} => Input(outq, typed, toDev))'
  BY ZenonT(40), <1>4, <1>5, <1>6 DEF Input
<1>11. ready' => Streaming'
  BY <1>6 DEF Streaming
<1>12. ~ready' => Greeting'
  BY <1>1, <1>6 DEF Greeting, Fresh
<1> QED
  BY <1>7, <1>8, <1>9, <1>10, <1>11, <1>12 DEF Open

-----------------------------------------------------------------------------
(* The client's own steps.                                                 *)

\* A string is queued: the input is longer.
LEMMA Queued ==
    ASSUME outq \in Seq(Strings), typed \in 0..MaxTyped, NEW n \in Nat \ {0},
           typed + n <= MaxTyped, NEW td
    PROVE  /\ Append(outq, String(typed, typed + n)) \in Seq(Strings)
           /\ Input(outq, typed, td) => Input(Append(outq, String(typed, typed + n)), typed + n, td)
<1>1. typed \in Nat /\ typed + n \in 0..MaxTyped /\ typed < typed + n
  BY AdbShellAssumption
<1>2. PICK s \in Strings : s = String(typed, typed + n) /\ s.from = typed /\ s.to = typed + n
  BY <1>1, StringType
<1>3. PICK q \in Seq(Strings) : q = Append(outq, s)
  BY ZenonT(40), <1>2, Appended
<1>4. /\ Len(q) = Len(outq) + 1 /\ Len(outq) \in Nat
      /\ \A i \in 1..Len(outq) : q[i] = outq[i]
      /\ q[Len(outq) + 1] = s
  BY <1>3, Appended
<1>5. q # <<>>
  BY <1>4
<1>6. First(q, typed + n) = First(outq, typed)
  <2>1. CASE outq = <<>>
    BY <1>2, <1>4, <1>5, <2>1 DEF First
  <2>2. CASE outq # <<>>
    <3>1. 1 \in 1..Len(outq)
      BY <1>4, <2>2
    <3> QED
      BY <1>4, <1>5, <2>2, <3>1 DEF First
  <2> QED
    BY <2>1, <2>2
<1>7. ASSUME Chain(outq, typed)
      PROVE  Chain(q, typed + n)
  <2> SUFFICES ASSUME NEW i \in 1..Len(q)
               PROVE  q[i].to = IF i = Len(q) THEN typed + n ELSE q[i + 1].from
    BY DEF Chain
  <2>1. CASE i = Len(q)
    BY <1>2, <1>4, <2>1
  <2>2. CASE i # Len(q) /\ i = Len(outq)
    <3>1. i \in 1..Len(outq) /\ q[i] = outq[i] /\ q[i + 1] = s
      BY <1>4, <2>2
    <3> QED
      BY <1>2, <1>7, <2>2, <3>1 DEF Chain
  <2>3. CASE i # Len(q) /\ i # Len(outq)
    <3>1. i \in 1..Len(outq) /\ i + 1 \in 1..Len(outq)
      <4>1. i \in Int /\ Len(q) \in Int /\ Len(outq) \in Int /\ 1 <= i /\ i <= Len(q)
        BY <1>4
      <4> QED
        BY <1>4, <2>3, <4>1
    <3>2. q[i] = outq[i] /\ q[i + 1] = outq[i + 1]
      BY <1>4, <3>1
    <3> QED
      BY <1>7, <2>3, <3>1, <3>2 DEF Chain
  <2> QED
    BY <2>1, <2>2, <2>3
<1> QED
  BY <1>2, <1>3, <1>6, <1>7 DEF Input

\* write: the string is queued and pumped.
LEMMA WriteStep ==
    ASSUME IInv, NEW n \in 1..MaxString, Write(n)
    PROVE  IInv'
<1>1. /\ n \in Nat \ {0} /\ typed + n <= MaxTyped /\ typed' = typed + n
      /\ ws' = ws /\ toHost' = toHost /\ ready' = ready /\ v2' = v2 /\ closed' = closed
      /\ v2buf' = v2buf /\ size' = size /\ told' = told /\ dev' = dev
      /\ Pump(Append(outq, String(typed, typed + n)), resizePending, writing, ready, size)
  BY AdbShellAssumption DEF Write
<1>2. Typed
  BY DEF IInv
<1>3. PICK q \in Seq(Strings) : q = Append(outq, String(typed, typed + n))
  BY ZenonT(40), <1>1, <1>2, Queued DEF Typed
<1>4. \A td : Input(outq, typed, td) => Input(q, typed', td)
  BY ZenonT(40), <1>1, <1>2, <1>3, Queued DEF Typed
<1>5. Pump(q, resizePending, writing, ready, size)
  BY <1>1, <1>3
<1>6. /\ outq' \in Seq(Strings) /\ resizePending' \in BOOLEAN /\ writing' \in BOOLEAN
      /\ toDev' \in Seq(ToDevice)
      /\ ready /\ ~writing' => ~(resizePending' /\ v2)
  BY <1>2, <1>5, PumpTypes DEF Typed
<1>7. typed' \in 0..MaxTyped
  BY <1>1, <1>2, AdbShellAssumption DEF Typed
<1>8. Typed' /\ Settled'
  BY <1>1, <1>2, <1>6, <1>7 DEF Typed, Settled
<1>9. Told'
  BY <1>1 DEF IInv, Told
<1>10. CASE ws = "connecting"
  <2>1. Connecting
    BY <1>10 DEF IInv
  <2>2. toDev' = toDev /\ outq' = q /\ writing' = writing
    BY <1>5, <2>1 DEF Connecting, Pump
  <2>3. Input(q, typed', toDev)
    BY <1>4, <2>1 DEF Connecting
  <2>4. Connecting'
    BY <1>1, <2>1, <2>2, <2>3 DEF Connecting, Fresh, Input
  <2> QED
    BY <1>1, <1>8, <1>9, <1>10, <2>4 DEF IInv
<1>11. CASE ws = "open"
  <2>1. Open
    BY <1>11 DEF IInv
  <2>2. Output'
    BY <1>1, <2>1, OutputKept DEF Open, SameOutput
  <2>3. Open'
    BY ZenonT(40), <1>1, <1>2, <1>4, <1>5, <1>7, <1>11, <2>1, <2>2, PumpOpen DEF Typed, Open, Streaming
  <2> QED
    BY <1>1, <1>8, <1>9, <1>11, <2>3 DEF IInv
<1>12. CASE ws \notin {"connecting", "open"}
  BY <1>1, <1>8, <1>9, <1>12, Offline
<1> QED
  BY <1>10, <1>11, <1>12

\* resize: the new size is pending and pumped, if there is a pty.
LEMMA ResizeStep ==
    ASSUME IInv, Resize
    PROVE  IInv'
<1>1. /\ size < MaxResize /\ size' = size + 1
      /\ ws' = ws /\ toHost' = toHost /\ ready' = ready /\ v2' = v2 /\ closed' = closed
      /\ v2buf' = v2buf /\ typed' = typed /\ told' = told /\ dev' = dev
  BY DEF Resize
<1>2. Typed
  BY DEF IInv
<1>3. size' \in 0..MaxResize
  BY <1>1, <1>2, AdbShellAssumption DEF Typed
<1>4. Told'
  BY <1>1 DEF IInv, Told
<1>5. CASE v2 /\ ~closed
  <2>1. Pump(outq, TRUE, writing, ready, size')
    BY ZenonT(40), <1>1, <1>5 DEF Resize
  <2>2. /\ outq' \in Seq(Strings) /\ resizePending' \in BOOLEAN /\ writing' \in BOOLEAN
        /\ toDev' \in Seq(ToDevice)
        /\ ready /\ ~writing' => ~(resizePending' /\ v2)
    BY ZenonT(40), <1>2, <1>3, <2>1, PumpTypes DEF Typed
  <2>3. Typed' /\ Settled'
    BY <1>1, <1>2, <1>3, <2>2 DEF Typed, Settled
  <2>4. CASE ws = "connecting"
    <3>1. Connecting
      BY <2>4 DEF IInv
    <3>2. toDev' = toDev /\ outq' = outq /\ writing' = writing
      BY <2>1, <3>1 DEF Connecting, Pump
    <3>3. Connecting'
      BY <1>1, <3>1, <3>2 DEF Connecting, Fresh, Input
    <3> QED
      BY <1>1, <1>4, <2>3, <2>4, <3>3 DEF IInv
  <2>5. CASE ws = "open"
    <3>1. Open
      BY <2>5 DEF IInv
    <3>2. Output'
      BY <1>1, <3>1, OutputKept DEF Open, SameOutput
    <3>3. Window(TRUE, size', toDev)
      BY DEF Window
    <3>4. Open'
      BY ZenonT(40), <1>1, <1>2, <1>3, <2>1, <2>5, <3>1, <3>2, <3>3, PumpOpen DEF Typed, Open, Streaming
    <3> QED
      BY <1>1, <1>4, <2>3, <2>5, <3>4 DEF IInv
  <2>6. CASE ws \notin {"connecting", "open"}
    BY <1>1, <1>4, <2>3, <2>6, Offline
  <2> QED
    BY <2>4, <2>5, <2>6
<1>6. CASE ~(v2 /\ ~closed)
  <2>1. outq' = outq /\ resizePending' = resizePending /\ writing' = writing /\ toDev' = toDev
    BY ZenonT(40), <1>6 DEF Resize
  <2>2. Typed' /\ Settled'
    BY <1>1, <1>2, <1>3, <2>1 DEF IInv, Typed, Settled
  <2>3. ASSUME Connecting
        PROVE  Connecting'
    BY <1>1, <2>1, <2>3 DEF Connecting, Fresh, Input
  <2>4. ASSUME Open
        PROVE  Open'
    <3>1. Output'
      BY <1>1, <2>4, OutputKept DEF Open, SameOutput
    <3>2. (IF ready THEN Streaming ELSE Greeting)'
      BY <1>1, <2>1, <2>4 DEF Open, Streaming, Greeting, Fresh
    <3>3. Acks(ready, writing, toDev, toHost)' /\ DevAcks(dev.busy, toDev, toHost)'
      BY <1>1, <2>1, <2>4 DEF Open, Acks, DevAcks
    <3>4. (ready /\ ~closed => Window(resizePending, size, toDev))'
      BY <1>1, <1>6 DEF Window
    <3>5. (dev.phase \in {"listen", "shell"} => Input(outq, typed, toDev))'
      BY <1>1, <2>1, <2>4 DEF Open, Input
    <3> QED
      BY <3>1, <3>2, <3>3, <3>4, <3>5 DEF Open
  <2> QED
    BY <1>1, <1>4, <2>2, <2>3, <2>4 DEF IInv
<1> QED
  BY <1>5, <1>6

\* close: nothing is told.
LEMMA CloseStep ==
    ASSUME IInv, Close
    PROVE  IInv'
<1>1. /\ closed' = TRUE /\ toDev' = Sent(toDev, [cmd |-> "CLSE"]) /\ ws' = "closing"
      /\ UNCHANGED <<toHost, ready, v2, writing, outq, resizePending, v2buf, size, typed, told, dev>>
  BY DEF Close
<1>2. [cmd |-> "CLSE"] \in ToDevice
  BY Plain
<1>3. toDev' \in Seq(ToDevice)
  BY <1>1, <1>2, Appended DEF IInv, Typed, Sent
<1>4. Typed' /\ Settled'
  BY <1>1, <1>3 DEF IInv, Typed, Settled
<1>5. Told'
  BY <1>1 DEF IInv, Told
<1> QED
  BY <1>1, <1>4, <1>5, Offline

\* An exit is told where none was: it is the last thing told.
LEMMA ExitTold ==
    ASSUME Typed, Told, closed' = TRUE, told' = IF closed THEN told ELSE Append(told, 0)
    PROVE  Told' /\ told' \in Seq(0..MaxOutput)
<1>1. CASE closed
  BY <1>1 DEF Typed, Told
<1>2. CASE ~closed
  <2>1. told \in Seq(0..MaxOutput) /\ 0 \in 0..MaxOutput
    BY AdbShellAssumption DEF Typed
  <2>2. /\ told' \in Seq(0..MaxOutput) /\ Len(told') = Len(told) + 1 /\ Len(told) \in Nat
        /\ \A i \in 1..Len(told) : told'[i] = told[i]
        /\ told'[Len(told) + 1] = 0
    BY <1>2, <2>1, Appended
  <2>3. \A i \in 1..Len(told') : i \in 1..Len(told) \/ i = Len(told')
    BY <2>2
  <2> QED
    BY <1>2, <2>2, <2>3 DEF Told
<1> QED
  BY <1>1, <1>2

\* ws.onclose.
LEMMA OnCloseStep ==
    ASSUME IInv, OnClose
    PROVE  IInv'
<1>1. /\ ws' = "closed" /\ told' = IF closed THEN told ELSE Append(told, 0)
      /\ closed' = TRUE /\ toDev' = <<>> /\ toHost' = <<>>
      /\ UNCHANGED <<ready, v2, writing, outq, resizePending, v2buf, size, typed, dev>>
  BY DEF OnClose
<1>2. Told' /\ told' \in Seq(0..MaxOutput)
  BY <1>1, ExitTold DEF IInv
<1>3. Typed' /\ Settled'
  BY <1>1, <1>2 DEF IInv, Typed, Settled
<1> QED
  BY <1>1, <1>2, <1>3, Offline

\* ws.onopen.
LEMMA OnOpenStep ==
    ASSUME IInv, OnOpen
    PROVE  IInv'
<1>1. /\ ws = "connecting" /\ ws' = "open" /\ toDev' = Append(toDev, [cmd |-> "CNXN"])
      /\ toHost' = toHost /\ ready' = ready /\ v2' = v2 /\ closed' = closed /\ writing' = writing
      /\ outq' = outq /\ resizePending' = resizePending /\ v2buf' = v2buf /\ size' = size
      /\ typed' = typed /\ told' = told /\ dev' = dev
  BY DEF OnOpen, client
<1>2. Typed /\ Connecting
  BY <1>1 DEF IInv
<1>3. PICK m \in ToDevice : m = [cmd |-> "CNXN"] /\ m.cmd = "CNXN"
  BY Plain
<1>4. toDev' \in Seq(ToDevice) /\ Len(toDev') = 1 /\ toDev'[1].cmd = "CNXN" /\ toHost' = <<>>
  BY <1>1, <1>2, <1>3, Appended DEF Typed, Connecting
<1>5. Typed' /\ Settled' /\ Told'
  BY <1>1, <1>2, <1>4 DEF IInv, Typed, Settled, Told
<1>6. Greeting'
  BY <1>1, <1>2, <1>4 DEF Connecting, Greeting, Fresh
<1>7. \A i \in 1..Len(toDev') : toDev'[i].cmd = "CNXN"
  BY <1>4
<1>8. Acks(ready, writing, toDev, toHost)' /\ DevAcks(dev.busy, toDev, toHost)'
  BY <1>1, <1>2, <1>4, <1>7 DEF Connecting, Acks, DevAcks, AtMostOne, Absent
<1>9. Output'
  <2>1. InAir(<<>>, toHost') /\ <<>> \in Airs(toHost')
    BY <1>4 DEF InAir, Airs
  <2>2. Flow(<<>>)
    BY <1>2 DEF Connecting, Fresh, Flow, Piece, Done, Typed, Device
  <2>3. Flow(<<>>)'
    BY <1>1, <2>2, FlowKept DEF SameOutput
  <2> QED
    BY <2>1, <2>3 DEF Output, InAir, Airs, Absent
<1>10. (dev.phase \in {"listen", "shell"} => Input(outq, typed, toDev))'
  <2>1. /\ \A i \in 1..Len(toDev') : ~IsInput(toDev'[i])
        /\ \A i \in 1..Len(toDev) : ~IsInput(toDev[i])
    BY <1>2, <1>7 DEF IsInput, Connecting
  <2> QED
    BY <1>1, <1>2, <2>1 DEF Connecting, Input
<1>11. ~ready'
  BY <1>1, <1>2 DEF Connecting
<1> QED
  BY <1>1, <1>5, <1>6, <1>8, <1>9, <1>10, <1>11 DEF IInv, Open

-----------------------------------------------------------------------------
(* A message of the device is handled.                                     *)

\* CNXN: the handshake goes on with OPEN.
LEMMA OnCnxnStep ==
    ASSUME IInv, OnCnxn
    PROVE  IInv'
<1>1. /\ ws = "open" /\ ws' = "open" /\ toHost # <<>> /\ Head(toHost).cmd = "CNXN"
      /\ toHost' = Tail(toHost) /\ v2' = Head(toHost).v2 /\ toDev' = Append(toDev, [cmd |-> "OPEN"])
      /\ ready' = ready /\ closed' = closed /\ writing' = writing
      /\ outq' = outq /\ resizePending' = resizePending /\ v2buf' = v2buf /\ size' = size
      /\ typed' = typed /\ told' = told /\ dev' = dev
  BY DEF OnCnxn, Received
<1>2. Typed /\ Open
  BY <1>1 DEF IInv
<1>3. /\ Tail(toHost) \in Seq(ToClient) /\ Len(toHost) \in Nat \ {0} /\ Head(toHost) = toHost[1]
      /\ Len(Tail(toHost)) = Len(toHost) - 1 /\ Head(toHost) \in ToClient
  BY <1>1, <1>2, Tailed DEF Typed
<1>4. ~ready
  BY <1>1, <1>2, <1>3 DEF Open, Streaming
<1>5. /\ Greeting /\ toDev = <<>> /\ Len(toHost) = 1 /\ Fresh /\ toHost[1].v2 = dev.v2
  BY <1>1, <1>2, <1>3, <1>4 DEF Open, Greeting
<1>6. PICK m \in ToDevice : m = [cmd |-> "OPEN"] /\ m.cmd = "OPEN"
  BY Plain
<1>7. toDev' \in Seq(ToDevice) /\ Len(toDev') = 1 /\ toDev'[1].cmd = "OPEN" /\ toHost' = <<>>
  <2>1. toDev' = Append(toDev, m) /\ toDev \in Seq(ToDevice) /\ Len(toDev) = 0
    BY <1>1, <1>2, <1>5, <1>6 DEF Typed
  <2>2. toDev' \in Seq(ToDevice) /\ Len(toDev') = 1 /\ toDev'[1] = m
    BY <2>1, Appended
  <2>3. toHost' = <<>>
    BY <1>1, <1>3, <1>5
  <2> QED
    BY <1>6, <2>2, <2>3
<1>8. v2' = dev.v2
  BY <1>1, <1>3, <1>5
<1>9. Typed' /\ Settled' /\ Told'
  BY <1>1, <1>2, <1>4, <1>7, <1>8 DEF IInv, Typed, Device, Settled, Told
<1>10. Greeting'
  BY <1>1, <1>5, <1>7, <1>8 DEF Greeting, Fresh
<1>11. \A i \in 1..Len(toDev') : toDev'[i].cmd = "OPEN"
  BY <1>7
<1>12. Acks(ready, writing, toDev, toHost)' /\ DevAcks(dev.busy, toDev, toHost)'
  <2>1. /\ Absent(toDev', "WRTE") /\ Absent(toDev', "OKAY")
        /\ Absent(toHost', "WRTE") /\ Absent(toHost', "OKAY")
    <3>1. \A i \in 1..Len(toHost') : FALSE
      BY <1>7
    <3> QED
      BY ZenonT(40), <1>11, <3>1 DEF Absent
  <2>2. /\ AtMostOne(toDev', "WRTE") /\ AtMostOne(toDev', "OKAY")
        /\ AtMostOne(toHost', "WRTE") /\ AtMostOne(toHost', "OKAY")
    BY ZenonT(40), <2>1 DEF Absent, AtMostOne
  <2>3. ~ready' /\ ~writing'
    BY ZenonT(40), <1>1, <1>2, <1>4 DEF Open, Acks
  <2> QED
    BY ZenonT(40), <2>1, <2>2, <2>3 DEF Acks, DevAcks
<1>13. Output'
  <2> UNCHANGED <<told, v2buf, closed, dev>>
    BY <1>1
  <2> QED
    BY <1>1, <1>2, OutputPassed DEF Open, Typed, SameOutput
<1>14. (dev.phase \in {"listen", "shell"} => Input(outq, typed, toDev))'
  <2>1. /\ \A i \in 1..Len(toDev') : ~IsInput(toDev'[i])
        /\ \A i \in 1..Len(toDev) : ~IsInput(toDev[i])
    BY <1>5, <1>11 DEF IsInput
  <2> QED
    BY <1>1, <1>2, <2>1 DEF Open, Input
<1> QED
  BY <1>1, <1>4, <1>9, <1>10, <1>12, <1>13, <1>14 DEF IInv, Open

\* AUTH: the client gives up.
LEMMA OnAuthStep ==
    ASSUME IInv, OnAuth
    PROVE  IInv'
<1>1. /\ ws' = "closing" /\ toHost # <<>> /\ toHost' = Tail(toHost) /\ UNCHANGED <<toDev, client, dev>>
  BY DEF OnAuth, Received
<1>2. toHost' \in Seq(ToClient)
  BY <1>1, Tailed DEF IInv, Typed
<1>3. Typed' /\ Settled' /\ Told'
  BY <1>1, <1>2 DEF IInv, Typed, Settled, Told, client
<1> QED
  BY <1>1, <1>3, Offline

\* CLSE: the exit is told, once.
LEMMA OnClseStep ==
    ASSUME IInv, OnClse
    PROVE  IInv'
<1>1. /\ ws' = "closing" /\ toHost # <<>> /\ toHost' = Tail(toHost) /\ closed' = TRUE
      /\ told' = IF closed THEN told ELSE Append(told, 0)
      /\ UNCHANGED <<toDev, ready, v2, writing, outq, resizePending, v2buf, size, typed, dev>>
  BY DEF OnClse, Received
<1>2. toHost' \in Seq(ToClient)
  BY <1>1, Tailed DEF IInv, Typed
<1>3. Told' /\ told' \in Seq(0..MaxOutput)
  BY <1>1, ExitTold DEF IInv
<1>4. Typed' /\ Settled'
  BY <1>1, <1>2, <1>3 DEF IInv, Typed, Settled
<1> QED
  BY <1>1, <1>3, <1>4, Offline

\* The OKAY of OPEN: the stream is ready, and the size of the window goes first.
LEMMA OnOpenedStep ==
    ASSUME IInv, OnOpened
    PROVE  IInv'
<1>1. /\ ws = "open" /\ ws' = ws /\ toHost # <<>> /\ Head(toHost).cmd = "OKAY"
      /\ toHost' = Tail(toHost) /\ ~ready /\ ready' = TRUE
      /\ Pump(outq, v2, writing, TRUE, size)
      /\ v2' = v2 /\ closed' = closed /\ v2buf' = v2buf /\ size' = size
      /\ typed' = typed /\ told' = told /\ dev' = dev
  BY ZenonT(40) DEF OnOpened, Received
<1>2. Typed /\ Open
  BY <1>1 DEF IInv
<1>3. /\ Tail(toHost) \in Seq(ToClient) /\ Len(toHost) \in Nat \ {0} /\ Head(toHost) = toHost[1]
      /\ Len(Tail(toHost)) = Len(toHost) - 1
      /\ \A i \in 1..(Len(toHost) - 1) : Tail(toHost)[i] = toHost[i + 1]
  BY <1>1, <1>2, Tailed DEF Typed
<1>4. /\ toDev = <<>> /\ dev.phase # "listen" /\ v2 = dev.v2
      /\ \A i \in 2..Len(toHost) : toHost[i].cmd \in {"WRTE", "CLSE"}
  BY <1>1, <1>2, <1>3 DEF Open, Greeting
<1>5. /\ outq' \in Seq(Strings) /\ resizePending' \in BOOLEAN /\ writing' \in BOOLEAN
      /\ toDev' \in Seq(ToDevice)
      /\ ~writing' => ~(resizePending' /\ v2)
  BY ZenonT(40), <1>1, <1>2, PumpTypes DEF Typed
<1>6. Typed' /\ Settled' /\ Told'
  BY <1>1, <1>2, <1>3, <1>5 DEF IInv, Typed, Settled, Told
<1>7. Output'
  <2> UNCHANGED <<told, v2buf, closed, dev>>
    BY <1>1
  <2> QED
    BY <1>1, <1>2, OutputPassed DEF Open, Typed, SameOutput
<1>8. \A i \in 1..Len(toHost') : toHost'[i].cmd \in {"WRTE", "CLSE"}
  <2>1. \A i \in 1..Len(toHost') : i + 1 \in 2..Len(toHost) /\ toHost'[i] = toHost[i + 1]
    BY <1>1, <1>3
  <2> QED
    BY <1>4, <2>1
<1>9. Absent(toHost', "OKAY") /\ AtMostOne(toHost', "OKAY")
  BY <1>8 DEF Absent, AtMostOne
<1>10. ~writing
  BY <1>1, <1>2 DEF Open, Acks
<1>11. Acks(TRUE, writing, toDev, toHost')
  BY <1>4, <1>9, <1>10, EmptyCount DEF Acks
<1>12. DevAcks(dev.busy, toDev, toHost')
  <2>1. /\ AtMostOne(toHost', "WRTE")
        /\ Absent(toHost, "WRTE") => Absent(toHost', "WRTE")
    BY <1>1, <1>2, TailCount DEF Open, DevAcks, Typed
  <2> QED
    BY <1>2, <1>4, <2>1, EmptyCount DEF Open, DevAcks
<1>13. Window(v2, size, toDev)
  BY DEF Window
<1>14. Open'
  <2> UNCHANGED <<ws, v2, v2buf, told, closed, dev>>
    BY <1>1
  <2>1. \A i \in 1..Len(toDev) : toDev[i].cmd \in {"WRTE", "OKAY"}
    BY <1>4
  <2>2. dev.phase \in {"listen", "shell"} => Input(outq, typed, toDev)
    BY <1>2 DEF Open
  <2> QED
    BY ZenonT(40), <1>1, <1>2, <1>4, <1>7, <1>8, <1>11, <1>12, <1>13, <2>1, <2>2, PumpOpen DEF Typed
<1> QED
  BY <1>1, <1>6, <1>14 DEF IInv

\* The OKAY of a WRTE: the next one may go.
LEMMA OnAckStep ==
    ASSUME IInv, OnAck
    PROVE  IInv'
<1>1. /\ ws = "open" /\ ws' = ws /\ toHost # <<>> /\ Head(toHost).cmd = "OKAY"
      /\ toHost' = Tail(toHost) /\ ready /\ ready' = ready
      /\ Pump(outq, resizePending, FALSE, ready, size)
      /\ v2' = v2 /\ closed' = closed /\ v2buf' = v2buf /\ size' = size
      /\ typed' = typed /\ told' = told /\ dev' = dev
  BY ZenonT(40) DEF OnAck, Received
<1>2. Typed /\ Open
  BY <1>1 DEF IInv
<1>3. /\ Tail(toHost) \in Seq(ToClient) /\ Len(toHost) \in Nat \ {0} /\ Head(toHost) = toHost[1]
      /\ Len(Tail(toHost)) = Len(toHost) - 1
      /\ \A i \in 1..(Len(toHost) - 1) : Tail(toHost)[i] = toHost[i + 1]
  BY <1>1, <1>2, Tailed DEF Typed
<1>4. Streaming
  BY <1>1, <1>2 DEF Open
<1>5. /\ outq' \in Seq(Strings) /\ resizePending' \in BOOLEAN /\ writing' \in BOOLEAN
      /\ toDev' \in Seq(ToDevice)
      /\ ready /\ ~writing' => ~(resizePending' /\ v2)
  BY ZenonT(40), <1>1, <1>2, PumpTypes DEF Typed
<1>6. Typed' /\ Settled' /\ Told'
  BY <1>1, <1>2, <1>3, <1>5 DEF IInv, Typed, Settled, Told
<1>7. Output'
  <2> UNCHANGED <<told, v2buf, closed, dev>>
    BY <1>1
  <2> QED
    BY <1>1, <1>2, OutputPassed DEF Open, Typed, SameOutput
<1>8. \A i \in 1..Len(toHost') : toHost'[i].cmd \in {"OKAY", "WRTE", "CLSE"}
  <2>1. \A i \in 1..Len(toHost') : i + 1 \in 1..Len(toHost) /\ toHost'[i] = toHost[i + 1]
    BY <1>1, <1>3
  <2> QED
    BY <1>4, <2>1 DEF Streaming
<1>9. Acks(ready, FALSE, toDev, toHost')
  <2>1. ~Absent(toHost, "OKAY") /\ AtMostOne(toHost, "OKAY")
    BY <1>1, <1>2, <1>3 DEF Open, Acks, Absent
  <2>2. Absent(toHost', "OKAY") /\ AtMostOne(toHost', "OKAY")
    BY <1>1, <1>2, <2>1, TailCount DEF Typed
  <2>3. Absent(toDev, "WRTE") /\ AtMostOne(toDev, "WRTE")
    BY <1>1, <1>2, <2>1 DEF Open, Acks
  <2> QED
    BY <1>1, <2>2, <2>3 DEF Acks
<1>10. DevAcks(dev.busy, toDev, toHost')
  <2>1. /\ AtMostOne(toHost', "WRTE")
        /\ Absent(toHost, "WRTE") => Absent(toHost', "WRTE")
    BY <1>1, <1>2, TailCount DEF Open, DevAcks, Typed
  <2> QED
    BY <1>2, <2>1 DEF Open, DevAcks
<1>11. Open'
  <2> UNCHANGED <<ws, v2, v2buf, told, closed, dev>>
    BY <1>1
  <2>1. /\ dev.phase \in {"listen", "shell"} => Input(outq, typed, toDev)
        /\ ready /\ ~closed => Window(resizePending, size, toDev)
    BY <1>2 DEF Open
  <2>2. /\ v2 = dev.v2 /\ dev.phase # "listen"
        /\ \A i \in 1..Len(toDev) : toDev[i].cmd \in {"WRTE", "OKAY"}
    BY <1>4 DEF Streaming
  <2> QED
    BY ZenonT(40), <1>1, <1>2, <1>7, <1>8, <1>9, <1>10, <2>1, <2>2, PumpOpen DEF Typed
<1> QED
  BY <1>1, <1>6, <1>11 DEF IInv

-----------------------------------------------------------------------------
(* Output.                                                                 *)

\* One sequence behind another.
LEMMA Joined ==
    ASSUME NEW S, NEW s \in Seq(S), NEW t \in Seq(S)
    PROVE  /\ s \o t \in Seq(S) /\ Len(s \o t) = Len(s) + Len(t) /\ Len(s) \in Nat /\ Len(t) \in Nat
           /\ \A i \in 1..Len(s) : (s \o t)[i] = s[i]
           /\ \A i \in 1..Len(t) : (s \o t)[Len(s) + i] = t[i]
           /\ \A i \in 1..Len(s \o t) : i \in 1..Len(s) \/ \E j \in 1..Len(t) : i = Len(s) + j
<1>1. /\ s \o t \in Seq(S) /\ Len(s \o t) = Len(s) + Len(t) /\ Len(s) \in Nat /\ Len(t) \in Nat
      /\ \A i \in 1..Len(s) : (s \o t)[i] = s[i]
      /\ \A i \in 1..Len(t) : (s \o t)[Len(s) + i] = t[i]
  OBVIOUS
<1>2. ASSUME NEW i \in 1..Len(s \o t), i \notin 1..Len(s)
      PROVE  \E j \in 1..Len(t) : i = Len(s) + j
  <2>1. i - Len(s) \in 1..Len(t) /\ i = Len(s) + (i - Len(s))
    BY <1>1, <1>2
  <2> QED
    BY ZenonT(40), <2>1
<1> QED
  BY <1>1, <1>2

\* A part of a sequence.
LEMMA Parted ==
    ASSUME NEW S, NEW s \in Seq(S), NEW a \in Nat \ {0}, NEW b \in Nat, a <= b + 1, b <= Len(s)
    PROVE  /\ SubSeq(s, a, b) \in Seq(S) /\ Len(SubSeq(s, a, b)) = b - a + 1
           /\ \A i \in 1..(b - a + 1) : SubSeq(s, a, b)[i] = s[a + i - 1]
<1>1. Len(s) \in Nat /\ b - a + 1 \in Nat
  OBVIOUS
<1>2. SubSeq(s, a, b) = [i \in 1..(b - a + 1) |-> s[a + i - 1]]
  BY <1>1
<1>3. \A i \in 1..(b - a + 1) : a + i - 1 \in 1..Len(s)
  BY <1>1
<1>4. \A i \in 1..(b - a + 1) : s[a + i - 1] \in S
  BY <1>3
<1> QED
  BY <1>1, <1>2, <1>4

\* Two pieces of the output that follow one another are one.
LEMMA PieceJoined ==
    ASSUME NEW s \in Seq(Cells), NEW t \in Seq(Cells), NEW at \in Nat,
           Piece(s, at), Piece(t, at + Len(s))
    PROVE  Piece(s \o t, at)
<1>1. PICK r \in Seq(Cells) : r = s \o t
  BY ZenonT(40), Joined
<1>a. /\ Len(s) \in Nat /\ \A i \in 1..Len(s) : (s \o t)[i] = s[i]
      /\ \A i \in 1..Len(t) : (s \o t)[Len(s) + i] = t[i]
      /\ \A i \in 1..Len(s \o t) : i \in 1..Len(s) \/ \E j \in 1..Len(t) : i = Len(s) + j
  BY Joined
<1>2. /\ Len(s) \in Nat /\ \A i \in 1..Len(s) : r[i] = s[i]
      /\ \A i \in 1..Len(t) : r[Len(s) + i] = t[i]
      /\ \A i \in 1..Len(r) : i \in 1..Len(s) \/ \E j \in 1..Len(t) : i = Len(s) + j
  BY <1>1, <1>a
<1>3. ASSUME NEW i \in 1..Len(r)
      PROVE  r[i] = Cell(at + i)
  <2>1. CASE i \in 1..Len(s)
    BY <1>2, <2>1 DEF Piece
  <2>2. CASE \E j \in 1..Len(t) : i = Len(s) + j
    <3>1. PICK j \in 1..Len(t) : i = Len(s) + j
      BY <2>2
    <3>2. at + i = (at + Len(s)) + j
      BY <1>2, <3>1
    <3> QED
      BY <1>2, <3>1, <3>2 DEF Piece
  <2> QED
    BY <1>2, <2>1, <2>2
<1> QED
  BY <1>1, <1>3 DEF Piece

\* The packet a cell belongs to.
LEMMA CellNumber ==
    ASSUME NEW k \in Nat \ {0}
    PROVE  /\ dev.v2 => Cell(2 * k) = <<"body", Num(k)>>
           /\ ~dev.v2 => Cell(k) = <<"body", Num(k)>>
<1>1. (2 * k) % 2 = 0 /\ (2 * k) \div 2 = k
  OBVIOUS
<1> QED
  BY <1>1 DEF Cell

\* What is told is in order, and the exit its end.
LEMMA FlowTold ==
    ASSUME NEW t, NEW n \in Nat, NEW made \in Nat, NEW c,
           \A k \in 1..n : t[k] = IF k <= made THEN k ELSE 0,
           n <= made + 1, c <=> n = made + 1
    PROVE  \A k \in 1..n : t[k] = k \/ (t[k] = 0 /\ k = n /\ c)
<1> SUFFICES ASSUME NEW k \in 1..n
             PROVE  t[k] = k \/ (t[k] = 0 /\ k = n /\ c)
  OBVIOUS
<1>1. CASE k <= made
  BY <1>1
<1>2. CASE ~(k <= made)
  <2>1. k = n /\ n = made + 1
    BY <1>2
  <2> QED
    BY <1>2, <2>1
<1> QED
  BY <1>1, <1>2

\* handleV2: the complete packets are the next ones, in order, and what is left
\* over is at most the header of the packet after them.
LEMMA Unpacked ==
    ASSUME NEW cells \in Seq(Cells), NEW T \in Nat, dev.v2, Piece(cells, 2 * T)
    PROVE  /\ Packets(cells) \in Seq(0..MaxOutput) /\ Left(cells) \in Seq(Cells)
           /\ Len(Packets(cells)) = Len(cells) \div 2
           /\ \A i \in 1..(Len(cells) \div 2) : Packets(cells)[i] = Num(T + i)
           /\ Len(Left(cells)) = Len(cells) - 2 * (Len(cells) \div 2)
           /\ Piece(Left(cells), 2 * (T + Len(cells) \div 2))
<1>1. PICK n \in Nat : n = Len(cells)
  OBVIOUS
<1>2. PICK p \in Nat : p = n \div 2
  OBVIOUS
<1>3. n = 2 * p \/ n = 2 * p + 1
  BY <1>2
<1>4. ASSUME NEW i \in 1..p
      PROVE  cells[2 * i][2] = Num(T + i) /\ cells[2 * i][2] \in 0..MaxOutput
  <2>1. 2 * i \in 1..n /\ 2 * T + 2 * i = 2 * (T + i) /\ T + i \in Nat \ {0}
    BY <1>3
  <2>2. cells[2 * i] = Cell(2 * (T + i))
    BY <1>1, <2>1 DEF Piece
  <2>3. Cell(2 * (T + i)) = <<"body", Num(T + i)>>
    BY <2>1, CellNumber
  <2>4. cells[2 * i] \in Cells
    BY <1>1, <2>1
  <2> QED
    BY <2>2, <2>3, <2>4 DEF Cells
<1>5. Packets(cells) = [i \in 1..p |-> cells[2 * i][2]]
  BY <1>1, <1>2 DEF Packets
<1>6. /\ Packets(cells) \in Seq(0..MaxOutput) /\ Len(Packets(cells)) = p
      /\ \A i \in 1..p : Packets(cells)[i] = Num(T + i)
  BY <1>4, <1>5
<1>7. Left(cells) = SubSeq(cells, 2 * p + 1, n)
  BY <1>1, <1>2 DEF Left
<1>8. Left(cells) \in Seq(Cells) /\ Len(Left(cells)) = n - 2 * p
  <2>1. 2 * p + 1 \in Nat \ {0} /\ 2 * p + 1 <= n + 1 /\ n <= Len(cells)
    BY <1>1, <1>3
  <2> QED
    BY <1>7, <2>1, Parted
<1>9. Piece(Left(cells), 2 * (T + p))
  <2> SUFFICES ASSUME NEW i \in 1..(n - 2 * p)
               PROVE  Left(cells)[i] = Cell(2 * (T + p) + i)
    BY ZenonT(40), <1>8 DEF Piece
  <2>1. i = 1 /\ n = 2 * p + 1
    BY <1>3
  <2>2. Left(cells)[1] = cells[2 * p + 1]
    BY <1>1, <1>7, <2>1
  <2>3. 2 * p + 1 \in 1..Len(cells) /\ 2 * T + (2 * p + 1) = 2 * (T + p) + 1
    BY <1>1, <2>1
  <2> QED
    BY <2>1, <2>2, <2>3 DEF Piece
<1> QED
  BY <1>1, <1>2, <1>6, <1>8, <1>9

\* The sizes of an output in flow.
LEMMA FlowSizes ==
    ASSUME Typed, NEW air \in Seq(Cells), Flow(air)
    PROVE  /\ dev.made \in Nat /\ dev.made <= MaxOutput /\ dev.v2 \in BOOLEAN /\ dev.out \in Seq(Cells)
           /\ Len(told) \in Nat /\ Len(v2buf) \in Nat /\ Len(air) \in Nat /\ Len(dev.out) \in Nat
           /\ Done \in Nat /\ (dev.v2 => Done = 2 * Len(told)) /\ (~dev.v2 => Done = Len(told))
           /\ dev.v2 => Done + Len(v2buf) + Len(air) <= 2 * dev.made + 2
           /\ ~dev.v2 => Len(v2buf) = 0 /\ Done + Len(air) <= dev.made
<1>1. /\ dev.made \in Nat /\ dev.made <= MaxOutput /\ dev.v2 \in BOOLEAN /\ dev.out \in Seq(Cells)
  BY AdbShellAssumption DEF Typed, Device
<1>2. Len(told) \in Nat /\ Len(v2buf) \in Nat /\ Len(air) \in Nat /\ Len(dev.out) \in Nat
  BY <1>1 DEF Typed
<1>3. Done \in Nat /\ (dev.v2 => Done = 2 * Len(told)) /\ (~dev.v2 => Done = Len(told))
  BY <1>2 DEF Done
<1>4. PICK b, a, o, M, D \in Nat :
          b = Len(v2buf) /\ a = Len(air) /\ o = Len(dev.out) /\ M = dev.made /\ D = Done
  BY <1>1, <1>2, <1>3
<1>5. dev.v2 => D + b + a <= 2 * M + 2
  <2>1. dev.v2 => \/ Done + Len(v2buf) + Len(air) + Len(dev.out) = 2 * dev.made
                  \/ Done + Len(v2buf) + Len(air) + Len(dev.out) = 2 * dev.made + 2
    BY ZenonT(40) DEF Flow
  <2>2. dev.v2 => D + b + a + o = 2 * M \/ D + b + a + o = 2 * M + 2
    BY ZenonT(40), <1>4, <2>1
  <2> QED
    BY <2>2
<1>6. ~dev.v2 => b = 0 /\ D + a <= M
  <2>1. ~dev.v2 => /\ Done + Len(v2buf) + Len(air) + Len(dev.out) = dev.made
                   /\ v2buf = <<>>
    BY ZenonT(40) DEF Flow
  <2>2. ~dev.v2 => D + b + a + o = M /\ v2buf = <<>>
    BY ZenonT(40), <1>4, <2>1
  <2>3. v2buf = <<>> => b = 0
    BY <1>4
  <2> QED
    BY <2>2, <2>3
<1> QED
  BY <1>1, <1>2, <1>3, <1>4, <1>5, <1>6

\* A flow in which nothing is under way.
LEMMA Landed ==
    ASSUME Typed, NEW air \in Seq(Cells), Flow(air), dev' = dev,
           NEW n \in Nat, told' \in Seq(0..MaxOutput), Len(told') = Len(told) + n,
           \A i \in 1..Len(told) : told'[i] = told[i],
           \A i \in 1..n : told'[Len(told) + i] = Num(Len(told) + i),
           v2buf' \in Seq(Cells), Len(v2buf') <= 1, ~dev.v2 => v2buf' = <<>>,
           NEW d \in Nat, d = Done', Piece(v2buf', d), d + Len(v2buf') = Done + Len(v2buf) + Len(air),
           closed' <=> Len(told') = dev.made + 1
    PROVE  Flow(<<>>)'
<1>1. \A k : Num(k)' = Num(k)
  BY DEF Num
<1>2. \A k : Cell(k)' = Cell(k)
  BY ZenonT(40), <1>1 DEF Cell
<1>3. /\ dev.made \in Nat /\ dev.v2 \in BOOLEAN /\ dev.out \in Seq(Cells)
      /\ Len(told) \in Nat /\ Len(v2buf) \in Nat /\ Len(air) \in Nat /\ Len(dev.out) \in Nat
      /\ Done \in Nat
  BY FlowSizes
<1>4. \A k \in 1..Len(told') : told'[k] = Num(k)
  <2> SUFFICES ASSUME NEW k \in 1..Len(told')
               PROVE  told'[k] = Num(k)
    OBVIOUS
  <2>1. CASE k <= Len(told)
    <3>1. k \in 1..Len(told)
      BY <1>3, <2>1
    <3> QED
      BY <3>1 DEF Flow
  <2>2. CASE ~(k <= Len(told))
    <3>1. k - Len(told) \in 1..n /\ k = Len(told) + (k - Len(told))
      BY <1>3, <2>2
    <3> QED
      BY <3>1
  <2> QED
    BY <2>1, <2>2
<1>5. Len(v2buf') \in Nat
  OBVIOUS
<1>6. Piece(v2buf, Done)' /\ Piece(<<>>, Done + Len(v2buf))'
  BY <1>2 DEF Piece
<1>8. Done' + Len(v2buf') + Len(<<>>) = Done + Len(v2buf) + Len(air)
  BY <1>3, <1>5
<1>7. Piece(dev.out, Done + Len(v2buf) + Len(<<>>))'
  BY <1>2, <1>8 DEF Flow, Piece
<1>9. \A k \in 1..Len(told') : told'[k] = Num(k)'
  BY <1>1, <1>4
<1> QED
  BY <1>6, <1>7, <1>8, <1>9 DEF Flow

\* handleV2, and its counterpart of a legacy shell, on a WRTE's data: the output
\* told goes on in order, and `closed' is set with the exit.
LEMMA Delivered ==
    ASSUME Typed, NEW air \in Seq(Cells), Flow(air), v2 = dev.v2, dev' = dev,
           IF v2
           THEN /\ v2buf' = Left(v2buf \o air)
                /\ told' = told \o Packets(v2buf \o air)
                /\ closed' = (closed \/ \E i \in DOMAIN Packets(v2buf \o air) : Packets(v2buf \o air)[i] = 0)
           ELSE /\ told' = told \o [i \in 1..Len(air) |-> air[i][2]]
                /\ UNCHANGED <<v2buf, closed>>
    PROVE  /\ Flow(<<>>)' /\ v2buf' \in Seq(Cells) /\ told' \in Seq(0..MaxOutput) /\ closed' \in BOOLEAN
           /\ closed => closed'
           /\ Told'
<1>1. /\ dev.made \in Nat /\ dev.made <= MaxOutput /\ dev.v2 \in BOOLEAN /\ dev.out \in Seq(Cells)
      /\ Len(told) \in Nat /\ Len(v2buf) \in Nat /\ Len(air) \in Nat /\ Len(dev.out) \in Nat
      /\ Done \in Nat /\ (dev.v2 => Done = 2 * Len(told)) /\ (~dev.v2 => Done = Len(told))
      /\ dev.v2 => Done + Len(v2buf) + Len(air) <= 2 * dev.made + 2
      /\ ~dev.v2 => Len(v2buf) = 0 /\ Done + Len(air) <= dev.made
  BY FlowSizes
<1>2. told \in Seq(0..MaxOutput) /\ v2buf \in Seq(Cells) /\ closed \in BOOLEAN
  BY DEF Typed
<1>3. closed <=> Len(told) = dev.made + 1
  BY DEF Flow
<1>4. CASE dev.v2
  <2>1. PICK cells \in Seq(Cells) : cells = v2buf \o air
    BY ZenonT(40), <1>2, Joined
  <2>2. Len(cells) = Len(v2buf) + Len(air)
    BY <1>2, <2>1, Joined
  <2>3. Piece(v2buf, 2 * Len(told)) /\ Piece(air, 2 * Len(told) + Len(v2buf))
    BY <1>1, <1>4 DEF Flow
  <2>4. Piece(cells, 2 * Len(told))
    <3>1. 2 * Len(told) \in Nat
      BY <1>1
    <3> QED
      BY <1>2, <2>1, <2>3, <3>1, PieceJoined
  <2>5. PICK n, p, T, M \in Nat :
            n = Len(cells) /\ p = Len(cells) \div 2 /\ T = Len(told) /\ M = dev.made
    <3>1. Len(cells) \in Nat /\ Len(cells) \div 2 \in Nat
      BY <1>1, <2>2
    <3> QED
      BY <1>1, <3>1
  <2>6. Len(cells) = 2 * p \/ Len(cells) = 2 * p + 1
    <3>1. p = n \div 2
      BY <2>5
    <3>2. n = 2 * p \/ n = 2 * p + 1
      BY <3>1
    <3> QED
      BY <2>5, <3>2
  <2>7. PICK new \in Seq(0..MaxOutput) : new = Packets(cells)
    BY <1>1, <1>4, <2>4, Unpacked
  <2>8. /\ Len(new) = p /\ \A i \in 1..p : new[i] = Num(Len(told) + i)
        /\ Left(cells) \in Seq(Cells) /\ Len(Left(cells)) = Len(cells) - 2 * p
        /\ Piece(Left(cells), 2 * (Len(told) + p))
    BY ZenonT(40), <1>1, <1>4, <2>4, <2>5, <2>7, Unpacked
  <2>9. /\ v2buf' = Left(cells) /\ told' = told \o new
        /\ closed' = (closed \/ \E i \in 1..p : new[i] = 0)
    <3>1. DOMAIN new = 1..p
      BY <2>8
    <3>2. /\ v2buf' = Left(cells) /\ told' = told \o new
          /\ closed' = (closed \/ \E i \in DOMAIN new : new[i] = 0)
      BY <1>4, <2>1, <2>7
    <3> QED
      BY <3>1, <3>2
  <2>10. /\ told' \in Seq(0..MaxOutput) /\ Len(told') = Len(told) + p
         /\ \A i \in 1..Len(told) : told'[i] = told[i]
         /\ \A i \in 1..p : told'[Len(told) + i] = Num(Len(told) + i)
    <3>1. /\ told \o new \in Seq(0..MaxOutput) /\ Len(told \o new) = Len(told) + Len(new)
          /\ \A i \in 1..Len(told) : (told \o new)[i] = told[i]
          /\ \A i \in 1..Len(new) : (told \o new)[Len(told) + i] = new[i]
      BY <1>2, Joined
    <3> QED
      BY <2>8, <2>9, <3>1
  <2>11. Len(told) + p <= dev.made + 1
    <3>1. 2 * T + n <= 2 * M + 2 /\ (n = 2 * p \/ n = 2 * p + 1)
      BY <1>1, <1>4, <2>2, <2>5, <2>6
    <3>2. T + p <= M + 1
      BY <3>1
    <3> QED
      BY <2>5, <3>2
  <2>12. closed' <=> Len(told') = dev.made + 1
    <3>1. T + p <= M + 1 /\ (closed <=> T = M + 1) /\ (Len(told') = dev.made + 1 <=> T + p = M + 1)
      BY <1>3, <2>5, <2>10, <2>11
    <3>2. \A i \in 1..p : new[i] = 0 <=> T + i = M + 1
      <4> SUFFICES ASSUME NEW i \in 1..p
                   PROVE  new[i] = 0 <=> T + i = M + 1
        OBVIOUS
      <4>1. new[i] = IF T + i <= M THEN T + i ELSE 0
        BY <2>5, <2>8 DEF Num
      <4>2. T + i # 0 /\ T + i <= M + 1 /\ T + i \in Nat
        BY <3>1
      <4> QED
        BY <4>1, <4>2
    <3>3. (\E i \in 1..p : new[i] = 0) <=> (p # 0 /\ T + p = M + 1)
      <4>1. (\E i \in 1..p : T + i = M + 1) <=> (p # 0 /\ T + p = M + 1)
        <5>1. ASSUME NEW i \in 1..p, T + i = M + 1
              PROVE  p # 0 /\ T + p = M + 1
          BY <3>1, <5>1
        <5>2. p # 0 => p \in 1..p
          OBVIOUS
        <5> QED
          BY <5>1, <5>2
      <4> QED
        BY ZenonT(40), <3>2, <4>1
    <3>4. T = M + 1 => T + p = M + 1
      BY <3>1
    <3>5. p = 0 => (T = M + 1 <=> T + p = M + 1)
      OBVIOUS
    <3> QED
      BY ZenonT(40), <2>9, <3>1, <3>3, <3>4, <3>5
  <2>13. PICK d \in Nat : d = 2 * (Len(told) + p)
    BY <1>1
  <2>14. d = Done'
    BY <1>4, <2>10, <2>13 DEF Done
  <2>15. /\ v2buf' \in Seq(Cells) /\ Len(v2buf') <= 1 /\ Piece(v2buf', d)
         /\ d + Len(v2buf') = Done + Len(v2buf) + Len(air)
    <3>1. /\ v2buf' \in Seq(Cells) /\ Piece(v2buf', d) /\ Len(v2buf') = n - 2 * p
          /\ Done + Len(v2buf) + Len(air) = 2 * T + n /\ d = 2 * (T + p)
          /\ n = 2 * p \/ n = 2 * p + 1
      <4>1. Done + Len(v2buf) + Len(air) = 2 * T + n
        BY <1>1, <1>4, <2>2, <2>5
      <4> QED
        BY ZenonT(40), <2>5, <2>6, <2>8, <2>9, <2>13, <4>1
    <3>2. n - 2 * p <= 1 /\ 2 * (T + p) + (n - 2 * p) = 2 * T + n
      BY <3>1
    <3> QED
      BY <3>1, <3>2
  <2>16. Flow(<<>>)'
    BY ZenonT(40), <1>4, <2>10, <2>12, <2>14, <2>15, Landed
  <2>17. Told'
    <3>1. PICK m \in Nat : m = Len(told')
      BY <1>1, <2>10
    <3>2. m <= dev.made + 1 /\ (closed' <=> m = dev.made + 1)
      BY <2>10, <2>11, <2>12, <3>1
    <3>3. \A k \in 1..m : told'[k] = IF k <= dev.made THEN k ELSE 0
      BY <2>16, <3>1 DEF Flow, Num
    <3>4. \A k \in 1..m : told'[k] = k \/ (told'[k] = 0 /\ k = m /\ closed')
      BY <1>1, <3>2, <3>3, FlowTold
    <3> QED
      BY <3>1, <3>4 DEF Told
  <2> QED
    BY <1>2, <2>9, <2>10, <2>15, <2>16, <2>17
<1>5. CASE ~dev.v2
  <2>1. Piece(air, Len(told)) /\ v2buf = <<>>
    BY <1>1, <1>5 DEF Flow
  <2>2. PICK new : new = [i \in 1..Len(air) |-> air[i][2]]
    BY ZenonT(40)
  <2>3. ASSUME NEW i \in 1..Len(air)
        PROVE  new[i] \in 0..MaxOutput /\ new[i] = Num(Len(told) + i)
    <3>1. air[i] = Cell(Len(told) + i) /\ air[i] \in Cells
      BY <2>1 DEF Piece
    <3>2. Len(told) + i \in Nat \ {0}
      BY <1>1
    <3>3. Cell(Len(told) + i) = <<"body", Num(Len(told) + i)>>
      BY <1>5, <3>2, CellNumber
    <3> QED
      BY <2>2, <3>1, <3>3 DEF Cells
  <2>4. new \in Seq(0..MaxOutput) /\ Len(new) = Len(air)
    BY <1>1, <2>2, <2>3
  <2>5. told' = told \o new /\ v2buf' = <<>> /\ closed' = closed
    BY ZenonT(40), <1>5, <2>1, <2>2
  <2>6. /\ told' \in Seq(0..MaxOutput) /\ Len(told') = Len(told) + Len(air)
        /\ \A i \in 1..Len(told) : told'[i] = told[i]
        /\ \A i \in 1..Len(air) : told'[Len(told) + i] = Num(Len(told) + i)
    BY <1>2, <2>3, <2>4, <2>5, Joined
  <2>7. Len(told') <= dev.made /\ (closed' <=> Len(told') = dev.made + 1)
    BY <1>1, <1>3, <1>5, <2>5, <2>6
  <2>8. PICK d \in Nat : d = Len(told) + Len(air)
    BY <1>1
  <2>9. d = Done'
    BY <1>5, <2>6, <2>8 DEF Done
  <2>10. /\ v2buf' \in Seq(Cells) /\ Len(v2buf') <= 1 /\ Piece(v2buf', d)
         /\ d + Len(v2buf') = Done + Len(v2buf) + Len(air)
    BY <1>1, <1>5, <2>1, <2>5, <2>8 DEF Piece
  <2>11. Flow(<<>>)'
    BY ZenonT(40), <1>1, <1>5, <2>5, <2>6, <2>7, <2>9, <2>10, Landed
  <2>12. Told'
    <3>1. PICK n \in Nat : n = Len(told')
      BY <1>1, <2>6
    <3>2. n <= dev.made + 1 /\ (closed' <=> n = dev.made + 1)
      BY <1>1, <2>7, <3>1
    <3>3. \A k \in 1..n : told'[k] = IF k <= dev.made THEN k ELSE 0
      BY <2>11, <3>1 DEF Flow, Num
    <3>4. \A k \in 1..n : told'[k] = k \/ (told'[k] = 0 /\ k = n /\ closed')
      BY <1>1, <3>2, <3>3, FlowTold
    <3> QED
      BY <3>1, <3>4 DEF Told
  <2> QED
    BY <1>2, <2>5, <2>6, <2>10, <2>11, <2>12
<1> QED
  BY <1>1, <1>4, <1>5

\* What parse slices out of inbuf is all the data of the message.
LEMMA WholeSlice ==
    ASSUME Received("WRTE"), Head(toHost).data \in Seq(Cells)
    PROVE  Slice = Head(toHost).data
<1> DEFINE d == Head(toHost).data
<1>1. Data(Head(toHost)) = d /\ inbuf > Len(d)
  BY DEF Received, Data
<1>2. Slice = SubSeq(d, 1, Len(d))
  BY <1>1, ZenonT(40) DEF Slice
<1>3. d \in Seq(Cells)
  OBVIOUS
<1> HIDE DEF d
<1>4. SubSeq(d, 1, Len(d)) = d
  BY <1>3
<1> QED
  BY <1>2, <1>4 DEF d

\* WRTE: the output is told, and the WRTE acknowledged.
LEMMA OnWrteStep ==
    ASSUME IInv, OnWrte
    PROVE  IInv'
<1>1. /\ ws = "open" /\ ws' = "open" /\ toHost # <<>> /\ Head(toHost).cmd = "WRTE"
      /\ toHost' = Tail(toHost) /\ toDev' = Append(toDev, [cmd |-> "OKAY"])
      /\ ready' = ready /\ v2' = v2 /\ writing' = writing
      /\ outq' = outq /\ resizePending' = resizePending /\ size' = size
      /\ typed' = typed /\ dev' = dev
  BY DEF OnWrte, Received
<1>2. Typed /\ Open
  BY <1>1 DEF IInv
<1>3. /\ Tail(toHost) \in Seq(ToClient) /\ Len(toHost) \in Nat \ {0} /\ Head(toHost) = toHost[1]
      /\ Len(Tail(toHost)) = Len(toHost) - 1
      /\ \A i \in 1..(Len(toHost) - 1) : Tail(toHost)[i] = toHost[i + 1]
  BY <1>1, <1>2, Tailed DEF Typed
<1>4. 1 \in 1..Len(toHost) /\ toHost[1].cmd = "WRTE"
  BY <1>1, <1>3
<1>5. ready /\ Streaming
  BY <1>1, <1>2, <1>4 DEF Open, Greeting
<1>6. PICK air \in Airs(toHost) : InAir(air, toHost) /\ Flow(air)
  BY <1>2 DEF Open, Output
<1>7. air \in Seq(Cells) /\ air = Head(toHost).data
  BY <1>2, <1>3, <1>4, <1>6, AirType DEF Typed, InAir
<1>8. Slice = air
  BY <1>7, WholeSlice DEF OnWrte
<1>9. /\ Flow(<<>>)' /\ v2buf' \in Seq(Cells) /\ told' \in Seq(0..MaxOutput) /\ closed' \in BOOLEAN
      /\ closed => closed'
      /\ Told'
  <2>1. IF v2
        THEN /\ v2buf' = Left(v2buf \o air)
             /\ told' = told \o Packets(v2buf \o air)
             /\ closed' = (closed \/ \E i \in DOMAIN Packets(v2buf \o air) : Packets(v2buf \o air)[i] = 0)
        ELSE /\ told' = told \o [i \in 1..Len(air) |-> air[i][2]]
             /\ UNCHANGED <<v2buf, closed>>
    BY ZenonT(40), <1>8 DEF OnWrte
  <2> QED
    BY ZenonT(40), <1>1, <1>2, <1>5, <1>6, <1>7, <2>1, Delivered DEF Streaming
<1>10. PICK m \in ToDevice : m = [cmd |-> "OKAY"] /\ m.cmd = "OKAY"
  BY Plain
<1>11. /\ toDev' \in Seq(ToDevice) /\ Len(toDev') = Len(toDev) + 1 /\ Len(toDev) \in Nat
       /\ \A i \in 1..Len(toDev) : toDev'[i] = toDev[i]
       /\ toDev'[Len(toDev) + 1] = m
  BY <1>1, <1>2, <1>10, Appended DEF Typed
<1>12. \A i \in 1..Len(toDev') : i \in 1..Len(toDev) \/ i = Len(toDev) + 1
  BY <1>11
<1>13. 1..Len(toDev) \subseteq 1..Len(toDev')
  BY <1>11
<1>14. Typed' /\ Settled'
  BY <1>1, <1>2, <1>3, <1>9, <1>11 DEF IInv, Typed, Settled
<1>15. Streaming'
  <2>1. \A i \in 1..Len(toHost') : i + 1 \in 1..Len(toHost) /\ toHost'[i] = toHost[i + 1]
    BY <1>1, <1>3
  <2> QED
    BY <1>1, <1>5, <1>10, <1>11, <1>12, <2>1 DEF Streaming
<1>16. Absent(toHost', "WRTE")
  BY ZenonT(40), <1>1, <1>2, TailCount DEF Typed, Open, DevAcks
<1>17. Acks(ready, writing, toDev, toHost)'
  <2>1. /\ AtMostOne(toHost, "OKAY") => AtMostOne(toHost', "OKAY")
        /\ Absent(toHost, "OKAY") => Absent(toHost', "OKAY")
        /\ ~Absent(toHost, "OKAY") => ~Absent(toHost', "OKAY")
    BY <1>1, <1>2, TailCount DEF Typed
  <2>2. /\ AtMostOne(toDev, "WRTE") => AtMostOne(toDev', "WRTE")
        /\ Absent(toDev, "WRTE") => Absent(toDev', "WRTE")
        /\ ~Absent(toDev, "WRTE") => ~Absent(toDev', "WRTE")
    BY <1>1, <1>2, <1>10, AppendCount DEF Typed
  <2> QED
    BY <1>1, <1>2, <1>5, <2>1, <2>2 DEF Open, Acks
<1>18. DevAcks(dev.busy, toDev, toHost)'
  <2>1. ~Absent(toHost, "WRTE")
    BY <1>4 DEF Absent
  <2>2. Absent(toDev, "OKAY") /\ AtMostOne(toDev, "OKAY") /\ dev.busy
    BY <1>2, <2>1 DEF Open, DevAcks
  <2>3. AtMostOne(toDev', "OKAY")
    BY <1>1, <1>2, <1>10, <2>2, AppendCount DEF Typed
  <2>4. AtMostOne(toHost', "WRTE")
    BY <1>16 DEF Absent, AtMostOne
  <2> QED
    BY <1>1, <1>16, <2>2, <2>3, <2>4 DEF DevAcks
<1>19. Output'
  <2>1. InAir(<<>>, toHost') /\ <<>> \in Airs(toHost')
    BY <1>16 DEF InAir, Airs, Absent
  <2> QED
    BY <1>9, <2>1 DEF Output, InAir, Airs, Absent
<1>20. (ready /\ ~closed => Window(resizePending, size, toDev))'
  <2>1. (\A i \in 1..Len(toDev') : ~IsWin(toDev'[i])) => \A i \in 1..Len(toDev) : ~IsWin(toDev[i])
    BY <1>11, <1>13
  <2>2. ASSUME Window(resizePending, size, toDev)
        PROVE  Window(resizePending, size, toDev)'
    <3>1. \A i \in 1..Len(toDev') : IsWin(toDev'[i]) => i \in 1..Len(toDev)
      BY <1>10, <1>11, <1>12 DEF IsWin
    <3> QED
      BY <1>1, <1>11, <2>1, <2>2, <3>1 DEF Window
  <2> QED
    BY <1>1, <1>2, <1>9, <2>2 DEF Open
<1>21. (dev.phase \in {"listen", "shell"} => Input(outq, typed, toDev))'
  <2>1. (\A i \in 1..Len(toDev') : ~IsInput(toDev'[i])) => \A i \in 1..Len(toDev) : ~IsInput(toDev[i])
    BY <1>11, <1>13
  <2>2. \A i \in 1..Len(toDev') : IsInput(toDev'[i]) => i \in 1..Len(toDev)
    BY <1>10, <1>11, <1>12 DEF IsInput
  <2> QED
    BY ZenonT(40), <1>1, <1>2, <1>11, <2>1, <2>2 DEF Open, Input
<1>22. Open'
  BY ZenonT(40), <1>1, <1>5, <1>15, <1>17, <1>18, <1>19, <1>20, <1>21 DEF Open
<1> QED
  BY <1>1, <1>9, <1>14, <1>22 DEF IInv

-----------------------------------------------------------------------------
(* The device.                                                             *)

\* A reply is a message.
LEMMA Replied ==
    ASSUME Typed, NEW m \in ToClient, Reply(m)
    PROVE  toHost' \in Seq(ToClient) /\ (ws = "open" => toHost' = Append(toHost, m))
BY Appended DEF Reply, Typed

\* Nothing has been made or sent yet.
LEMMA FreshFlow ==
    ASSUME told' = <<>>, v2buf' = <<>>, ~closed', dev'.out = <<>>, dev'.made = 0
    PROVE  Flow(<<>>)'
BY DEF Flow, Piece, Done

\* A state of the handshake in which the queues hold no WRTE and no OKAY but that
\* of OPEN.
LEMMA Greeted ==
    ASSUME IInv, Typed', Greeting', ws = "open", ~ready, toDev' = <<>>,
           Absent(toDev, "WRTE"), Absent(toHost', "WRTE"),
           UNCHANGED <<ws, client>>, dev'.got = dev.got, dev.phase \in {"listen", "shell"},
           dev'.out = <<>>, dev'.made = 0
    PROVE  IInv'
<1>1. /\ ws' = ws /\ ready' = ready /\ v2' = v2 /\ closed' = closed /\ writing' = writing
      /\ outq' = outq /\ resizePending' = resizePending /\ v2buf' = v2buf /\ size' = size
      /\ typed' = typed /\ told' = told
  BY DEF client
<1>2. Open /\ Greeting
  BY DEF IInv, Open
<1>3. Told' /\ Settled'
  BY <1>1 DEF IInv, Told, Settled
<1>4. Acks(ready, writing, toDev, toHost)'
  BY <1>1, <1>2, EmptyCount DEF Open, Acks
<1>5. DevAcks(dev.busy, toDev, toHost)'
  BY EmptyCount DEF DevAcks, Absent, AtMostOne
<1>6. Output'
  <2>1. Flow(<<>>)'
    BY <1>1, <1>2, FreshFlow DEF Greeting
  <2>2. InAir(<<>>, toHost') /\ <<>> \in Airs(toHost')
    BY DEF InAir, Airs, Absent
  <2> QED
    BY <2>1, <2>2 DEF Output, InAir, Airs, Absent
<1>7. Input(outq, typed, toDev)'
  <2>1. Input(outq, typed, toDev)
    BY <1>2 DEF Open
  <2>2. /\ \A i \in 1..Len(toDev) : ~IsInput(toDev[i])
        /\ \A i \in 1..Len(toDev') : ~IsInput(toDev'[i])
    BY DEF Absent, IsInput
  <2> QED
    BY ZenonT(40), <1>1, <2>1, <2>2 DEF Input
<1>8. Open'
  BY <1>1, <1>4, <1>5, <1>6, <1>7 DEF Open
<1> QED
  BY <1>1, <1>3, <1>8 DEF IInv

\* A message the device takes while the socket is open.
LEMMA DevTakes ==
    ASSUME IInv, NEW c, DevReceives(c)
    PROVE  /\ toDev' \in Seq(ToDevice) /\ Len(toDev) \in Nat \ {0} /\ Len(toDev') = Len(toDev) - 1
           /\ \A i \in 1..Len(toDev') : toDev'[i] = toDev[i + 1] /\ i + 1 \in 1..Len(toDev)
           /\ \A i \in 1..Len(toDev) : i = 1 \/ \E j \in 1..Len(toDev') : i = j + 1
           /\ Head(toDev) = toDev[1] /\ Head(toDev) \in ToDevice /\ toDev[1].cmd = c
           /\ 1 \in 1..Len(toDev)
           /\ ws # "connecting"
<1>1. toDev \in Seq(ToDevice) /\ toDev # <<>> /\ toDev' = Tail(toDev) /\ Head(toDev).cmd = c
  BY DEF IInv, Typed, DevReceives
<1>2. /\ toDev' \in Seq(ToDevice) /\ Len(toDev) \in Nat \ {0} /\ Len(toDev') = Len(toDev) - 1
      /\ \A i \in 1..(Len(toDev) - 1) : toDev'[i] = toDev[i + 1]
      /\ Head(toDev) = toDev[1] /\ Head(toDev) \in ToDevice
  BY <1>1, Tailed
<1>3. \A i \in 1..Len(toDev') : toDev'[i] = toDev[i + 1] /\ i + 1 \in 1..Len(toDev)
  BY <1>2
<1>4. ASSUME NEW i \in 1..Len(toDev), i # 1
      PROVE  \E j \in 1..Len(toDev') : i = j + 1
  <2>1. i - 1 \in 1..Len(toDev') /\ i = (i - 1) + 1
    BY <1>2, <1>4
  <2> QED
    BY <2>1
<1>5. ws # "connecting"
  BY <1>1 DEF IInv, Connecting
<1> QED
  BY <1>1, <1>2, <1>3, <1>4, <1>5

\* CNXN: the device answers it, or asks for a key.
LEMMA DevConnectStep ==
    ASSUME IInv, DevConnect
    PROVE  IInv'
<1>1. Typed /\ DevReceives("CNXN") /\ UNCHANGED <<ws, client>>
  BY DEF IInv, DevConnect
<1>2. /\ toDev' \in Seq(ToDevice) /\ Len(toDev) \in Nat \ {0} /\ Len(toDev') = Len(toDev) - 1
      /\ toDev[1].cmd = "CNXN" /\ 1 \in 1..Len(toDev) /\ ws # "connecting"
  BY <1>1, DevTakes
<1>3. PICK m \in ToClient : /\ Reply(m) /\ m.cmd \in {"CNXN", "AUTH"}
                            /\ dev' \in Device /\ (m.cmd = "CNXN" => m.v2 = dev'.v2)
                            /\ \E k \in BOOLEAN : dev' = [dev EXCEPT !.v2 = k]
  <2>1. CASE \E k \in BOOLEAN : dev' = [dev EXCEPT !.v2 = k] /\ Reply([cmd |-> "CNXN", v2 |-> k])
    <3>1. PICK k \in BOOLEAN : dev' = [dev EXCEPT !.v2 = k] /\ Reply([cmd |-> "CNXN", v2 |-> k])
      BY <2>1
    <3>2. PICK m : m = [cmd |-> "CNXN", v2 |-> k]
      BY ZenonT(40)
    <3>3. m \in ToClient /\ m.cmd = "CNXN" /\ m.v2 = k
      BY <3>2 DEF ToClient
    <3>4. dev' \in Device /\ dev'.v2 = k
      BY ZenonT(40), <1>1, <3>1 DEF Typed, Device
    <3> QED
      BY <3>1, <3>2, <3>3, <3>4
  <2>2. CASE Reply([cmd |-> "AUTH"]) /\ UNCHANGED dev
    <3>1. PICK m \in ToClient : m = [cmd |-> "AUTH"] /\ m.cmd = "AUTH"
      BY Plain
    <3>2. dev.v2 \in BOOLEAN /\ dev' = [dev EXCEPT !.v2 = dev.v2] /\ dev' \in Device
      BY <1>1, <2>2 DEF Typed, Device
    <3>3. Reply(m) /\ m.cmd # "CNXN"
      BY <2>2, <3>1
    <3> QED
      BY <3>1, <3>2, <3>3
  <2> QED
    BY ZenonT(40), <2>1, <2>2 DEF DevConnect
<1>4. /\ dev'.phase = dev.phase /\ dev'.out = dev.out /\ dev'.made = dev.made
      /\ dev'.busy = dev.busy /\ dev'.got = dev.got
  BY <1>1, <1>3 DEF Typed, Device
<1>5. Typed'
  <2>1. toHost' \in Seq(ToClient)
    BY <1>1, <1>3, Replied
  <2> QED
    BY <1>1, <1>2, <1>3, <2>1 DEF Typed, client
<1>6. CASE ws = "open"
  <2>1. Open /\ ~ready
    BY ZenonT(40), <1>2, <1>6 DEF IInv, Open, Streaming
  <2>2. Len(toDev) = 1 /\ toHost = <<>> /\ Fresh /\ Greeting
    BY <1>2, <2>1 DEF Open, Greeting
  <2>3. toDev' = <<>> /\ Len(toHost') = 1 /\ toHost'[1] = m
    <3>1. toHost' = Append(toHost, m) /\ toHost \in Seq(ToClient)
      BY <1>1, <1>3, <1>6, Replied DEF Typed
    <3> QED
      BY <1>2, <2>2, <3>1
  <2>4. Greeting'
    BY <1>1, <1>3, <1>4, <2>2, <2>3 DEF Greeting, Fresh, client
  <2>5. Absent(toDev, "WRTE") /\ Absent(toHost', "WRTE")
    BY <1>2, <1>3, <2>2, <2>3 DEF Absent
  <2> QED
    BY <1>1, <1>4, <1>5, <1>6, <2>1, <2>2, <2>3, <2>4, <2>5, Greeted DEF Fresh
<1>7. CASE ws # "open"
  <2>1. Told' /\ Settled'
    BY <1>1 DEF IInv, Told, Settled, client
  <2> QED
    BY <1>1, <1>2, <1>5, <1>7, <2>1, Offline
<1> QED
  BY <1>6, <1>7

\* OPEN: a shell, or a refusal.
LEMMA DevOpenStep ==
    ASSUME IInv, DevOpen
    PROVE  IInv'
<1>1. Typed /\ DevReceives("OPEN") /\ UNCHANGED <<ws, client>>
  BY DEF IInv, DevOpen
<1>2. /\ toDev' \in Seq(ToDevice) /\ Len(toDev) \in Nat \ {0} /\ Len(toDev') = Len(toDev) - 1
      /\ toDev[1].cmd = "OPEN" /\ 1 \in 1..Len(toDev) /\ ws # "connecting"
  BY <1>1, DevTakes
<1>3. PICK ph \in {"shell", "gone"}, m \in ToClient :
          /\ Reply(m) /\ dev' = [dev EXCEPT !.phase = ph]
          /\ m.cmd = IF ph = "shell" THEN "OKAY" ELSE "CLSE"
  <2>1. /\ [cmd |-> "OKAY"] \in ToClient /\ [cmd |-> "OKAY"].cmd = "OKAY"
        /\ [cmd |-> "CLSE"] \in ToClient /\ [cmd |-> "CLSE"].cmd = "CLSE"
    BY Plain
  <2>2. CASE dev' = [dev EXCEPT !.phase = "shell"] /\ Reply([cmd |-> "OKAY"])
    BY <2>1, <2>2
  <2>3. CASE dev' = [dev EXCEPT !.phase = "gone"] /\ Reply([cmd |-> "CLSE"])
    BY <2>1, <2>3
  <2> QED
    BY <2>2, <2>3 DEF DevOpen
<1>4. /\ dev' \in Device /\ dev'.phase = ph /\ dev'.out = dev.out /\ dev'.made = dev.made
      /\ dev'.busy = dev.busy /\ dev'.got = dev.got /\ dev'.v2 = dev.v2
  BY ZenonT(40), <1>1, <1>3 DEF Typed, Device
<1>5. Typed'
  <2>1. toHost' \in Seq(ToClient)
    BY <1>1, <1>3, Replied
  <2> QED
    BY <1>1, <1>2, <1>4, <2>1 DEF Typed, client
<1>6. CASE ws = "open"
  <2>1. Open /\ ~ready
    BY ZenonT(40), <1>2, <1>6 DEF IInv, Open, Streaming
  <2>2. Len(toDev) = 1 /\ toHost = <<>> /\ Fresh /\ Greeting /\ v2 = dev.v2
    BY <1>2, <2>1 DEF Open, Greeting
  <2>3. toDev' = <<>> /\ Len(toHost') = 1 /\ toHost'[1] = m
    <3>1. toHost' = Append(toHost, m) /\ toHost \in Seq(ToClient)
      BY <1>1, <1>3, <1>6, Replied DEF Typed
    <3> QED
      BY <1>2, <2>2, <3>1
  <2>4. Greeting'
    BY <1>1, <1>3, <1>4, <2>2, <2>3 DEF Greeting, Fresh, client
  <2>5. Absent(toDev, "WRTE") /\ Absent(toHost', "WRTE")
    BY <1>2, <1>3, <2>2, <2>3 DEF Absent
  <2> QED
    BY <1>1, <1>4, <1>5, <1>6, <2>1, <2>2, <2>3, <2>4, <2>5, Greeted DEF Fresh
<1>7. CASE ws # "open"
  <2>1. Told' /\ Settled'
    BY <1>1 DEF IInv, Told, Settled, client
  <2> QED
    BY <1>1, <1>2, <1>5, <1>7, <2>1, Offline
<1> QED
  BY <1>6, <1>7

\* What a WRTE's data adds to the input the shell has read.
LEMMA Read ==
    ASSUME NEW got \in Seq(1..MaxTyped), NEW m \in ToDevice, IsInput(m)
    PROVE  /\ got \o Bytes(m) \in Seq(1..MaxTyped)
           /\ got = [i \in 1..Len(got) |-> i] /\ m.from = Len(got) =>
                 /\ Len(got \o Bytes(m)) = m.to
                 /\ got \o Bytes(m) = [i \in 1..Len(got \o Bytes(m)) |-> i]
<1>1. PICK a, b \in 0..MaxTyped : a = m.from /\ b = m.to /\ a < b
  BY ZenonT(40) DEF IsInput, ToDevice
<1>2. PICK s : s = Bytes(m)
  OBVIOUS
<1>3. s = [i \in 1..(b - a) |-> a + i] /\ b - a \in Nat
  BY <1>1, <1>2, AdbShellAssumption DEF Bytes
<1>4. \A i \in 1..(b - a) : a + i \in 1..MaxTyped
  BY <1>1, AdbShellAssumption
<1>5. s \in Seq(1..MaxTyped) /\ Len(s) = b - a
  BY <1>3, <1>4
<1>6. PICK r \in Seq(1..MaxTyped) : r = got \o s
  BY ZenonT(40), <1>5, Joined
<1>7. /\ Len(r) = Len(got) + (b - a) /\ Len(got) \in Nat
      /\ \A i \in 1..Len(got) : r[i] = got[i]
      /\ \A i \in 1..(b - a) : r[Len(got) + i] = a + i
      /\ \A i \in 1..Len(r) : i \in 1..Len(got) \/ \E j \in 1..(b - a) : i = Len(got) + j
  <2>a. PICK S : got \in Seq(S) /\ s \in Seq(S)
    BY <1>5
  <2>1. /\ Len(got \o s) = Len(got) + Len(s) /\ Len(got) \in Nat
        /\ \A i \in 1..Len(got) : (got \o s)[i] = got[i]
        /\ \A i \in 1..Len(s) : (got \o s)[Len(got) + i] = s[i]
        /\ \A i \in 1..Len(got \o s) : i \in 1..Len(got) \/ \E j \in 1..Len(s) : i = Len(got) + j
    BY <2>a, Joined
  <2>2. \A i \in 1..(b - a) : s[i] = a + i
    BY <1>3
  <2> QED
    BY <1>5, <1>6, <2>1, <2>2
<1>8. ASSUME got = [i \in 1..Len(got) |-> i], a = Len(got)
      PROVE  Len(r) = b /\ r = [i \in 1..Len(r) |-> i]
  <2>1. Len(r) = b
    BY <1>1, <1>7, <1>8
  <2>2. ASSUME NEW i \in 1..Len(r)
        PROVE  r[i] = i
    <3>1. CASE i \in 1..Len(got)
      BY <1>7, <1>8, <3>1
    <3>2. CASE \E j \in 1..(b - a) : i = Len(got) + j
      BY ZenonT(40), <1>7, <1>8, <3>2
    <3> QED
      BY ZenonT(40), <1>7, <3>1, <3>2
  <2> QED
    BY <2>1, <2>2
<1> QED
  BY <1>1, <1>2, <1>6, <1>8

\* WRTE: the shell takes its input or its size, and acknowledges it.
LEMMA DevTakeStep ==
    ASSUME IInv, DevTake
    PROVE  IInv'
<1>1. /\ Typed /\ DevReceives("WRTE") /\ toDev # <<>> /\ toDev' = Tail(toDev)
      /\ Head(toDev).cmd = "WRTE" /\ toDev \in Seq(ToDevice)
      /\ ws' = ws /\ ready' = ready /\ v2' = v2 /\ closed' = closed /\ writing' = writing
      /\ outq' = outq /\ resizePending' = resizePending /\ v2buf' = v2buf /\ size' = size
      /\ typed' = typed /\ told' = told
  BY DEF IInv, DevTake, client, DevReceives, Typed
<1>2. /\ toDev' \in Seq(ToDevice) /\ Len(toDev) \in Nat \ {0} /\ Len(toDev') = Len(toDev) - 1
      /\ \A i \in 1..Len(toDev') : toDev'[i] = toDev[i + 1] /\ i + 1 \in 1..Len(toDev)
      /\ \A i \in 1..Len(toDev) : i = 1 \/ \E j \in 1..Len(toDev') : i = j + 1
      /\ Head(toDev) = toDev[1] /\ toDev[1].cmd = "WRTE" /\ 1 \in 1..Len(toDev)
      /\ ws # "connecting"
  BY <1>1, DevTakes
<1>3. PICK m \in ToDevice : m = toDev[1]
  BY <1>1, <1>2, DevTakes
<1>4. m.win \in BOOLEAN /\ (m.win => m.size \in 0..MaxResize)
  BY ZenonT(40), <1>2, <1>3 DEF ToDevice
<1>5. dev' = IF dev.phase # "shell" THEN dev
             ELSE IF m.win THEN [dev EXCEPT !.size = m.size]
             ELSE [dev EXCEPT !.got = @ \o Bytes(m)]
  BY <1>2, <1>3 DEF DevTake
<1>6. /\ dev' \in Device /\ dev'.phase = dev.phase /\ dev'.v2 = dev.v2 /\ dev'.made = dev.made
      /\ dev'.out = dev.out /\ dev'.busy = dev.busy
      /\ dev.phase = "shell" /\ m.win => dev'.size = m.size /\ dev'.got = dev.got
      /\ dev.phase = "shell" /\ ~m.win => dev'.size = dev.size /\ dev'.got = dev.got \o Bytes(m)
  <2>1. dev \in Device
    BY <1>1 DEF Typed
  <2>2. CASE dev.phase # "shell"
    BY <1>5, <2>1, <2>2
  <2>3. CASE dev.phase = "shell" /\ m.win
    BY <1>4, <1>5, <2>1, <2>3 DEF Device
  <2>4. CASE dev.phase = "shell" /\ ~m.win
    <3>1. dev.got \o Bytes(m) \in Seq(1..MaxTyped)
      BY ZenonT(40), <1>2, <1>3, <2>1, <2>4, Read DEF Device, IsInput
    <3> QED
      BY ZenonT(40), <1>5, <2>1, <2>4, <3>1 DEF Device
  <2> QED
    BY <1>4, <2>2, <2>3, <2>4
<1>7. PICK k \in ToClient : k = [cmd |-> "OKAY"] /\ k.cmd = "OKAY"
  BY Plain
<1>8. /\ dev.phase = "shell" => Reply(k)
      /\ dev.phase # "shell" => toHost' = toHost
  BY <1>7 DEF DevTake
<1>9. Typed'
  <2>1. toHost' \in Seq(ToClient)
    BY <1>1, <1>8, Replied DEF Typed
  <2> QED
    BY <1>1, <1>2, <1>6, <2>1 DEF Typed
<1>10. Told' /\ Settled'
  BY <1>1 DEF IInv, Told, Settled
<1>11. CASE ws = "open"
  <2>1. Open
    BY <1>11 DEF IInv
  <2>2. ready /\ Streaming
    BY <1>2, <2>1 DEF Open, Greeting
  <2>3. ~Absent(toDev, "WRTE")
    BY <1>2 DEF Absent
  <2>4. /\ AtMostOne(toDev, "WRTE") /\ AtMostOne(toHost, "OKAY") /\ Absent(toHost, "OKAY") /\ writing
    BY <2>1, <2>2, <2>3 DEF Open, Acks
  <2>5. /\ Absent(toDev', "WRTE") /\ AtMostOne(toDev', "WRTE")
        /\ AtMostOne(toDev, "OKAY") => AtMostOne(toDev', "OKAY")
        /\ Absent(toDev, "OKAY") => Absent(toDev', "OKAY")
    BY <1>1, <2>4, TailCount
  <2>6. /\ \A i \in 1..Len(toDev') : toDev'[i].cmd # "WRTE"
        /\ \A i \in 1..Len(toDev) : toDev[i].cmd = "WRTE" => i = 1
    BY <1>2, <2>4, <2>5 DEF Absent, AtMostOne
  <2>7. dev.phase = "shell" => toHost' = Append(toHost, k)
    BY <1>1, <1>8, <1>11, Replied
  <2>8. toHost \in Seq(ToClient)
    BY <1>1 DEF Typed
  <2>9. Streaming'
    <3>1. \A i \in 1..Len(toHost') : toHost'[i].cmd \in {"OKAY", "WRTE", "CLSE"}
      <4>1. CASE dev.phase # "shell"
        BY <1>8, <2>2, <4>1 DEF Streaming
      <4>2. CASE dev.phase = "shell"
        <5>1. /\ Len(toHost') = Len(toHost) + 1 /\ Len(toHost) \in Nat
              /\ \A i \in 1..Len(toHost) : toHost'[i] = toHost[i]
              /\ toHost'[Len(toHost) + 1] = k
          BY <2>7, <2>8, <4>2, Appended
        <5>2. \A i \in 1..Len(toHost') : i \in 1..Len(toHost) \/ i = Len(toHost) + 1
          BY <5>1
        <5> QED
          BY <1>7, <2>2, <5>1, <5>2 DEF Streaming
      <4> QED
        BY <4>1, <4>2
    <3> QED
      BY <1>1, <1>2, <1>6, <2>2, <3>1 DEF Streaming
  <2>10. Acks(ready, writing, toDev, toHost)'
    <3>1. CASE dev.phase # "shell"
      BY <1>1, <1>6, <1>8, <2>2, <2>4, <2>5, <3>1 DEF Acks
    <3>2. CASE dev.phase = "shell"
      <4>a. AtMostOne(Append(toHost, k), "OKAY") /\ ~Absent(Append(toHost, k), "OKAY")
        BY <1>7, <2>4, <2>8, AppendCount
      <4>1. AtMostOne(toHost', "OKAY") /\ ~Absent(toHost', "OKAY")
        BY ZenonT(40), <2>7, <3>2, <4>a
      <4> QED
        BY <1>1, <1>6, <2>2, <2>4, <2>5, <4>1 DEF Acks
    <3> QED
      BY <3>1, <3>2
  <2>11. DevAcks(dev.busy, toDev, toHost)'
    <3>1. /\ AtMostOne(toHost, "WRTE") => AtMostOne(toHost', "WRTE")
          /\ Absent(toHost, "WRTE") => Absent(toHost', "WRTE")
      <4>1. CASE dev.phase # "shell"
        BY <1>8, <4>1
      <4>2. CASE dev.phase = "shell"
        <5>1. /\ AtMostOne(toHost, "WRTE") => AtMostOne(Append(toHost, k), "WRTE")
              /\ Absent(toHost, "WRTE") => Absent(Append(toHost, k), "WRTE")
          BY <1>7, <2>8, AppendCount
        <5> QED
          BY ZenonT(40), <2>7, <4>2, <5>1
      <4> QED
        BY <4>1, <4>2
    <3> QED
      BY ZenonT(40), <1>6, <2>1, <2>5, <3>1 DEF Open, DevAcks
  <2>12. Output'
    <3>1. SameOutput
      BY <1>6 DEF SameOutput
    <3>2. UNCHANGED <<told, v2buf, closed>> /\ Output
      BY <1>1, <2>1 DEF Open
    <3>3. CASE dev.phase # "shell"
      BY <1>8, <3>1, <3>2, <3>3, OutputKept
    <3>4. CASE dev.phase = "shell"
      <4>1. \E n \in ToClient : n.cmd # "WRTE" /\ toHost' = Append(toHost, n)
        BY <1>7, <2>7, <3>4
      <4> QED
        BY <2>8, <3>1, <3>2, <4>1, OutputPassed
    <3> QED
      BY <3>3, <3>4
  <2>13. (ready /\ ~closed => Window(resizePending, size, toDev))'
    <3> SUFFICES ASSUME ~closed, v2, dev.phase = "shell", ~resizePending
                 PROVE  Window(resizePending, size, toDev)'
      BY <1>1, <1>6 DEF Window
    <3>1. Window(resizePending, size, toDev)
      BY <2>1, <2>2 DEF Open
    <3>2. \A i \in 1..Len(toDev') : ~IsWin(toDev'[i])
      BY <2>6 DEF IsWin
    <3>3. dev'.size = size
      <4>1. CASE m.win
        BY <1>2, <1>3, <1>6, <3>1, <4>1 DEF Window, IsWin
      <4>2. CASE ~m.win
        <5>1. \A i \in 1..Len(toDev) : ~IsWin(toDev[i])
          BY <1>3, <2>6, <4>2 DEF IsWin
        <5> QED
          BY <1>6, <3>1, <4>2, <5>1 DEF Window
      <4> QED
        BY <4>1, <4>2
    <3> QED
      BY <1>1, <3>2, <3>3 DEF Window
  <2>14. (dev.phase \in {"listen", "shell"} => Input(outq, typed, toDev))'
    <3> SUFFICES ASSUME dev.phase = "shell"
                 PROVE  Input(outq, typed, toDev)'
      BY <1>6, <2>2 DEF Streaming
    <3>1. Input(outq, typed, toDev)
      BY <2>1 DEF Open
    <3>2. \A i \in 1..Len(toDev') : ~IsInput(toDev'[i])
      BY <2>6 DEF IsInput
    <3>3. dev'.got = [i \in 1..Len(dev'.got) |-> i] /\ Len(dev'.got) = First(outq, typed)
      <4>1. CASE m.win
        <5>1. \A i \in 1..Len(toDev) : ~IsInput(toDev[i])
          BY <1>3, <2>6, <4>1 DEF IsInput
        <5> QED
          BY <1>6, <3>1, <4>1, <5>1 DEF Input
      <4>2. CASE ~m.win
        <5>1. IsInput(m) /\ m.from = Len(dev.got) /\ m.to = First(outq, typed)
          BY <1>2, <1>3, <3>1, <4>2 DEF Input, IsInput
        <5>2. dev.got \in Seq(1..MaxTyped) /\ dev.got = [i \in 1..Len(dev.got) |-> i]
          BY <1>1, <3>1 DEF Typed, Device, Input
        <5>3. /\ Len(dev.got \o Bytes(m)) = m.to
              /\ dev.got \o Bytes(m) = [i \in 1..Len(dev.got \o Bytes(m)) |-> i]
          BY ZenonT(40), <5>1, <5>2, Read
        <5> QED
          BY ZenonT(40), <1>6, <4>2, <5>1, <5>3
      <4> QED
        BY <4>1, <4>2
    <3> QED
      BY <1>1, <3>1, <3>2, <3>3 DEF Input, First, Chain
  <2>15. Open'
    BY ZenonT(40), <1>1, <2>2, <2>9, <2>10, <2>11, <2>12, <2>13, <2>14 DEF Open
  <2> QED
    BY <1>1, <1>9, <1>10, <1>11, <2>15 DEF IInv
<1>12. CASE ws # "open"
  BY <1>1, <1>2, <1>9, <1>10, <1>12, Offline
<1> QED
  BY <1>11, <1>12

\* OKAY: the device may send again.
LEMMA DevAckedStep ==
    ASSUME IInv, DevAcked
    PROVE  IInv'
<1>1. /\ Typed /\ DevReceives("OKAY") /\ toDev # <<>> /\ toDev' = Tail(toDev)
      /\ Head(toDev).cmd = "OKAY" /\ toDev \in Seq(ToDevice) /\ dev' = [dev EXCEPT !.busy = FALSE]
      /\ toHost' = toHost
      /\ ws' = ws /\ ready' = ready /\ v2' = v2 /\ closed' = closed /\ writing' = writing
      /\ outq' = outq /\ resizePending' = resizePending /\ v2buf' = v2buf /\ size' = size
      /\ typed' = typed /\ told' = told
  BY DEF IInv, DevAcked, client, DevReceives, Typed
<1>2. /\ toDev' \in Seq(ToDevice) /\ Len(toDev) \in Nat \ {0} /\ Len(toDev') = Len(toDev) - 1
      /\ \A i \in 1..Len(toDev') : toDev'[i] = toDev[i + 1] /\ i + 1 \in 1..Len(toDev)
      /\ \A i \in 1..Len(toDev) : i = 1 \/ \E j \in 1..Len(toDev') : i = j + 1
      /\ toDev[1].cmd = "OKAY" /\ 1 \in 1..Len(toDev) /\ ws # "connecting"
  BY <1>1, DevTakes
<1>3. /\ dev' \in Device /\ dev'.phase = dev.phase /\ dev'.v2 = dev.v2 /\ dev'.made = dev.made
      /\ dev'.out = dev.out /\ ~dev'.busy /\ dev'.size = dev.size /\ dev'.got = dev.got
  BY ZenonT(40), <1>1 DEF Typed, Device
<1>4. Typed' /\ Told' /\ Settled'
  BY <1>1, <1>2, <1>3 DEF IInv, Typed, Told, Settled
<1>5. CASE ws = "open"
  <2>1. Open
    BY <1>5 DEF IInv
  <2>2. ready /\ Streaming
    BY <1>2, <2>1 DEF Open, Greeting
  <2>3. Streaming'
    BY <1>1, <1>2, <1>3, <2>2 DEF Streaming
  <2>4. /\ AtMostOne(toDev, "WRTE") => AtMostOne(toDev', "WRTE")
        /\ Absent(toDev, "WRTE") => Absent(toDev', "WRTE")
        /\ ~Absent(toDev, "WRTE") => ~Absent(toDev', "WRTE")
        /\ AtMostOne(toDev, "OKAY") => AtMostOne(toDev', "OKAY") /\ Absent(toDev', "OKAY")
    BY <1>1, TailCount
  <2>5. Acks(ready, writing, toDev, toHost)'
    BY <1>1, <1>3, <2>1, <2>2, <2>4 DEF Open, Acks
  <2>6. DevAcks(dev.busy, toDev, toHost)'
    <3>1. ~Absent(toDev, "OKAY")
      BY <1>2 DEF Absent
    <3> QED
      BY <1>1, <2>1, <2>4, <3>1 DEF Open, DevAcks
  <2>7. Output'
    <3>1. SameOutput /\ UNCHANGED <<toHost, told, v2buf, closed>> /\ Output
      BY <1>1, <1>3, <2>1 DEF SameOutput, Open
    <3> QED
      BY <3>1, OutputKept
  <2>8. (ready /\ ~closed => Window(resizePending, size, toDev))'
    <3>1. (\A i \in 1..Len(toDev') : ~IsWin(toDev'[i])) => \A i \in 1..Len(toDev) : ~IsWin(toDev[i])
      BY ZenonT(40), <1>2 DEF IsWin
    <3> QED
      BY <1>1, <1>2, <1>3, <2>1, <3>1 DEF Open, Window
  <2>9. (dev.phase \in {"listen", "shell"} => Input(outq, typed, toDev))'
    <3>1. (\A i \in 1..Len(toDev') : ~IsInput(toDev'[i])) => \A i \in 1..Len(toDev) : ~IsInput(toDev[i])
      BY ZenonT(40), <1>2 DEF IsInput
    <3> QED
      BY <1>1, <1>2, <1>3, <2>1, <3>1 DEF Open, Input
  <2>10. Open'
    BY ZenonT(40), <1>1, <2>2, <2>3, <2>5, <2>6, <2>7, <2>8, <2>9 DEF Open
  <2> QED
    BY <1>1, <1>4, <1>5, <2>10 DEF IInv
<1>6. CASE ws # "open"
  BY <1>1, <1>2, <1>4, <1>6, Offline
<1> QED
  BY <1>5, <1>6

\* CLSE: the client has closed the socket behind it.
LEMMA DevClosedStep ==
    ASSUME IInv, DevClosed
    PROVE  IInv'
<1>1. /\ Typed /\ DevReceives("CLSE") /\ dev' = [dev EXCEPT !.phase = "gone"]
      /\ toHost' = toHost
      /\ ws' = ws /\ ready' = ready /\ v2' = v2 /\ closed' = closed /\ writing' = writing
      /\ outq' = outq /\ resizePending' = resizePending /\ v2buf' = v2buf /\ size' = size
      /\ typed' = typed /\ told' = told
  BY DEF IInv, DevClosed, client
<1>2. /\ toDev' \in Seq(ToDevice) /\ toDev[1].cmd = "CLSE" /\ 1 \in 1..Len(toDev)
      /\ ws # "connecting"
  BY <1>1, DevTakes
<1>3. dev' \in Device
  BY ZenonT(40), <1>1 DEF Typed, Device
<1>4. Typed' /\ Told' /\ Settled'
  BY <1>1, <1>2, <1>3 DEF IInv, Typed, Told, Settled
<1>5. ws # "open"
  BY <1>2 DEF IInv, Open, Streaming, Greeting
<1> QED
  BY <1>1, <1>2, <1>4, <1>5, Offline

\* The shell makes output, or exits: only the device changes.
LEMMA DevMakes ==
    ASSUME IInv, dev.phase = "shell", UNCHANGED <<ws, toDev, toHost, client>>, dev' \in Device,
           dev'.phase \in {"shell", "exited"}, dev'.v2 = dev.v2, dev'.got = dev.got,
           dev'.size = dev.size, dev'.busy = dev.busy,
           \A air \in Seq(Cells) : Flow(air) => Flow(air)'
    PROVE  IInv'
<1>1. /\ toDev' = toDev /\ toHost' = toHost
      /\ ws' = ws /\ ready' = ready /\ v2' = v2 /\ closed' = closed /\ writing' = writing
      /\ outq' = outq /\ resizePending' = resizePending /\ v2buf' = v2buf /\ size' = size
      /\ typed' = typed /\ told' = told
  BY DEF client
<1>2. Typed' /\ Told' /\ Settled'
  BY <1>1 DEF IInv, Typed, Told, Settled
<1>3. ws # "connecting"
  BY DEF IInv, Connecting, Fresh
<1>4. ASSUME Open
      PROVE  Open'
  <2>1. (IF ready THEN Streaming ELSE Greeting)'
    BY ZenonT(40), <1>1, <1>4 DEF Open, Streaming, Greeting, Fresh
  <2>2. Acks(ready, writing, toDev, toHost)' /\ DevAcks(dev.busy, toDev, toHost)'
    BY ZenonT(40), <1>1, <1>4 DEF Open, Acks, DevAcks
  <2>3. Output'
    <3>1. PICK air \in Airs(toHost) : InAir(air, toHost) /\ Flow(air)
      BY ZenonT(40), <1>4 DEF Open, Output
    <3>2. air \in Seq(Cells)
      BY AirType DEF IInv, Typed
    <3>3. Flow(air)'
      BY <3>1, <3>2
    <3>4. air \in Airs(toHost') /\ InAir(air, toHost')
      BY <1>1, <3>1
    <3> QED
      BY ZenonT(40), <3>3, <3>4 DEF Output, Airs, InAir, Absent
  <2>4. (ready /\ ~closed => Window(resizePending, size, toDev))'
    BY ZenonT(40), <1>1, <1>4 DEF Open, Window
  <2>5. (dev.phase \in {"listen", "shell"} => Input(outq, typed, toDev))'
    BY ZenonT(40), <1>1, <1>4 DEF Open, Input
  <2> QED
    BY ZenonT(40), <2>1, <2>2, <2>3, <2>4, <2>5 DEF Open
<1> QED
  BY <1>1, <1>2, <1>3, <1>4 DEF IInv

\* The output grows at its end, and no cell of it changes.
LEMMA Grown ==
    ASSUME Typed, dev.phase = "shell", NEW air \in Seq(Cells), Flow(air),
           UNCHANGED <<told, v2buf, closed>>, dev'.v2 = dev.v2,
           NEW M \in Nat, dev'.made = M, M = dev.made \/ M = dev.made + 1,
           NEW N \in Nat, N = (IF dev.v2 THEN 2 * dev.made ELSE dev.made),
           NEW new \in Seq(Cells), dev'.out = dev.out \o new,
           \A i \in 1..Len(new) : new[i] = Cell(N + i)',
           IF dev.v2 THEN \/ N + Len(new) = 2 * M
                          \/ N + Len(new) = 2 * M + 2 /\ dev'.phase \in {"exited", "gone"}
           ELSE N + Len(new) = M
    PROVE  Flow(air)'
<1>1. PICK b, a, o, D, T, made \in Nat :
          /\ b = Len(v2buf) /\ a = Len(air) /\ o = Len(dev.out) /\ D = Done /\ T = Len(told)
          /\ made = dev.made
  BY ZenonT(40), FlowSizes
<1>a. /\ Piece(v2buf, D) /\ Piece(air, D + b) /\ Piece(dev.out, D + b + a)
      /\ closed <=> T = made + 1
  <2>1. /\ Piece(v2buf, Done) /\ Piece(air, Done + Len(v2buf))
        /\ Piece(dev.out, Done + Len(v2buf) + Len(air))
        /\ closed <=> Len(told) = dev.made + 1
    BY ZenonT(40) DEF Flow
  <2> QED
    BY ZenonT(40), <1>1, <2>1
<1>2. D + b + a + o = N
  BY ZenonT(40), <1>1 DEF Flow
<1>b. D + b <= N /\ (D + b) + a <= N /\ (D + b + a) + o <= N
  BY <1>2
<1>3. dev.out \in Seq(Cells) /\ dev.v2 \in BOOLEAN
  BY FlowSizes
<1>4. \A k \in 1..made : Num(k)' = Num(k)
  <2> SUFFICES ASSUME NEW k \in 1..made
               PROVE  Num(k)' = Num(k)
    OBVIOUS
  <2>1. k <= made /\ k <= M
    BY <1>1
  <2> QED
    BY <1>1, <2>1 DEF Num
<1>5. \A j \in 1..N : Cell(j)' = Cell(j)
  <2> SUFFICES ASSUME NEW j \in 1..N
               PROVE  Cell(j)' = Cell(j)
    OBVIOUS
  <2>1. CASE dev.v2
    <3>1. N = 2 * made
      BY <1>1, <2>1
    <3>2. /\ j % 2 = 1 => (j + 1) \div 2 \in 1..made
          /\ j % 2 # 1 => j \div 2 \in 1..made
      <4>1. PICK h \in Nat : h = j \div 2
        OBVIOUS
      <4>2. (j = 2 * h /\ j % 2 = 0) \/ (j = 2 * h + 1 /\ j % 2 = 1)
        BY <4>1
      <4>3. CASE j = 2 * h /\ j % 2 = 0
        BY <3>1, <4>1, <4>3
      <4>4. CASE j = 2 * h + 1 /\ j % 2 = 1
        <5>1. (j + 1) \div 2 = h + 1 /\ h + 1 \in 1..made
          BY <3>1, <4>4
        <5> QED
          BY <4>4, <5>1
      <4> QED
        BY <4>2, <4>3, <4>4
    <3> QED
      BY <1>4, <2>1, <3>2 DEF Cell
  <2>2. CASE ~dev.v2
    <3>1. j \in 1..made
      BY <1>1, <2>2
    <3> QED
      BY <1>4, <2>2, <3>1 DEF Cell
  <2> QED
    BY <2>1, <2>2
<1>6. T <= made
  <2>1. (dev.v2 => D = 2 * T /\ N = 2 * made) /\ (~dev.v2 => D = T /\ N = made)
    BY <1>1, <1>3 DEF Done
  <2> QED
    BY <1>2, <1>3, <2>1
<1>7. ASSUME NEW s \in Seq(Cells), NEW at \in Nat, Piece(s, at), at + Len(s) <= N
      PROVE  \A i \in 1..Len(s) : s[i] = Cell(at + i)'
  <2> SUFFICES ASSUME NEW i \in 1..Len(s)
               PROVE  s[i] = Cell(at + i)'
    OBVIOUS
  <2>1. Len(s) \in Nat /\ at + i \in 1..N
    <3>1. Len(s) \in Nat /\ i \in Int /\ 1 <= i /\ i <= Len(s)
      OBVIOUS
    <3> QED
      BY <1>7, <3>1
  <2>2. s[i] = Cell(at + i)
    BY <1>7 DEF Piece
  <2> QED
    BY <1>5, <2>1, <2>2
<1>8. Done' = D
  BY <1>1 DEF Done
<1>9. \A k \in 1..Len(told') : told'[k] = Num(k)'
  <2>1. \A k \in 1..Len(told) : k \in 1..made
    BY <1>1, <1>6
  <2> QED
    BY <1>4, <2>1 DEF Flow
<1>10. Piece(v2buf, Done)'
  <2>1. Piece(v2buf, D) /\ v2buf \in Seq(Cells) /\ D + Len(v2buf) <= N
    BY <1>1, <1>a, <1>b DEF Typed
  <2>2. \A i \in 1..Len(v2buf) : v2buf[i] = Cell(D + i)'
    BY ZenonT(40), <1>7, <2>1
  <2> QED
    BY <1>8, <2>2 DEF Piece
<1>11. Piece(air, Done + Len(v2buf))'
  <2>1. Piece(air, D + b) /\ (D + b) + Len(air) <= N /\ D + b \in Nat
    BY <1>1, <1>a, <1>b
  <2>2. \A i \in 1..Len(air) : air[i] = Cell(D + b + i)'
    BY ZenonT(40), <1>7, <2>1
  <2> QED
    BY ZenonT(40), <1>1, <1>8, <2>2 DEF Piece
<1>12. PICK r \in Seq(Cells) : r = dev'.out
  BY ZenonT(40), <1>3, Joined
<1>13. /\ Len(r) = o + Len(new) /\ Len(new) \in Nat
       /\ \A i \in 1..o : r[i] = dev.out[i]
       /\ \A i \in 1..Len(new) : r[o + i] = new[i]
       /\ \A i \in 1..Len(r) : i \in 1..o \/ \E j \in 1..Len(new) : i = o + j
  <2>1. /\ Len(dev.out \o new) = Len(dev.out) + Len(new) /\ Len(new) \in Nat
        /\ \A i \in 1..Len(dev.out) : (dev.out \o new)[i] = dev.out[i]
        /\ \A i \in 1..Len(new) : (dev.out \o new)[Len(dev.out) + i] = new[i]
        /\ \A i \in 1..Len(dev.out \o new) :
              i \in 1..Len(dev.out) \/ \E j \in 1..Len(new) : i = Len(dev.out) + j
    BY <1>3, Joined
  <2> QED
    BY <1>1, <1>12, <2>1
<1>14. \A i \in 1..Len(r) : r[i] = Cell(D + b + a + i)'
  <2> SUFFICES ASSUME NEW i \in 1..Len(r)
               PROVE  r[i] = Cell(D + b + a + i)'
    BY ZenonT(40)
  <2>1. CASE i \in 1..o
    <3>0. D + b + a \in Nat /\ Len(dev.out) = o
      BY <1>1
    <3>1. Piece(dev.out, D + b + a) /\ (D + b + a) + Len(dev.out) <= N /\ D + b + a \in Nat
      BY <1>a, <1>b, <3>0
    <3>2. \A j \in 1..Len(dev.out) : dev.out[j] = Cell(D + b + a + j)'
      BY ZenonT(40), <1>3, <1>7, <3>1
    <3> QED
      BY ZenonT(40), <1>1, <1>13, <2>1, <3>2
  <2>2. CASE \E j \in 1..Len(new) : i = o + j
    <3>1. PICK j \in 1..Len(new) : i = o + j
      BY <2>2
    <3>2. D + b + a + i = N + j
      BY <1>2, <3>1
    <3> QED
      BY <1>13, <3>1, <3>2
  <2> QED
    BY <1>13, <2>1, <2>2
<1>15. Piece(dev.out, Done + Len(v2buf) + Len(air))'
  BY ZenonT(40), <1>1, <1>8, <1>12, <1>14 DEF Piece
<1>16. Done' + Len(v2buf') + Len(air) + Len(dev'.out) = N + Len(new)
  <2>1. D + b + a + (o + Len(new)) = N + Len(new)
    BY <1>2, <1>13
  <2> QED
    BY ZenonT(40), <1>1, <1>8, <1>12, <1>13, <2>1
<1>17. Len(v2buf') <= 1 /\ (~dev'.v2 => v2buf' = <<>>)
  BY DEF Flow
<1>18. closed' <=> Len(told') = dev'.made + 1
  <2>1. (closed <=> T = made + 1) /\ T # made + 1 /\ T # M + 1
    <3>1. M = made \/ M = made + 1
      BY <1>1
    <3> QED
      BY <1>6, <1>a, <3>1
  <2> QED
    BY <1>1, <2>1
<1> QED
  BY <1>9, <1>10, <1>11, <1>15, <1>16, <1>17, <1>18 DEF Flow

\* A packet of the shell, cell by cell.
LEMMA PacketCells ==
    ASSUME NEW k \in 0..MaxOutput, dev.v2 \in BOOLEAN
    PROVE  /\ Packet(k) \in Seq(Cells)
           /\ dev.v2 => /\ Len(Packet(k)) = 2 /\ Packet(k)[1] = <<"head", k>>
                        /\ Packet(k)[2] = <<"body", k>>
           /\ ~dev.v2 => Len(Packet(k)) = 1 /\ Packet(k)[1] = <<"body", k>>
<1>1. <<"head", k>> \in Cells /\ <<"body", k>> \in Cells
  BY DEF Cells
<1>2. CASE dev.v2
  BY <1>1, <1>2 DEF Packet
<1>3. CASE ~dev.v2
  BY <1>1, <1>3 DEF Packet
<1> QED
  BY <1>2, <1>3

\* The numbers of the next packet's cells.
LEMMA NextCells ==
    ASSUME NEW m \in Nat
    PROVE  /\ (2 * m + 1) % 2 = 1 /\ ((2 * m + 1) + 1) \div 2 = m + 1
           /\ (2 * m + 2) % 2 = 0 /\ (2 * m + 2) \div 2 = m + 1
<1>1. (2 * m + 1) + 1 = 2 * (m + 1) /\ 2 * m + 2 = 2 * (m + 1)
  OBVIOUS
<1>2. (2 * (m + 1)) \div 2 = m + 1 /\ (2 * (m + 1)) % 2 = 0 /\ (2 * m + 1) % 2 = 1
  OBVIOUS
<1> QED
  BY <1>1, <1>2

\* The shell prints a packet.
LEMMA DevPrintsStep ==
    ASSUME IInv, DevPrints
    PROVE  IInv'
<1>1. /\ Typed /\ dev.phase = "shell" /\ dev.made < MaxOutput
      /\ dev' = [dev EXCEPT !.made = @ + 1, !.out = @ \o Packet(dev.made + 1)]
      /\ UNCHANGED <<ws, toDev, toHost, client>>
  BY DEF IInv, DevPrints
<1>2. /\ dev \in Device /\ dev.made \in Nat /\ dev.v2 \in BOOLEAN /\ dev.out \in Seq(Cells)
      /\ dev.made + 1 \in 0..MaxOutput
  BY <1>1, AdbShellAssumption DEF Typed, Device
<1>3. PICK new \in Seq(Cells) : new = Packet(dev.made + 1)
  BY <1>2, PacketCells
<1>4. dev.out \o new \in Seq(Cells)
  BY <1>2, Joined
<1>5. /\ dev' \in Device /\ dev'.phase = "shell" /\ dev'.v2 = dev.v2 /\ dev'.got = dev.got
      /\ dev'.size = dev.size /\ dev'.busy = dev.busy /\ dev'.made = dev.made + 1
      /\ dev'.out = dev.out \o new
  BY ZenonT(40), <1>1, <1>2, <1>3, <1>4 DEF Device
<1>6. ASSUME NEW air \in Seq(Cells), Flow(air)
      PROVE  Flow(air)'
  <2>1. PICK M \in Nat : M = dev.made + 1
    BY <1>2
  <2>2. PICK N \in Nat : N = IF dev.v2 THEN 2 * dev.made ELSE dev.made
    BY <1>2
  <2>3. Num(M)' = M
    BY <1>5, <2>1 DEF Num
  <2>4. /\ \A i \in 1..Len(new) : new[i] = Cell(N + i)'
        /\ IF dev.v2 THEN N + Len(new) = 2 * M ELSE N + Len(new) = M
    <3>1. CASE dev.v2
      <4>1. Len(new) = 2 /\ new[1] = <<"head", M>> /\ new[2] = <<"body", M>>
        BY <1>2, <1>3, <2>1, <3>1, PacketCells
      <4>2. Cell(N + 1)' = <<"head", M>> /\ Cell(N + 2)' = <<"body", M>>
        <5>1. N = 2 * dev.made
          BY <2>2, <3>1
        <5>2. /\ (N + 1) % 2 = 1 /\ ((N + 1) + 1) \div 2 = M
              /\ (N + 2) % 2 = 0 /\ (N + 2) \div 2 = M
          BY ZenonT(40), <1>2, <2>1, <5>1, NextCells
        <5> QED
          BY <1>5, <2>3, <3>1, <5>2 DEF Cell
      <4>3. \A i \in 1..Len(new) : i = 1 \/ i = 2
        BY <4>1
      <4>4. N + 2 = 2 * M
        BY <1>2, <2>1, <2>2, <3>1
      <4> QED
        BY ZenonT(40), <3>1, <4>1, <4>2, <4>3, <4>4
    <3>2. CASE ~dev.v2
      <4>1. Len(new) = 1 /\ new[1] = <<"body", M>>
        BY <1>2, <1>3, <2>1, <3>2, PacketCells
      <4>2. Cell(N + 1)' = <<"body", M>>
        BY <1>5, <2>1, <2>2, <2>3, <3>2 DEF Cell
      <4>3. \A i \in 1..Len(new) : i = 1
        BY <4>1
      <4> QED
        BY <2>1, <2>2, <3>2, <4>1, <4>2, <4>3
    <3> QED
      BY <1>2, <3>1, <3>2
  <2>5. UNCHANGED <<told, v2buf, closed>> /\ dev'.made = M
    BY <1>1, <1>5, <2>1 DEF client
  <2> QED
    BY ZenonT(40), <1>1, <1>5, <1>6, <2>1, <2>2, <2>4, <2>5, Grown
<1> QED
  BY <1>1, <1>5, <1>6, DevMakes

\* The shell exits: a v2 shell sends its status behind its output.
LEMMA DevExitsStep ==
    ASSUME IInv, DevExits
    PROVE  IInv'
<1>1. /\ Typed /\ dev.phase = "shell"
      /\ dev' = [dev EXCEPT !.phase = "exited", !.out = IF dev.v2 THEN @ \o Packet(0) ELSE @]
      /\ UNCHANGED <<ws, toDev, toHost, client>>
  BY DEF IInv, DevExits
<1>2. /\ dev \in Device /\ dev.made \in Nat /\ dev.v2 \in BOOLEAN /\ dev.out \in Seq(Cells)
      /\ 0 \in 0..MaxOutput
  BY <1>1, AdbShellAssumption DEF Typed, Device
<1>3. PICK new \in Seq(Cells) : (dev.v2 => new = Packet(0)) /\ (~dev.v2 => new = <<>>)
  <2>1. Packet(0) \in Seq(Cells) /\ <<>> \in Seq(Cells)
    BY <1>2, PacketCells
  <2> QED
    BY ZenonT(40), <2>1
<1>4. dev.out \o new \in Seq(Cells) /\ (~dev.v2 => dev.out \o new = dev.out)
  <2>1. dev.out \o <<>> = dev.out
    BY <1>2
  <2>2. dev.out \o new \in Seq(Cells)
    BY <1>2, Joined
  <2> QED
    BY <1>3, <2>1, <2>2
<1>5. /\ dev' \in Device /\ dev'.phase = "exited" /\ dev'.v2 = dev.v2 /\ dev'.got = dev.got
      /\ dev'.size = dev.size /\ dev'.busy = dev.busy /\ dev'.made = dev.made
      /\ dev'.out = dev.out \o new
  BY ZenonT(40), <1>1, <1>2, <1>3, <1>4 DEF Device
<1>6. ASSUME NEW air \in Seq(Cells), Flow(air)
      PROVE  Flow(air)'
  <2>1. PICK M \in Nat : M = dev.made
    BY <1>2
  <2>2. PICK N \in Nat : N = IF dev.v2 THEN 2 * dev.made ELSE dev.made
    BY <1>2
  <2>3. Num(dev.made + 1)' = 0
    BY <1>5, <2>1 DEF Num
  <2>4. /\ \A i \in 1..Len(new) : new[i] = Cell(N + i)'
        /\ IF dev.v2 THEN N + Len(new) = 2 * M + 2 ELSE N + Len(new) = M
    <3>1. CASE dev.v2
      <4>1. Len(new) = 2 /\ new[1] = <<"head", 0>> /\ new[2] = <<"body", 0>>
        BY <1>2, <1>3, <3>1, PacketCells
      <4>2. Cell(N + 1)' = <<"head", 0>> /\ Cell(N + 2)' = <<"body", 0>>
        <5>1. N = 2 * dev.made
          BY <2>2, <3>1
        <5>2. /\ (N + 1) % 2 = 1 /\ ((N + 1) + 1) \div 2 = dev.made + 1
              /\ (N + 2) % 2 = 0 /\ (N + 2) \div 2 = dev.made + 1
          BY ZenonT(40), <1>2, <5>1, NextCells
        <5> QED
          BY <1>5, <2>3, <3>1, <5>2 DEF Cell
      <4>3. \A i \in 1..Len(new) : i = 1 \/ i = 2
        BY <4>1
      <4> QED
        BY ZenonT(40), <2>1, <2>2, <3>1, <4>1, <4>2, <4>3
    <3>2. CASE ~dev.v2
      <4>1. Len(new) = 0
        BY <1>3, <3>2
      <4> QED
        BY <2>1, <2>2, <3>2, <4>1
    <3> QED
      BY <1>2, <3>1, <3>2
  <2>5. UNCHANGED <<told, v2buf, closed>> /\ dev'.made = M
    BY <1>1, <1>5, <2>1 DEF client
  <2> QED
    BY ZenonT(40), <1>1, <1>5, <1>6, <2>1, <2>2, <2>4, <2>5, Grown
<1> QED
  BY <1>1, <1>5, <1>6, DevMakes

\* The first n cells of what the device has to send are under way.
LEMMA Parcel ==
    ASSUME Typed, Flow(<<>>), UNCHANGED <<told, v2buf, closed>>, NEW n \in 1..Len(dev.out),
           dev'.v2 = dev.v2, dev'.made = dev.made, dev'.phase = dev.phase,
           NEW air \in Seq(Cells), air = SubSeq(dev.out, 1, n),
           dev'.out = SubSeq(dev.out, n + 1, Len(dev.out))
    PROVE  Flow(air)'
<1>1. <<>> \in Seq(Cells)
  OBVIOUS
<1>2. PICK b, o, D \in Nat : b = Len(v2buf) /\ o = Len(dev.out) /\ D = Done /\ dev.out \in Seq(Cells)
  BY ZenonT(40), <1>1, FlowSizes
<1>3. /\ \A k \in 1..Len(told) : told[k] = Num(k)
      /\ Piece(v2buf, D) /\ Piece(dev.out, D + b)
      /\ IF dev.v2 THEN \/ D + b + o = 2 * dev.made
                        \/ D + b + o = 2 * dev.made + 2 /\ dev.phase \in {"exited", "gone"}
         ELSE D + b + o = dev.made
      /\ Len(v2buf) <= 1 /\ (~dev.v2 => v2buf = <<>>)
      /\ closed <=> Len(told) = dev.made + 1
  <2>1. D + b + Len(<<>>) = D + b
    BY <1>2
  <2> QED
    BY ZenonT(40), <1>2, <2>1 DEF Flow
<1>4. Len(air) = n /\ \A i \in 1..n : air[i] = dev.out[i]
  <2>1. 1 \in Nat \ {0} /\ n \in Nat /\ 1 <= n + 1 /\ n <= Len(dev.out)
    BY <1>2
  <2>2. /\ Len(SubSeq(dev.out, 1, n)) = n - 1 + 1
        /\ \A i \in 1..(n - 1 + 1) : SubSeq(dev.out, 1, n)[i] = dev.out[1 + i - 1]
    BY <1>2, <2>1, Parted
  <2>3. n - 1 + 1 = n /\ \A i \in 1..n : 1 + i - 1 = i
    BY <2>1
  <2> QED
    BY <2>2, <2>3
<1>5. PICK r \in Seq(Cells) : r = dev'.out /\ Len(r) = o - n /\ \A i \in 1..(o - n) : r[i] = dev.out[n + i]
  <2>1. n + 1 \in Nat \ {0} /\ n + 1 <= o + 1 /\ o <= Len(dev.out) /\ n \in Nat
    BY <1>2
  <2>2. /\ SubSeq(dev.out, n + 1, o) \in Seq(Cells)
        /\ Len(SubSeq(dev.out, n + 1, o)) = o - (n + 1) + 1
        /\ \A i \in 1..(o - (n + 1) + 1) : SubSeq(dev.out, n + 1, o)[i] = dev.out[(n + 1) + i - 1]
    BY <1>2, <2>1, Parted
  <2>3. o - (n + 1) + 1 = o - n /\ \A i \in 1..(o - n) : (n + 1) + i - 1 = n + i
    BY <2>1
  <2>4. /\ Len(SubSeq(dev.out, n + 1, o)) = o - n
        /\ \A i \in 1..(o - n) : SubSeq(dev.out, n + 1, o)[i] = dev.out[n + i]
    BY <2>2, <2>3
  <2>5. dev'.out = SubSeq(dev.out, n + 1, o)
    BY <1>2
  <2> QED
    BY ZenonT(40), <2>2, <2>4, <2>5
<1>6. (\A k : Num(k)' = Num(k)) /\ Done' = D
  BY <1>2 DEF Num, Done
<1>7. \A k : Cell(k)' = Cell(k)
  BY ZenonT(40), <1>6 DEF Cell
<1>8. Piece(v2buf, Done)' /\ Piece(air, Done + Len(v2buf))'
  <2>1. \A i \in 1..n : i \in 1..o
    BY <1>2
  <2>2. \A i \in 1..Len(air) : air[i] = Cell(D + b + i)
    BY ZenonT(40), <1>2, <1>3, <1>4, <2>1 DEF Piece
  <2>3. \A i \in 1..Len(v2buf) : v2buf[i] = Cell(D + i)
    BY <1>3 DEF Piece
  <2>4. v2buf' = v2buf /\ Len(v2buf') = b
    BY <1>2
  <2>5. Piece(v2buf, Done)'
    BY ZenonT(40), <1>6, <1>7, <2>3, <2>4 DEF Piece
  <2>6. Piece(air, Done + Len(v2buf))'
    BY ZenonT(40), <1>6, <1>7, <2>2, <2>4 DEF Piece
  <2> QED
    BY <2>5, <2>6
<1>9. Piece(dev.out, Done + Len(v2buf) + Len(air))'
  <2>1. ASSUME NEW i \in 1..Len(r)
        PROVE  r[i] = Cell(D + b + n + i)
    <3>1. n + i \in 1..o /\ i \in 1..(o - n) /\ D + b + (n + i) = D + b + n + i
      BY <1>2, <1>5
    <3> QED
      BY ZenonT(40), <1>2, <1>3, <1>5, <3>1 DEF Piece
  <2> QED
    BY ZenonT(40), <1>2, <1>4, <1>5, <1>6, <1>7, <2>1 DEF Piece
<1>10. Done' + Len(v2buf') + Len(air) + Len(dev'.out) = D + b + o
  <2>0. n \in Int /\ o \in Int /\ D \in Int /\ b \in Int
    BY <1>2
  <2>1. D + b + n + (o - n) = D + b + o
    BY <2>0
  <2> QED
    BY ZenonT(40), <1>2, <1>4, <1>5, <1>6, <2>1
<1>11. \A k \in 1..Len(told') : told'[k] = Num(k)'
  BY <1>3, <1>6
<1> QED
  BY <1>3, <1>8, <1>9, <1>10, <1>11 DEF Flow

\* The device sends a piece of the output.
LEMMA DevSendsStep ==
    ASSUME IInv, DevSends
    PROVE  IInv'
<1>1. /\ Typed /\ ~dev.busy /\ toDev' = toDev
      /\ ws' = ws /\ ready' = ready /\ v2' = v2 /\ closed' = closed /\ writing' = writing
      /\ outq' = outq /\ resizePending' = resizePending /\ v2buf' = v2buf /\ size' = size
      /\ typed' = typed /\ told' = told
  BY DEF IInv, DevSends, client
<1>2. PICK n \in 1..Len(dev.out) :
          /\ Reply([cmd |-> "WRTE", data |-> SubSeq(dev.out, 1, n)])
          /\ dev' = [dev EXCEPT !.out = SubSeq(@, n + 1, Len(@)), !.busy = TRUE]
  BY ZenonT(40) DEF DevSends
<1>3. dev \in Device /\ dev.out \in Seq(Cells) /\ Len(dev.out) \in Nat
  BY <1>1 DEF Typed, Device
<1>4. SubSeq(dev.out, 1, n) \in Seq(Cells) /\ SubSeq(dev.out, n + 1, Len(dev.out)) \in Seq(Cells)
  <2>1. /\ 1 \in Nat \ {0} /\ n \in Nat /\ 1 <= n + 1 /\ n <= Len(dev.out)
        /\ n + 1 \in Nat \ {0} /\ n + 1 <= Len(dev.out) + 1 /\ Len(dev.out) <= Len(dev.out)
    BY <1>3
  <2> QED
    BY <1>3, <2>1, Parted
<1>5. PICK air \in Seq(Cells) : air = SubSeq(dev.out, 1, n)
  BY ZenonT(40), <1>4
<1>6. PICK m \in ToClient : m = [cmd |-> "WRTE", data |-> air] /\ m.cmd = "WRTE" /\ m.data = air
  <2>1. PICK m : m = [cmd |-> "WRTE", data |-> air]
    BY ZenonT(40)
  <2>2. m \in [cmd : {"WRTE"}, data : Seq(Cells)] /\ m.cmd = "WRTE" /\ m.data = air
    BY <2>1
  <2>3. m \in ToClient
    BY <2>2 DEF ToClient
  <2> QED
    BY <2>1, <2>2, <2>3
<1>7. Reply(m) /\ toHost' \in Seq(ToClient) /\ (ws = "open" => toHost' = Append(toHost, m))
  BY <1>1, <1>2, <1>5, <1>6, Replied
<1>8. /\ dev' \in Device /\ dev'.phase = dev.phase /\ dev'.v2 = dev.v2 /\ dev'.made = dev.made
      /\ dev'.out = SubSeq(dev.out, n + 1, Len(dev.out)) /\ dev'.busy
      /\ dev'.size = dev.size /\ dev'.got = dev.got
  BY ZenonT(40), <1>2, <1>3, <1>4 DEF Device
<1>9. Typed' /\ Told' /\ Settled'
  BY <1>1, <1>7, <1>8 DEF IInv, Typed, Told, Settled
<1>10. ws # "connecting" /\ dev.out # <<>>
  <2>1. dev.out # <<>>
    BY <1>2
  <2> QED
    BY <2>1 DEF IInv, Connecting, Fresh
<1>11. CASE ws = "open"
  <2>1. Open /\ toHost \in Seq(ToClient)
    BY <1>1, <1>11 DEF IInv, Typed
  <2>2. Absent(toHost, "WRTE") /\ Absent(toDev, "OKAY") /\ AtMostOne(toHost, "WRTE")
    BY <1>1, <2>1 DEF Open, DevAcks
  <2>3. /\ toHost' = Append(toHost, m) /\ Len(toHost') = Len(toHost) + 1 /\ Len(toHost) \in Nat
        /\ \A i \in 1..Len(toHost) : toHost'[i] = toHost[i]
        /\ toHost'[Len(toHost) + 1] = m
    BY <1>7, <1>11, <2>1, Appended
  <2>4. \A i \in 1..Len(toHost') : i \in 1..Len(toHost) \/ i = Len(toHost) + 1
    BY <2>3
  <2>7. (IF ready THEN Streaming ELSE Greeting)'
    <3>1. CASE ready
      <4>1. Streaming'
        BY ZenonT(40), <1>1, <1>6, <1>8, <2>1, <2>3, <2>4, <3>1 DEF Open, Streaming
      <4> QED
        BY <1>1, <3>1, <4>1
    <3>2. CASE ~ready
      <4>1. /\ toDev = <<>> /\ Len(toHost) >= 1 /\ toHost[1].cmd = "OKAY"
            /\ \A i \in 2..Len(toHost) : toHost[i].cmd \in {"WRTE", "CLSE"}
            /\ dev.phase # "listen" /\ v2 = dev.v2 /\ Greeting
        BY ZenonT(40), <1>10, <2>1, <3>2 DEF Open, Greeting, Fresh
      <4>2. 1 \in 1..Len(toHost) /\ Len(toHost') >= 1
        BY <2>3, <4>1
      <4>3. \A i \in 2..Len(toHost') : i \in 2..Len(toHost) \/ i = Len(toHost) + 1
        BY <2>3
      <4>4. \A i \in 2..Len(toHost) : i \in 1..Len(toHost)
        OBVIOUS
      <4>5. \A i \in 2..Len(toHost') : toHost'[i].cmd \in {"WRTE", "CLSE"}
        BY <1>6, <2>3, <4>1, <4>3, <4>4
      <4>6. Greeting'
        BY <1>1, <1>8, <2>3, <4>1, <4>2, <4>5 DEF Greeting
      <4> QED
        BY <1>1, <3>2, <4>6
    <3> QED
      BY <3>1, <3>2
  <2>8. Acks(ready, writing, toDev, toHost)'
    <3>1. /\ AtMostOne(toHost, "OKAY") => AtMostOne(Append(toHost, m), "OKAY")
          /\ Absent(toHost, "OKAY") => Absent(Append(toHost, m), "OKAY")
          /\ ~Absent(toHost, "OKAY") => ~Absent(Append(toHost, m), "OKAY")
      BY <1>6, <2>1, AppendCount
    <3> QED
      BY ZenonT(40), <1>1, <1>8, <2>1, <2>3, <3>1 DEF Open, Acks
  <2>9. DevAcks(dev.busy, toDev, toHost)'
    <3>1. AtMostOne(Append(toHost, m), "WRTE")
      BY <1>6, <2>1, <2>2, AppendCount
    <3>2. AtMostOne(toDev, "OKAY")
      BY <2>1 DEF Open, DevAcks
    <3> QED
      BY <1>1, <1>8, <2>2, <2>3, <3>1, <3>2 DEF DevAcks
  <2>10. Output'
    <3>1. Flow(<<>>)
      BY ZenonT(40), <2>1, <2>2 DEF Open, Output, InAir
    <3>2. Flow(air)'
      <4> UNCHANGED <<told, v2buf, closed>>
        BY <1>1
      <4> QED
        BY ZenonT(40), <1>1, <1>5, <1>8, <3>1, Parcel
    <3>3. InAir(air, toHost')
      <4>1. \A i \in 1..Len(toHost') : toHost'[i].cmd = "WRTE" => toHost'[i].data = air
        BY <1>6, <2>2, <2>3, <2>4 DEF Absent
      <4>2. ~Absent(toHost', "WRTE")
        <5>1. Len(toHost) + 1 \in 1..Len(toHost')
          BY <2>3
        <5> QED
          BY <1>6, <2>3, <5>1 DEF Absent
      <4> QED
        BY <4>1, <4>2 DEF InAir
    <3>4. air \in Airs(toHost')
      BY <3>3, AirFound
    <3> QED
      BY <3>2, <3>3, <3>4 DEF Output, Airs, InAir, Absent
  <2>11. (ready /\ ~closed => Window(resizePending, size, toDev))'
    BY ZenonT(40), <1>1, <1>8, <2>1 DEF Open, Window
  <2>12. (dev.phase \in {"listen", "shell"} => Input(outq, typed, toDev))'
    BY ZenonT(40), <1>1, <1>8, <2>1 DEF Open, Input
  <2>13. Open'
    BY <2>7, <2>8, <2>9, <2>10, <2>11, <2>12 DEF Open
  <2> QED
    BY <1>1, <1>9, <1>11, <2>13 DEF IInv
<1>12. CASE ws # "open"
  BY <1>1, <1>9, <1>10, <1>12, Offline
<1> QED
  BY <1>11, <1>12

\* The device closes the stream behind its last output.
LEMMA DevHangsUpStep ==
    ASSUME IInv, DevHangsUp
    PROVE  IInv'
<1>1. /\ Typed /\ dev.phase = "exited" /\ toDev' = toDev
      /\ dev' = [dev EXCEPT !.phase = "gone"] /\ Reply([cmd |-> "CLSE"])
      /\ ws' = ws /\ ready' = ready /\ v2' = v2 /\ closed' = closed /\ writing' = writing
      /\ outq' = outq /\ resizePending' = resizePending /\ v2buf' = v2buf /\ size' = size
      /\ typed' = typed /\ told' = told
  BY DEF IInv, DevHangsUp, client
<1>2. PICK m \in ToClient : m = [cmd |-> "CLSE"] /\ m.cmd = "CLSE"
  BY Plain
<1>3. Reply(m) /\ toHost' \in Seq(ToClient) /\ (ws = "open" => toHost' = Append(toHost, m))
  BY <1>1, <1>2, Replied
<1>4. /\ dev' \in Device /\ dev'.phase = "gone" /\ dev'.v2 = dev.v2 /\ dev'.made = dev.made
      /\ dev'.out = dev.out /\ dev'.busy = dev.busy /\ dev'.size = dev.size /\ dev'.got = dev.got
  BY ZenonT(40), <1>1 DEF Typed, Device
<1>5. Typed' /\ Told' /\ Settled'
  BY <1>1, <1>3, <1>4 DEF IInv, Typed, Told, Settled
<1>6. ws # "connecting"
  BY <1>1 DEF IInv, Connecting, Fresh
<1>7. CASE ws = "open"
  <2>1. Open /\ toHost \in Seq(ToClient)
    BY <1>1, <1>7 DEF IInv, Typed
  <2>2. /\ toHost' = Append(toHost, m) /\ Len(toHost') = Len(toHost) + 1 /\ Len(toHost) \in Nat
        /\ \A i \in 1..Len(toHost) : toHost'[i] = toHost[i]
        /\ toHost'[Len(toHost) + 1] = m
    BY <1>3, <1>7, <2>1, Appended
  <2>3. \A i \in 1..Len(toHost') : i \in 1..Len(toHost) \/ i = Len(toHost) + 1
    BY <2>2
  <2>4. (IF ready THEN Streaming ELSE Greeting)'
    <3>1. CASE ready
      <4>1. Streaming'
        BY <1>1, <1>2, <1>4, <2>1, <2>2, <2>3, <3>1 DEF Open, Streaming
      <4> QED
        BY <1>1, <3>1, <4>1
    <3>2. CASE ~ready
      <4>1. /\ toDev = <<>> /\ Len(toHost) >= 1 /\ toHost[1].cmd = "OKAY"
            /\ \A i \in 2..Len(toHost) : toHost[i].cmd \in {"WRTE", "CLSE"}
            /\ dev.phase # "listen" /\ v2 = dev.v2 /\ Greeting
        BY <1>1, <2>1, <3>2 DEF Open, Greeting, Fresh
      <4>2. 1 \in 1..Len(toHost) /\ Len(toHost') >= 1
        BY <2>2, <4>1
      <4>3. \A i \in 2..Len(toHost') : i \in 2..Len(toHost) \/ i = Len(toHost) + 1
        BY <2>2
      <4>4. \A i \in 2..Len(toHost) : i \in 1..Len(toHost)
        OBVIOUS
      <4>5. \A i \in 2..Len(toHost') : toHost'[i].cmd \in {"WRTE", "CLSE"}
        BY <1>2, <2>2, <4>1, <4>3, <4>4
      <4>6. Greeting'
        BY <1>1, <1>4, <2>2, <4>1, <4>2, <4>5 DEF Greeting
      <4> QED
        BY <1>1, <3>2, <4>6
    <3> QED
      BY <3>1, <3>2
  <2>5. /\ AtMostOne(toHost, "OKAY") => AtMostOne(Append(toHost, m), "OKAY")
        /\ Absent(toHost, "OKAY") => Absent(Append(toHost, m), "OKAY")
        /\ AtMostOne(toHost, "WRTE") => AtMostOne(Append(toHost, m), "WRTE")
        /\ Absent(toHost, "WRTE") => Absent(Append(toHost, m), "WRTE")
    BY <1>2, <2>1, AppendCount
  <2>6. Acks(ready, writing, toDev, toHost)'
    BY <1>1, <1>4, <2>1, <2>2, <2>5 DEF Open, Acks
  <2>7. DevAcks(dev.busy, toDev, toHost)'
    BY <1>1, <1>4, <2>1, <2>2, <2>5 DEF Open, DevAcks
  <2>8. Output'
    <3>1. SameOutput /\ UNCHANGED <<told, v2buf, closed>> /\ Output
      BY <1>1, <1>4, <2>1 DEF SameOutput, Open
    <3>2. \E k \in ToClient : k.cmd # "WRTE" /\ toHost' = Append(toHost, k)
      BY <1>2, <2>2
    <3> QED
      BY <2>1, <3>1, <3>2, OutputPassed
  <2>9. (ready /\ ~closed => Window(resizePending, size, toDev))'
    BY <1>4 DEF Window
  <2>10. (dev.phase \in {"listen", "shell"} => Input(outq, typed, toDev))'
    BY <1>4
  <2>11. Open'
    BY <2>4, <2>6, <2>7, <2>8, <2>9, <2>10 DEF Open
  <2> QED
    BY <1>1, <1>5, <1>7, <2>11 DEF IInv
<1>8. CASE ws # "open"
  BY <1>1, <1>5, <1>6, <1>8, Offline
<1> QED
  BY <1>7, <1>8

-----------------------------------------------------------------------------
(* The invariant.                                                          *)

\* Before the socket is open there is nothing on its way.
LEMMA InitInv == Init => IInv
<1> SUFFICES ASSUME Init
             PROVE  IInv
  OBVIOUS
<1>1. /\ ws = "connecting" /\ toDev = <<>> /\ toHost = <<>>
      /\ ready = FALSE /\ v2 = FALSE /\ closed = FALSE
      /\ writing = FALSE /\ outq = <<>> /\ resizePending = FALSE /\ v2buf = <<>>
      /\ size = 0 /\ typed = 0 /\ told = <<>>
      /\ dev = [phase |-> "listen", v2 |-> FALSE, got |-> <<>>, size |-> 0,
                out |-> <<>>, made |-> 0, busy |-> FALSE]
  BY DEF Init
<1>2. 0 \in 0..MaxResize /\ 0 \in 0..MaxTyped /\ 0 \in 0..MaxOutput
  BY AdbShellAssumption
<1>3. dev \in Device /\ Fresh
  BY <1>1, <1>2 DEF Device, Fresh
<1>a. \A S : <<>> \in Seq(S)
  OBVIOUS
<1>4. Typed
  BY ZenonT(40), <1>1, <1>2, <1>3, <1>a DEF Typed
<1>5. Told /\ Settled
  BY <1>1 DEF Told, Settled
<1>6. Input(outq, typed, toDev)
  <2>1. dev.got = <<>> /\ Len(dev.got) = 0
    BY <1>1
  <2>2. dev.got = [i \in 1..Len(dev.got) |-> i]
    BY <2>1
  <2>3. First(outq, typed) = 0 /\ Chain(outq, typed)
    BY <1>1 DEF First, Chain
  <2> QED
    BY <1>1, <2>1, <2>2, <2>3 DEF Input
<1>7. Connecting
  BY <1>1, <1>3, <1>6 DEF Connecting
<1> QED
  BY <1>1, <1>4, <1>5, <1>7 DEF IInv

\* Each action of the client and of adbd keeps the invariant.
LEMMA NextInv == IInv /\ [Next]_vars => IInv'
<1> SUFFICES ASSUME IInv, [Next]_vars
             PROVE  IInv'
  OBVIOUS
<1>1. CASE \E n \in 1..MaxString : Write(n)
  BY <1>1, WriteStep
<1>2. CASE Resize \/ Close \/ OnOpen \/ OnClose
  BY <1>2, ResizeStep, CloseStep, OnOpenStep, OnCloseStep
<1>3. CASE Handle
  BY <1>3, OnCnxnStep, OnAuthStep, OnOpenedStep, OnAckStep, OnWrteStep, OnClseStep DEF Handle
<1>4. CASE Serve
  BY <1>4, DevConnectStep, DevOpenStep, DevTakeStep, DevAckedStep, DevClosedStep DEF Serve
<1>5. CASE DevPrints \/ DevExits \/ DevSends \/ DevHangsUp
  BY <1>5, DevPrintsStep, DevExitsStep, DevSendsStep, DevHangsUpStep
<1>6. CASE OnMessage \/ UNCHANGED vars
  <2>1. /\ ws' = ws /\ toDev' = toDev /\ toHost' = toHost /\ dev' = dev
        /\ ready' = ready /\ v2' = v2 /\ closed' = closed /\ writing' = writing
        /\ outq' = outq /\ resizePending' = resizePending /\ v2buf' = v2buf /\ size' = size
        /\ typed' = typed /\ told' = told
    BY <1>6 DEF OnMessage, vars, client
  <2>2. Typed' /\ Told' /\ Settled'
    BY <2>1 DEF IInv, Typed, Told, Settled
  <2>3. ASSUME Connecting
        PROVE  Connecting'
    BY <2>1, <2>3 DEF Connecting, Fresh, Input
  <2>4. ASSUME Open
        PROVE  Open'
    <3>1. Output'
      BY <2>1, <2>4, OutputKept DEF Open, SameOutput
    <3>2. (IF ready THEN Streaming ELSE Greeting)'
      BY ZenonT(40), <2>1, <2>4 DEF Open, Streaming, Greeting, Fresh
    <3>3. Acks(ready, writing, toDev, toHost)' /\ DevAcks(dev.busy, toDev, toHost)'
      BY <2>1, <2>4 DEF Open, Acks, DevAcks
    <3>4. (ready /\ ~closed => Window(resizePending, size, toDev))'
      BY ZenonT(40), <2>1, <2>4 DEF Open, Window
    <3>5. (dev.phase \in {"listen", "shell"} => Input(outq, typed, toDev))'
      BY ZenonT(40), <2>1, <2>4 DEF Open, Input
    <3> QED
      BY <3>1, <3>2, <3>3, <3>4, <3>5 DEF Open
  <2> QED
    BY <2>1, <2>2, <2>3, <2>4 DEF IInv
<1> QED
  BY <1>1, <1>2, <1>3, <1>4, <1>5, <1>6 DEF Next

\* The inductive invariant holds throughout: the types, what is told, the
\* handshake's stages, the queues' WRTEs and OKAYs, and where each byte and each
\* cell of output is.
THEOREM Invariance == Spec => []IInv
BY InitInv, NextInv, PTL DEF Spec

\* A message taken out of inbuf was in it.
LEMMA InbufStep ==
    ASSUME IInv, [Next]_vars, inbuf \in Nat
    PROVE  inbuf' \in Nat
<1>1. CASE Handle
  <2>1. /\ toHost # <<>> /\ inbuf > Len(Data(Head(toHost)))
        /\ inbuf' = inbuf - 1 - Len(Data(Head(toHost)))
    BY <1>1 DEF Handle, OnCnxn, OnAuth, OnOpened, OnAck, OnWrte, OnClse, Received
  <2>2. Head(toHost) \in ToClient
    BY <2>1 DEF IInv, Typed
  <2>3. Len(Data(Head(toHost))) \in Nat
    <3>1. Head(toHost).cmd = "WRTE" => Head(toHost).data \in Seq(Cells)
      BY <2>2 DEF ToClient
    <3> QED
      BY <3>1 DEF Data
  <2> QED
    BY <2>1, <2>3
<1>2. CASE OnMessage
  <2>1. PICK n \in 1..(Total(toHost) - inbuf) : inbuf' = inbuf + n
    BY <1>2 DEF OnMessage
  <2> QED
    BY <2>1
<1>3. CASE OnClose
  BY <1>3 DEF OnClose
<1>4. CASE ~Handle /\ ~OnMessage /\ ~OnClose
  BY <1>4 DEF Next, Write, Resize, Close, OnOpen, Serve, DevConnect, DevOpen, DevTake, DevAcked,
     DevClosed, DevPrints, DevExits, DevSends, DevHangsUp, vars
<1> QED
  BY <1>1, <1>2, <1>3, <1>4

\* The number of cells that have arrived.
Buffered == inbuf \in Nat

\* Every variable keeps its type; in particular the strings queued and the ones
\* pump cuts off them have at least one byte.
THEOREM TypeCorrect == Spec => []TypeOK
<1>1. Init => IInv /\ Buffered
  BY InitInv DEF Init, Buffered
<1>2. IInv /\ Buffered /\ [Next]_vars => IInv' /\ Buffered'
  BY NextInv, InbufStep DEF Buffered
<1>3. IInv /\ Buffered => TypeOK
  BY DEF IInv, TypeOK, Buffered
<1> QED
  BY <1>1, <1>2, <1>3, PTL DEF Spec

-----------------------------------------------------------------------------
(* What it says.                                                           *)

\* What the shell got, and the WRTE under way, are the typed bytes in order.
LEMMA InvInput == IInv => InputExact
<1> SUFFICES ASSUME IInv, ws \in {"connecting", "open"}, dev.phase \in {"listen", "shell"}
             PROVE  /\ dev.got = [i \in 1..Len(dev.got) |-> i]
                    /\ \A i \in DOMAIN toDev :
                          IsInput(toDev[i]) => toDev[i].from = Len(dev.got) /\ toDev[i].to = Taken
                    /\ (\A i \in DOMAIN toDev : ~IsInput(toDev[i])) => Len(dev.got) = Taken
                    /\ \A i \in DOMAIN outq :
                          outq[i].to = IF i = Len(outq) THEN typed ELSE outq[i + 1].from
  BY DEF InputExact
<1>1. Input(outq, typed, toDev)
  BY DEF IInv, Connecting, Open
<1>2. toDev \in Seq(ToDevice) /\ outq \in Seq(Strings)
  BY DEF IInv, Typed
<1>3. DOMAIN toDev = 1..Len(toDev) /\ DOMAIN outq = 1..Len(outq)
  BY <1>2
<1>4. Taken = First(outq, typed)
  <2>1. outq # <<>> => Head(outq) = outq[1]
    BY <1>2, Tailed
  <2> QED
    BY <2>1 DEF Taken, First
<1> QED
  BY ZenonT(40), <1>1, <1>3, <1>4 DEF Input, Chain

\* Of WRTEs and their OKAYs one is under way while the client waits, and none otherwise.
LEMMA InvUnacked == IInv => OneUnacked
<1> SUFFICES ASSUME IInv, ws = "open", ready, dev.phase = "shell"
             PROVE  IF writing THEN \E m \in Unacked : Unacked = {m} ELSE Unacked = {}
  BY DEF OneUnacked
<1>1. Acks(ready, writing, toDev, toHost)
  BY ZenonT(40) DEF IInv, Open
<1>2. /\ AtMostOne(toDev, "WRTE") /\ AtMostOne(toHost, "OKAY")
      /\ Absent(toDev, "WRTE") \/ Absent(toHost, "OKAY")
      /\ ~writing => Absent(toDev, "WRTE") /\ Absent(toHost, "OKAY")
      /\ writing => ~Absent(toDev, "WRTE") \/ ~Absent(toHost, "OKAY")
  BY <1>1 DEF Acks
<1>3. DOMAIN toDev = 1..Len(toDev) /\ DOMAIN toHost = 1..Len(toHost)
  BY DEF IInv, Typed
<1>4. CASE ~writing
  <2>1. Unacked = {}
    BY <1>2, <1>3, <1>4 DEF Unacked, Absent
  <2> QED
    BY <1>4, <2>1
<1>5. CASE writing /\ ~Absent(toDev, "WRTE")
  <2>1. PICK i \in 1..Len(toDev) : toDev[i].cmd = "WRTE"
    BY <1>5 DEF Absent
  <2>2. Absent(toHost, "OKAY")
    BY <1>2, <1>5
  <2>3. {k \in DOMAIN toDev : toDev[k].cmd = "WRTE"} = {i}
    BY <1>2, <1>3, <2>1 DEF AtMostOne
  <2>4. {k \in DOMAIN toHost : toHost[k].cmd = "OKAY"} = {}
    BY <1>3, <2>2 DEF Absent
  <2>5. Unacked = {<<"WRTE", i>>}
    BY <2>3, <2>4 DEF Unacked
  <2> QED
    BY <1>5, <2>5
<1>6. CASE writing /\ ~Absent(toHost, "OKAY")
  <2>1. PICK i \in 1..Len(toHost) : toHost[i].cmd = "OKAY"
    BY <1>6 DEF Absent
  <2>2. Absent(toDev, "WRTE")
    BY <1>2, <1>6
  <2>3. {k \in DOMAIN toHost : toHost[k].cmd = "OKAY"} = {i}
    BY <1>2, <1>3, <2>1 DEF AtMostOne
  <2>4. {k \in DOMAIN toDev : toDev[k].cmd = "WRTE"} = {}
    BY <1>3, <2>2 DEF Absent
  <2>5. Unacked = {<<"OKAY", i>>}
    BY <2>3, <2>4 DEF Unacked
  <2> QED
    BY <1>6, <2>5
<1> QED
  BY <1>2, <1>4, <1>5, <1>6

\* With nothing unacknowledged and no resize pending the size has arrived.
LEMMA InvWindow == IInv => WindowSettles
<1> SUFFICES ASSUME IInv, ws = "open", ready, v2, ~closed, ~writing, dev.phase = "shell"
             PROVE  dev.size = size
  BY DEF WindowSettles
<1>1. Open /\ ~resizePending
  BY DEF IInv, Settled
<1>2. Window(resizePending, size, toDev) /\ Absent(toDev, "WRTE")
  BY <1>1 DEF Open, Acks
<1>3. \A i \in 1..Len(toDev) : ~IsWin(toDev[i])
  BY <1>2 DEF Absent, IsWin
<1> QED
  BY <1>1, <1>2, <1>3 DEF Window

\* What the page was told is the shell's output, and the exit comes last.
LEMMA InvTold == IInv => ExitOnce /\ OutputExact
<1> SUFFICES ASSUME IInv
             PROVE  ExitOnce /\ OutputExact
  OBVIOUS
<1>1. DOMAIN told = 1..Len(told) /\ Told
  BY DEF IInv, Typed
<1>2. \A i \in DOMAIN told : told[i] = i \/ (told[i] = 0 /\ i = Len(told))
  BY ZenonT(40), <1>1 DEF Told
<1>3. \A i \in DOMAIN told : i # 0
  BY <1>1
<1> QED
  BY <1>2, <1>3 DEF ExitOnce, OutputExact

\* While the shell lives, what it has read, the WRTE under way and outq hold the
\* bytes typed in order and once, for strings of any number and length and any
\* limit on a WRTE, however pump cuts them (lines 52-65).
THEOREM InputInOrder == Spec => []InputExact
BY Invariance, InvInput, PTL

\* "adb allows ONE unacknowledged WRTE per stream": `writing' is set exactly when
\* one is, its OKAY included (lines 38, 52-65, 132).
THEOREM StopAndWait == Spec => []OneUnacked
BY Invariance, InvUnacked, PTL

\* A pty shell has the window's size whenever nothing is unacknowledged, resizes
\* before the stream opens and behind queued input included (lines 54-58, 94, 130).
THEOREM ResizeArrives == Spec => []WindowSettles
BY Invariance, InvWindow, PTL

\* onExit is called at most once, whichever of the exit status, CLSE and the end
\* of the connection come, and in whatever order (lines 77, 101, 123).
THEOREM OneExit == Spec => []ExitOnce
<1>1. IInv => ExitOnce
  BY InvTold
<1> QED
  BY <1>1, Invariance, PTL

\* Output is told in order, without gaps or repeats, and nothing after the exit,
\* however the device's WRTEs part its packets and the WebSocket parts the WRTEs
\* (lines 70-79, 105-114, 122).
THEOREM OutputInOrder == Spec => []OutputExact
<1>1. IInv => OutputExact
  BY InvTold
<1> QED
  BY <1>1, Invariance, PTL
=============================================================================
