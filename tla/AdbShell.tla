------------------------------- MODULE AdbShell -----------------------------
(***************************************************************************)
(* adbshell.js: an adb client for the Android guest's shell over a         *)
(* WebSocket, and the adbd it talks to (not in this repository: modelled   *)
(* as the client uses it).  adb allows one unacknowledged WRTE per stream  *)
(* and direction.                                                          *)
(*                                                                         *)
(* A byte typed is its number, 1, 2, ..., and a string the interval of its *)
(* bytes; a packet of the shell's output is two cells, its header and its  *)
(* body, that a WRTE may part.  A message to the client is a stream of      *)
(* cells too, that the WebSocket parts anywhere: its header and its data.   *)
(***************************************************************************)
EXTENDS Integers, Sequences

CONSTANTS MaxChunk,   \* maxData - 5: bytes of input in one WRTE
          MaxString,  \* bound: bytes of one string written
          MaxTyped,   \* bound: bytes typed
          MaxResize,  \* bound: window resizes
          MaxOutput   \* bound: packets of output

ASSUME AdbShellAssumption ==
    /\ MaxChunk \in Nat \ {0}
    /\ {MaxString, MaxTyped, MaxResize, MaxOutput} \subseteq Nat

VARIABLES
    ws,        \* readyState of the WebSocket
    toDev,     \* messages under way to adbd
    toHost,    \* messages under way to the client or in its inbuf
    inbuf,     \* cells of toHost that have arrived
    ready, v2, closed, writing, outq, resizePending, v2buf,
    size,      \* cols and rows, as the number of resizes
    typed,     \* bytes typed so far
    told,      \* calls of onData, as the packet's number, and of onExit, as 0
    dev        \* the device: its phase, shell kind, input, pty size, output to
               \* send, packets produced, whether its WRTE is unacknowledged

client == <<ready, v2, closed, writing, outq, resizePending, v2buf, size, typed, told>>
vars == <<ws, toDev, toHost, inbuf, client, dev>>

Init ==
    /\ ws = "connecting"
    /\ toDev = <<>> /\ toHost = <<>> /\ inbuf = 0
    /\ ready = FALSE /\ v2 = FALSE /\ closed = FALSE
    /\ writing = FALSE /\ outq = <<>> /\ resizePending = FALSE /\ v2buf = <<>>
    /\ size = 0 /\ typed = 0 /\ told = <<>>
    /\ dev = [phase |-> "listen", v2 |-> FALSE, got |-> <<>>, size |-> 0,
              out |-> <<>>, made |-> 0, busy |-> FALSE]

-----------------------------------------------------------------------------
(* The client.                                                             *)

\* send: nothing is sent unless the socket is open.
Sent(q, m) == IF ws = "open" THEN Append(q, m) ELSE q

\* The bytes after the from-th up to the to-th.
String(from, to) == [from |-> from, to |-> to]
WindowPacket(sz) == [cmd |-> "WRTE", win |-> TRUE, size |-> sz]
Stdin(s) == [cmd |-> "WRTE", win |-> FALSE, from |-> s.from, to |-> s.to]

\* A chunk of the queue that fits a WRTE, and what is left of the queue.
Long(s) == s.to - s.from > MaxChunk
Chunk(q) == IF Long(Head(q)) THEN String(Head(q).from, Head(q).from + MaxChunk) ELSE Head(q)

\* Mutant: what is left of a long chunk goes behind the queue.
RestLast(q) ==
    IF Long(Head(q)) THEN Append(Tail(q), String(Head(q).from + MaxChunk, Head(q).to)) ELSE Tail(q)

Rest(q) ==
    IF Long(Head(q)) THEN <<String(Head(q).from + MaxChunk, Head(q).to)>> \o Tail(q) ELSE Tail(q)

\* Mutant: pump does not look at `writing'.
PumpUnchecked(q, pending, w, rdy, sz) ==
    \/ /\ ~rdy \/ (q = <<>> /\ ~(pending /\ v2))
       /\ outq' = q /\ resizePending' = pending /\ writing' = w /\ toDev' = toDev
    \/ /\ rdy /\ pending /\ v2
       /\ outq' = q /\ resizePending' = FALSE /\ writing' = TRUE
       /\ toDev' = Sent(toDev, WindowPacket(sz))
    \/ /\ rdy /\ q # <<>> /\ ~(pending /\ v2)
       /\ outq' = Rest(q) /\ resizePending' = pending /\ writing' = TRUE
       /\ toDev' = Sent(toDev, Stdin(Chunk(q)))

\* pump, with the queue and the flags as its caller left them: the next WRTE, a
\* window change before queued input.
Pump(q, pending, w, rdy, sz) ==
    \/ /\ w \/ ~rdy \/ (q = <<>> /\ ~(pending /\ v2))
       /\ outq' = q /\ resizePending' = pending /\ writing' = w /\ toDev' = toDev
    \/ /\ ~w /\ rdy /\ pending /\ v2
       /\ outq' = q /\ resizePending' = FALSE /\ writing' = TRUE
       /\ toDev' = Sent(toDev, WindowPacket(sz))
    \/ /\ ~w /\ rdy /\ q # <<>> /\ ~(pending /\ v2)
       /\ outq' = Rest(q) /\ resizePending' = pending /\ writing' = TRUE
       /\ toDev' = Sent(toDev, Stdin(Chunk(q)))

\* write: a string of n bytes.
Write(n) ==
    /\ ~closed
    /\ typed + n <= MaxTyped
    /\ typed' = typed + n
    /\ Pump(Append(outq, String(typed, typed + n)), resizePending, writing, ready, size)
    /\ UNCHANGED <<ws, toHost, inbuf, ready, v2, closed, v2buf, size, told, dev>>

Resize ==
    /\ size < MaxResize
    /\ size' = size + 1
    /\ IF v2 /\ ~closed THEN Pump(outq, TRUE, writing, ready, size + 1)
       ELSE UNCHANGED <<outq, resizePending, writing, toDev>>
    /\ UNCHANGED <<ws, toHost, inbuf, ready, v2, closed, v2buf, typed, told, dev>>

\* The user closes the shell: no onExit.
Close ==
    /\ ws # "closed"
    /\ closed' = TRUE
    /\ toDev' = Sent(toDev, [cmd |-> "CLSE"])
    /\ ws' = "closing"
    /\ UNCHANGED <<toHost, inbuf, ready, v2, writing, outq, resizePending, v2buf, size, typed, told, dev>>

OnOpen ==
    /\ ws = "connecting"
    /\ ws' = "open"
    /\ toDev' = Append(toDev, [cmd |-> "CNXN"])
    /\ UNCHANGED <<toHost, inbuf, client, dev>>

\* The connection fails, breaks or has been closed: ws.onclose.
OnClose ==
    /\ ws' = "closed"
    /\ ws # "closed"
    /\ told' = IF closed THEN told ELSE Append(told, 0)
    /\ closed' = TRUE
    /\ toDev' = <<>> /\ toHost' = <<>> /\ inbuf' = 0
    /\ UNCHANGED <<ready, v2, writing, outq, resizePending, v2buf, size, typed, dev>>

-----------------------------------------------------------------------------
(* ws.onmessage, parse and handle.  parse goes on while there is a whole    *)
(* message; a step between two of its rounds is as one between two events.  *)

\* The data of a message, as cells; only a WRTE's are looked at.
Data(m) == IF m.cmd = "WRTE" THEN m.data
           ELSE IF m.cmd \in {"CNXN", "AUTH"} THEN <<"banner">> ELSE <<>>

\* The cells of the messages of q.
Total(q) ==
    LET upTo[i \in 0..Len(q)] == IF i = 0 THEN 0 ELSE upTo[i - 1] + 1 + Len(Data(q[i]))
    IN  upTo[Len(q)]

\* Any further piece of the stream arrives.
OnMessage ==
    /\ ws = "open"
    /\ \E n \in 1..(Total(toHost) - inbuf) : inbuf' = inbuf + n
    /\ UNCHANGED <<ws, toDev, toHost, client, dev>>

\* Mutant: a message is handled once its header is there.
ReceivedEarly(cmd) ==
    /\ ws = "open"
    /\ toHost # <<>> /\ inbuf >= 1
    /\ Head(toHost).cmd = cmd
    /\ toHost' = Tail(toHost)
    /\ inbuf' = IF inbuf > Len(Data(Head(toHost))) THEN inbuf - 1 - Len(Data(Head(toHost))) ELSE 0

\* parse: the first message, once its header and all its data are in inbuf.
Received(cmd) ==
    /\ ws = "open"
    /\ toHost # <<>> /\ inbuf > Len(Data(Head(toHost)))
    /\ Head(toHost).cmd = cmd
    /\ toHost' = Tail(toHost)
    /\ inbuf' = inbuf - 1 - Len(Data(Head(toHost)))

\* inbuf.slice(24, 24 + len): what inbuf holds of the first message's data.
Slice ==
    LET data == Data(Head(toHost))
    IN  SubSeq(data, 1, IF inbuf > Len(data) THEN Len(data) ELSE inbuf - 1)

OnCnxn ==
    /\ Received("CNXN")
    /\ v2' = Head(toHost).v2
    /\ toDev' = Append(toDev, [cmd |-> "OPEN"])
    /\ UNCHANGED <<ws, ready, closed, writing, outq, resizePending, v2buf, size, typed, told, dev>>

OnAuth ==
    /\ Received("AUTH")
    /\ ws' = "closing"
    /\ UNCHANGED <<toDev, client, dev>>

\* Mutant: the size is not sent when the stream opens.
OnOpenedNoSize ==
    /\ Received("OKAY")
    /\ ~ready
    /\ ready' = TRUE
    /\ Pump(outq, resizePending, writing, TRUE, size)
    /\ UNCHANGED <<ws, v2, closed, v2buf, size, typed, told, dev>>

\* The OKAY of OPEN: the pty gets its real size before anything else.
OnOpened ==
    /\ Received("OKAY")
    /\ ~ready
    /\ ready' = TRUE
    /\ Pump(outq, v2, writing, TRUE, size)
    /\ UNCHANGED <<ws, v2, closed, v2buf, size, typed, told, dev>>

\* Mutant: an acknowledgement does not restart the queue.
OnAckNoPump ==
    /\ Received("OKAY")
    /\ ready
    /\ writing' = FALSE
    /\ UNCHANGED <<ws, toDev, ready, v2, closed, outq, resizePending, v2buf, size, typed, told, dev>>

OnAck ==
    /\ Received("OKAY")
    /\ ready
    /\ Pump(outq, resizePending, FALSE, ready, size)
    /\ UNCHANGED <<ws, ready, v2, closed, v2buf, size, typed, told, dev>>

\* handleV2: the numbers of the packets that are complete, and the cells left
\* over.
Packets(cells) == [i \in 1..(Len(cells) \div 2) |-> cells[2 * i][2]]

\* Mutant: an incomplete packet is dropped.
LeftDropped(cells) == <<>>

Left(cells) == SubSeq(cells, 2 * (Len(cells) \div 2) + 1, Len(cells))

\* The packets are told one by one; the exit status, 0, sets `closed'.  A legacy
\* shell's output is told as it comes.
OnWrte ==
    /\ Received("WRTE")
    /\ toDev' = Append(toDev, [cmd |-> "OKAY"])
    /\ LET data == Slice
           all == v2buf \o data
       IN  IF v2
           THEN /\ v2buf' = Left(all)
                /\ told' = told \o Packets(all)
                /\ closed' = (closed \/ \E i \in DOMAIN Packets(all) : Packets(all)[i] = 0)
           ELSE /\ told' = told \o [i \in 1..Len(data) |-> data[i][2]]
                /\ UNCHANGED <<v2buf, closed>>
    /\ UNCHANGED <<ws, ready, v2, writing, outq, resizePending, size, typed, dev>>

\* Mutant: CLSE reports the exit again.
OnClseAgain ==
    /\ Received("CLSE")
    /\ closed' = TRUE
    /\ told' = Append(told, 0)
    /\ ws' = "closing"
    /\ UNCHANGED <<toDev, ready, v2, writing, outq, resizePending, v2buf, size, typed, dev>>

OnClse ==
    /\ Received("CLSE")
    /\ closed' = TRUE
    /\ told' = IF closed THEN told ELSE Append(told, 0)
    /\ ws' = "closing"
    /\ UNCHANGED <<toDev, ready, v2, writing, outq, resizePending, v2buf, size, typed, dev>>

-----------------------------------------------------------------------------
(* The device, external.                                                   *)

DevReceives(cmd) ==
    /\ toDev # <<>>
    /\ Head(toDev).cmd = cmd
    /\ toDev' = Tail(toDev)

Reply(m) == toHost' = IF ws = "open" THEN Append(toHost, m) ELSE toHost

DevConnect ==
    /\ DevReceives("CNXN")
    /\ \/ \E k \in BOOLEAN : dev' = [dev EXCEPT !.v2 = k] /\ Reply([cmd |-> "CNXN", v2 |-> k])
       \/ Reply([cmd |-> "AUTH"]) /\ UNCHANGED dev
    /\ UNCHANGED <<ws, inbuf, client>>

DevOpen ==
    /\ DevReceives("OPEN")
    /\ \/ dev' = [dev EXCEPT !.phase = "shell"] /\ Reply([cmd |-> "OKAY"])
       \/ dev' = [dev EXCEPT !.phase = "gone"] /\ Reply([cmd |-> "CLSE"])
    /\ UNCHANGED <<ws, inbuf, client>>

\* The bytes of a string, by their numbers.
Bytes(s) == [i \in 1..(s.to - s.from) |-> s.from + i]

\* The shell takes a WRTE's input, or its new size, and acknowledges it.
DevTake ==
    /\ DevReceives("WRTE")
    /\ dev' = IF dev.phase # "shell" THEN dev
              ELSE IF Head(toDev).win THEN [dev EXCEPT !.size = Head(toDev).size]
              ELSE [dev EXCEPT !.got = @ \o Bytes(Head(toDev))]
    /\ IF dev.phase = "shell" THEN Reply([cmd |-> "OKAY"]) ELSE UNCHANGED toHost
    /\ UNCHANGED <<ws, inbuf, client>>

DevAcked ==
    /\ DevReceives("OKAY")
    /\ dev' = [dev EXCEPT !.busy = FALSE]
    /\ UNCHANGED <<ws, toHost, inbuf, client>>

DevClosed ==
    /\ DevReceives("CLSE")
    /\ dev' = [dev EXCEPT !.phase = "gone"]
    /\ UNCHANGED <<ws, toHost, inbuf, client>>

\* A packet of the shell; number 0 is its exit status.
Packet(k) == IF dev.v2 THEN <<<<"head", k>>, <<"body", k>>>> ELSE <<<<"body", k>>>>

DevPrints ==
    /\ dev.phase = "shell"
    /\ dev.made < MaxOutput
    /\ dev' = [dev EXCEPT !.made = @ + 1, !.out = @ \o Packet(dev.made + 1)]
    /\ UNCHANGED <<ws, toDev, toHost, inbuf, client>>

DevExits ==
    /\ dev.phase = "shell"
    /\ dev' = [dev EXCEPT !.phase = "exited", !.out = IF dev.v2 THEN @ \o Packet(0) ELSE @]
    /\ UNCHANGED <<ws, toDev, toHost, inbuf, client>>

\* Output is sent in pieces of any length, one unacknowledged.
DevSends ==
    /\ ~dev.busy
    /\ \E n \in 1..Len(dev.out) :
          /\ Reply([cmd |-> "WRTE", data |-> SubSeq(dev.out, 1, n)])
          /\ dev' = [dev EXCEPT !.out = SubSeq(@, n + 1, Len(@)), !.busy = TRUE]
    /\ UNCHANGED <<ws, toDev, inbuf, client>>

DevHangsUp ==
    /\ dev.phase = "exited"
    /\ dev.out = <<>>
    /\ ~dev.busy
    /\ dev' = [dev EXCEPT !.phase = "gone"]
    /\ Reply([cmd |-> "CLSE"])
    /\ UNCHANGED <<ws, toDev, inbuf, client>>

-----------------------------------------------------------------------------
Handle == OnCnxn \/ OnAuth \/ OnOpened \/ OnAck \/ OnWrte \/ OnClse
Serve == DevConnect \/ DevOpen \/ DevTake \/ DevAcked \/ DevClosed

Next ==
    \/ \E n \in 1..MaxString : Write(n)
    \/ Resize \/ Close \/ OnOpen \/ OnClose
    \/ OnMessage \/ Handle \/ Serve
    \/ DevPrints \/ DevExits \/ DevSends \/ DevHangsUp

Spec == Init /\ [][Next]_vars

\* The browser delivers what arrives, and adbd answers.
FairSpec ==
    Spec /\ WF_vars(OnOpen) /\ WF_vars(OnMessage) /\ WF_vars(Handle) /\ WF_vars(Serve)

-----------------------------------------------------------------------------
(* Properties.                                                             *)

Strings == {s \in [from : 0..MaxTyped, to : 0..MaxTyped] : s.from < s.to}
Cells == {"head", "body"} \X (0..MaxOutput)

ToDevice ==
    [cmd : {"CNXN", "OPEN", "OKAY", "CLSE"}]
    \cup [cmd : {"WRTE"}, win : {TRUE}, size : 0..MaxResize]
    \cup {m \in [cmd : {"WRTE"}, win : {FALSE}, from : 0..MaxTyped, to : 0..MaxTyped] : m.from < m.to}
ToClient ==
    [cmd : {"AUTH", "OKAY", "CLSE"}]
    \cup [cmd : {"CNXN"}, v2 : BOOLEAN]
    \cup [cmd : {"WRTE"}, data : Seq(Cells)]
Device ==
    [phase : {"listen", "shell", "exited", "gone"}, v2 : BOOLEAN, got : Seq(1..MaxTyped),
     size : 0..MaxResize, out : Seq(Cells), made : 0..MaxOutput, busy : BOOLEAN]

\* The types of all but inbuf.
Typed ==
    /\ ws \in {"connecting", "open", "closing", "closed"}
    /\ toDev \in Seq(ToDevice) /\ toHost \in Seq(ToClient)
    /\ ready \in BOOLEAN /\ v2 \in BOOLEAN /\ closed \in BOOLEAN
    /\ writing \in BOOLEAN /\ resizePending \in BOOLEAN
    /\ outq \in Seq(Strings)
    /\ v2buf \in Seq(Cells) /\ told \in Seq(0..MaxOutput)
    /\ size \in 0..MaxResize /\ typed \in 0..MaxTyped
    /\ dev \in Device

TypeOK == Typed /\ inbuf \in Nat

IsInput(m) == m.cmd = "WRTE" /\ ~m.win

\* The number of the last byte that pump has taken out of outq.
Taken == IF outq = <<>> THEN typed ELSE Head(outq).from

\* While the shell lives, every byte typed is, in order and once, in what the
\* shell has read, in the WRTE under way or in outq, however pump cuts it up
\* and whatever window changes overtake it (lines 52-65): the shell has read the
\* bytes from the first on, the WRTE under way takes up where it is and goes on
\* to what outq begins with, and the strings of outq follow one another to the
\* last byte typed.
InputExact ==
    ws \in {"connecting", "open"} /\ dev.phase \in {"listen", "shell"} =>
        /\ dev.got = [i \in 1..Len(dev.got) |-> i]
        /\ \A i \in DOMAIN toDev :
              IsInput(toDev[i]) => toDev[i].from = Len(dev.got) /\ toDev[i].to = Taken
        /\ (\A i \in DOMAIN toDev : ~IsInput(toDev[i])) => Len(dev.got) = Taken
        /\ \A i \in DOMAIN outq : outq[i].to = IF i = Len(outq) THEN typed ELSE outq[i + 1].from

\* The client's WRTEs under way, and their OKAYs.
Unacked ==
    {<<"WRTE", i>> : i \in {k \in DOMAIN toDev : toDev[k].cmd = "WRTE"}}
    \cup {<<"OKAY", i>> : i \in {k \in DOMAIN toHost : toHost[k].cmd = "OKAY"}}

\* "adb allows ONE unacknowledged WRTE per stream" (line 38): once the stream is
\* open there is exactly one on its way, or its OKAY is, when `writing' is set,
\* and none otherwise.
OneUnacked ==
    ws = "open" /\ ready /\ dev.phase = "shell" =>
        IF writing THEN \E m \in Unacked : Unacked = {m} ELSE Unacked = {}

\* When nothing of the client's is unacknowledged, a pty shell has the size of
\* the window: no resize is lost, neither before the stream is open nor behind
\* queued input (lines 54-58, 94, 130).
WindowSettles ==
    ws = "open" /\ ready /\ v2 /\ ~closed /\ ~writing /\ dev.phase = "shell" => dev.size = size

\* onExit is called at most once: the page forgets its session in onExit, so a
\* second call of an old session would drop the new one opened meanwhile
\* (lines 77, 101, 123; emulator.js 611).
ExitOnce == \A i, j \in DOMAIN told : told[i] = 0 /\ told[j] = 0 => i = j

\* Output is told in order, without gaps or repeats, however WRTEs part the
\* packets and the WebSocket the WRTEs, and none after the exit (lines 70-79,
\* 105-114, 122).
OutputExact == \A i \in DOMAIN told : told[i] = i \/ (told[i] = 0 /\ i = Len(told))

\* What is typed reaches the shell if neither it nor the connection ends.
InputArrives ==
    \A n \in 1..MaxTyped :
        typed >= n ~> \/ Len(dev.got) >= n
                      \/ ws \in {"closing", "closed"} \/ dev.phase \in {"exited", "gone"}
=============================================================================
