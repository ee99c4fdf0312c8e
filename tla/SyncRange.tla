------------------------------ MODULE SyncRange -----------------------------
(***************************************************************************)
(* lazypack.js syncRange against LocalServer.swift respond: one synchronous *)
(* Range read of a pack through a text decoder that looks for a byte order *)
(* mark before it honours the binary charset.                              *)
(***************************************************************************)
EXTENDS Integers, Sequences

CONSTANTS Byte,     \* byte values that occur in packs
          FileLen,  \* length of the pack
          Held,     \* lengths that its expansion on disk may have: one that was
                    \* cut short has fewer bytes than the pack
          Unit,     \* characters (UTF-16 code units) that occur in decoded text
          Starts,   \* offsets a range may start at
          Lengths,  \* lengths of ranges
          MaxPre    \* 4: the read is retried up to this many bytes earlier

ASSUME SyncRangeAssumption ==
    /\ \A b \in Byte : b \in Nat /\ b < 256
    /\ FileLen \in Nat /\ MaxPre \in Nat
    /\ \A n \in Held : n \in Nat /\ n <= FileLen
    /\ Unit \subseteq Nat
    /\ Starts \subseteq Nat /\ Lengths \subseteq Nat \ {0}

VARIABLES file,   \* the bytes of the pack
          held,   \* how many of them the expansion on disk has
          src,    \* what the server has: the expanded pack, its .gz, or nothing
          start, end, pre,
          status, \* "open", or how syncRange ended: "ok", "http", "unreadable"
          out     \* the bytes it returned

syncVars == <<file, held, src, start, end, pre, status, out>>

\* The loader is used once the server has answered a range: the pack is
\* expanded.  The ranges are those of files in the pack.
SyncInit ==
    /\ file \in [1..FileLen -> Byte]
    /\ held \in Held
    /\ src = "raw"
    /\ start \in Starts
    /\ \E n \in Lengths : end = start + n
    /\ end <= FileLen
    /\ pre = 0
    /\ status = "open"
    /\ out = <<>>

-----------------------------------------------------------------------------
\* respond and streamBody: first-last clamped to the file; a pack that is only
\* there as .gz is sent whole, its range dropped, and inflated by the browser.
Body(first, last) ==
    CASE src = "raw" -> SubSeq(file, first + 1, IF last < held THEN last + 1 ELSE held)
      [] src = "gz" -> file
      [] OTHER -> <<>>
Http == CASE src = "raw" -> 206 [] src = "gz" -> 200 [] OTHER -> 404

Mark8(s) == Len(s) >= 3 /\ SubSeq(s, 1, 3) = <<239, 187, 191>>
Mark16(s) == Len(s) >= 2 /\ SubSeq(s, 1, 2) \in {<<254, 255>>, <<255, 254>>}
Bom(s) == Mark8(s) \/ Mark16(s)

UpTo(n) == UNION {[1..k -> Unit] : k \in 0..n}

\* UTF-8: ASCII is its own text, anything else has at most a character per byte.
Texts8(s) == IF \A i \in 1..Len(s) : s[i] < 128 THEN {s} ELSE UpTo(Len(s))

\* The browser's decoder: the texts it may make of s.  x-user-defined maps a
\* byte to its code or to F700 + its code.  A mark is dropped and the rest
\* decoded as UTF-8, or as UTF-16 in at most one character per two bytes.  What
\* characters those are is left open where it is not said: they may be ones
\* that x-user-defined makes too.
Texts(s) ==
    IF Mark8(s) THEN Texts8(SubSeq(s, 4, Len(s)))
    ELSE IF Mark16(s) THEN UpTo((Len(s) - 1) \div 2)
    ELSE {[i \in 1..Len(s) |-> IF s[i] < 128 THEN s[i] ELSE 63232 + s[i]]}

\* Mutant: the extra leading bytes are not dropped.
TakeFromFront(s) == [i \in 1..(end - start) |-> s[i] % 256]

\* The characters after the extra leading ones, as bytes.
Take(s) == [i \in 1..(end - start) |-> s[pre + i] % 256]

Binary(s) == \A i \in (pre + 1)..Len(s) : s[i] <= 127 \/ (63360 <= s[i] /\ s[i] <= 63487)

\* Mutant: the loop gives up one byte early.
LastTryEarly == pre >= MaxPre - 1 \/ pre + 1 > start

LastTry == pre = MaxPre \/ pre + 1 > start

\* One request of the loop.
Request ==
    /\ status = "open"
    /\ \/ /\ Http = 404
          /\ status' = "http"
          /\ UNCHANGED <<pre, out>>
       \/ /\ Http # 404
          /\ \E text \in Texts(Body(start - pre, end - 1)) :
                LET good == Len(text) = end - start + pre /\ Binary(text)
                IN  \/ /\ good
                       /\ status' = "ok"
                       /\ out' = Take(text)
                       /\ UNCHANGED pre
                    \/ /\ ~good /\ ~LastTry
                       /\ pre' = pre + 1
                       /\ UNCHANGED <<status, out>>
                    \/ /\ ~good /\ LastTry
                       /\ status' = "unreadable"
                       /\ UNCHANGED <<pre, out>>
    /\ UNCHANGED <<file, held, src, start, end>>

\* The expanded pack is deleted between two requests, and the server falls back
\* to a .gz that is still there; or that is deleted as well.
Lose ==
    /\ status = "open"
    /\ \/ src = "raw" /\ src' \in {"gz", "none"}
       \/ src = "gz" /\ src' = "none"
    /\ UNCHANGED <<file, held, start, end, pre, status, out>>

SyncNext == Request \/ Lose

SyncSpec == SyncInit /\ [][SyncNext]_syncVars

-----------------------------------------------------------------------------
SyncTypeOK ==
    /\ file \in [1..FileLen -> Byte]
    /\ held \in Nat /\ held <= FileLen
    /\ src \in {"raw", "gz", "none"}
    /\ start \in Nat /\ end \in Nat /\ start < end /\ end <= FileLen
    /\ pre \in 0..MaxPre /\ pre <= start
    /\ status \in {"open", "ok", "http", "unreadable"}
    /\ out \in Seq(Nat)

\* What syncRange returns are the bytes [start, end) of the pack, whatever they
\* are, and they are all in its expansion if that answered, also one cut short.
\* A mis-decoded answer passes the tests of lines 50-58 in one case only: the
\* server has fallen back to the .gz and the whole pack, which is then the
\* answer, begins with a byte order mark.
ReturnsExact ==
    status = "ok" =>
        \/ src = "gz" /\ Bom(file)
        \/ out = SubSeq(file, start + 1, end) /\ (src = "raw" => end <= held)

\* syncRange gives up on a range inside an expanded pack only if each of the
\* requests it may make begins with a byte order mark.
GivesUpOnlyOnMarks ==
    status = "unreadable" /\ src = "raw" /\ end <= held =>
        \A p \in 0..MaxPre : p <= start => Bom(SubSeq(file, start - p + 1, end))

\* Every range inside an expanded pack that does not begin at offset 0 can be
\* read: starting a byte or two earlier it no longer begins with a mark, as the
\* comment at lines 38-40 says.  Alternating FE and FF bytes before the range
\* make all five requests begin with a mark.
RangeReadable == status = "unreadable" /\ src = "raw" => end > held \/ start = 0

\* "Any such mis-decode is detected (length or an out-of-range char)" (lines
\* 38-39).  A pack that begins with a mark, sent whole, decodes to fewer
\* characters than it has bytes, but these can be as many as the range has.
MisdecodeDetected == status = "ok" => out = SubSeq(file, start + 1, end)
=============================================================================
