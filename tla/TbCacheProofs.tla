---------------------------- MODULE TbCacheProofs ---------------------------
(***************************************************************************)
(* The cache of compiled blocks, for any number of threads, blocks, slots   *)
(* and tunings: the free stacks, the clock, the export vectors and the cap. *)
(* What the steps do to the count of live instances is summed up in four    *)
(* kinds of step, from which the count, the cap on it and the room in a     *)
(* thread's table follow.                                                   *)
(***************************************************************************)
EXTENDS TbCache, FiniteSetTheorems, TLAPS

\* A thread wants a block while it compiles, has evicted instances to subtract
\* only while it sweeps, and lowers the cap to a value within its bounds.
Stage(t) ==
    /\ pc[t] = "compile" => cur[t] \in TB
    /\ ~InSweep(t) => gone[t] = {}
    /\ pc[t] = "lower" => scanned[t] = 0 /\ newcap[t] \in Floor..MaxAlive

\* The clock hand is on a slot handed out, and what was evicted is empty.
Hand(t) ==
    /\ hand[t] = 1 \/ hand[t] <= hw[t]
    /\ \A i \in gone[t] : slot[t][i].tb = NoTB

\* The free stack of one thread (FreeStackExact).
Stack(t) ==
    /\ \A i, j \in DOMAIN free[t] : free[t][i] = free[t][j] => i = j
    /\ {free[t][i] : i \in DOMAIN free[t]} = {i \in 1..hw[t] : slot[t][i].tb = NoTB}
    /\ \A i \in (hw[t] + 1)..Slots : slot[t][i].tb = NoTB

\* How many moves ago the hand was on slot i.
Back(t, i) == IF i < hand[t] THEN hand[t] - i ELSE hand[t] + hw[t] - i

\* In a sweep that has evicted nothing yet, the slots passed have lost their
\* second chance, and those passed twice were empty.
Clock(t) ==
    InSweep(t) /\ gone[t] = {} =>
        \A i \in 1..hw[t] :
            /\ Back(t, i) <= scanned[t] => ~slot[t][i].used
            /\ Back(t, i) + hw[t] <= scanned[t] => slot[t][i].tb = NoTB

Local(t) == Stage(t) /\ Hand(t) /\ Stack(t) /\ Clock(t)

\* The inductive invariant of the table, the vectors and the cap.
TInv ==
    /\ TableTypeOK
    /\ \A t \in Thread : Local(t)
    /\ CapFloor
    /\ NoStaleCode

\* The kinds of step, by what they do to the count and to the instances that
\* count: nothing, a thread below the cap asks to compile, it adds an instance,
\* or it subtracts what it evicted.
OthersRun(t) == \A u \in Thread \ {t} : Running(u)' = Running(u)

Quiet ==
    /\ alive' = alive
    /\ \A u \in Thread : Running(u)' = Running(u)
    /\ Compiling' \subseteq Compiling

Asks(t) ==
    /\ alive < cap /\ alive' = alive
    /\ \A u \in Thread : Running(u)' = Running(u)
    /\ Compiling' \subseteq Compiling \cup {t}

Adds(t) ==
    /\ alive' = alive + 1
    /\ t \in Compiling /\ Compiling' = Compiling \ {t}
    /\ \E i \in (1..Slots) \ Running(t) : Running(t)' = Running(t) \cup {i}
    /\ OthersRun(t)

Ends(t) ==
    /\ alive' = alive - Cardinality(gone[t])
    /\ t \notin Compiling' /\ Compiling' \subseteq Compiling
    /\ Running(t)' = Running(t) \ gone[t]
    /\ OthersRun(t)

-----------------------------------------------------------------------------
(* What a step of one thread leaves alone.                                 *)

Slot == [tb : TB \cup {NoTB}, gen : 0..MaxGen, used : BOOLEAN]

\* What a step leaves to a thread that takes no part in it.
Same(u) ==
    /\ slot'[u] = slot[u] /\ hw'[u] = hw[u] /\ free'[u] = free[u] /\ hand'[u] = hand[u]
    /\ pc'[u] = pc[u] /\ cur'[u] = cur[u] /\ newcap'[u] = newcap[u]
    /\ scanned'[u] = scanned[u] /\ gone'[u] = gone[u]

\* The provers a leaf is tried with, one after the other, and for how long.
USE SMTT(40), Z3T(40), ZenonT(40)

\* A thread left alone keeps its part of the invariant and its instances.
LEMMA Untouched ==
    ASSUME NEW u \in Thread, Local(u), Same(u)
    PROVE  Local(u)' /\ Running(u)' = Running(u)
<1>1. Stage(u)' /\ Hand(u)'
  BY DEF Local, Same, Stage, Hand, InSweep
<1>2. Stack(u)'
  BY DEF Local, Same, Stack
<1>3. Clock(u)'
  BY DEF Local, Same, Clock, Back, InSweep
<1>4. Running(u)' = Running(u)
  BY DEF Same, Running
<1> QED
  BY <1>1, <1>2, <1>3, <1>4 DEF Local

\* Before any block is compiled: empty tables, zero vectors, the tuned cap.
LEMMA InitInv == Init => TInv
<1> SUFFICES ASSUME Init PROVE TInv
  OBVIOUS
<1> USE ConstantsAssumption
<1>1. TableTypeOK
  BY DEF Init, TableTypeOK, Empty
<1>2. ASSUME NEW t \in Thread PROVE Local(t)
  <2>1. Stage(t) /\ Hand(t) /\ Clock(t)
    BY DEF Init, Stage, Hand, Clock, InSweep
  <2>2. Stack(t)
    BY DEF Init, Stack, Empty
  <2> QED
    BY <2>1, <2>2 DEF Local
<1>3. CapFloor /\ NoStaleCode
  BY DEF Init, CapFloor, NoStaleCode, Has
<1> QED
  BY <1>1, <1>2, <1>3 DEF TInv

\* A step of thread t leaves the others' part of the invariant.
LEMMA OneThread ==
    ASSUME TInv, NEW t \in Thread, Local(t)', \A u \in Thread \ {t} : Same(u)
    PROVE  /\ \A u \in Thread : Local(u)'
           /\ OthersRun(t)
  BY Untouched DEF TInv, OthersRun

\* What a change of one slot leaves.
LEMMA SlotStep ==
    ASSUME slot \in [Thread -> [1..Slots -> Slot]], NEW t \in Thread, NEW i \in 1..Slots,
           NEW r \in Slot, slot' = [slot EXCEPT ![t] = [slot[t] EXCEPT ![i] = r]]
    PROVE  /\ slot' \in [Thread -> [1..Slots -> Slot]]
           /\ \A u \in Thread \ {t} : slot'[u] = slot[u]
           /\ slot'[t][i] = r
           /\ \A k \in (1..Slots) \ {i} : slot'[t][k] = slot[t][k]
<1>1. slot[t] \in [1..Slots -> Slot]
  OBVIOUS
<1>2. [slot[t] EXCEPT ![i] = r] \in [1..Slots -> Slot]
  BY <1>1
<1>3. slot'[t] = [slot[t] EXCEPT ![i] = r]
  OBVIOUS
<1> QED
  BY <1>1, <1>2, <1>3

\* A slot's mark is set or cleared.
LEMMA MarkStep ==
    ASSUME TableTypeOK, NEW t \in Thread, NEW i \in 1..Slots, NEW v \in BOOLEAN,
           slot' = [slot EXCEPT ![t][i].used = v]
    PROVE  /\ slot' \in [Thread -> [1..Slots -> Slot]]
           /\ \A u \in Thread \ {t} : slot'[u] = slot[u]
           /\ \A k \in 1..Slots : slot'[t][k].tb = slot[t][k].tb /\ slot'[t][k].gen = slot[t][k].gen
           /\ slot'[t][i].used = v
           /\ \A k \in (1..Slots) \ {i} : slot'[t][k].used = slot[t][k].used
<1>1. slot \in [Thread -> [1..Slots -> Slot]]
  BY DEF TableTypeOK, Slot
<1>2. slot[t][i] \in Slot
  BY ZenonT(40), <1>1
<1>3. PICK r \in Slot : r = [slot[t][i] EXCEPT !.used = v]
  BY ZenonT(40), <1>2 DEF Slot
<1>4. r.tb = slot[t][i].tb /\ r.gen = slot[t][i].gen /\ r.used = v
  BY <1>2, <1>3 DEF Slot
<1>5. slot' = [slot EXCEPT ![t] = [slot[t] EXCEPT ![i] = r]]
  BY <1>1, <1>3
<1>6. /\ slot' \in [Thread -> [1..Slots -> Slot]]
      /\ \A u \in Thread \ {t} : slot'[u] = slot[u]
      /\ slot'[t][i] = r
      /\ \A k \in (1..Slots) \ {i} : slot'[t][k] = slot[t][k]
  BY ZenonT(40), <1>1, <1>5, SlotStep
<1> QED
  BY <1>4, <1>6

\* Only the marks of t's slots change: its stack, its counts and the blocks its
\* vector leads to are as they were.
LEMMA SameBlocks ==
    ASSUME TableTypeOK, TableTypeOK', NEW t \in Thread, hw' = hw, free' = free,
           \A k \in 1..Slots : slot'[t][k].tb = slot[t][k].tb, Stack(t)
    PROVE  Stack(t)'
<1>1. hw[t] \in 0..Slots /\ hw'[t] = hw[t] /\ free'[t] = free[t]
  BY DEF TableTypeOK
<1>2. 1..hw[t] \subseteq 1..Slots /\ (hw[t] + 1)..Slots \subseteq 1..Slots
  BY <1>1, ConstantsAssumption
<1>3. {i \in 1..hw[t] : slot'[t][i].tb = NoTB} = {i \in 1..hw[t] : slot[t][i].tb = NoTB}
  BY <1>2
<1> QED
  BY <1>1, <1>2, <1>3 DEF Stack

\* Emptying a slot, or marking it, leaves the others with their code.
LEMMA CodeKept ==
    ASSUME TableTypeOK, NoStaleCode, export' = export, gen' = gen,
           \A u \in Thread, k \in 1..Slots :
               slot'[u][k].gen = slot[u][k].gen /\ slot'[u][k].tb \in {slot[u][k].tb, NoTB}
    PROVE  NoStaleCode'
<1> SUFFICES ASSUME NEW u \in Thread, NEW c \in TB, Has(u, c)'
             PROVE  slot'[u][export[u][c]].gen = gen
  BY DEF NoStaleCode
<1>1. export[u][c] \in 0..Slots /\ export[u][c] # 0 /\ slot'[u][export[u][c]].tb = c /\ c # NoTB
  BY ConstantsAssumption DEF TableTypeOK, Has
<1>2. export[u][c] \in 1..Slots
  BY <1>1, ConstantsAssumption
<1>3. slot[u][export[u][c]].tb = c /\ slot'[u][export[u][c]].gen = slot[u][export[u][c]].gen
  BY <1>1, <1>2
<1>4. Has(u, c)
  BY <1>1, <1>3 DEF Has
<1> QED
  BY <1>3, <1>4 DEF NoStaleCode

\* A run sets a slot's mark and nothing else.
LEMMA RunCompiledInv ==
    ASSUME TInv, NEW t \in Thread, NEW b \in TB, RunCompiled(t, b) PROVE TInv' /\ Quiet
<1>0. TableTypeOK /\ Local(t) /\ export[t][b] \in 0..Slots /\ export[t][b] # 0
  BY ZenonT(40) DEF TInv, TableTypeOK, RunCompiled, Has
<1>1. export[t][b] \in 1..Slots
  BY <1>0, ConstantsAssumption
<1>2. /\ slot' \in [Thread -> [1..Slots -> Slot]]
      /\ \A u \in Thread \ {t} : slot'[u] = slot[u]
      /\ \A k \in 1..Slots : slot'[t][k].tb = slot[t][k].tb /\ slot'[t][k].gen = slot[t][k].gen
  BY ZenonT(40), <1>0, <1>1, MarkStep DEF RunCompiled
<1>3. TableTypeOK'
  BY ZenonT(40), <1>0, <1>2 DEF TableTypeOK, RunCompiled, shared, Slot
<1>4. \A u \in Thread \ {t} : Same(u)
  BY <1>2 DEF Same, RunCompiled
<1>5. Running(t)' = Running(t)
  BY <1>2 DEF Running, RunCompiled
<1>6. Local(t)'
  <2>1. Stage(t)' /\ Hand(t)' /\ Clock(t)'
    BY <1>0, <1>2, <1>5 DEF Local, RunCompiled, Stage, Hand, Clock, InSweep, TableTypeOK
  <2>2. Stack(t)'
    BY ZenonT(40), <1>0, <1>2, <1>3, SameBlocks DEF Local, RunCompiled
  <2> QED
    BY <2>1, <2>2 DEF Local
<1>7. \A u \in Thread : Running(u)' = Running(u)
  BY <1>4, <1>5, <1>6, OneThread DEF OthersRun
<1>8. Quiet /\ CapFloor'
  BY <1>7 DEF TInv, RunCompiled, shared, CapFloor, Compiling, Quiet
<1>9. NoStaleCode'
  <2>1. \A u \in Thread, k \in 1..Slots :
            slot'[u][k].gen = slot[u][k].gen /\ slot'[u][k].tb \in {slot[u][k].tb, NoTB}
    BY <1>2
  <2> QED
    BY <1>0, <2>1, CodeKept DEF TInv, RunCompiled, shared
<1> QED
  BY <1>3, <1>4, <1>6, <1>8, <1>9, OneThread DEF TInv

\* The lookup drops a slot number that leads nowhere.
LEMMA LookupStep ==
    ASSUME TableTypeOK, NoStaleCode, NEW t \in Thread, NEW b \in TB, Lookup(t, b),
           slot' = slot, gen' = gen
    PROVE  export' \in [Thread -> [TB -> 0..Slots]] /\ NoStaleCode'
<1> USE ConstantsAssumption
<1>1. export \in [Thread -> [TB -> 0..Slots]]
  BY DEF TableTypeOK
<1>2. export' \in [Thread -> [TB -> 0..Slots]]
  BY <1>1 DEF Lookup
<1>3. \A u \in Thread, c \in TB : export'[u][c] \in {0, export[u][c]}
  BY <1>1 DEF Lookup
<1>4. \A u \in Thread, c \in TB : Has(u, c)' => Has(u, c) /\ export'[u][c] = export[u][c]
  BY <1>3 DEF Has
<1> QED
  BY <1>2, <1>4 DEF NoStaleCode

\* The thread's number of runs stays within the threshold.
LEMMA RunsType ==
    ASSUME TableTypeOK, NEW t \in Thread, NEW b \in TB
    PROVE  Runs(t, b) \in 0..Jit /\ (WantsTci(t, b) => Runs(t, b) + 1 \in 0..Jit)
<1>1. Runs(t, b) \in 0..Jit
  BY ConstantsAssumption DEF TableTypeOK, Runs
<1> QED
  BY <1>1, ConstantsAssumption DEF WantsTci

\* A block is interpreted (tcg_qemu_tb_exec, lines 2225-2227).
LEMMA InterpretInv ==
    ASSUME TInv, NEW t \in Thread, NEW b \in TB, Interpret(t, b) PROVE TInv' /\ Quiet
<1>0. TableTypeOK /\ NoStaleCode
  BY DEF TInv
<1>1. /\ gen' = gen /\ alive' = alive /\ cap' = cap /\ slot' = slot /\ hw' = hw /\ free' = free
      /\ hand' = hand /\ mods' = mods /\ pc' = pc /\ cur' = cur /\ newcap' = newcap
      /\ scanned' = scanned /\ gone' = gone /\ Lookup(t, b)
      /\ count' = [count EXCEPT ![t][b] = Runs(t, b) + 1]
  BY DEF Interpret, shared, table
<1>2. export' \in [Thread -> [TB -> 0..Slots]] /\ NoStaleCode'
  BY <1>0, <1>1, LookupStep
<1>3. Runs(t, b) + 1 \in 0..Jit
  BY <1>0, RunsType DEF Interpret
<1>4. count' \in [Thread -> [TB -> 0..Jit]]
  BY <1>0, <1>1, <1>3 DEF TableTypeOK
<1>5. TableTypeOK'
  BY ZenonT(40), <1>0, <1>1, <1>2, <1>4 DEF TableTypeOK
<1>6. \A u \in Thread : Local(u)'
  BY <1>1, Untouched DEF TInv, Same
<1>7. Quiet /\ CapFloor'
  BY <1>1 DEF TInv, Quiet, Running, Compiling, CapFloor
<1> QED
  BY <1>2, <1>5, <1>6, <1>7 DEF TInv

\* A sweep begins: the hand has passed nothing.
LEMMA SweepBegins ==
    ASSUME TableTypeOK, NEW t \in Thread, Local(t), ~InSweep(t), InSweep(t)', scanned'[t] = 0,
           slot' = slot, hw' = hw, free' = free, hand' = hand, gone' = gone
    PROVE  Local(t)'
<1>1. Stage(t)' /\ Hand(t)' /\ Stack(t)'
  BY DEF Local, Stage, Hand, Stack, InSweep
<1>2. hw[t] \in Nat /\ hand[t] \in Nat \ {0}
  BY ConstantsAssumption DEF TableTypeOK
<1>3. \A i \in 1..hw[t] : ~(Back(t, i) <= 0) /\ ~(Back(t, i) + hw[t] <= 0)
  BY <1>2 DEF Back
<1>4. \A i \in 1..hw[t] : Back(t, i)' = Back(t, i)
  BY DEF Back
<1>5. Clock(t)'
  BY <1>3, <1>4 DEF Clock
<1> QED
  BY <1>1, <1>5 DEF Local

\* A thread at the cap begins a sweep (lines 2228-2231).
LEMMA AtCapInv ==
    ASSUME TInv, NEW t \in Thread, NEW b \in TB, AtCap(t, b) PROVE TInv' /\ Quiet
<1>0. TableTypeOK /\ NoStaleCode /\ Local(t)
  BY DEF TInv
<1>1. /\ gen' = gen /\ alive' = alive /\ cap' = cap /\ slot' = slot /\ hw' = hw /\ free' = free
      /\ hand' = hand /\ mods' = mods /\ cur' = cur /\ newcap' = newcap /\ gone' = gone
      /\ pc[t] = "run" /\ pc' = [pc EXCEPT ![t] = "sweep"]
      /\ scanned' = [scanned EXCEPT ![t] = 0] /\ Lookup(t, b)
      /\ count' = [count EXCEPT ![t][b] = Runs(t, b)]
  BY DEF AtCap, shared, table
<1>2. export' \in [Thread -> [TB -> 0..Slots]] /\ NoStaleCode'
  BY <1>0, <1>1, LookupStep
<1>3. Runs(t, b) \in 0..Jit
  BY <1>0, RunsType
<1>4. count' \in [Thread -> [TB -> 0..Jit]]
  BY <1>0, <1>1, <1>3 DEF TableTypeOK
<1>5. TableTypeOK'
  BY ZenonT(40), <1>0, <1>1, <1>2, <1>4 DEF TableTypeOK
<1>6. pc'[t] = "sweep" /\ scanned'[t] = 0 /\ \A u \in Thread \ {t} : Same(u)
  BY <1>0, <1>1 DEF TableTypeOK, Same
<1>7. Local(t)'
  BY <1>0, <1>1, <1>6, SweepBegins DEF InSweep
<1>8. Quiet /\ CapFloor'
  BY <1>0, <1>1 DEF TInv, TableTypeOK, Quiet, Running, Compiling, CapFloor
<1> QED
  BY <1>2, <1>5, <1>6, <1>7, <1>8, OneThread DEF TInv

\* A thread below the cap begins to compile (lines 2232-2239).
LEMMA CompileInv ==
    ASSUME TInv, NEW t \in Thread, NEW b \in TB, Compile(t, b) PROVE TInv' /\ Asks(t)
<1>0. TableTypeOK /\ NoStaleCode /\ Local(t)
  BY DEF TInv
<1>1. /\ gen' = gen /\ alive' = alive /\ cap' = cap /\ slot' = slot /\ hw' = hw /\ free' = free
      /\ hand' = hand /\ mods' = mods /\ newcap' = newcap /\ scanned' = scanned /\ gone' = gone
      /\ pc[t] = "run" /\ pc' = [pc EXCEPT ![t] = "compile"]
      /\ cur' = [cur EXCEPT ![t] = b] /\ Lookup(t, b) /\ alive < cap
      /\ count' = [count EXCEPT ![t][b] = Runs(t, b)]
  BY DEF Compile, shared, table
<1>2. export' \in [Thread -> [TB -> 0..Slots]] /\ NoStaleCode'
  BY <1>0, <1>1, LookupStep
<1>3. Runs(t, b) \in 0..Jit
  BY <1>0, RunsType
<1>4. count' \in [Thread -> [TB -> 0..Jit]]
  BY <1>0, <1>1, <1>3 DEF TableTypeOK
<1>5. TableTypeOK'
  BY ZenonT(40), <1>0, <1>1, <1>2, <1>4 DEF TableTypeOK
<1>6. pc'[t] = "compile" /\ cur'[t] = b /\ \A u \in Thread \ {t} : Same(u)
  BY <1>0, <1>1 DEF TableTypeOK, Same
<1>7. Asks(t) /\ CapFloor'
  BY <1>0, <1>1 DEF TInv, TableTypeOK, Asks, Running, Compiling, CapFloor
<1>8. Local(t)'
  BY <1>0, <1>1, <1>6 DEF Local, Stage, Hand, Stack, Clock, InSweep
<1> QED
  BY <1>2, <1>5, <1>6, <1>7, <1>8, OneThread DEF TInv

-----------------------------------------------------------------------------
(* An instance is added.                                                   *)

NextSlot(t) == IF free[t] # <<>> THEN free[t][Len(free[t])] ELSE hw[t] + 1

\* The slot taken is empty, and no longer on the stack.
LEMMA TakeSlot ==
    ASSUME TableTypeOK, NEW t \in Thread, Stack(t), NextSlot(t) <= Slots
    PROVE  /\ NextSlot(t) \in 1..Slots
           /\ slot[t][NextSlot(t)].tb = NoTB
           /\ free[t] # <<>> => NextSlot(t) \in 1..hw[t]
<1>1. hw[t] \in 0..Slots /\ free[t] \in Seq(1..Slots)
  BY DEF TableTypeOK
<1>2. CASE free[t] = <<>>
  BY <1>1, <1>2, ConstantsAssumption DEF NextSlot, Stack
<1>3. CASE free[t] # <<>>
  <2>1. Len(free[t]) \in DOMAIN free[t] /\ NextSlot(t) = free[t][Len(free[t])]
    BY <1>1, <1>3 DEF NextSlot
  <2>2. NextSlot(t) \in {i \in 1..hw[t] : slot[t][i].tb = NoTB}
    BY <2>1 DEF Stack
  <2> QED
    BY <1>1, <2>2, ConstantsAssumption
<1> QED
  BY <1>2, <1>3

\* A sequence without its last element.
LEMMA ButLast ==
    ASSUME NEW S, NEW s \in Seq(S), s # <<>>
    PROVE  /\ SubSeq(s, 1, Len(s) - 1) \in Seq(S)
           /\ Len(SubSeq(s, 1, Len(s) - 1)) = Len(s) - 1
           /\ \A i \in 1..(Len(s) - 1) : SubSeq(s, 1, Len(s) - 1)[i] = s[i]
<1>1. PICK n \in Nat : n = Len(s) - 1
  OBVIOUS
<1>2. SubSeq(s, 1, n) \in Seq(S)
  BY <1>1
<1>3. Len(SubSeq(s, 1, n)) = n
  BY <1>1
<1>4. \A i \in 1..n : SubSeq(s, 1, n)[i] = s[i]
  BY <1>1
<1> QED
  BY <1>1, <1>2, <1>3, <1>4

\* The slot is taken off the stack, or from the end of what was handed out.
LEMMA PopStack ==
    ASSUME TableTypeOK, NEW t \in Thread, Stack(t), NextSlot(t) <= Slots,
           free'[t] = SubSeq(free[t], 1, Len(free[t]) - 1),
           hw'[t] = IF free[t] # <<>> THEN hw[t] ELSE hw[t] + 1,
           slot'[t][NextSlot(t)].tb # NoTB,
           \A k \in (1..Slots) \ {NextSlot(t)} : slot'[t][k] = slot[t][k]
    PROVE  Stack(t)' /\ free'[t] \in Seq(1..Slots) /\ hw'[t] \in 0..Slots /\ hw[t] <= hw'[t]
<1>1. hw[t] \in 0..Slots /\ free[t] \in Seq(1..Slots) /\ hw[t] \in Nat
  BY ConstantsAssumption DEF TableTypeOK
<1>2. PICK n \in 1..Slots : n = NextSlot(t)
  BY TakeSlot
<1>3. slot[t][n].tb = NoTB /\ slot'[t][n].tb # NoTB /\ \A k \in (1..Slots) \ {n} : slot'[t][k] = slot[t][k]
  BY <1>2, TakeSlot
<1>4. CASE free[t] = <<>>
  <2>1. hw'[t] = hw[t] + 1 /\ n = hw[t] + 1 /\ DOMAIN free[t] = {}
    BY <1>2, <1>4 DEF NextSlot
  <2>2. Len(free[t]) = 0
    BY <1>4
  <2>3. free'[t] = <<>> /\ DOMAIN free'[t] = {}
    BY <1>1, <1>4, <2>2
  <2>4. {i \in 1..hw[t] : slot[t][i].tb = NoTB} = {}
    BY <2>1 DEF Stack
  <2>5. ASSUME NEW i \in 1..hw'[t] PROVE slot'[t][i].tb # NoTB
    <3>1. i = n \/ (i \in 1..hw[t] /\ i \in (1..Slots) \ {n})
      BY <1>1, <2>1, ConstantsAssumption
    <3> QED
      BY <1>3, <2>4, <3>1
  <2>6. \A i \in (hw'[t] + 1)..Slots : slot'[t][i].tb = NoTB
    BY <1>1, <1>3, <2>1, ConstantsAssumption DEF Stack
  <2> QED
    BY <1>1, <1>2, <2>1, <2>3, <2>5, <2>6, ConstantsAssumption DEF Stack
<1>5. CASE free[t] # <<>>
  <2>1. hw'[t] = hw[t] /\ n = free[t][Len(free[t])] /\ n \in 1..hw[t]
    BY <1>2, <1>5, TakeSlot DEF NextSlot
  <2>2. Len(free[t]) \in Nat \ {0} /\ Len(free[t]) - 1 \in Nat /\ DOMAIN free[t] = 1..Len(free[t])
    BY <1>1, <1>5
  <2>3. /\ free'[t] \in Seq(1..Slots) /\ Len(free'[t]) = Len(free[t]) - 1
        /\ \A i \in 1..(Len(free[t]) - 1) : free'[t][i] = free[t][i]
    <3>1. PICK s \in Seq(1..Slots) : s = free[t] /\ s # <<>>
      BY <1>1, <1>5
    <3>2. /\ SubSeq(s, 1, Len(s) - 1) \in Seq(1..Slots)
          /\ Len(SubSeq(s, 1, Len(s) - 1)) = Len(s) - 1
          /\ \A i \in 1..(Len(s) - 1) : SubSeq(s, 1, Len(s) - 1)[i] = s[i]
      BY ZenonT(40), <3>1, ButLast
    <3>3. free'[t] = SubSeq(s, 1, Len(s) - 1)
      BY <3>1
    <3> QED
      BY <3>1, <3>2, <3>3
  <2>4. DOMAIN free'[t] = 1..(Len(free[t]) - 1)
    BY <2>3
  <2>5. \A i \in DOMAIN free'[t] : i \in DOMAIN free[t] /\ free'[t][i] = free[t][i]
    BY <2>2, <2>3, <2>4
  <2>6. \A i, j \in DOMAIN free'[t] : free'[t][i] = free'[t][j] => i = j
    BY <2>5 DEF Stack
  <2>7. {free'[t][i] : i \in DOMAIN free'[t]} = {free[t][i] : i \in DOMAIN free[t]} \ {n}
    <3>1. ASSUME NEW i \in DOMAIN free'[t] PROVE free'[t][i] \in {free[t][j] : j \in DOMAIN free[t]} \ {n}
      <4>1. i \in DOMAIN free[t] /\ free'[t][i] = free[t][i] /\ i # Len(free[t]) /\ Len(free[t]) \in DOMAIN free[t]
        BY <2>2, <2>4, <2>5
      <4>2. free[t][i] # n
        BY <2>1, <4>1 DEF Stack
      <4> QED
        BY <4>1, <4>2
    <3>2. ASSUME NEW i \in DOMAIN free[t], free[t][i] # n PROVE free[t][i] \in {free'[t][j] : j \in DOMAIN free'[t]}
      BY <2>1, <2>2, <2>4, <2>5, <3>2
    <3> QED
      BY <3>1, <3>2
  <2>8. {i \in 1..hw[t] : slot'[t][i].tb = NoTB} = {i \in 1..hw[t] : slot[t][i].tb = NoTB} \ {n}
    <3>1. 1..hw[t] \subseteq 1..Slots
      BY <1>1, ConstantsAssumption
    <3>2. \A i \in 1..hw[t] : slot'[t][i].tb = NoTB <=> i # n /\ slot[t][i].tb = NoTB
      BY <1>3, <3>1
    <3> QED
      BY <3>2
  <2>9. ASSUME NEW i \in (hw[t] + 1)..Slots PROVE slot'[t][i].tb = NoTB
    <3>1. i \in (1..Slots) \ {n}
      BY <1>1, <2>1, ConstantsAssumption
    <3> QED
      BY <1>3, <3>1 DEF Stack
  <2> QED
    <3>1. {free'[t][i] : i \in DOMAIN free'[t]} = {i \in 1..hw'[t] : slot'[t][i].tb = NoTB}
      BY ZenonT(40), <2>1, <2>7, <2>8 DEF Stack
    <3>2. Stack(t)'
      BY <2>1, <2>6, <2>9, <3>1 DEF Stack
    <3> QED
      BY <1>1, <2>1, <2>3, <3>2
<1> QED
  BY <1>4, <1>5

\* A thread that compiles adds its instance.
LEMMA AddInv ==
    ASSUME TInv, NEW t \in Thread, pc[t] = "compile", AddInstance(t, gen),
           mods' \in [Thread -> Seq([tb : TB, gen : 0..MaxGen])]
    PROVE  TInv' /\ Adds(t)
<1>0. /\ TableTypeOK /\ Local(t) /\ Stack(t) /\ cur[t] \in TB /\ gone[t] = {} /\ cur[t] # NoTB
      /\ hw[t] \in 0..Slots /\ gen \in 0..MaxGen
  BY ZenonT(40), ConstantsAssumption DEF TInv, Local, Stage, InSweep, TableTypeOK
<1>1. /\ NextSlot(t) <= Slots
      /\ free' = [free EXCEPT ![t] = SubSeq(@, 1, Len(@) - 1)]
      /\ hw' = [hw EXCEPT ![t] = IF free[t] # <<>> THEN @ ELSE @ + 1]
      /\ slot' = [slot EXCEPT ![t][NextSlot(t)] = [tb |-> cur[t], gen |-> gen, used |-> TRUE]]
      /\ export' = [export EXCEPT ![t][cur[t]] = NextSlot(t)]
      /\ alive' = alive + 1
      /\ pc' = [pc EXCEPT ![t] = "run"]
      /\ cur' = [cur EXCEPT ![t] = NoTB]
      /\ gen' = gen /\ cap' = cap /\ count' = count /\ hand' = hand /\ newcap' = newcap
      /\ scanned' = scanned /\ gone' = gone
  BY DEF AddInstance, NextSlot
<1>2. PICK n \in 1..Slots : n = NextSlot(t) /\ slot[t][n].tb = NoTB
  BY <1>0, <1>1, TakeSlot
<1>3. PICK r \in Slot : r = [tb |-> cur[t], gen |-> gen, used |-> TRUE]
  BY ZenonT(40), <1>0 DEF Slot
<1>4. r.tb = cur[t] /\ r.gen = gen
  BY <1>3
<1>5. slot \in [Thread -> [1..Slots -> Slot]]
  BY <1>0 DEF TableTypeOK, Slot
<1>6. /\ slot' \in [Thread -> [1..Slots -> Slot]]
      /\ \A u \in Thread \ {t} : slot'[u] = slot[u]
      /\ slot'[t][n] = r
      /\ \A k \in (1..Slots) \ {n} : slot'[t][k] = slot[t][k]
  <2>1. slot' = [slot EXCEPT ![t] = [slot[t] EXCEPT ![n] = r]]
    BY <1>1, <1>2, <1>3, <1>5
  <2> QED
    BY ZenonT(40), <1>5, <2>1, SlotStep
<1>7. Stack(t)' /\ free'[t] \in Seq(1..Slots) /\ hw'[t] \in 0..Slots /\ hw[t] <= hw'[t]
  <2>1. /\ free'[t] = SubSeq(free[t], 1, Len(free[t]) - 1)
        /\ hw'[t] = IF free[t] # <<>> THEN hw[t] ELSE hw[t] + 1
    BY <1>0, <1>1 DEF TableTypeOK
  <2> QED
    BY ZenonT(40), <1>0, <1>1, <1>2, <1>4, <1>6, <2>1, PopStack
<1>8. /\ export' \in [Thread -> [TB -> 0..Slots]]
      /\ \A u \in Thread, c \in TB : export'[u][c] = IF u = t /\ c = cur[t] THEN n ELSE export[u][c]
  <2>1. export \in [Thread -> [TB -> 0..Slots]] /\ n \in 0..Slots
    BY <1>0, ConstantsAssumption DEF TableTypeOK
  <2>2. export' = [export EXCEPT ![t] = [export[t] EXCEPT ![cur[t]] = n]]
    BY <1>1, <1>2
  <2>3. export[t] \in [TB -> 0..Slots] /\ [export[t] EXCEPT ![cur[t]] = n] \in [TB -> 0..Slots]
    BY <1>0, <2>1
  <2> QED
    BY <1>0, <2>1, <2>2, <2>3
<1>9. TableTypeOK'
  <2>1. free' \in [Thread -> Seq(1..Slots)] /\ hw' \in [Thread -> 0..Slots]
    BY <1>0, <1>1, <1>7 DEF TableTypeOK
  <2>2. pc' \in [Thread -> {"run", "compile", "lower", "sweep", "backoff"}]
    BY <1>0, <1>1 DEF TableTypeOK
  <2>3. cur' \in [Thread -> TB \cup {NoTB}]
    BY <1>0, <1>1 DEF TableTypeOK
  <2> QED
    BY ZenonT(40), <1>0, <1>1, <1>6, <1>8, <2>1, <2>2, <2>3 DEF TableTypeOK, Slot
<1>10. pc'[t] = "run" /\ \A u \in Thread \ {t} : Same(u)
  BY <1>0, <1>1, <1>6 DEF TableTypeOK, Same
<1>11. Local(t)'
  <2>1. Stage(t)' /\ Clock(t)'
    BY <1>0, <1>1, <1>10 DEF Stage, Clock, InSweep
  <2>2. Hand(t)'
    <3>1. hand[t] = 1 \/ hand[t] <= hw[t]
      BY <1>0 DEF Local, Hand
    <3>2. hand[t] \in Nat /\ hw[t] \in Nat /\ hw'[t] \in Nat
      BY <1>0, <1>7, ConstantsAssumption DEF TableTypeOK
    <3>3. hand'[t] = 1 \/ hand'[t] <= hw'[t]
      BY <1>1, <1>7, <3>1, <3>2
    <3> QED
      BY <1>0, <1>1, <3>3 DEF Hand
  <2> QED
    BY <1>7, <2>1, <2>2 DEF Local
<1>12. Running(t)' = Running(t) \cup {n} /\ n \notin Running(t)
  BY <1>0, <1>1, <1>2, <1>4, <1>6 DEF Running
<1>13. OthersRun(t)
  BY <1>10, <1>11, OneThread
<1>14. Compiling' = Compiling \ {t} /\ t \in Compiling
  BY <1>0, <1>1 DEF Compiling, TableTypeOK
<1>15. Adds(t)
  BY ZenonT(40), <1>1, <1>2, <1>12, <1>13, <1>14 DEF Adds
<1>16. CapFloor'
  BY <1>1 DEF TInv, CapFloor
<1>17. NoStaleCode'
  <2> SUFFICES ASSUME NEW u \in Thread, NEW c \in TB, Has(u, c)'
               PROVE  slot'[u][export'[u][c]].gen = gen
    BY <1>1 DEF NoStaleCode
  <2>1. CASE u = t /\ export'[u][c] = n
    BY <1>4, <1>6, <2>1
  <2>2. CASE ~(u = t /\ export'[u][c] = n)
    <3>1. export'[u][c] = export[u][c]
      BY <1>8, <2>2
    <3>2. export[u][c] \in 1..Slots
      <4>1. export[u][c] \in 0..Slots /\ export[u][c] # 0
        BY <1>0, <3>1 DEF Has, TableTypeOK
      <4> QED
        BY <4>1, ConstantsAssumption
    <3>3. slot'[u][export[u][c]] = slot[u][export[u][c]]
      BY <1>6, <2>2, <3>1, <3>2
    <3>4. Has(u, c)
      BY <3>1, <3>3 DEF Has
    <3> QED
      BY <3>1, <3>3, <3>4 DEF TInv, NoStaleCode
  <2> QED
    BY <2>1, <2>2
<1> QED
  BY <1>9, <1>10, <1>11, <1>15, <1>16, <1>17, OneThread DEF TInv

-----------------------------------------------------------------------------
(* The posted modules.                                                     *)

Mod == [tb : TB, gen : 0..MaxGen]

\* Taking one posted module away leaves posted modules.
LEMMA WithoutType ==
    ASSUME NEW ms \in Seq(Mod), NEW k \in DOMAIN ms PROVE Without(ms, k) \in Seq(Mod)
<1>1. k \in 1..Len(ms) /\ Len(ms) \in Nat
  OBVIOUS
<1>2. SubSeq(ms, 1, k - 1) \in Seq(Mod) /\ SubSeq(ms, k + 1, Len(ms)) \in Seq(Mod)
  BY <1>1
<1> QED
  BY <1>2 DEF Without

\* So does receiving one, the oldest dropped when there are too many.
LEMMA ReceivedType ==
    ASSUME NEW ms \in Seq(Mod), NEW m \in Mod PROVE Received(ms, m) \in Seq(Mod)
<1>1. Len(ms) \in Nat /\ (Len(ms) >= MaxMods => ms # <<>>)
  BY ConstantsAssumption
<1>2. Append(ms, m) \in Seq(Mod)
  OBVIOUS
<1>3. ms # <<>> => Append(Tail(ms), m) \in Seq(Mod)
  OBVIOUS
<1> QED
  BY <1>1, <1>2, <1>3, ConstantsAssumption DEF Received

\* What a compiling thread may do to the modules posted.
LEMMA ModuleSteps ==
    ASSUME TableTypeOK, NEW t \in Thread, cur[t] \in TB
    PROVE  /\ mods \in [Thread -> Seq(Mod)]
           /\ Post(t) \in [Thread -> Seq(Mod)]
           /\ Taken(t) \subseteq [Thread -> Seq(Mod)]
<1>1. mods \in [Thread -> Seq(Mod)] /\ Module(t) \in Mod
  BY ZenonT(40) DEF TableTypeOK, Mod, Module
<1>2. \A u \in Thread : Received(mods[u], Module(t)) \in Seq(Mod)
  BY <1>1, ReceivedType
<1>3. Post(t) \in [Thread -> Seq(Mod)]
  BY <1>1, <1>2 DEF Post
<1>4. \A k \in DOMAIN mods[t] : Without(mods[t], k) \in Seq(Mod)
  BY <1>1, WithoutType
<1>5. Taken(t) \subseteq [Thread -> Seq(Mod)]
  BY ZenonT(40), <1>1, <1>4 DEF Taken
<1> QED
  BY <1>1, <1>3, <1>5

\* A compile that succeeds, from a posted module or its own (lines 2239-2267).
LEMMA UseInv ==
    ASSUME TInv, NEW t \in Thread, UseShared(t) \/ UseOwn(t) PROVE TInv' /\ Adds(t)
<1>1. pc[t] = "compile" /\ AddInstance(t, gen) /\ mods' \in {Post(t)} \cup Taken(t)
  BY DEF UseShared, UseOwn, Module
<1>2. TableTypeOK /\ cur[t] \in TB
  BY <1>1 DEF TInv, Local, Stage
<1>3. mods' \in [Thread -> Seq(Mod)]
  BY <1>1, <1>2, ModuleSteps
<1> QED
  BY ZenonT(40), <1>1, <1>3, AddInv DEF Mod

\* A posted module is dropped: nothing else changes.
LEMMA DropModuleInv ==
    ASSUME TInv, NEW t \in Thread, DropModule(t) PROVE TInv' /\ Quiet
<1>1. /\ gen' = gen /\ alive' = alive /\ cap' = cap /\ slot' = slot /\ hw' = hw /\ free' = free
      /\ hand' = hand /\ export' = export /\ count' = count /\ pc' = pc /\ cur' = cur
      /\ newcap' = newcap /\ scanned' = scanned /\ gone' = gone
  BY DEF DropModule, shared, table
<1>2. TableTypeOK /\ mods \in [Thread -> Seq(Mod)]
  BY ZenonT(40) DEF TInv, TableTypeOK, Mod
<1>3. mods' \in [Thread -> Seq(Mod)]
  <2>1. PICK k \in DOMAIN mods[t] : mods' = [mods EXCEPT ![t] = Without(@, k)]
    BY ZenonT(40) DEF DropModule
  <2>2. Without(mods[t], k) \in Seq(Mod)
    BY <1>2, WithoutType
  <2> QED
    BY <1>2, <2>1, <2>2
<1>4. TableTypeOK'
  BY ZenonT(40), <1>1, <1>2, <1>3 DEF TableTypeOK, Mod
<1>5. \A u \in Thread : Local(u)'
  BY <1>1, Untouched DEF TInv, Same
<1>6. Quiet
  BY <1>1 DEF Quiet, Running, Compiling
<1>7. CapFloor' /\ NoStaleCode'
  BY <1>1 DEF TInv, CapFloor, NoStaleCode, Has
<1> QED
  BY <1>4, <1>5, <1>6, <1>7 DEF TInv

-----------------------------------------------------------------------------
(* A compile that fails, and the cap.                                      *)

\* The block starts counting again.
LEMMA CountReset ==
    ASSUME TableTypeOK, NEW t \in Thread, NEW b \in TB, count' = [count EXCEPT ![t][b] = 0]
    PROVE  count' \in [Thread -> [TB -> 0..Jit]]
<1>1. count \in [Thread -> [TB -> 0..Jit]] /\ 0 \in 0..Jit
  BY ConstantsAssumption DEF TableTypeOK
<1> QED
  BY <1>1

\* The block could not be translated again (lines 2262-2265).
LEMMA NotRegeneratedInv ==
    ASSUME TInv, NEW t \in Thread, NotRegenerated(t) PROVE TInv' /\ Quiet
<1>1. /\ gen' = gen /\ alive' = alive /\ cap' = cap /\ slot' = slot /\ hw' = hw /\ free' = free
      /\ hand' = hand /\ export' = export /\ mods' = mods /\ newcap' = newcap
      /\ scanned' = scanned /\ gone' = gone
      /\ pc[t] = "compile" /\ pc' = [pc EXCEPT ![t] = "run"] /\ cur' = [cur EXCEPT ![t] = NoTB]
      /\ count' = [count EXCEPT ![t][cur[t]] = 0]
  BY DEF NotRegenerated, shared, table
<1>2. TableTypeOK /\ Local(t) /\ cur[t] \in TB
  BY <1>1 DEF TInv, Local, Stage
<1>3. count' \in [Thread -> [TB -> 0..Jit]]
  BY ZenonT(40), <1>1, <1>2, CountReset
<1>4. TableTypeOK'
  BY ZenonT(40), <1>1, <1>2, <1>3 DEF TableTypeOK
<1>5. pc'[t] = "run" /\ \A u \in Thread \ {t} : Same(u)
  BY <1>1, <1>2 DEF TableTypeOK, Same
<1>6. Local(t)'
  BY <1>1, <1>2, <1>5 DEF Local, Stage, Hand, Stack, Clock, InSweep
<1>7. Quiet
  BY <1>1, <1>2 DEF Quiet, Running, Compiling, TableTypeOK
<1>8. CapFloor' /\ NoStaleCode'
  BY <1>1 DEF TInv, CapFloor, NoStaleCode, Has
<1> QED
  BY <1>4, <1>5, <1>6, <1>7, <1>8, OneThread DEF TInv

\* For the prover that knows no arithmetic.
LEMMA NatInt == \A n \in Nat : n \in Int
  OBVIOUS

\* The lowered cap is the greater of the floor and 1/Part below the count.
LEMMA MaxOfTwo ==
    ASSUME NEW a \in Int, NEW b \in Int
    PROVE  Max({a, b}) \in Int /\ Max({a, b}) >= a /\ Max({a, b}) >= b /\ Max({a, b}) \in {a, b}
<1>1. \E x \in {a, b} : \A y \in {a, b} : x >= y
  <2>1. CASE a >= b
    BY <2>1
  <2>2. CASE ~(a >= b)
    BY <2>2
  <2> QED
    BY <2>1, <2>2
<1>2. Max({a, b}) \in {a, b} /\ \A y \in {a, b} : Max({a, b}) >= y
  BY <1>1 DEF Max
<1> QED
  BY <1>2

\* The engine refused the module (lines 2270-2279): the count, even if other
\* threads have raised it, gives a lowered cap at or above the floor.
LEMMA RefusedInv ==
    ASSUME TInv, alive \in Nat, NEW t \in Thread, Refused(t) PROVE TInv' /\ Quiet
<1> DEFINE c == Max({Floor, alive - (alive \div Part)})
<1>1. /\ gen' = gen /\ alive' = alive /\ cap' = cap /\ slot' = slot /\ hw' = hw /\ free' = free
      /\ hand' = hand /\ export' = export /\ gone' = gone
      /\ mods' \in {mods, Post(t)} \cup Taken(t)
      /\ pc[t] = "compile"
      /\ pc' = [pc EXCEPT ![t] = IF c < cap THEN "lower" ELSE "backoff"]
      /\ cur' = [cur EXCEPT ![t] = NoTB]
      /\ newcap' = [newcap EXCEPT ![t] = IF c < cap THEN c ELSE 0]
      /\ scanned' = [scanned EXCEPT ![t] = 0]
      /\ count' = [count EXCEPT ![t][cur[t]] = 0]
  BY DEF Refused, shared, table
<1>2. TableTypeOK /\ Local(t) /\ cur[t] \in TB /\ gone[t] = {}
  BY <1>1 DEF TInv, Local, Stage, InSweep
<1>3. c \in Nat /\ c >= Floor
  <2>1. alive \in Nat /\ Part \in Nat \ {0} /\ Floor \in Nat
    BY ConstantsAssumption
  <2>2. alive - (alive \div Part) \in Int
    BY <2>1
  <2>3. Max({Floor, alive - (alive \div Part)}) \in Int
        /\ Max({Floor, alive - (alive \div Part)}) >= Floor
    BY ZenonT(40), <2>1, <2>2, MaxOfTwo, NatInt
  <2> QED
    BY <2>1, <2>3
<1>4. c < cap => c \in Floor..MaxAlive
  BY <1>2, <1>3, ConstantsAssumption DEF TInv, CapFloor, TableTypeOK
<1> HIDE DEF c
<1>5. count' \in [Thread -> [TB -> 0..Jit]]
  BY ZenonT(40), <1>1, <1>2, CountReset
<1>6. mods' \in [Thread -> Seq(Mod)]
  BY <1>1, <1>2, ModuleSteps
<1>7. TableTypeOK'
  BY ZenonT(40), <1>1, <1>2, <1>3, <1>5, <1>6 DEF TableTypeOK, Mod
<1>8. /\ pc'[t] = (IF c < cap THEN "lower" ELSE "backoff")
      /\ newcap'[t] = (IF c < cap THEN c ELSE 0)
      /\ scanned'[t] = 0
      /\ \A u \in Thread \ {t} : Same(u)
  BY <1>1, <1>2 DEF TableTypeOK, Same
<1>9. Local(t)'
  <2>1. CASE c < cap
    BY <1>1, <1>2, <1>4, <1>8, <2>1 DEF Local, Stage, Hand, Stack, Clock, InSweep
  <2>2. CASE ~(c < cap)
    BY <1>1, <1>2, <1>8, <2>2, SweepBegins DEF InSweep
  <2> QED
    BY <2>1, <2>2
<1>10. Quiet
  BY <1>1, <1>2 DEF Quiet, Running, Compiling, TableTypeOK
<1>11. CapFloor' /\ NoStaleCode'
  BY <1>1 DEF TInv, CapFloor, NoStaleCode, Has
<1> QED
  BY <1>7, <1>8, <1>9, <1>10, <1>11, OneThread DEF TInv

\* The lowered cap is stored (lines 2279-2284), whatever others stored before.
LEMMA LowerCapInv ==
    ASSUME TInv, NEW t \in Thread, LowerCap(t) PROVE TInv' /\ Quiet
<1>1. /\ gen' = gen /\ alive' = alive /\ slot' = slot /\ hw' = hw /\ free' = free
      /\ hand' = hand /\ export' = export /\ count' = count /\ mods' = mods /\ cur' = cur
      /\ scanned' = scanned /\ gone' = gone /\ cap' = newcap[t]
      /\ pc[t] = "lower" /\ pc' = [pc EXCEPT ![t] = "backoff"]
      /\ newcap' = [newcap EXCEPT ![t] = 0]
  BY DEF LowerCap, table
<1>2. TableTypeOK /\ Local(t) /\ scanned[t] = 0 /\ newcap[t] \in Floor..MaxAlive
  BY <1>1 DEF TInv, Local, Stage
<1>3. cap' \in Nat /\ CapFloor'
  BY <1>1, <1>2, ConstantsAssumption DEF CapFloor
<1>4. TableTypeOK'
  BY ZenonT(40), <1>1, <1>2, <1>3 DEF TableTypeOK
<1>5. pc'[t] = "backoff" /\ \A u \in Thread \ {t} : Same(u)
  BY <1>1, <1>2 DEF TableTypeOK, Same
<1>6. Local(t)'
  BY <1>1, <1>2, <1>5, SweepBegins DEF InSweep
<1>7. Quiet
  BY <1>1, <1>2 DEF Quiet, Running, Compiling, TableTypeOK
<1>8. NoStaleCode'
  BY <1>1 DEF TInv, NoStaleCode, Has
<1> QED
  BY <1>3, <1>4, <1>5, <1>6, <1>7, <1>8, OneThread DEF TInv

-----------------------------------------------------------------------------
(* The clock.                                                              *)

\* While the clock turns its hand is on a slot handed out.
LEMMA OnSlot ==
    ASSUME TableTypeOK, NEW t \in Thread, Hand(t), Sweeping(t)
    PROVE  /\ InSweep(t) /\ hw[t] \in 1..Slots /\ hand[t] \in 1..hw[t] /\ scanned[t] \in Nat
           /\ NextHand(t) \in 1..hw[t] /\ hw[t] \in Nat /\ hand[t] \in Nat /\ hand[t] \in 1..Slots
<1>1. hw[t] \in 0..Slots /\ hand[t] \in 1..Slots /\ scanned[t] \in Nat /\ scanned[t] < 2 * hw[t]
  BY DEF TableTypeOK, Sweeping
<1>2. hw[t] \in 1..Slots
  BY <1>1, ConstantsAssumption
<1>3. hand[t] \in 1..hw[t]
  BY <1>1, <1>2, ConstantsAssumption DEF Hand
<1> QED
  BY <1>1, <1>2, <1>3, ConstantsAssumption DEF NextHand, Sweeping

\* A move of the hand: every other slot is one move further back.
LEMMA HandMoves ==
    ASSUME TableTypeOK, NEW t \in Thread, Hand(t), Sweeping(t),
           hand' = [hand EXCEPT ![t] = NextHand(t)], hw' = hw
    PROVE  /\ \A i \in 1..hw[t] : Back(t, i)' = IF i = hand[t] THEN 1 ELSE Back(t, i) + 1
           /\ Back(t, hand[t]) = hw[t]
           /\ \A i \in 1..hw[t] : Back(t, i) \in 1..hw[t]
<1>1. /\ hw[t] \in Nat /\ hand[t] \in Nat /\ 1 <= hand[t] /\ hand[t] <= hw[t]
  BY OnSlot
<1>2. hand'[t] = NextHand(t) /\ hw'[t] = hw[t]
  BY DEF TableTypeOK
<1>3. \A i \in 1..hw[t] : Back(t, i)' = IF i = hand[t] THEN 1 ELSE Back(t, i) + 1
  BY <1>1, <1>2 DEF Back, NextHand
<1>4. Back(t, hand[t]) = hw[t] /\ \A i \in 1..hw[t] : Back(t, i) \in 1..hw[t]
  BY <1>1 DEF Back
<1> QED
  BY <1>3, <1>4

\* The hand passes a slot: empty, or with its second chance taken away.
LEMMA PassInv ==
    ASSUME TInv, NEW t \in Thread, Pass(t) PROVE TInv' /\ Quiet
<1>0. TableTypeOK /\ Local(t) /\ Hand(t) /\ Sweeping(t) /\ InSweep(t)
  BY DEF TInv, Local, Pass, Sweeping
<1>1. /\ gen' = gen /\ alive' = alive /\ cap' = cap /\ hw' = hw /\ free' = free
      /\ export' = export /\ count' = count /\ mods' = mods /\ pc' = pc /\ cur' = cur
      /\ newcap' = newcap /\ gone' = gone
      /\ slot[t][hand[t]].tb = NoTB \/ slot[t][hand[t]].used
      /\ slot' = [slot EXCEPT ![t][hand[t]].used = FALSE]
      /\ hand' = [hand EXCEPT ![t] = NextHand(t)]
      /\ scanned' = [scanned EXCEPT ![t] = @ + 1]
  BY DEF Pass, shared
<1>2. /\ hw[t] \in 1..Slots /\ hand[t] \in 1..hw[t] /\ scanned[t] \in Nat
      /\ NextHand(t) \in 1..hw[t] /\ hw[t] \in Nat /\ hand[t] \in 1..Slots
      /\ NextHand(t) \in 1..Slots
  <2>1. /\ hw[t] \in 1..Slots /\ hand[t] \in 1..hw[t] /\ scanned[t] \in Nat
        /\ NextHand(t) \in 1..hw[t] /\ hw[t] \in Nat /\ hand[t] \in 1..Slots
    BY <1>0, OnSlot
  <2> QED
    BY <2>1, ConstantsAssumption
<1>3. /\ slot' \in [Thread -> [1..Slots -> Slot]]
      /\ \A u \in Thread \ {t} : slot'[u] = slot[u]
      /\ \A k \in 1..Slots : slot'[t][k].tb = slot[t][k].tb /\ slot'[t][k].gen = slot[t][k].gen
      /\ slot'[t][hand[t]].used = FALSE
      /\ \A k \in (1..Slots) \ {hand[t]} : slot'[t][k].used = slot[t][k].used
  <2>1. PICK v \in BOOLEAN : v = FALSE
    BY ZenonT(40)
  <2>2. slot' = [slot EXCEPT ![t][hand[t]].used = v]
    BY ZenonT(40), <1>1, <2>1
  <2>3. /\ slot' \in [Thread -> [1..Slots -> Slot]]
        /\ \A u \in Thread \ {t} : slot'[u] = slot[u]
        /\ \A k \in 1..Slots : slot'[t][k].tb = slot[t][k].tb /\ slot'[t][k].gen = slot[t][k].gen
        /\ slot'[t][hand[t]].used = v
        /\ \A k \in (1..Slots) \ {hand[t]} : slot'[t][k].used = slot[t][k].used
    BY ZenonT(40), <1>0, <1>2, <2>2, MarkStep
  <2> QED
    BY <2>1, <2>3
<1>4. /\ hand' \in [Thread -> 1..Slots] /\ scanned' \in [Thread -> Nat]
      /\ hand'[t] = NextHand(t) /\ scanned'[t] = scanned[t] + 1
  BY <1>0, <1>1, <1>2 DEF TableTypeOK
<1>5. TableTypeOK'
  BY ZenonT(40), <1>0, <1>1, <1>3, <1>4 DEF TableTypeOK, Slot
<1>6. \A u \in Thread \ {t} : Same(u)
  BY <1>0, <1>1, <1>3 DEF TableTypeOK, Same
<1>7. Stage(t)'
  BY <1>0, <1>1 DEF Local, Stage, InSweep
<1>8. Hand(t)'
  <2>1. \A i \in gone[t] : slot'[t][i].tb = NoTB
    BY ZenonT(40), <1>0, <1>3 DEF Hand, TableTypeOK
  <2> QED
    BY <1>1, <1>2, <1>4, <2>1 DEF Hand
<1>9. Stack(t)'
  BY ZenonT(40), <1>0, <1>1, <1>3, <1>5, SameBlocks DEF Local
<1>10. Clock(t)'
  <2> SUFFICES ASSUME gone[t] = {}, NEW i \in 1..hw[t]
               PROVE  /\ Back(t, i)' <= scanned'[t] => ~slot'[t][i].used
                      /\ Back(t, i)' + hw[t] <= scanned'[t] => slot'[t][i].tb = NoTB
    BY <1>1 DEF Clock
  <2>1. /\ Back(t, i) <= scanned[t] => ~slot[t][i].used
        /\ Back(t, i) + hw[t] <= scanned[t] => slot[t][i].tb = NoTB
    BY <1>0 DEF Local, Clock
  <2>2. /\ Back(t, hand[t]) = hw[t] /\ Back(t, i) \in 1..hw[t]
        /\ Back(t, i)' = IF i = hand[t] THEN 1 ELSE Back(t, i) + 1
    BY ZenonT(40), <1>0, <1>1, HandMoves
  <2>3. i \in 1..Slots
    BY <1>2, ConstantsAssumption
  <2>4. CASE i = hand[t]
    <3>1. hw[t] <= scanned[t] => slot[t][i].tb = NoTB
      BY <1>1, <2>1, <2>2, <2>4
    <3> QED
      BY <1>2, <1>3, <1>4, <2>2, <2>3, <2>4, <3>1
  <2>5. CASE i # hand[t]
    <3>1. slot'[t][i].used = slot[t][i].used /\ slot'[t][i].tb = slot[t][i].tb
      BY <1>3, <2>3, <2>5
    <3>2. /\ Back(t, i)' = Back(t, i) + 1 /\ scanned'[t] = scanned[t] + 1
          /\ hw[t] \in Nat /\ scanned[t] \in Nat
      BY <1>0, <1>2, <1>4, <2>2, <2>5 DEF TableTypeOK
    <3> QED
      BY <2>1, <2>2, <3>1, <3>2
  <2> QED
    BY <2>4, <2>5
<1>11. Local(t)'
  BY <1>7, <1>8, <1>9, <1>10 DEF Local
<1>12. \A u \in Thread : Running(u)' = Running(u)
  <2>1. Running(t)' = Running(t)
    BY <1>1, <1>3 DEF Running
  <2> QED
    BY <1>6, <1>11, <2>1, OneThread DEF OthersRun
<1>13. Quiet
  BY <1>1, <1>12 DEF Quiet, Compiling
<1>14. CapFloor'
  BY <1>1 DEF TInv, CapFloor
<1>15. NoStaleCode'
  <2>1. \A u \in Thread, k \in 1..Slots :
            slot'[u][k].gen = slot[u][k].gen /\ slot'[u][k].tb \in {slot[u][k].tb, NoTB}
    BY <1>3
  <2> QED
    BY <1>0, <1>1, <2>1, CodeKept DEF TInv
<1> QED
  BY <1>5, <1>6, <1>11, <1>13, <1>14, <1>15, OneThread DEF TInv

\* The slot under the hand is put on top of the free stack.
LEMMA PushStack ==
    ASSUME TableTypeOK, NEW t \in Thread, Stack(t), NEW h \in 1..hw[t], slot[t][h].tb # NoTB,
           free'[t] = Append(free[t], h), hw' = hw, slot'[t][h].tb = NoTB,
           \A k \in (1..Slots) \ {h} : slot'[t][k].tb = slot[t][k].tb
    PROVE  Stack(t)' /\ free'[t] \in Seq(1..Slots)
<1>1. hw[t] \in 0..Slots /\ hw'[t] = hw[t] /\ free[t] \in Seq(1..Slots)
  BY DEF TableTypeOK
<1>2. h \in 1..Slots /\ 1..hw[t] \subseteq 1..Slots /\ (hw[t] + 1)..Slots \subseteq (1..Slots) \ {h}
  BY <1>1, ConstantsAssumption
<1>3. PICK n \in Nat : n = Len(free[t]) /\ DOMAIN free[t] = 1..n
  <2>1. Len(free[t]) \in Nat /\ DOMAIN free[t] = 1..Len(free[t])
    BY <1>1
  <2> QED
    BY <2>1
<1>4. /\ free'[t] \in Seq(1..Slots)
      /\ DOMAIN free'[t] = 1..(n + 1)
      /\ \A i \in 1..n : free'[t][i] = free[t][i]
      /\ free'[t][n + 1] = h
  BY <1>1, <1>2, <1>3
<1>5. /\ \A i, j \in 1..n : free[t][i] = free[t][j] => i = j
      /\ {free[t][i] : i \in 1..n} = {i \in 1..hw[t] : slot[t][i].tb = NoTB}
      /\ \A i \in (hw[t] + 1)..Slots : slot[t][i].tb = NoTB
  BY ZenonT(40), <1>3 DEF Stack
<1>6. \A i \in 1..n : free[t][i] # h
  BY <1>5
<1>7. 1..(n + 1) = (1..n) \cup {n + 1}
  BY <1>3
<1>8. \A i, j \in 1..(n + 1) : free'[t][i] = free'[t][j] => i = j
  BY <1>4, <1>5, <1>6, <1>7
<1>9. {free'[t][i] : i \in 1..(n + 1)} = {free[t][i] : i \in 1..n} \cup {h}
  BY <1>4, <1>7
<1>10. {i \in 1..hw[t] : slot'[t][i].tb = NoTB} = {i \in 1..hw[t] : slot[t][i].tb = NoTB} \cup {h}
  BY <1>2
<1>11. \A i \in (hw[t] + 1)..Slots : slot'[t][i].tb = NoTB
  BY <1>2, <1>5
<1> QED
  BY ZenonT(40), <1>1, <1>4, <1>5, <1>8, <1>9, <1>10, <1>11 DEF Stack

\* An instance is evicted: it counts until the sweep ends.
LEMMA EvictInv ==
    ASSUME TInv, NEW t \in Thread, Evict(t) PROVE TInv' /\ Quiet
<1>0. TableTypeOK /\ Local(t) /\ Hand(t) /\ Stack(t) /\ Sweeping(t) /\ InSweep(t)
  BY DEF TInv, Local, Evict, Sweeping
<1>1. /\ gen' = gen /\ alive' = alive /\ cap' = cap /\ hw' = hw
      /\ export' = export /\ count' = count /\ mods' = mods /\ pc' = pc /\ cur' = cur
      /\ newcap' = newcap
      /\ slot[t][hand[t]].tb # NoTB
      /\ slot' = [slot EXCEPT ![t][hand[t]].tb = NoTB]
      /\ free' = [free EXCEPT ![t] = Append(@, hand[t])]
      /\ gone' = [gone EXCEPT ![t] = @ \cup {hand[t]}]
      /\ hand' = [hand EXCEPT ![t] = NextHand(t)]
      /\ scanned' = [scanned EXCEPT ![t] = @ + 1]
  BY DEF Evict, shared
<1>2. PICK h \in 1..Slots : h = hand[t] /\ h \in 1..hw[t]
  BY <1>0, OnSlot
<1>3. /\ hw[t] \in 1..Slots /\ scanned[t] \in Nat
      /\ NextHand(t) \in 1..hw[t] /\ hw[t] \in Nat /\ NextHand(t) \in 1..Slots
  <2>1. /\ hw[t] \in 1..Slots /\ scanned[t] \in Nat
        /\ NextHand(t) \in 1..hw[t] /\ hw[t] \in Nat
    BY <1>0, OnSlot
  <2> QED
    BY <2>1, ConstantsAssumption
<1>4. slot \in [Thread -> [1..Slots -> Slot]]
  BY <1>0 DEF TableTypeOK, Slot
<1>5. PICK r \in Slot : r = [slot[t][h] EXCEPT !.tb = NoTB]
  <2>1. slot[t][h] \in Slot
    BY ZenonT(40), <1>4
  <2> QED
    BY ZenonT(40), <2>1 DEF Slot
<1>6. r.tb = NoTB /\ r.gen = slot[t][h].gen
  <2>1. slot[t][h] \in Slot
    BY ZenonT(40), <1>4
  <2> QED
    BY <1>5, <2>1 DEF Slot
<1>7. slot' = [slot EXCEPT ![t] = [slot[t] EXCEPT ![h] = r]]
  BY <1>1, <1>2, <1>4, <1>5
<1>8. /\ slot' \in [Thread -> [1..Slots -> Slot]]
      /\ \A u \in Thread \ {t} : slot'[u] = slot[u]
      /\ slot'[t][h] = r
      /\ \A k \in (1..Slots) \ {h} : slot'[t][k] = slot[t][k]
  BY ZenonT(40), <1>4, <1>7, SlotStep
<1>9. Stack(t)' /\ free'[t] \in Seq(1..Slots)
  <2>1. free'[t] = Append(free[t], h)
    BY <1>0, <1>1, <1>2 DEF TableTypeOK
  <2> QED
    BY ZenonT(40), <1>0, <1>1, <1>2, <1>6, <1>8, <2>1, PushStack
<1>10. /\ hand' \in [Thread -> 1..Slots] /\ scanned' \in [Thread -> Nat]
       /\ gone' \in [Thread -> SUBSET (1..Slots)]
       /\ hand'[t] = NextHand(t) /\ gone'[t] = gone[t] \cup {h}
  <2>1. /\ hand \in [Thread -> 1..Slots] /\ scanned \in [Thread -> Nat]
        /\ gone \in [Thread -> SUBSET (1..Slots)]
    BY <1>0 DEF TableTypeOK
  <2>2. hand' \in [Thread -> 1..Slots] /\ hand'[t] = NextHand(t)
    BY <1>1, <1>3, <2>1
  <2>3. scanned' \in [Thread -> Nat]
    BY <1>1, <1>3, <2>1
  <2>4. gone[t] \cup {h} \in SUBSET (1..Slots)
    BY <2>1
  <2>5. gone' \in [Thread -> SUBSET (1..Slots)] /\ gone'[t] = gone[t] \cup {h}
    BY <1>1, <1>2, <2>1, <2>4
  <2> QED
    BY <2>2, <2>3, <2>5
<1>11. free' \in [Thread -> Seq(1..Slots)]
  BY <1>0, <1>1, <1>9 DEF TableTypeOK
<1>12. TableTypeOK'
  BY ZenonT(40), <1>0, <1>1, <1>8, <1>10, <1>11 DEF TableTypeOK, Slot
<1>13. \A u \in Thread \ {t} : Same(u)
  BY <1>0, <1>1, <1>8 DEF TableTypeOK, Same
<1>14. Stage(t)' /\ Clock(t)'
  BY <1>0, <1>1, <1>10 DEF Local, Stage, Clock, InSweep
<1>15. Hand(t)'
  <2>1. \A i \in gone'[t] : i \in 1..Slots /\ slot'[t][i].tb = NoTB
    BY <1>0, <1>6, <1>8, <1>10 DEF Hand, TableTypeOK
  <2> QED
    BY <1>1, <1>3, <1>10, <2>1 DEF Hand
<1>16. Local(t)'
  BY <1>9, <1>14, <1>15 DEF Local
<1>17. Running(t)' = Running(t)
  BY <1>1, <1>2, <1>6, <1>8, <1>10 DEF Running
<1>18. Quiet
  <2>1. \A u \in Thread : Running(u)' = Running(u)
    BY <1>13, <1>16, <1>17, OneThread DEF OthersRun
  <2> QED
    BY <1>1, <2>1 DEF Quiet, Compiling
<1>19. CapFloor'
  BY <1>1 DEF TInv, CapFloor
<1>20. NoStaleCode'
  <2>1. \A u \in Thread, k \in 1..Slots :
            slot'[u][k].gen = slot[u][k].gen /\ slot'[u][k].tb \in {slot[u][k].tb, NoTB}
    BY <1>6, <1>8
  <2> QED
    BY <1>0, <1>1, <2>1, CodeKept DEF TInv
<1> QED
  BY <1>12, <1>13, <1>16, <1>18, <1>19, <1>20, OneThread DEF TInv

\* The sweep ends and subtracts what it evicted.
LEMMA EndSweepInv ==
    ASSUME TInv, NEW t \in Thread, EndSweep(t) PROVE TInv' /\ Ends(t)
<1>1. /\ gen' = gen /\ cap' = cap /\ slot' = slot /\ hw' = hw /\ free' = free /\ hand' = hand
      /\ export' = export /\ count' = count /\ mods' = mods /\ cur' = cur /\ newcap' = newcap
      /\ alive' = alive - Cardinality(gone[t]) /\ InSweep(t)
      /\ gone' = [gone EXCEPT ![t] = {}]
      /\ scanned' = [scanned EXCEPT ![t] = 0]
      /\ pc' = [pc EXCEPT ![t] = "run"]
  BY DEF EndSweep, table
<1>2. TableTypeOK /\ Local(t) /\ Hand(t)
  BY DEF TInv, Local
<1>3. /\ gone' \in [Thread -> SUBSET (1..Slots)] /\ gone'[t] = {}
      /\ scanned' \in [Thread -> Nat] /\ pc'[t] = "run"
      /\ \A u \in Thread \ {t} : Same(u)
  BY <1>1, <1>2 DEF TableTypeOK, Same
<1>4. Running(t)' = Running(t) \ gone[t]
  BY ZenonT(40), <1>1, <1>2, <1>3 DEF Running, Hand
<1>5. Local(t)'
  <2>1. Stage(t)'
    BY <1>3 DEF Stage, InSweep
  <2>2. Hand(t)'
    BY ZenonT(40), <1>1, <1>2, <1>3 DEF Hand
  <2>3. Clock(t)'
    BY ZenonT(40), <1>3 DEF Clock, InSweep
  <2>4. Stack(t)
    BY <1>2 DEF Local
  <2>5. Stack(t)'
    BY <1>1, <2>4 DEF Stack
  <2> QED
    BY <2>1, <2>2, <2>3, <2>5 DEF Local
<1>6. TableTypeOK'
  BY ZenonT(40), <1>1, <1>2, <1>3 DEF TableTypeOK
<1>7. OthersRun(t)
  BY <1>3, <1>5, OneThread
<1>8. t \notin Compiling' /\ Compiling' \subseteq Compiling
  BY <1>1, <1>2 DEF Compiling, TableTypeOK
<1>9. Ends(t)
  BY <1>1, <1>4, <1>7, <1>8 DEF Ends
<1>10. CapFloor' /\ NoStaleCode'
  BY <1>1 DEF TInv, CapFloor, NoStaleCode, Has
<1> QED
  BY <1>3, <1>5, <1>6, <1>9, <1>10, OneThread DEF TInv

-----------------------------------------------------------------------------
(* The flush.                                                              *)

\* The vectors of every block are zero, so none leads to an old instance.
LEMMA FlushInv ==
    ASSUME TInv, Flush PROVE TInv' /\ Quiet
<1>1. /\ alive' = alive /\ cap' = cap /\ slot' = slot /\ hw' = hw /\ free' = free
      /\ hand' = hand /\ mods' = mods /\ pc' = pc /\ cur' = cur /\ newcap' = newcap
      /\ scanned' = scanned /\ gone' = gone /\ gen < MaxGen /\ gen' = gen + 1
      /\ export' = [t \in Thread |-> [b \in TB |-> 0]]
      /\ count' = [t \in Thread |-> [b \in TB |-> 0]]
  BY DEF Flush, table
<1>2. gen' \in 0..MaxGen
  BY <1>1, ConstantsAssumption DEF TInv, TableTypeOK
<1>3. /\ export' \in [Thread -> [TB -> 0..Slots]] /\ count' \in [Thread -> [TB -> 0..Jit]]
      /\ \A t \in Thread, b \in TB : export'[t][b] = 0
  BY <1>1, ConstantsAssumption
<1>4. TableTypeOK'
  BY ZenonT(40), <1>1, <1>2, <1>3 DEF TInv, TableTypeOK
<1>5. \A u \in Thread : Local(u)'
  BY <1>1, Untouched DEF TInv, Same
<1>6. Quiet
  BY <1>1 DEF Quiet, Running, Compiling
<1>7. CapFloor' /\ NoStaleCode'
  BY <1>1, <1>3 DEF TInv, CapFloor, NoStaleCode, Has
<1> QED
  BY <1>4, <1>5, <1>6, <1>7 DEF TInv

-----------------------------------------------------------------------------
(* Every step.                                                             *)

\* Every step keeps the invariant and is of one of the four kinds.
LEMMA NextInv ==
    ASSUME TInv, alive \in Nat, [Next]_vars
    PROVE  TInv' /\ (Quiet \/ \E t \in Thread : Asks(t) \/ Adds(t) \/ Ends(t))
<1>1. CASE UNCHANGED vars
  <2>1. /\ gen' = gen /\ alive' = alive /\ cap' = cap /\ slot' = slot /\ hw' = hw /\ free' = free
        /\ hand' = hand /\ export' = export /\ count' = count /\ mods' = mods /\ pc' = pc
        /\ cur' = cur /\ newcap' = newcap /\ scanned' = scanned /\ gone' = gone
    BY <1>1 DEF vars, shared, table
  <2>2. TableTypeOK'
    BY ZenonT(40), <2>1 DEF TInv, TableTypeOK
  <2>3. \A u \in Thread : Local(u)'
    BY <2>1, Untouched DEF TInv, Same
  <2>4. CapFloor' /\ NoStaleCode'
    BY <2>1 DEF TInv, CapFloor, NoStaleCode, Has
  <2>5. Quiet
    BY <2>1 DEF Quiet, Running, Compiling
  <2> QED
    BY <2>2, <2>3, <2>4, <2>5 DEF TInv
<1>2. ASSUME NEW t \in Thread, NEW b \in TB,
             RunCompiled(t, b) \/ Interpret(t, b) \/ AtCap(t, b) \/ Compile(t, b)
      PROVE  TInv' /\ (Quiet \/ Asks(t))
  BY <1>2, RunCompiledInv, InterpretInv, AtCapInv, CompileInv
<1>3. ASSUME NEW t \in Thread,
             \/ UseShared(t) \/ UseOwn(t) \/ NotRegenerated(t) \/ Refused(t) \/ LowerCap(t)
             \/ Pass(t) \/ Evict(t) \/ EndSweep(t) \/ DropModule(t)
      PROVE  TInv' /\ (Quiet \/ Adds(t) \/ Ends(t))
  BY <1>3, UseInv, NotRegeneratedInv, RefusedInv, LowerCapInv, PassInv, EvictInv, EndSweepInv,
     DropModuleInv
<1>4. CASE Flush
  BY <1>4, FlushInv
<1> QED
  BY <1>1, <1>2, <1>3, <1>4 DEF Next

-----------------------------------------------------------------------------
(* Counting.                                                               *)

\* A thread that compiles has room below the tuned cap: its own instances were
\* below the cap when it asked, and only it can add to them.
Room(t) == t \in Compiling => Cardinality(Running(t)) < MaxAlive

\* The inductive invariant.
IInv ==
    /\ TInv
    /\ alive \in Nat
    /\ AliveExact
    /\ CapOvershoot
    /\ \A t \in Thread : Room(t)

\* The table has this many slots.
LEMMA SlotsFinite == IsFiniteSet(1..Slots) /\ Cardinality(1..Slots) = Slots
<1>1. 1 \in Int /\ Slots \in Int /\ (IF 1 > Slots THEN 0 ELSE Slots - 1 + 1) = Slots
  BY ConstantsAssumption
<1>2. /\ IsFiniteSet(1..Slots)
      /\ Cardinality(1..Slots) = IF 1 > Slots THEN 0 ELSE Slots - 1 + 1
  BY ZenonT(40), <1>1, FS_Interval
<1> QED
  BY <1>1, <1>2

\* A thread's instances are slots of its table, and some of all that count.
LEMMA RunningFinite ==
    ASSUME TableTypeOK, NEW t \in Thread
    PROVE  /\ Running(t) \subseteq 1..Slots
           /\ IsFiniteSet(Running(t)) /\ Cardinality(Running(t)) \in Nat
           /\ gone[t] \subseteq Running(t) /\ IsFiniteSet(gone[t]) /\ Cardinality(gone[t]) \in Nat
<1>1. Running(t) \subseteq 1..Slots /\ gone[t] \subseteq Running(t)
  BY DEF TableTypeOK, Running
<1>2. IsFiniteSet(1..Slots)
  BY SlotsFinite
<1>3. IsFiniteSet(Running(t))
  BY ZenonT(40), <1>1, <1>2, FS_Subset
<1>4. IsFiniteSet(gone[t])
  BY <1>1, <1>3, FS_Subset
<1> QED
  BY <1>1, <1>3, <1>4, FS_CardinalityType

\* Finitely many instances count.
LEMMA CountedFinite == IsFiniteSet(Counted) /\ Cardinality(Counted) \in Nat
<1>1. IsFiniteSet(1..Slots)
  BY SlotsFinite
<1>2. IsFiniteSet(Thread \X (1..Slots))
  BY <1>1, ConstantsAssumption, FS_Product
<1>3. Counted \subseteq Thread \X (1..Slots)
  BY DEF Counted
<1>4. IsFiniteSet(Counted)
  BY <1>2, <1>3, FS_Subset
<1> QED
  BY <1>4, FS_CardinalityType

\* The pairs of one thread.
LEMMA PairsOf ==
    ASSUME NEW t, NEW S, IsFiniteSet(S)
    PROVE  IsFiniteSet({t} \X S) /\ Cardinality({t} \X S) = Cardinality(S)
<1>1. IsFiniteSet({t}) /\ Cardinality({t}) = 1
  BY FS_Singleton
<1>2. IsFiniteSet({t} \X S) /\ Cardinality({t} \X S) = Cardinality({t}) * Cardinality(S)
  BY <1>1, FS_Product
<1>3. Cardinality(S) \in Nat
  BY FS_CardinalityType
<1> QED
  BY <1>1, <1>2, <1>3

\* Taking a part of a finite set away.
LEMMA PartLess ==
    ASSUME NEW S, NEW T, IsFiniteSet(S), T \subseteq S
    PROVE  IsFiniteSet(S \ T) /\ Cardinality(S \ T) = Cardinality(S) - Cardinality(T)
<1>1. S \cap T = T
  OBVIOUS
<1> QED
  BY <1>1, FS_Difference

\* No thread has more instances than count.
LEMMA RunningBound ==
    ASSUME TableTypeOK, AliveExact, NEW t \in Thread
    PROVE  Cardinality(Running(t)) <= alive
<1>1. {t} \X Running(t) \subseteq Counted
  BY RunningFinite DEF Counted
<1>2. IsFiniteSet(Counted)
  BY CountedFinite
<1>3. Cardinality({t} \X Running(t)) <= Cardinality(Counted)
  BY <1>1, <1>2, FS_Subset
<1>4. Cardinality({t} \X Running(t)) = Cardinality(Running(t))
  BY ZenonT(40), RunningFinite, PairsOf
<1> QED
  BY <1>3, <1>4 DEF AliveExact

\* Nothing begins or stops to count.
LEMMA CountSame ==
    ASSUME AliveExact, \A u \in Thread : Running(u)' = Running(u), alive' = alive
    PROVE  AliveExact'
<1>1. Counted' = Counted
  BY DEF Counted
<1> QED
  BY <1>1 DEF AliveExact

\* One instance begins to count.
LEMMA CountOne ==
    ASSUME TableTypeOK, AliveExact, NEW t \in Thread, NEW i \in 1..Slots, i \notin Running(t),
           Running(t)' = Running(t) \cup {i},
           OthersRun(t), alive' = alive + 1
    PROVE  AliveExact'
<1>1. Counted' = Counted \cup {<<t, i>>} /\ <<t, i>> \notin Counted
  BY DEF Counted, OthersRun
<1>2. Cardinality(Counted \cup {<<t, i>>}) = Cardinality(Counted) + 1
  BY ZenonT(40), <1>1, CountedFinite, FS_AddElement
<1> QED
  BY <1>1, <1>2 DEF AliveExact

\* The instances a thread has evicted stop counting.
LEMMA CountLess ==
    ASSUME TableTypeOK, AliveExact, NEW t \in Thread, Running(t)' = Running(t) \ gone[t],
           OthersRun(t),
           alive' = alive - Cardinality(gone[t])
    PROVE  AliveExact' /\ alive' \in Nat
<1>0. gone[t] \subseteq Running(t) /\ Running(t) \subseteq 1..Slots /\ IsFiniteSet(gone[t])
  BY RunningFinite
<1>1. Counted' = Counted \ ({t} \X gone[t])
  BY DEF Counted, OthersRun
<1>2. {t} \X gone[t] \subseteq Counted
  BY <1>0 DEF Counted
<1>3. /\ IsFiniteSet(Counted \ ({t} \X gone[t]))
      /\ Cardinality(Counted \ ({t} \X gone[t])) = Cardinality(Counted) - Cardinality({t} \X gone[t])
  BY ZenonT(40), <1>2, CountedFinite, PartLess
<1>4. Cardinality({t} \X gone[t]) = Cardinality(gone[t])
  BY ZenonT(40), <1>0, PairsOf
<1>5. Cardinality(Counted)' \in Nat
  BY <1>1, <1>3, FS_CardinalityType
<1> QED
  BY <1>1, <1>3, <1>4, <1>5 DEF AliveExact

-----------------------------------------------------------------------------
(* The kinds of step.                                                      *)

\* No thread asks to compile and nothing is added.
LEMMA OvershootLess ==
    ASSUME CapOvershoot, Compiling' \subseteq Compiling,
           alive \in Nat, alive' \in Nat, alive' <= alive
    PROVE  CapOvershoot'
<1>1. IsFiniteSet(Compiling)
  BY ConstantsAssumption, FS_Subset DEF Compiling
<1>2. Cardinality(Compiling') <= Cardinality(Compiling) /\ IsFiniteSet(Compiling')
  BY <1>1, FS_Subset
<1>3. Cardinality(Compiling') \in Nat /\ Cardinality(Compiling) \in Nat /\ Cardinality(Thread) \in Nat
  BY <1>1, <1>2, ConstantsAssumption, FS_CardinalityType
<1> QED
  BY <1>2, <1>3, ConstantsAssumption DEF CapOvershoot

\* Nothing counts before anything is compiled.
LEMMA InitCounts == Init => IInv
<1> SUFFICES ASSUME Init PROVE IInv
  OBVIOUS
<1>1. TInv /\ alive = 0
  BY InitInv DEF Init
<1>2. \A t \in Thread : Running(t) = {}
  BY ConstantsAssumption DEF Init, Running, Empty
<1>3. Counted = {} /\ Compiling = {}
  BY <1>2 DEF Counted, Init, Compiling
<1>4. Cardinality({}) = 0 /\ Cardinality(Thread) \in Nat
  BY ConstantsAssumption, FS_EmptySet, FS_CardinalityType
<1>5. AliveExact /\ CapOvershoot
  BY <1>1, <1>3, <1>4, ConstantsAssumption DEF AliveExact, CapOvershoot
<1>6. \A t \in Thread : Room(t)
  BY <1>3 DEF Room
<1> QED
  BY <1>1, <1>5, <1>6 DEF IInv

\* A step that leaves the count and asks for nothing.
LEMMA QuietCounts ==
    ASSUME IInv, TInv', Quiet PROVE IInv'
<1>1. AliveExact' /\ alive' \in Nat
  BY CountSame DEF IInv, Quiet
<1>2. CapOvershoot'
  BY OvershootLess DEF IInv, Quiet
<1>3. \A t \in Thread : Room(t)'
  BY DEF IInv, Quiet, Room
<1> QED
  BY <1>1, <1>2, <1>3 DEF IInv

\* A thread that found the count below the cap asks: whatever the others are
\* about to add, they are no more than the other threads.
LEMMA AsksCounts ==
    ASSUME IInv, TInv', NEW t \in Thread, Asks(t) PROVE IInv'
<1>1. AliveExact' /\ alive' \in Nat /\ alive' = alive /\ alive \in Nat
  BY CountSame DEF IInv, Asks
<1>2. alive < MaxAlive
  BY ConstantsAssumption DEF IInv, TInv, CapFloor, TableTypeOK, Asks
<1>3. CapOvershoot'
  <2>1. Compiling' \subseteq Thread
    BY DEF Compiling
  <2>2. IsFiniteSet(Compiling') /\ Cardinality(Compiling') <= Cardinality(Thread)
    BY <2>1, ConstantsAssumption, FS_Subset
  <2>3. Cardinality(Compiling') \in Nat /\ Cardinality(Thread) \in Nat
    BY <2>2, ConstantsAssumption, FS_CardinalityType
  <2> QED
    BY <1>1, <1>2, <2>2, <2>3, ConstantsAssumption DEF CapOvershoot
<1>4. Cardinality(Running(t)) < MaxAlive
  <2>1. Cardinality(Running(t)) <= alive
    BY RunningBound DEF IInv, TInv
  <2>2. Cardinality(Running(t)) \in Nat /\ MaxAlive \in Nat
    BY RunningFinite, ConstantsAssumption DEF IInv, TInv
  <2> QED
    BY <1>1, <1>2, <2>1, <2>2
<1>5. \A u \in Thread : Room(u)'
  BY <1>4 DEF IInv, Asks, Room
<1> QED
  BY <1>1, <1>3, <1>5 DEF IInv

\* A compiling thread adds an instance: one more counts, one less is to come.
LEMMA AddsCounts ==
    ASSUME IInv, TInv', NEW t \in Thread, Adds(t) PROVE IInv'
<1>1. PICK i \in (1..Slots) \ Running(t) : Running(t)' = Running(t) \cup {i}
  BY DEF Adds
<1>2. AliveExact' /\ alive' = alive + 1 /\ alive \in Nat /\ alive' \in Nat
  BY <1>1, CountOne DEF IInv, TInv, Adds
<1>3. CapOvershoot'
  <2>1. Compiling' = Compiling \ {t} /\ t \in Compiling /\ Compiling \subseteq Thread
    BY DEF Adds, Compiling
  <2>2. IsFiniteSet(Compiling)
    BY <2>1, ConstantsAssumption, FS_Subset
  <2>3. Cardinality(Compiling)' = Cardinality(Compiling) - 1
    BY ZenonT(40), <2>1, <2>2, FS_RemoveElement
  <2>4. Cardinality(Compiling) \in Nat /\ Cardinality(Thread) \in Nat
    BY <2>2, ConstantsAssumption, FS_CardinalityType
  <2> QED
    BY <1>2, <2>3, <2>4, ConstantsAssumption DEF IInv, CapOvershoot
<1>4. \A u \in Thread : Room(u)'
  BY DEF IInv, Adds, OthersRun, Room
<1> QED
  BY <1>2, <1>3, <1>4 DEF IInv

\* A sweep subtracts what it evicted.
LEMMA EndsCounts ==
    ASSUME IInv, TInv', NEW t \in Thread, Ends(t) PROVE IInv'
<1>1. AliveExact' /\ alive' \in Nat /\ alive \in Nat
  BY CountLess DEF IInv, TInv, Ends
<1>2. alive' <= alive
  <2>1. Cardinality(gone[t]) \in Nat
    BY RunningFinite DEF IInv, TInv
  <2> QED
    BY <1>1, <2>1 DEF Ends
<1>3. CapOvershoot'
  BY <1>1, <1>2, OvershootLess DEF IInv, Ends
<1>4. \A u \in Thread : Room(u)'
  BY DEF IInv, Ends, OthersRun, Room
<1> QED
  BY <1>1, <1>3, <1>4 DEF IInv

\* Every step.
LEMMA NextCounts ==
    ASSUME IInv, [Next]_vars PROVE IInv'
<1>1. TInv' /\ (Quiet \/ \E t \in Thread : Asks(t) \/ Adds(t) \/ Ends(t))
  BY NextInv DEF IInv
<1> QED
  BY <1>1, QuietCounts, AsksCounts, AddsCounts, EndsCounts

-----------------------------------------------------------------------------
(* The results.                                                            *)

\* IInv holds in every reachable state, for any number of threads, blocks, slots
\* and generations, and any tuning of the thresholds.
THEOREM Invariance == Spec => []IInv
  BY InitCounts, NextCounts, PTL DEF Spec

\* Every variable keeps its type: an export vector holds a slot number of the
\* table, a count stops at the compile threshold, the hand is on the table.
THEOREM TypeCorrect == Spec => []TypeOK
<1>1. IInv => TypeOK
  BY DEF IInv, TInv, TypeOK
<1> QED
  BY <1>1, Invariance, PTL

\* instance_alive_global is the number of live instances of all threads, plus
\* those a sweep has evicted and not yet subtracted (wasm32.c lines 280, 302).
THEOREM AliveCounted == Spec => []AliveExact
<1>1. IInv => AliveExact
  BY DEF IInv, TInv
<1> QED
  BY <1>1, Invariance, PTL

\* Threads that check the cap and compile without a lock exceed the tuned cap by
\* at most one instance each (lines 215, 304).
THEOREM OvershootBounded == Spec => []CapOvershoot
<1>1. IInv => CapOvershoot
  BY DEF IInv, TInv
<1> QED
  BY <1>1, Invariance, PTL

\* No refused compile lowers the cap below its floor (lines 2270-2280).
THEOREM FloorKept == Spec => []CapFloor
<1>1. IInv => CapFloor
  BY DEF IInv, TInv
<1> QED
  BY <1>1, Invariance, PTL

\* The export vectors lead only to instances of the block and generation that
\* are at the address now (lines 248-251, 308-323).
THEOREM CodeCurrent == Spec => []NoStaleCode
<1>1. IInv => NoStaleCode
  BY DEF IInv, TInv
<1> QED
  BY <1>1, Invariance, PTL

\* The free stack is the empty slots handed out, each once (lines 275, 293-297).
THEOREM FreeStackKept == Spec => []FreeStackExact
<1>1. IInv => FreeStackExact
  BY DEF IInv, TInv, Local, Stack, FreeStackExact
<1> QED
  BY <1>1, Invariance, PTL

\* A thread that adds an instance finds a slot: with none free and the whole
\* table handed out, its own instances would fill the table, which is larger
\* than the cap they were below when it asked to compile.
THEOREM SlotFound == Spec => []SlotAvailable
<1>1. IInv => SlotAvailable
  <2> SUFFICES ASSUME IInv, NEW t \in Thread, pc[t] = "compile", free[t] = <<>>, ~(hw[t] < Slots)
               PROVE  FALSE
    BY DEF SlotAvailable
  <2>1. TableTypeOK /\ Stack(t) /\ Room(t)
    BY DEF IInv, TInv, Local
  <2>2. hw[t] = Slots
    BY <2>1, ConstantsAssumption DEF TableTypeOK
  <2>3. {i \in 1..Slots : slot[t][i].tb = NoTB} = {}
    BY <2>1, <2>2 DEF Stack
  <2>4. Running(t) = 1..Slots
    BY ZenonT(40), <2>1, <2>3, RunningFinite DEF Running
  <2>5. Cardinality(1..Slots) = Slots
    BY SlotsFinite
  <2> QED
    BY <2>1, <2>4, <2>5, ConstantsAssumption DEF Room, Compiling
<1> QED
  BY <1>1, Invariance, PTL

\* A sweep that goes round twice has passed every slot twice: the first time it
\* took their second chance away, so the second time it found them empty or
\* evicted (lines 226-235).
THEOREM SweepEvicts == Spec => []SweepFrees
<1>1. IInv => SweepFrees
  <2> SUFFICES ASSUME IInv, NEW t \in Thread, InSweep(t), ~Sweeping(t), gone[t] = {}
               PROVE  Running(t) = {}
    BY DEF SweepFrees
  <2>1. TableTypeOK /\ Hand(t) /\ Stack(t) /\ Clock(t)
    BY DEF IInv, TInv, Local
  <2>2. /\ hw[t] \in 0..Slots /\ hand[t] \in 1..Slots /\ scanned[t] \in Nat
        /\ Cardinality(Running(t)) \in Nat /\ IsFiniteSet(Running(t))
    BY ZenonT(40), <2>1, RunningFinite DEF TableTypeOK
  <2>3. CASE Cardinality(Running(t)) = 0
    BY <2>2, <2>3, FS_EmptySet
  <2>4. CASE Cardinality(Running(t)) # 0
    <3>1. Cardinality(gone[t]) = 0
      BY FS_EmptySet
    <3>2. Want(t) \in Nat \ {0}
      <4>1. PICK n \in Nat \ {0} : n = Cardinality(Running(t))
        BY <2>2, <2>4
      <4>2. Part \in Nat \ {0} /\ n \div Part \in Int
        BY ConstantsAssumption
      <4> QED
        BY <4>1, <4>2 DEF Want
    <3>3. ~(scanned[t] < 2 * hw[t])
      BY <3>1, <3>2 DEF Sweeping
    <3>4. hw[t] \in Nat /\ hand[t] \in Nat \ {0}
      BY <2>2, ConstantsAssumption
    <3>5. \A i \in 1..hw[t] : Back(t, i) <= hw[t]
      BY <2>1, <3>4 DEF Back, Hand
    <3>6. \A i \in 1..hw[t] : Back(t, i) \in Int
      BY <3>4 DEF Back
    <3>7. \A i \in 1..hw[t] : Back(t, i) + hw[t] <= scanned[t]
      BY <2>2, <3>3, <3>4, <3>5, <3>6
    <3>8. \A i \in 1..hw[t] : slot[t][i].tb = NoTB
      BY <2>1, <3>7 DEF Clock
    <3>9. \A i \in (hw[t] + 1)..Slots : slot[t][i].tb = NoTB
      BY <2>1 DEF Stack
    <3>10. \A i \in 1..Slots : i \in 1..hw[t] \/ i \in (hw[t] + 1)..Slots
      BY <3>4, ConstantsAssumption
    <3> QED
      BY <3>8, <3>9, <3>10 DEF Running
  <2> QED
    BY <2>3, <2>4
<1> QED
  BY <1>1, Invariance, PTL
=============================================================================
