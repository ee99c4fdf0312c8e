---- MODULE GuestProofs ----
(* What the engine shows the guest.  First the time stamp counter of GuestTsc, for
   any set of threads and clocks that disagree by any amount: Monotonic is not
   inductive, and a call keeps its promise because ticks_max already covers whatever
   was returned when the call began.  Then the device accesses of GuestIo. *)
EXTENDS GuestTsc, GuestIo, TLAPS

\* The provers a leaf is tried with, one after the other, and for how long.
USE SMTT(40), Z3T(40), ZenonT(40)

\* ticks_max covers every value returned, and what a thread loaded of it lies between
\* what had been returned when its call began and what it is now.
Covered ==
    /\ handed <= ticks_max
    /\ \A t \in Thread :
         /\ floor[t] <= ticks_max
         /\ point[t] = "read" => floor[t] <= prev[t]
         /\ prev[t] <= ticks_max
         /\ point[t] \in {"cas", "ret"} => floor[t] <= ticks[t]
         /\ point[t] = "ret" => ticks[t] <= ticks_max

\* The lead of a thread's last reading is its skew.
LeadIsSkew == \A t \in Thread : lead[t] <= skew[t]

\* The inductive invariant of the counter.
TscInv == TscTypeOK /\ Covered /\ LeadIsSkew

\* Before the first call nothing was returned.
LEMMA TscStarts == TscInit => TscInv
  BY DEF TscInit, TscInv, TscTypeOK, Covered, LeadIsSkew

\* Every step keeps the type.
LEMMA TypeStep == TscTypeOK /\ [TscNext]_tscVars => TscTypeOK'
<1> SUFFICES ASSUME TscTypeOK, [TscNext]_tscVars PROVE TscTypeOK'
  OBVIOUS
<1> USE DEF TscTypeOK, MoveTo
<1>1. ASSUME NEW t \in Thread, Tick(t) PROVE TscTypeOK'
  BY <1>1 DEF Tick
<1>2. ASSUME NEW t \in Thread, LoadMax(t) PROVE TscTypeOK'
  BY <1>2 DEF LoadMax
<1>3. ASSUME NEW t \in Thread, ReadClock(t) PROVE TscTypeOK'
  <2> DEFINE now == clock[t] + skew[t]
             got == IF now < prev[t] THEN prev[t] ELSE now
  <2>1. /\ now \in Nat /\ got \in Nat
        /\ skew[t] + 1 * (got - now) \in Nat /\ got - clock[t] \in Nat
    OBVIOUS
  <2>2. /\ ticks' = [ticks EXCEPT ![t] = got]
        /\ skew' = [skew EXCEPT ![t] = skew[t] + 1 * (got - now)]
        /\ lead' = [lead EXCEPT ![t] = got - clock[t]]
        /\ point' = [point EXCEPT ![t] = "cas"]
        /\ UNCHANGED <<clock, ticks_max, prev, handed, floor>>
    BY <1>3 DEF ReadClock, ReadMoving
  <2> HIDE DEF now, got
  <2> QED BY <2>1, <2>2
<1>4. ASSUME NEW t \in Thread, Exchange(t) PROVE TscTypeOK'
  BY <1>4 DEF Exchange
<1>5. ASSUME NEW t \in Thread, Refused(t) PROVE TscTypeOK'
  BY <1>5 DEF Refused
<1>6. ASSUME NEW t \in Thread, Behind(t) PROVE TscTypeOK'
  BY <1>6 DEF Behind
<1>7. ASSUME NEW t \in Thread, Return(t) PROVE TscTypeOK'
  BY <1>7 DEF Return
<1>8. CASE UNCHANGED tscVars
  BY <1>8 DEF tscVars
<1> QED BY <1>1, <1>2, <1>3, <1>4, <1>5, <1>6, <1>7, <1>8 DEF TscNext, Call

\* What a reading does to its thread.
LEMMA Reading ==
  ASSUME TscTypeOK, NEW t \in Thread, ReadClock(t)
  PROVE  /\ ticks'[t] >= prev[t]
         /\ skew'[t] >= skew[t]
         /\ lead'[t] = skew'[t]
         /\ \A u \in Thread \ {t} : ticks'[u] = ticks[u] /\ skew'[u] = skew[u] /\ lead'[u] = lead[u]
  BY DEF TscTypeOK, ReadClock, ReadMoving

\* Every step keeps ticks_max above what was returned.
LEMMA CoveredStep == TscTypeOK /\ Covered /\ [TscNext]_tscVars => Covered'
<1> SUFFICES ASSUME TscTypeOK, Covered, [TscNext]_tscVars PROVE Covered'
  OBVIOUS
<1> USE DEF TscTypeOK, Covered, MoveTo
<1>1. ASSUME NEW t \in Thread, Tick(t) PROVE Covered'
  BY <1>1 DEF Tick
<1>2. ASSUME NEW t \in Thread, LoadMax(t) PROVE Covered'
  BY <1>2 DEF LoadMax
<1>3. ASSUME NEW t \in Thread, ReadClock(t) PROVE Covered'
  <2>1. /\ point[t] = "read" /\ point' = [point EXCEPT ![t] = "cas"]
        /\ UNCHANGED <<ticks_max, prev, handed, floor>>
    BY <1>3 DEF ReadClock, ReadMoving
  <2>2. ticks'[t] \in Nat
    BY <1>3, TypeStep DEF TscNext, Call
  <2> QED BY <1>3, <2>1, <2>2, Reading
<1>4. ASSUME NEW t \in Thread, Exchange(t) PROVE Covered'
  BY <1>4 DEF Exchange
<1>5. ASSUME NEW t \in Thread, Refused(t) PROVE Covered'
  BY <1>5 DEF Refused
<1>6. ASSUME NEW t \in Thread, Behind(t) PROVE Covered'
  BY <1>6 DEF Behind
<1>7. ASSUME NEW t \in Thread, Return(t) PROVE Covered'
  BY <1>7 DEF Return
<1>8. CASE UNCHANGED tscVars
  BY <1>8 DEF tscVars
<1> QED BY <1>1, <1>2, <1>3, <1>4, <1>5, <1>6, <1>7, <1>8 DEF TscNext, Call

\* Only a reading changes lead and skew, and it leaves them equal and no smaller.
LEMMA LeadStep ==
  ASSUME TscTypeOK, LeadIsSkew, [TscNext]_tscVars
  PROVE  LeadIsSkew' /\ \A t \in Thread : lead'[t] >= lead[t]
<1>1. ASSUME NEW t \in Thread, ReadClock(t)
      PROVE  LeadIsSkew' /\ \A u \in Thread : lead'[u] >= lead[u]
  <2>1. TscTypeOK'
    BY <1>1, TypeStep DEF TscNext, Call
  <2> QED BY <1>1, <2>1, Reading DEF LeadIsSkew, TscTypeOK
<1>2. CASE UNCHANGED <<lead, skew>>
  BY <1>2 DEF LeadIsSkew, TscTypeOK
<1> QED
  BY <1>1, <1>2 DEF TscNext, Call, tscVars, Tick, LoadMax, Exchange, Refused, Behind, Return

\* The inductive invariant holds in every reachable state.
THEOREM TscInvariant == TscSpec => []TscInv
<1>1. TscInv /\ [TscNext]_tscVars => TscInv'
  BY TypeStep, CoveredStep, LeadStep DEF TscInv
<1> QED BY <1>1, TscStarts, PTL DEF TscSpec

\* cpu_get_ticks never steps back across vCPUs, however many they are and however
\* far their workers' clocks disagree.
THEOREM NeverStepsBack == TscSpec => []Monotonic
<1>1. TscInv => Monotonic
  BY DEF TscInv, TscTypeOK, Covered, Monotonic
<1> QED BY <1>1, TscInvariant, PTL

\* The counter of a vCPU never falls behind that vCPU's own clock.
THEOREM NeverFreezes == TscSpec => RunsOn
<1>1. TscInv /\ [TscNext]_tscVars => [\A t \in Thread : lead'[t] >= lead[t]]_tscVars
  BY LeadStep DEF TscInv
<1> QED BY <1>1, TscInvariant, PTL DEF TscSpec, RunsOn

-----------------------------------------------------------------------------
(* Device accesses, on any number of vCPU threads and for any program.     *)

Points == {"loop", "readN", "link", "start", "insn", "setKey", "retire"}
Engines == {"fast", "full", "single", "wasm", "none"}

\* bb_fast_tci_depth is 1 exactly while the fast interpreter runs the thread's
\* block, and nothing runs before a block has been picked.
DepthExact ==
    /\ pc \in [CPU -> Points] /\ engine \in [CPU -> Engines] /\ depth \in [CPU -> 0..1]
    /\ \A c \in CPU : engine[c] = "fast" <=> depth[c] = 1
    /\ \A c \in CPU : pc[c] \in {"loop", "readN", "link", "start"} => engine[c] = "none"

\* What the steps of a thread do to the three: they leave the engine alone, go
\* back to the loop, start a block, or change the engine inside one.
LEMMA EngineMoves ==
    ASSUME DepthExact, NEW c \in CPU, Step(c)
    PROVE  \/ /\ engine' = engine /\ depth' = depth
              /\ \/ pc' = pc
                 \/ \E p \in Points : pc' = [pc EXCEPT ![c] = p] /\
                       (p \in {"loop", "readN", "link", "start"} => engine[c] = "none")
           \/ Exit(c)
           \/ \E e \in Engines \ {"none"}, d \in 0..1 :
                 /\ e = "fast" <=> d = 1
                 /\ engine' = [engine EXCEPT ![c] = e] /\ depth' = [depth EXCEPT ![c] = d]
                 /\ pc' = [pc EXCEPT ![c] = "insn"] \/ (pc' = pc /\ pc[c] = "insn")
<1>1. CASE Lookup(c) \/ ReadN(c) \/ Link(c)
  BY <1>1 DEF Lookup, ReadN, Link, Goto, DepthExact, Points
<1>2. CASE RunModule(c)
  <2>1. /\ pc[c] = "start" /\ engine' = [engine EXCEPT ![c] = "wasm"]
        /\ pc' = [pc EXCEPT ![c] = "insn"] /\ depth' = depth
    BY <1>2 DEF RunModule, Goto
  <2>2. depth \in [CPU -> 0..1] /\ depth[c] = 0
    BY <2>1 DEF DepthExact
  <2>3. depth' = [depth EXCEPT ![c] = 0]
    BY <2>1, <2>2
  <2>4. "wasm" \in Engines \ {"none"} /\ 0 \in 0..1 /\ ("wasm" = "fast" <=> 0 = 1)
    BY DEF Engines
  <2> QED
    BY <2>1, <2>3, <2>4, ZenonT(40)
<1>3. CASE tci_exec(c)
  <2>1. /\ engine' = [engine EXCEPT ![c] = IF force[c] THEN "full" ELSE "fast"]
        /\ depth' = [depth EXCEPT ![c] = IF force[c] THEN depth[c] ELSE 1]
        /\ pc' = [pc EXCEPT ![c] = "insn"] /\ pc[c] = "start"
    BY <1>3 DEF tci_exec, Goto
  <2>2. /\ "full" \in Engines \ {"none"} /\ 0 \in 0..1 /\ ("full" = "fast" <=> 0 = 1)
        /\ "fast" \in Engines \ {"none"} /\ 1 \in 0..1
    BY DEF Engines
  <2>3. CASE force[c]
    <3>1. depth \in [CPU -> 0..1] /\ depth[c] = 0
      BY <2>1 DEF DepthExact
    <3>2. engine' = [engine EXCEPT ![c] = "full"] /\ depth' = [depth EXCEPT ![c] = 0]
      BY <2>1, <2>3, <3>1
    <3> QED
      BY <2>1, <2>2, <3>2, ZenonT(40)
  <2>4. CASE ~force[c]
    <3>1. engine' = [engine EXCEPT ![c] = "fast"] /\ depth' = [depth EXCEPT ![c] = 1]
      BY <2>1, <2>4
    <3> QED
      BY <2>1, <2>2, <3>1, ZenonT(40)
  <2> QED
    BY <2>3, <2>4
<1>4. CASE FinishInFull(c)
  <2>1. /\ engine' = [engine EXCEPT ![c] = "single"] /\ depth' = [depth EXCEPT ![c] = 0]
        /\ pc' = pc /\ pc[c] = "insn"
    BY <1>4 DEF FinishInFull
  <2>2. "single" \in Engines \ {"none"} /\ 0 \in 0..1 /\ ("single" = "fast" <=> 0 = 1)
    BY DEF Engines
  <2> QED
    BY <2>1, <2>2, ZenonT(40)
<1>5. CASE RamInsn(c) \/ Access(c)
  <2>1. AdvanceWith(c, 1)
    BY <1>5 DEF RamInsn, Access, Advance
  <2>2. \/ pc' = [pc EXCEPT ![c] = "insn"] /\ engine' = engine /\ depth' = depth
        \/ Exit(c)
        \/ /\ pc' = [pc EXCEPT ![c] = "insn"]
           /\ engine' = [engine EXCEPT ![c] = "fast"] /\ depth' = [depth EXCEPT ![c] = 1]
    BY <2>1 DEF AdvanceWith, Goto
  <2>3. "insn" \in Points /\ "fast" \in Engines \ {"none"} /\ 1 \in 0..1
    BY DEF Points, Engines
  <2> QED
    BY <2>2, <2>3
<1>6. CASE SetN(c) \/ SetKey(c)
  BY <1>6 DEF SetN, SetKey, Goto, Points
<1>7. CASE Guard(c) \/ Retire(c) \/ RecompileUnhinted(c)
  BY <1>7, ZenonT(40) DEF Guard, Retire, RecompileUnhinted
<1> QED
  BY <1>1, <1>2, <1>3, <1>4, <1>5, <1>6, <1>7 DEF Step

\* At the start every thread is in the loop and no interpreter runs.
LEMMA DepthInit == Init => DepthExact
BY DEF Init, DepthExact, Points, Engines

\* No step of a thread makes the depth lie about any thread.
LEMMA DepthStep == DepthExact /\ [Next]_vars => DepthExact'
<1> SUFFICES ASSUME DepthExact, [Next]_vars PROVE DepthExact'
  OBVIOUS
<1>1. CASE UNCHANGED vars
  BY <1>1 DEF vars, DepthExact
<1>2. ASSUME NEW c \in CPU, Step(c) PROVE DepthExact'
  <2>1. CASE /\ engine' = engine /\ depth' = depth
             /\ \/ pc' = pc
                \/ \E p \in Points : pc' = [pc EXCEPT ![c] = p] /\
                      (p \in {"loop", "readN", "link", "start"} => engine[c] = "none")
    BY <2>1 DEF DepthExact
  <2>2. CASE Exit(c)
    BY <2>2 DEF Exit, Goto, DepthExact, Points, Engines
  <2>3. ASSUME NEW e \in Engines \ {"none"}, NEW d \in 0..1, e = "fast" <=> d = 1,
               engine' = [engine EXCEPT ![c] = e], depth' = [depth EXCEPT ![c] = d],
               pc' = [pc EXCEPT ![c] = "insn"] \/ (pc' = pc /\ pc[c] = "insn")
        PROVE  DepthExact'
    BY <2>3 DEF DepthExact, Points, Engines
  <2> QED
    BY <1>2, <2>1, <2>2, <2>3, EngineMoves
<1> QED
  BY <1>1, <1>2 DEF Next

\* On every thread bb_fast_tci_depth tells whether the fast interpreter is on the
\* stack, through block jumps, cold operations, restarts and longjmps (tci_exec in
\* wasm32.c, bb_guard_mmio in cputlb.c): the guards neither miss an access nor
\* start one over in vain.
THEOREM DepthTells == Spec => []DepthExact
BY DepthInit, DepthStep, PTL DEF Spec

\* A device handler that may switch coroutines never runs on top of the fast
\* interpreter, whatever the program, the threads and the blocks that are modules
\* (bb_guard_mmio in cputlb.c, bb_guard_pio in misc_helper.c).
THEOREM YieldsSafely == Spec => YieldsOffFastPath
<1>1. DepthExact /\ [Next]_vars =>
         [\A c \in CPU : Access(c) /\ MayYield(at[c]) => engine[c] # "fast"]_vars
  BY DEF DepthExact, Access
<1> QED
  BY <1>1, DepthTells, PTL DEF Spec, YieldsOffFastPath
====
