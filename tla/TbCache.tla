------------------------------- MODULE TbCache ------------------------------
(***************************************************************************)
(* tcg/wasm32.c: which translated blocks (TBs) of the guest run as compiled *)
(* WebAssembly instances and which are interpreted.                         *)
(*                                                                         *)
(* Every vCPU thread keeps its own instances in a table of slots (wasm     *)
(* function tables are per thread); a TB's export vector names, per thread,*)
(* the slot its instance was put in.  The number of live instances of all  *)
(* threads is capped; a thread at the cap sweeps its own slots with a      *)
(* second-chance clock.  Slots never move and a TB is not told when its    *)
(* slot is taken away: the slot's back pointer is compared instead.        *)
(***************************************************************************)
EXTENDS Integers, Sequences, FiniteSets, FiniteSetsExt

CONSTANTS
    Thread,    \* the vCPU threads
    TB,        \* addresses of translated blocks
    NoTB,      \* the null back pointer of a free slot
    Slots,     \* INSTANCE_RUNNING_LEN: slots of a thread's table
    MaxAlive,  \* wasm_max_instance_alive as tuned at startup
    Floor,     \* MAX_INSTANCE_ALIVE: a refused compile lowers the cap no further
    Part,      \* 8: a sweep wants 1/Part of the thread's instances, a lowered cap
               \* is 1/Part below the live count
    Jit,       \* wasm_instantiate_num: interpreted runs before a compile
    Hot,       \* wasm_hot_num
    HotShare,  \* wasm_hot_share: a TB compiled elsewhere compiles after Hot runs
    SumCount,  \* wasm_sum_count: the runs on all threads count
    SumEvery,  \* the sum is looked at every so many local runs
    Share,     \* bb_share_on: compiled modules are posted to the other threads
    MaxMods,   \* 1000: posted modules a thread keeps
    MaxGen     \* bound: flushes of the code buffer

ASSUME ConstantsAssumption ==
    /\ IsFiniteSet(Thread)
    /\ NoTB \notin TB
    /\ Slots \in Nat /\ MaxAlive \in Nat \ {0} /\ MaxAlive < Slots
    /\ Floor \in Nat \ {0}
    /\ Part \in Nat \ {0}
    /\ Jit \in Nat \ {0} /\ Hot \in 0..Jit /\ SumEvery \in Nat \ {0}
    /\ {HotShare, SumCount, Share} \subseteq BOOLEAN
    /\ MaxGen \in Nat /\ MaxMods \in Nat \ {0}

VARIABLES
    gen,      \* tb_flush_count: generation of the code buffer
    alive,    \* instance_alive_global
    cap,      \* wasm_max_instance_alive
    export,   \* thread, TB -> slot in the TB's export vector, 0 = NULL
    count,    \* thread, TB -> runs in the TB's counter vector
    slot,     \* thread -> its instance_running table
    hw,       \* thread -> slots ever handed out
    free,     \* thread -> stack of free slots
    hand,     \* thread -> clock hand
    mods,     \* thread -> modules posted to it and not used or dropped, oldest first
    pc,       \* thread -> where it is in tcg_qemu_tb_exec
    cur,      \* thread -> the TB it wants to compile
    newcap,   \* thread -> the cap it is about to store
    scanned,  \* thread -> slots looked at by the sweep in progress
    gone      \* thread -> slots evicted by it and still in the counts

shared == <<gen, alive, cap>>
table == <<slot, hw, free, hand>>
vars == <<gen, alive, cap, export, count, slot, hw, free, hand, mods,
          pc, cur, newcap, scanned, gone>>

Empty == [tb |-> NoTB, gen |-> 0, used |-> FALSE]

\* instance_running_local: the instances of t that are still counted.
Running(t) == {i \in 1..Slots : slot[t][i].tb # NoTB} \cup gone[t]

Init ==
    /\ gen = 0 /\ alive = 0 /\ cap = MaxAlive
    /\ export = [t \in Thread |-> [b \in TB |-> 0]]
    /\ count = [t \in Thread |-> [b \in TB |-> 0]]
    /\ slot = [t \in Thread |-> [i \in 1..Slots |-> Empty]]
    /\ hw = [t \in Thread |-> 0]
    /\ free = [t \in Thread |-> <<>>]
    /\ hand = [t \in Thread |-> 1]
    /\ mods = [t \in Thread |-> <<>>]
    /\ pc = [t \in Thread |-> "run"]
    /\ cur = [t \in Thread |-> NoTB]
    /\ newcap = [t \in Thread |-> 0]
    /\ scanned = [t \in Thread |-> 0]
    /\ gone = [t \in Thread |-> {}]

-----------------------------------------------------------------------------
(* One round of the dispatcher for TB b on thread t.                       *)

\* get_instance_running_local finds b's instance.
Has(t, b) == export[t][b] # 0 /\ slot[t][export[t][b]].tb = b

\* It finds a slot that has been taken away: the TB compiles again at once.
Stale(t, b) == export[t][b] # 0 /\ slot[t][export[t][b]].tb # b
Runs(t, b) == IF Stale(t, b) THEN Jit ELSE count[t][b]
Lookup(t, b) == export' = [export EXCEPT ![t][b] = IF Stale(t, b) THEN 0 ELSE @]

HotElsewhere(t, b) == \E u \in Thread \ {t} : export[u][b] # 0
HotInSum(t, b) == MapThenSumSet(LAMBDA u : IF u = t THEN Runs(t, b) ELSE count[u][b], Thread) >= Jit

WantsTci(t, b) ==
    \/ Runs(t, b) < Hot
    \/ /\ Runs(t, b) < Jit
       /\ ~(HotShare /\ HotElsewhere(t, b))
       /\ ~(SumCount /\ Runs(t, b) % SumEvery = 0 /\ HotInSum(t, b))

\* The compiled block runs, called by the dispatcher or chained to by another.
RunCompiled(t, b) ==
    /\ pc[t] = "run"
    /\ Has(t, b)
    /\ slot' = [slot EXCEPT ![t][export[t][b]].used = TRUE]
    /\ UNCHANGED <<shared, export, count, hw, free, hand, mods, pc, cur, newcap, scanned, gone>>

Interpret(t, b) ==
    /\ pc[t] = "run"
    /\ ~Has(t, b)
    /\ WantsTci(t, b)
    /\ Lookup(t, b)
    /\ count' = [count EXCEPT ![t][b] = Runs(t, b) + 1]
    /\ UNCHANGED <<shared, table, mods, pc, cur, newcap, scanned, gone>>

\* can_add_instance says no: sweep, and interpret this time.
AtCap(t, b) ==
    /\ pc[t] = "run"
    /\ ~Has(t, b)
    /\ ~WantsTci(t, b)
    /\ alive >= cap
    /\ Lookup(t, b)
    /\ count' = [count EXCEPT ![t][b] = Runs(t, b)]
    /\ pc' = [pc EXCEPT ![t] = "sweep"]
    /\ scanned' = [scanned EXCEPT ![t] = 0]
    /\ UNCHANGED <<shared, table, mods, cur, newcap, gone>>

\* Mutant: compile without asking can_add_instance.
CompileUnchecked(t, b) ==
    /\ pc[t] = "run"
    /\ ~Has(t, b)
    /\ ~WantsTci(t, b)
    /\ Lookup(t, b)
    /\ count' = [count EXCEPT ![t][b] = Runs(t, b)]
    /\ pc' = [pc EXCEPT ![t] = "compile"]
    /\ cur' = [cur EXCEPT ![t] = b]
    /\ UNCHANGED <<shared, table, mods, newcap, scanned, gone>>

\* can_add_instance says yes; the instance is counted only when it is added.
Compile(t, b) ==
    /\ pc[t] = "run"
    /\ ~Has(t, b)
    /\ ~WantsTci(t, b)
    /\ alive < cap
    /\ Lookup(t, b)
    /\ count' = [count EXCEPT ![t][b] = Runs(t, b)]
    /\ pc' = [pc EXCEPT ![t] = "compile"]
    /\ cur' = [cur EXCEPT ![t] = b]
    /\ UNCHANGED <<shared, table, mods, newcap, scanned, gone>>

\* Mutant: the slot taken stays on the free stack.
AddInstanceNoPop(t, g) ==
    LET idx == IF free[t] # <<>> THEN free[t][Len(free[t])] ELSE hw[t] + 1
    IN  /\ idx <= Slots
        /\ hw' = [hw EXCEPT ![t] = IF free[t] # <<>> THEN @ ELSE @ + 1]
        /\ slot' = [slot EXCEPT ![t][idx] = [tb |-> cur[t], gen |-> g, used |-> TRUE]]
        /\ export' = [export EXCEPT ![t][cur[t]] = idx]
        /\ alive' = alive + 1
        /\ pc' = [pc EXCEPT ![t] = "run"]
        /\ cur' = [cur EXCEPT ![t] = NoTB]
        /\ UNCHANGED <<gen, cap, count, hand, free, newcap, scanned, gone>>

\* add_instance_running_local: a free slot, else a new one.  (Its sweep of a
\* full table is never needed: see SlotAvailable.)
AddInstance(t, g) ==
    LET idx == IF free[t] # <<>> THEN free[t][Len(free[t])] ELSE hw[t] + 1
    IN  /\ idx <= Slots
        /\ free' = [free EXCEPT ![t] = SubSeq(@, 1, Len(@) - 1)]
        /\ hw' = [hw EXCEPT ![t] = IF free[t] # <<>> THEN @ ELSE @ + 1]
        /\ slot' = [slot EXCEPT ![t][idx] = [tb |-> cur[t], gen |-> g, used |-> TRUE]]
        /\ export' = [export EXCEPT ![t][cur[t]] = idx]
        /\ alive' = alive + 1
        /\ pc' = [pc EXCEPT ![t] = "run"]
        /\ cur' = [cur EXCEPT ![t] = NoTB]
        /\ UNCHANGED <<gen, cap, count, hand, newcap, scanned, gone>>

\* The key of the module t wants.
Module(t) == [tb |-> cur[t], gen |-> gen]

\* The modules ms without the k-th.
Without(ms, k) == SubSeq(ms, 1, k - 1) \o SubSeq(ms, k + 1, Len(ms))

\* The posted modules once t has taken the one it wants.
Taken(t) ==
    {[mods EXCEPT ![t] = Without(@, k)] : k \in {i \in DOMAIN mods[t] : mods[t][i] = Module(t)}}

\* A module another thread compiled is instantiated; its key is the TB's
\* address and the generation.
UseShared(t) ==
    /\ pc[t] = "compile"
    /\ mods' \in Taken(t)
    /\ AddInstance(t, Module(t).gen)

RunElsewhere(t, b) == \E u \in Thread \ {t} : count[u][b] # 0

\* A thread keeps the newest MaxMods modules; a key posted again stays in place.
Received(ms, m) ==
    IF m \in {ms[k] : k \in DOMAIN ms} THEN ms
    ELSE IF Len(ms) < MaxMods THEN Append(ms, m) ELSE Append(Tail(ms), m)

\* A module built here is posted when another thread has run the TB.
Post(t) ==
    IF Share /\ RunElsewhere(t, cur[t])
    THEN [u \in Thread |-> IF u = t THEN mods[u] ELSE Received(mods[u], Module(t))]
    ELSE mods

UseOwn(t) ==
    /\ pc[t] = "compile"
    /\ mods' = Post(t)
    /\ AddInstance(t, gen)

\* bb_tb_regen_wasm cannot translate the TB again right now.
NotRegenerated(t) ==
    /\ pc[t] = "compile"
    /\ count' = [count EXCEPT ![t][cur[t]] = 0]
    /\ pc' = [pc EXCEPT ![t] = "run"]
    /\ cur' = [cur EXCEPT ![t] = NoTB]
    /\ UNCHANGED <<shared, export, table, mods, newcap, scanned, gone>>

\* Mutant: the lowered cap has no floor.
RefusedNoFloor(t) ==
    LET c == alive - (alive \div Part)
    IN  /\ pc[t] = "compile"
        /\ mods' \in {mods, Post(t)} \cup Taken(t)
        /\ count' = [count EXCEPT ![t][cur[t]] = 0]
        /\ newcap' = [newcap EXCEPT ![t] = IF c < cap THEN c ELSE 0]
        /\ pc' = [pc EXCEPT ![t] = IF c < cap THEN "lower" ELSE "backoff"]
        /\ scanned' = [scanned EXCEPT ![t] = 0]
        /\ cur' = [cur EXCEPT ![t] = NoTB]
        /\ UNCHANGED <<shared, export, table, gone>>

\* The browser refuses the module, or its instance once it is posted or taken:
\* the cap is compared with the live count...
Refused(t) ==
    LET c == Max({Floor, alive - (alive \div Part)})
    IN  /\ pc[t] = "compile"
        /\ mods' \in {mods, Post(t)} \cup Taken(t)
        /\ count' = [count EXCEPT ![t][cur[t]] = 0]
        /\ newcap' = [newcap EXCEPT ![t] = IF c < cap THEN c ELSE 0]
        /\ pc' = [pc EXCEPT ![t] = IF c < cap THEN "lower" ELSE "backoff"]
        /\ scanned' = [scanned EXCEPT ![t] = 0]
        /\ cur' = [cur EXCEPT ![t] = NoTB]
        /\ UNCHANGED <<shared, export, table, gone>>

\* ... and stored, with no lock between the two.
LowerCap(t) ==
    /\ pc[t] = "lower"
    /\ cap' = newcap[t]
    /\ newcap' = [newcap EXCEPT ![t] = 0]
    /\ pc' = [pc EXCEPT ![t] = "backoff"]
    /\ UNCHANGED <<gen, alive, export, count, table, mods, cur, scanned, gone>>

-----------------------------------------------------------------------------
(* remove_instance_running_local, one slot at a time.                      *)

Want(t) ==
    LET n == Cardinality(Running(t))
    IN  IF n \div Part < 1 THEN n ELSE n \div Part

InSweep(t) == pc[t] \in {"sweep", "backoff"}

\* Mutant: the clock goes round once.
SweepingOneLap(t) ==
    /\ InSweep(t)
    /\ Cardinality(gone[t]) < Want(t)
    /\ scanned[t] < hw[t]

Sweeping(t) ==
    /\ InSweep(t)
    /\ Cardinality(gone[t]) < Want(t)
    /\ scanned[t] < 2 * hw[t]

NextHand(t) == IF hand[t] + 1 > hw[t] THEN 1 ELSE hand[t] + 1

\* An empty slot is passed; a used one gets its second chance.
Pass(t) ==
    /\ Sweeping(t)
    /\ slot[t][hand[t]].tb = NoTB \/ slot[t][hand[t]].used
    /\ slot' = [slot EXCEPT ![t][hand[t]].used = FALSE]
    /\ hand' = [hand EXCEPT ![t] = NextHand(t)]
    /\ scanned' = [scanned EXCEPT ![t] = @ + 1]
    /\ UNCHANGED <<shared, export, count, hw, free, mods, pc, cur, newcap, gone>>

\* Mutant: the evicted slot is not put on the free stack.
EvictNoFree(t) ==
    /\ Sweeping(t)
    /\ slot[t][hand[t]].tb # NoTB
    /\ ~slot[t][hand[t]].used
    /\ slot' = [slot EXCEPT ![t][hand[t]].tb = NoTB]
    /\ gone' = [gone EXCEPT ![t] = @ \cup {hand[t]}]
    /\ hand' = [hand EXCEPT ![t] = NextHand(t)]
    /\ scanned' = [scanned EXCEPT ![t] = @ + 1]
    /\ UNCHANGED <<shared, export, count, hw, free, mods, pc, cur, newcap>>

Evict(t) ==
    /\ Sweeping(t)
    /\ slot[t][hand[t]].tb # NoTB
    /\ ~slot[t][hand[t]].used
    /\ slot' = [slot EXCEPT ![t][hand[t]].tb = NoTB]
    /\ free' = [free EXCEPT ![t] = Append(@, hand[t])]
    /\ gone' = [gone EXCEPT ![t] = @ \cup {hand[t]}]
    /\ hand' = [hand EXCEPT ![t] = NextHand(t)]
    /\ scanned' = [scanned EXCEPT ![t] = @ + 1]
    /\ UNCHANGED <<shared, export, count, hw, mods, pc, cur, newcap>>

\* Mutant: an evicted instance counts until the garbage collector takes it.
EndSweepUncounted(t) ==
    /\ InSweep(t)
    /\ ~Sweeping(t)
    /\ alive' = alive
    /\ gone' = [gone EXCEPT ![t] = {}]
    /\ scanned' = [scanned EXCEPT ![t] = 0]
    /\ pc' = [pc EXCEPT ![t] = "run"]
    /\ UNCHANGED <<gen, cap, export, count, table, mods, cur, newcap>>

\* The evicted instances stop counting, all at once.
EndSweep(t) ==
    /\ InSweep(t)
    /\ ~Sweeping(t)
    /\ alive' = alive - Cardinality(gone[t])
    /\ gone' = [gone EXCEPT ![t] = {}]
    /\ scanned' = [scanned EXCEPT ![t] = 0]
    /\ pc' = [pc EXCEPT ![t] = "run"]
    /\ UNCHANGED <<gen, cap, export, count, table, mods, cur, newcap>>

-----------------------------------------------------------------------------
(* The rest of the system.                                                 *)

\* A posted module is dropped: too old, too many, or never delivered.
DropModule(t) ==
    /\ \E k \in DOMAIN mods[t] : mods' = [mods EXCEPT ![t] = Without(@, k)]
    /\ UNCHANGED <<shared, export, count, table, pc, cur, newcap, scanned, gone>>

\* Mutant: blocks translated after a flush keep the old vectors.
FlushKeepsVectors ==
    /\ gen < MaxGen
    /\ \A t \in Thread : pc[t] = "run"
    /\ gen' = gen + 1
    /\ UNCHANGED <<alive, cap, export, count, table, mods, pc, cur, newcap, scanned, gone>>

\* do_tb_flush, with every vCPU stopped outside tcg_qemu_tb_exec.  A block
\* translated later at the same address starts with zeroed vectors.
Flush ==
    /\ gen < MaxGen
    /\ \A t \in Thread : pc[t] = "run"
    /\ gen' = gen + 1
    /\ export' = [t \in Thread |-> [b \in TB |-> 0]]
    /\ count' = [t \in Thread |-> [b \in TB |-> 0]]
    /\ UNCHANGED <<alive, cap, table, mods, pc, cur, newcap, scanned, gone>>

Next ==
    \/ \E t \in Thread, b \in TB :
          RunCompiled(t, b) \/ Interpret(t, b) \/ AtCap(t, b) \/ Compile(t, b)
    \/ \E t \in Thread :
          \/ UseShared(t) \/ UseOwn(t) \/ NotRegenerated(t) \/ Refused(t) \/ LowerCap(t)
          \/ Pass(t) \/ Evict(t) \/ EndSweep(t) \/ DropModule(t)
    \/ Flush

Spec == Init /\ [][Next]_vars

-----------------------------------------------------------------------------
(* Properties.                                                             *)

TableTypeOK ==
    /\ gen \in 0..MaxGen
    /\ cap \in Nat
    /\ export \in [Thread -> [TB -> 0..Slots]]
    /\ count \in [Thread -> [TB -> 0..Jit]]
    /\ slot \in [Thread -> [1..Slots -> [tb : TB \cup {NoTB}, gen : 0..MaxGen, used : BOOLEAN]]]
    /\ hw \in [Thread -> 0..Slots]
    /\ free \in [Thread -> Seq(1..Slots)]
    /\ hand \in [Thread -> 1..Slots]
    /\ mods \in [Thread -> Seq([tb : TB, gen : 0..MaxGen])]
    /\ pc \in [Thread -> {"run", "compile", "lower", "sweep", "backoff"}]
    /\ cur \in [Thread -> TB \cup {NoTB}]
    /\ newcap \in [Thread -> Nat]
    /\ scanned \in [Thread -> Nat]
    /\ gone \in [Thread -> SUBSET (1..Slots)]

TypeOK == TableTypeOK /\ alive \in Nat

Counted == {p \in Thread \X (1..Slots) : p[2] \in Running(p[1])}

\* instance_alive_global is exactly the live instances of all threads plus those
\* a sweep in progress has evicted and not yet subtracted: no lost or doubled
\* update between add_instance_running_local and the sweeps (lines 280, 302).
AliveExact == alive = Cardinality(Counted)

Compiling == {t \in Thread : pc[t] = "compile"}

\* The cap is checked before a compile and the count raised after it, with no
\* lock (lines 215, 304): threads may overshoot the tuned cap, but by no more
\* than one instance each.
CapOvershoot == alive + Cardinality(Compiling) < MaxAlive + Cardinality(Thread)

\* Refused compiles lower the cap, two threads racing included, but never below
\* the default of MAX_INSTANCE_ALIVE, or below the tuned value if that is
\* smaller (lines 2270-2280).
CapFloor == cap <= MaxAlive /\ (cap = MaxAlive \/ cap >= Floor)

\* A block is only ever run from an instance of the code that is at its address
\* now: no flush, reuse of a slot or shared module makes the export vector lead
\* to an instance of another block or generation (lines 248-251, 308-323).
NoStaleCode ==
    \A t \in Thread, b \in TB : Has(t, b) => slot[t][export[t][b]].gen = gen

\* The free stack holds exactly the empty slots handed out so far, each once: a
\* slot is never given to two blocks (lines 275, 293-297).
FreeStackExact ==
    \A t \in Thread :
        /\ \A i, j \in DOMAIN free[t] : free[t][i] = free[t][j] => i = j
        /\ {free[t][i] : i \in DOMAIN free[t]} = {i \in 1..hw[t] : slot[t][i].tb = NoTB}
        /\ \A i \in (hw[t] + 1)..Slots : slot[t][i].tb = NoTB

\* A compiled block always finds a slot: a thread about to add an instance has
\* a free slot or has not handed out the whole table, so the sweep inside
\* add_instance_running_local (line 289) is never needed.
SlotAvailable ==
    \A t \in Thread : pc[t] = "compile" => free[t] # <<>> \/ hw[t] < Slots

\* A sweep that ends has evicted something if its thread had any instance, even
\* when every one of them ran since the last sweep: a thread at the cap with
\* instances of its own cannot stay locked out of compiling (lines 226-235).
SweepFrees ==
    \A t \in Thread :
        InSweep(t) /\ ~Sweeping(t) => gone[t] # {} \/ Running(t) = {}
=============================================================================
