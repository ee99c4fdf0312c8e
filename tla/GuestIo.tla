---- MODULE GuestIo ----
(* Device accesses of guest code in the Bootbox engine.  Three mechanisms meet:
     - an access to device memory must be the last instruction of its block
       (can_do_io, translator.c); any other one stops the block, which is cut
       there for good by a split hint (cpu_io_recompile in translate-all.c);
     - a device handler that may switch coroutines must not run while the fast
       interpreter is on the stack; its access is started over in the full one
       (bb_guard_mmio in cputlb.c, bb_guard_pio in misc_helper.c, tci_exec in
       wasm32.c);
     - blocks and hints are shared by the vCPU threads.

   The guest runs a loop of instructions 0..Last; an instruction is its address.
   Kinds of instruction:
     ram    no device
     mmio   device memory whose handler never yields
     yield  device memory whose handler may switch coroutines
     cold   the same, of an instruction with an operation that the fast interpreter
            leaves to the full one
     pio    a port access that may switch coroutines; it ends its block
   The same instruction may touch a device on one vCPU and RAM on another.

   One pc per vCPU thread:
     loop             cpu_exec_loop looks for a block
     readN link       tb_gen_code: the hint's key matched; translating
     start            tcg_qemu_tb_exec picks an engine
     insn             at an instruction
     setKey retire    cpu_io_recompile: between the two writes of the hint;
                      before the block is retired *)
EXTENDS Integers

CONSTANTS CPU,
          Last,       \* address of the last instruction, a jump to 0
          Kind,       \* [0..Last -> kinds]
          InRam,      \* CPU -> the instructions whose operand is RAM there
          Straddle,   \* instructions that lie on two pages
          Slot,       \* [0..Last -> slots]: bb_split_slot, the hash of an address
          MaxInsns,   \* TCG_MAX_INSNS
          LazyWasm    \* whether modules are built by re-translation (lazywasm=1)

Insn == 0..Last
Slots == {Slot[a] : a \in Insn}
Kinds == {"ram", "mmio", "yield", "cold", "pio"}

ASSUME ProgramAssumption ==
    /\ Last \in Nat /\ MaxInsns \in Nat \ {0, 1}
    /\ Kind \in [Insn -> Kinds]
    /\ InRam \in [CPU -> SUBSET {a \in Insn : Kind[a] # "pio"}]
    /\ Straddle \subseteq Insn
    /\ LazyWasm \in BOOLEAN

VARIABLES bb_split,   \* slot -> [key, n], the hint table, initially all zero
          tbs,        \* [one, start] -> cached block, or NoTb
          pc,         \* CPU -> control point
          at,         \* CPU -> address of the guest's next instruction
          next_one,   \* CPU -> cflags_next_tb asks for a one-instruction block
          force,      \* CPU -> bb_force_slow_tci
          depth,      \* CPU -> bb_fast_tci_depth
          engine,     \* CPU -> what runs the block: "fast", "full", "single" (full, up
                      \* to the end of a block the fast one began), "wasm", "none"
          tb          \* CPU -> the block being looked up, made or run

vars == <<bb_split, tbs, pc, at, next_one, force, depth, engine, tb>>

\* A block: its first instruction, the limit it was translated with, whether the
\* limit was asked for (CF_COUNT_MASK), and an identity.
Tb(start, one, limit, id) == [start |-> start, one |-> one, limit |-> limit, id |-> id]
NoTb == Tb(0, FALSE, 0, "none")
KeysOfTb == BOOLEAN \X Insn

Init ==
    /\ bb_split = [s \in Slots |-> [key |-> 0, n |-> 0]]
    /\ tbs = [k \in KeysOfTb |-> NoTb]
    /\ pc = [c \in CPU |-> "loop"]
    /\ at = [c \in CPU |-> 0]
    /\ next_one = [c \in CPU |-> FALSE]
    /\ force = [c \in CPU |-> FALSE]
    /\ depth = [c \in CPU |-> 0]
    /\ engine = [c \in CPU |-> "none"]
    /\ tb = [c \in CPU |-> NoTb]

Goto(c, label) == pc' = [pc EXCEPT ![c] = label]

\* ----------------------------------------------------------------- translation

\* Translation stops after a jump, after a port access, after an instruction that
\* lies on two pages and before one that does.
Ends(t, a) ==
    \/ a = Last
    \/ Kind[a] = "pio"
    \/ a \in Straddle
    \/ a + 1 \in Straddle
    \/ a - t.start + 1 = t.limit

\* can_do_io: set on the instruction that reaches the limit, and by a port access.
CanDoIo(t, a) == Kind[a] = "pio" \/ a - t.start + 1 = t.limit

TwoPages(t) == t.start \in Straddle

\* cpu_exec_loop takes the request for a one-instruction block and looks up.  A
\* miss starts tb_gen_code, which reads the key of the hint's slot.
Lookup(c) ==
    /\ pc[c] = "loop"
    /\ LET one == next_one[c]
           found == tbs[<<one, at[c]>>]
           slot == bb_split[Slot[at[c]]]
       IN  /\ next_one' = [next_one EXCEPT ![c] = FALSE]
           /\ IF found # NoTb
                THEN tb' = [tb EXCEPT ![c] = found] /\ Goto(c, "start")
                ELSE /\ tb' = [tb EXCEPT ![c] = Tb(at[c], one, IF one THEN 1 ELSE MaxInsns, c)]
                     /\ Goto(c, IF ~one /\ slot.key = at[c] THEN "readN" ELSE "link")
    /\ UNCHANGED <<bb_split, tbs, at, force, depth, engine>>

\* A hint counts as a limit unless it is zero or too large.
Limit(h) == IF h > 0 /\ h < MaxInsns THEN h ELSE MaxInsns

\* bb_split_hint reads the length after the key.
ReadN(c) ==
    /\ pc[c] = "readN"
    /\ tb' = [tb EXCEPT ![c].limit = Limit(bb_split[Slot[at[c]]].n)]
    /\ Goto(c, "link")
    /\ UNCHANGED <<bb_split, tbs, at, next_one, force, depth, engine>>

\* tb_link_page: a block that another thread linked meanwhile is used instead.
Link(c) ==
    /\ pc[c] = "link"
    /\ LET k == <<tb[c].one, tb[c].start>>
           used == {tb[d].id : d \in {e \in CPU : tb[e].start = tb[c].start} \ {c}}
           fresh == [tb[c] EXCEPT !.id = CHOOSE i \in CPU : i \notin used]
       IN  IF tbs[k] # NoTb
             THEN tb' = [tb EXCEPT ![c] = tbs[k]] /\ UNCHANGED tbs
             ELSE tb' = [tb EXCEPT ![c] = fresh] /\ tbs' = [tbs EXCEPT ![k] = fresh]
    /\ Goto(c, "start")
    /\ UNCHANGED <<bb_split, at, next_one, force, depth, engine>>

\* -------------------------------------------------------------------- the engines

\* bb_tb_regen_wasm builds no module for code on two pages.  Any other block may
\* have got its module as soon as it was made, whatever its hint is by now.
MayHaveModule(t) == LazyWasm => ~TwoPages(t)

\* tcg_qemu_tb_exec: a hot block runs as a module, if it has one or gets one;
\* any other one is interpreted, by the full interpreter if a guard asked for it.
RunModule(c) ==
    /\ pc[c] = "start"
    /\ MayHaveModule(tb[c])
    /\ engine' = [engine EXCEPT ![c] = "wasm"]
    /\ Goto(c, "insn")
    /\ UNCHANGED <<bb_split, tbs, at, next_one, force, depth, tb>>

tci_exec(c) ==
    /\ pc[c] = "start"
    /\ force' = [force EXCEPT ![c] = FALSE]
    /\ engine' = [engine EXCEPT ![c] = IF force[c] THEN "full" ELSE "fast"]
    /\ depth' = [depth EXCEPT ![c] = IF force[c] THEN @ ELSE 1]
    /\ Goto(c, "insn")
    /\ UNCHANGED <<bb_split, tbs, at, next_one, tb>>

\* Back to cpu_exec_loop, by a return or by a longjmp to cpu_exec_setjmp, which
\* clears the depth; after a longjmp the guest's state is that before the instruction.
Exit(c) ==
    /\ Goto(c, "loop")
    /\ depth' = [depth EXCEPT ![c] = 0]
    /\ engine' = [engine EXCEPT ![c] = "none"]
    /\ tb' = [tb EXCEPT ![c] = NoTb]

\* The fast interpreter meets an operation it does not run: the full one finishes
\* the block, with the depth cleared.
FinishInFull(c) ==
    /\ pc[c] = "insn"
    /\ engine[c] = "fast" /\ Kind[at[c]] = "cold"
    /\ engine' = [engine EXCEPT ![c] = "single"]
    /\ depth' = [depth EXCEPT ![c] = 0]
    /\ UNCHANGED <<bb_split, tbs, pc, at, next_one, force, tb>>

\* The instruction is done; at the end of its block the thread goes back to
\* cpu_exec_loop or, interpreting, follows a direct jump to a linked block.  There
\* the fast interpreter takes over from a full one that finished its block, with
\* resumed as the depth.
AdvanceWith(c, resumed) ==
    LET a == at[c]
        to == IF a = Last THEN 0 ELSE a + 1
        linked == tbs[<<FALSE, to>>]
    IN  /\ at' = [at EXCEPT ![c] = to]
        /\ \/ /\ ~Ends(tb[c], a)
              /\ Goto(c, "insn")
              /\ UNCHANGED <<tb, engine, depth>>
           \/ Ends(tb[c], a) /\ Exit(c)
           \/ /\ Ends(tb[c], a)
              /\ engine[c] # "wasm"
              /\ linked # NoTb /\ ~TwoPages(linked)
              /\ Goto(c, "insn")
              /\ tb' = [tb EXCEPT ![c] = linked]
              /\ IF engine[c] = "single"
                   THEN /\ engine' = [engine EXCEPT ![c] = "fast"]
                        /\ depth' = [depth EXCEPT ![c] = resumed]
                   ELSE UNCHANGED <<engine, depth>>

\* Fault: the depth is set once, before the loop of tci_exec.
AdvanceForgets(c) == AdvanceWith(c, 0)

Advance(c) == AdvanceWith(c, 1)

\* The operations of the next instruction can run where the thread is.
Runs(c) == pc[c] = "insn" /\ ~(engine[c] = "fast" /\ Kind[at[c]] = "cold")

Touches(c) == Kind[at[c]] # "ram" /\ at[c] \notin InRam[c]

\* Handlers that bb_mr_may_yield and bb_guard_pio single out.
MayYield(a) == Kind[a] \in {"yield", "cold", "pio"}

\* An access that stops its block: cpu_io_recompile.
Stops(c) == Runs(c) /\ Touches(c) /\ ~CanDoIo(tb[c], at[c])

\* An instruction without a device.
RamInsn(c) ==
    /\ Runs(c)
    /\ ~Touches(c)
    /\ Advance(c)
    /\ UNCHANGED <<bb_split, tbs, next_one, force>>

\* bb_guard_mmio, bb_guard_pio: the instruction starts over in the full interpreter.
Guard(c) ==
    /\ Runs(c)
    /\ Touches(c) /\ MayYield(at[c])
    /\ CanDoIo(tb[c], at[c])
    /\ depth[c] = 1
    /\ force' = [force EXCEPT ![c] = TRUE]
    /\ Exit(c)
    /\ UNCHANGED <<bb_split, tbs, at, next_one>>

\* The handler runs.
Access(c) ==
    /\ Runs(c)
    /\ Touches(c)
    /\ CanDoIo(tb[c], at[c])
    /\ MayYield(at[c]) => depth[c] = 0
    /\ Advance(c)
    /\ UNCHANGED <<bb_split, tbs, next_one, force>>

\* ------------------------------------------------------------- cpu_io_recompile

\* Fault: no hint is kept.
NeverHinted(t) == FALSE

\* A hint is kept for a block of one page without a limit of its own.
Hinted(t) == ~t.one /\ ~TwoPages(t)

\* bb_split_set writes the length first, then the key.
SetN(c) ==
    /\ Stops(c)
    /\ Hinted(tb[c])
    /\ bb_split' = [bb_split EXCEPT ![Slot[tb[c].start]].n = at[c] - tb[c].start + 1]
    /\ Goto(c, "setKey")
    /\ UNCHANGED <<tbs, at, next_one, force, depth, engine, tb>>

SetKey(c) ==
    /\ pc[c] = "setKey"
    /\ bb_split' = [bb_split EXCEPT ![Slot[tb[c].start]].key = tb[c].start]
    /\ Goto(c, "retire")
    /\ UNCHANGED <<tbs, at, next_one, force, depth, engine, tb>>

\* Fault: the long block stays.
RetireKeeps(c) ==
    /\ pc[c] = "retire"
    /\ next_one' = [next_one EXCEPT ![c] = TRUE]
    /\ Exit(c)
    /\ UNCHANGED <<bb_split, tbs, at, force>>

\* tb_phys_invalidate retires this very block, not one that replaced it; the next
\* block is to be this one instruction.
Retire(c) ==
    /\ pc[c] = "retire"
    /\ LET k == <<FALSE, tb[c].start>>
       IN  tbs' = [tbs EXCEPT ![k] = IF @ = tb[c] THEN NoTb ELSE @]
    /\ next_one' = [next_one EXCEPT ![c] = TRUE]
    /\ Exit(c)
    /\ UNCHANGED <<bb_split, at, force>>

RecompileUnhinted(c) ==
    /\ Stops(c)
    /\ ~Hinted(tb[c])
    /\ next_one' = [next_one EXCEPT ![c] = TRUE]
    /\ Exit(c)
    /\ UNCHANGED <<bb_split, tbs, at, force>>

Step(c) ==
    \/ Lookup(c) \/ ReadN(c) \/ Link(c) \/ RunModule(c) \/ tci_exec(c) \/ FinishInFull(c)
    \/ RamInsn(c) \/ Guard(c) \/ Access(c) \/ SetN(c) \/ SetKey(c)
    \/ Retire(c) \/ RecompileUnhinted(c)

Next == \E c \in CPU : Step(c)

Spec == Init /\ [][Next]_vars

\* The threads are scheduled; nothing is assumed of which blocks get modules.
FairSpec == Spec /\ \A c \in CPU : WF_vars(Step(c))

\* ------------------------------------------------------------------ properties

\* Type invariant; the limit of a block is never zero.
TypeOK ==
    /\ bb_split \in [Slots -> [key : Insn, n : 0..MaxInsns]]
    /\ \A k \in KeysOfTb :
          tbs[k] = NoTb \/ tbs[k] \in [start : {k[2]}, one : {k[1]}, limit : 1..MaxInsns, id : CPU]
    /\ pc \in [CPU -> {"loop", "readN", "link", "start", "insn", "setKey", "retire"}]
    /\ at \in [CPU -> Insn]
    /\ next_one \in [CPU -> BOOLEAN]
    /\ force \in [CPU -> BOOLEAN]
    /\ depth \in [CPU -> 0..1]
    /\ engine \in [CPU -> {"fast", "full", "single", "wasm", "none"}]

\* A device handler that may switch coroutines never runs on top of the fast
\* interpreter: bb_fast_tci_depth tells the guards of it through block jumps, cold
\* operations, restarts and longjmps.
YieldsOffFastPath ==
    [][\A c \in CPU :
         Access(c) /\ MayYield(at[c]) => engine[c] # "fast"]_vars

\* The guest gets on: every access that was started over is performed in the end,
\* whichever blocks are modules and whatever the other vCPU retires.
GuestAdvances == \A c \in CPU : []<>(at[c] = 0) /\ []<>(at[c] # 0)

\* "Make the split stick" (translate-all.c:787): a block of one page is stopped by
\* an access only finitely often.  A block on two pages, for which no hint is
\* kept, may be stopped at every lap of the guest's loop.
SplitSticks == <>[](\A c \in CPU : Stops(c) => TwoPages(tb[c]))
====
