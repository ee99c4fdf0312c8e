---- MODULE CpuExclusive ----
(* Exclusive sections of the multi-threaded engine: cpu-common.c, with the loop
   of a vCPU thread (tcg-accel-ops-mttcg.c) and the two users of a section, a
   queued safe work item and the single step of an atomic instruction
   (cpu_exec_step_atomic in cpu-exec.c).

   One pc per vCPU thread:
     loop                        top of the thread's loop, BQL held
     start check checkLock       cpu_exec_start: before running is set, before
                                 pending_cpus is read, before the list lock
     idle idleWoken              asleep on exclusive_resume, and woken
     guest guestWait guestIo     in cpu_exec; guestWait waits for the BQL,
                                 guestIo holds it (a device access)
     end endCheck endLock        cpu_exec_end
     after post halted work      back under the BQL, asleep on halt_cond, in
                                 process_queued_cpu_work
     want wantIdle               start_exclusive, asleep on exclusive_resume
     scan drain drainWoken       reading the others, asleep on exclusive_cond
     excl leave                  inside the section
     step stepWait stepIo        there, in the one guest insn of a single step

   Every shared access is a step of its own; smp_mb() makes them sequentially
   consistent.  The list lock is a variable only where it is held across steps:
   a critical section without an inner wait is one step that needs it free. *)
EXTENDS FiniteSets, Integers

CONSTANTS CPU,       \* the vCPUs (cpus_queue)
          NoCpu,     \* nobody
          MaxWork,   \* bound on the safe work items queued on one vCPU
          Queuers,   \* the vCPUs whose guest makes the engine queue safe items
          Steppers,  \* those whose guest runs into EXCP_ATOMIC
          Drivers    \* those whose guest touches devices

ASSUME CpuAssumption == IsFiniteSet(CPU) /\ NoCpu \notin CPU
ASSUME MaxWorkAssumption == MaxWork \in Nat

VARIABLES pc,            \* CPU -> control point
          running,       \* CPU -> cpu->running
          has_waiter,    \* CPU -> cpu->has_waiter
          exit_request,  \* CPU -> cpu->exit_request, set by a kick
          why,           \* CPU -> what brought the vCPU to its section
          work,          \* CPU -> number of safe work items queued
          todo,          \* CPU -> CPUs its start_exclusive has still to look at
          running_cpus,  \* CPU -> how many of them it counted
          pending_cpus,
          list_lock,     \* holder of qemu_cpu_list_lock
          bql            \* holder of the big lock

vars == <<pc, running, has_waiter, exit_request, why, work, todo, running_cpus,
          pending_cpus, list_lock, bql>>

protocol == <<running, has_waiter, todo, running_cpus, pending_cpus, list_lock>>

Init ==
    /\ pc = [c \in CPU |-> "after"]
    /\ running = [c \in CPU |-> FALSE]
    /\ has_waiter = [c \in CPU |-> FALSE]
    /\ exit_request = [c \in CPU |-> TRUE]
    /\ why = [c \in CPU |-> "boot"]
    /\ work = [c \in CPU |-> 0]
    /\ todo = [c \in CPU |-> {}]
    /\ running_cpus = [c \in CPU |-> 0]
    /\ pending_cpus = 0
    /\ list_lock = NoCpu
    /\ bql = NoCpu

Goto(c, label) == pc' = [pc EXCEPT ![c] = label]

\* ------------------------------------------------------------ cpu_exec_start

LeaveLoop(c) ==
    /\ pc[c] = "loop"
    /\ bql' = NoCpu
    /\ Goto(c, "start")
    /\ UNCHANGED <<protocol, exit_request, why, work>>

SetRunning(c) ==
    /\ pc[c] = "start"
    /\ running' = [running EXCEPT ![c] = TRUE]
    /\ Goto(c, "check")
    /\ UNCHANGED <<has_waiter, todo, running_cpus, pending_cpus, list_lock,
                   exit_request, why, work, bql>>

CheckPending(c) ==
    /\ pc[c] = "check"
    /\ Goto(c, IF pending_cpus = 0 THEN "guest" ELSE "checkLock")
    /\ UNCHANGED <<protocol, exit_request, why, work, bql>>

\* A counted vCPU goes ahead; one that was not counted lets the section run.
CheckCounted(c) ==
    /\ pc[c] = "checkLock"
    /\ list_lock = NoCpu
    /\ IF has_waiter[c] \/ pending_cpus = 0
         THEN Goto(c, "guest") /\ UNCHANGED running
         ELSE Goto(c, "idle") /\ running' = [running EXCEPT ![c] = FALSE]
    /\ UNCHANGED <<has_waiter, todo, running_cpus, pending_cpus, list_lock,
                   exit_request, why, work, bql>>

\* Fault: the wait of exclusive_idle is an if, not a while.
IdleAgainUnchecked(c) ==
    /\ pc[c] = "idleWoken"
    /\ list_lock = NoCpu
    /\ Goto(c, "guest")
    /\ running' = [running EXCEPT ![c] = TRUE]
    /\ UNCHANGED <<has_waiter, todo, running_cpus, pending_cpus, list_lock,
                   exit_request, why, work, bql>>

IdleAgain(c) ==
    /\ pc[c] = "idleWoken"
    /\ list_lock = NoCpu
    /\ IF pending_cpus = 0
         THEN Goto(c, "guest") /\ running' = [running EXCEPT ![c] = TRUE]
         ELSE Goto(c, "idle") /\ UNCHANGED running
    /\ UNCHANGED <<has_waiter, todo, running_cpus, pending_cpus, list_lock,
                   exit_request, why, work, bql>>

\* ------------------------------------------------------------------- cpu_exec

\* A device access takes the BQL for its duration, in guest code and in a step;
\* a thread that waits for it does nothing else.
AskBql(c) ==
    /\ c \in Drivers
    /\ pc[c] \in {"guest", "step"}
    /\ Goto(c, IF pc[c] = "guest" THEN "guestWait" ELSE "stepWait")
    /\ UNCHANGED <<protocol, exit_request, why, work, bql>>

TakeBql(c) ==
    /\ pc[c] \in {"guestWait", "stepWait"}
    /\ bql = NoCpu
    /\ bql' = c
    /\ Goto(c, IF pc[c] = "guestWait" THEN "guestIo" ELSE "stepIo")
    /\ UNCHANGED <<protocol, exit_request, why, work>>

DropBql(c) ==
    /\ pc[c] \in {"guestIo", "stepIo"}
    /\ bql' = NoCpu
    /\ Goto(c, IF pc[c] = "guestIo" THEN "guest" ELSE "step")
    /\ UNCHANGED <<protocol, exit_request, why, work>>

\* tb_flush and the synced TLB flushes queue their item on the calling vCPU.
async_safe_run_on_cpu(c) ==
    /\ c \in Queuers
    /\ pc[c] \in {"guest", "guestIo", "step", "stepIo"}
    /\ work[c] < MaxWork
    /\ work' = [work EXCEPT ![c] = @ + 1]
    /\ exit_request' = [exit_request EXCEPT ![c] = TRUE]
    /\ UNCHANGED <<protocol, pc, why, bql>>

\* cpu_exec returns by itself, because of a kick, or with EXCP_ATOMIC.
LeaveGuest(c, reason) ==
    /\ pc[c] = "guest"
    /\ reason = "step" => c \in Steppers
    /\ why' = [why EXCEPT ![c] = reason]
    /\ Goto(c, "end")
    /\ UNCHANGED <<protocol, exit_request, work, bql>>

\* --------------------------------------------------------------- cpu_exec_end

ClearRunning(c) ==
    /\ pc[c] = "end"
    /\ running' = [running EXCEPT ![c] = FALSE]
    /\ Goto(c, "endCheck")
    /\ UNCHANGED <<has_waiter, todo, running_cpus, pending_cpus, list_lock,
                   exit_request, why, work, bql>>

EndCheck(c) ==
    /\ pc[c] = "endCheck"
    /\ Goto(c, IF pending_cpus = 0 THEN "after" ELSE "endLock")
    /\ UNCHANGED <<protocol, exit_request, why, work, bql>>

\* What EndCounted and its faulty form share: woken is the pending_cpus, before
\* the subtraction, at which the draining thread is signalled.
EndWith(c, woken) ==
    /\ pc[c] = "endLock"
    /\ list_lock = NoCpu
    /\ has_waiter' = [has_waiter EXCEPT ![c] = FALSE]
    /\ pending_cpus' = IF has_waiter[c] THEN pending_cpus - 1 ELSE pending_cpus
    /\ pc' = [d \in CPU |->
                CASE d = c -> "after"
                  [] d # c /\ pc[d] = "drain" /\ has_waiter[c] /\ pending_cpus = woken -> "drainWoken"
                  [] OTHER -> pc[d]]
    /\ UNCHANGED <<running, todo, running_cpus, list_lock, exit_request, why,
                   work, bql>>

\* Fault: the count is compared before the subtraction.
EndSignalsEarly(c) == EndWith(c, 1)

\* A counted vCPU leaves: the last one wakes the thread that drains.
EndCounted(c) == EndWith(c, 2)

\* ----------------------------------------------------------- the thread's loop

\* Every wait for the BQL outside cpu_exec: at thread start, after cpu_exec,
\* after a single step and after a safe work item.
Relock(c) ==
    /\ pc[c] = "after"
    /\ bql = NoCpu
    /\ bql' = c
    /\ Goto(c, CASE why[c] = "boot" -> "loop"
                 [] why[c] = "item" -> "work"
                 [] OTHER -> "post")
    /\ UNCHANGED <<protocol, exit_request, why, work>>

\* EXCP_ATOMIC: the BQL is dropped and cpu_exec_step_atomic wants a section.
WantStep(c) ==
    /\ pc[c] = "post"
    /\ why[c] = "step"
    /\ bql' = NoCpu
    /\ Goto(c, "want")
    /\ UNCHANGED <<protocol, exit_request, why, work>>

\* exit_request is cleared, then qemu_wait_io_event sleeps if there is nothing
\* to do: the guest halted and no work is queued.
ClearRequest(c) ==
    /\ pc[c] = "post"
    /\ why[c] # "step"
    /\ exit_request' = [exit_request EXCEPT ![c] = FALSE]
    /\ \/ Goto(c, "work") /\ UNCHANGED bql
       \/ work[c] = 0 /\ Goto(c, "halted") /\ bql' = NoCpu
    /\ UNCHANGED <<protocol, why, work>>

\* An interrupt for the halted guest: its thread wakes and relocks.
Wake(c) ==
    /\ pc[c] = "halted"
    /\ bql = NoCpu
    /\ bql' = c
    /\ Goto(c, "work")
    /\ UNCHANGED <<protocol, exit_request, why, work>>

\* process_queued_cpu_work drops the BQL around a safe item.
process_queued_cpu_work(c) ==
    /\ pc[c] = "work"
    /\ IF work[c] = 0
         THEN Goto(c, "loop") /\ UNCHANGED <<why, work, bql>>
         ELSE /\ work' = [work EXCEPT ![c] = @ - 1]
              /\ why' = [why EXCEPT ![c] = "item"]
              /\ bql' = NoCpu
              /\ Goto(c, "want")
    /\ UNCHANGED <<protocol, exit_request>>

\* ------------------------------------------------------------- start_exclusive

\* Fault: the others are looked at before pending_cpus is raised.
BeginUnannounced(c) ==
    /\ pc[c] = "want"
    /\ list_lock = NoCpu
    /\ IF pending_cpus # 0
         THEN Goto(c, "wantIdle") /\ UNCHANGED <<todo, running_cpus, list_lock>>
         ELSE /\ Goto(c, "scan")
              /\ list_lock' = c
              /\ todo' = [todo EXCEPT ![c] = CPU]
              /\ running_cpus' = [running_cpus EXCEPT ![c] = 0]
    /\ UNCHANGED <<pending_cpus, running, has_waiter, exit_request, why, work, bql>>

BeginExclusive(c) ==
    /\ pc[c] = "want"
    /\ list_lock = NoCpu
    /\ IF pending_cpus # 0
         THEN /\ Goto(c, "wantIdle")
              /\ UNCHANGED <<todo, running_cpus, pending_cpus, list_lock>>
         ELSE /\ Goto(c, "scan")
              /\ pending_cpus' = 1
              /\ list_lock' = c
              /\ todo' = [todo EXCEPT ![c] = CPU]
              /\ running_cpus' = [running_cpus EXCEPT ![c] = 0]
    /\ UNCHANGED <<running, has_waiter, exit_request, why, work, bql>>

\* Fault: a counted vCPU is not kicked.
LookAtNoKick(c, o) ==
    /\ pc[c] = "scan"
    /\ o \in todo[c]
    /\ todo' = [todo EXCEPT ![c] = @ \ {o}]
    /\ IF running[o]
         THEN /\ has_waiter' = [has_waiter EXCEPT ![o] = TRUE]
              /\ running_cpus' = [running_cpus EXCEPT ![c] = @ + 1]
         ELSE UNCHANGED <<has_waiter, running_cpus>>
    /\ UNCHANGED <<exit_request, pc, running, pending_cpus, list_lock, why, work, bql>>

\* One iteration of CPU_FOREACH: a running vCPU is counted and kicked.
LookAt(c, o) ==
    /\ pc[c] = "scan"
    /\ o \in todo[c]
    /\ todo' = [todo EXCEPT ![c] = @ \ {o}]
    /\ IF running[o]
         THEN /\ has_waiter' = [has_waiter EXCEPT ![o] = TRUE]
              /\ running_cpus' = [running_cpus EXCEPT ![c] = @ + 1]
              /\ exit_request' = [exit_request EXCEPT ![o] = TRUE]
         ELSE UNCHANGED <<has_waiter, running_cpus, exit_request>>
    /\ UNCHANGED <<pc, running, pending_cpus, list_lock, why, work, bql>>

WaitCounted(c) ==
    /\ pc[c] = "scan"
    /\ todo[c] = {}
    /\ pending_cpus' = running_cpus[c] + 1
    /\ running_cpus' = [running_cpus EXCEPT ![c] = 0]
    /\ list_lock' = NoCpu
    /\ Goto(c, IF running_cpus[c] = 0 THEN "excl" ELSE "drain")
    /\ UNCHANGED <<running, has_waiter, todo, exit_request, why, work, bql>>

Drained(c) ==
    /\ pc[c] = "drainWoken"
    /\ list_lock = NoCpu
    /\ Goto(c, IF pending_cpus > 1 THEN "drain" ELSE "excl")
    /\ UNCHANGED <<protocol, exit_request, why, work, bql>>

\* ----------------------------------------------------------- inside the section

RunItem(c) ==
    /\ pc[c] = "excl"
    /\ why[c] = "item"
    /\ Goto(c, "leave")
    /\ UNCHANGED <<protocol, exit_request, why, work, bql>>

\* cpu_exec_step_atomic: running is set while the one instruction runs.
StepBegin(c) ==
    /\ pc[c] = "excl"
    /\ why[c] = "step"
    /\ running' = [running EXCEPT ![c] = TRUE]
    /\ Goto(c, "step")
    /\ UNCHANGED <<has_waiter, todo, running_cpus, pending_cpus, list_lock,
                   exit_request, why, work, bql>>

StepEnd(c) ==
    /\ pc[c] = "step"
    /\ running' = [running EXCEPT ![c] = FALSE]
    /\ why' = [why EXCEPT ![c] = "none"]
    /\ Goto(c, "leave")
    /\ UNCHANGED <<has_waiter, todo, running_cpus, pending_cpus, list_lock,
                   exit_request, work, bql>>

\* end_exclusive, with the sleepers on exclusive_resume it wakes.
end_exclusive(c) ==
    /\ pc[c] = "leave"
    /\ list_lock = NoCpu
    /\ pending_cpus' = 0
    /\ pc' = [d \in CPU |->
                CASE d = c -> "after"
                  [] d # c /\ pc[d] = "idle" -> "idleWoken"
                  [] d # c /\ pc[d] = "wantIdle" -> "want"
                  [] OTHER -> pc[d]]
    /\ UNCHANGED <<running, has_waiter, todo, running_cpus, list_lock,
                   exit_request, why, work, bql>>

\* ------------------------------------------------------------------------ spec

\* What a vCPU thread does by itself once it is scheduled.
Thread(c) ==
    \/ LeaveLoop(c) \/ SetRunning(c) \/ CheckPending(c) \/ CheckCounted(c)
    \/ IdleAgain(c) \/ ClearRunning(c) \/ EndCheck(c)
    \/ EndCounted(c) \/ Relock(c) \/ WantStep(c) \/ ClearRequest(c)
    \/ process_queued_cpu_work(c) \/ BeginExclusive(c)
    \/ (\E o \in CPU : LookAt(c, o)) \/ WaitCounted(c) \/ Drained(c)
    \/ RunItem(c) \/ StepBegin(c) \/ StepEnd(c) \/ end_exclusive(c)

\* What the guest decides.
Guest(c) ==
    \/ AskBql(c) \/ async_safe_run_on_cpu(c) \/ Wake(c)
    \/ \E reason \in {"none", "step"} : LeaveGuest(c, reason)

\* A device access under way.
Access(c) == TakeBql(c) \/ DropBql(c)

Next == \E c \in CPU : Thread(c) \/ Guest(c) \/ Access(c)

Spec == Init /\ [][Next]_vars

\* Threads are scheduled, the BQL and the list lock are handed out fairly, a
\* device access ends, and a kicked vCPU leaves cpu_exec (every TB checks the
\* request as it starts).
Kicked(c) == exit_request[c] /\ \E reason \in {"none", "step"} : LeaveGuest(c, reason)

FairSpec ==
    /\ Spec
    /\ \A c \in CPU : SF_vars(Thread(c) \/ Kicked(c)) /\ SF_vars(Access(c))

\* ------------------------------------------------------------------ properties

Labels ==
    {"loop", "start", "check", "checkLock", "idle", "idleWoken", "guest",
     "guestWait", "guestIo", "end", "endCheck", "endLock", "after", "post",
     "halted", "work", "want", "wantIdle", "scan", "drain", "drainWoken", "excl", "step",
     "stepWait", "stepIo", "leave"}

\* Type invariant of the thread states and of the shared words of cpu-common.c.
TypeOK ==
    /\ pc \in [CPU -> Labels]
    /\ running \in [CPU -> BOOLEAN]
    /\ has_waiter \in [CPU -> BOOLEAN]
    /\ exit_request \in [CPU -> BOOLEAN]
    /\ why \in [CPU -> {"boot", "none", "step", "item"}]
    /\ work \in [CPU -> 0..MaxWork]
    /\ todo \in [CPU -> SUBSET CPU]
    /\ running_cpus \in [CPU -> Nat]
    /\ pending_cpus \in Nat
    /\ list_lock \in CPU \cup {NoCpu}
    /\ bql \in CPU \cup {NoCpu}

InGuest == {"guest", "guestWait", "guestIo"}
InSection == {"excl", "step", "stepWait", "stepIo", "leave"}

\* While a vCPU is inside an exclusive section no other vCPU executes guest code
\* and none is inside a section: what lets do_tb_flush throw the code buffer
\* away and lets a single step do a non-atomic access.
Exclusion ==
    \A c, o \in CPU :
        c # o /\ pc[c] \in InSection => pc[o] \notin InGuest \cup InSection

Waiting == {o \in CPU : has_waiter[o]}

\* pending_cpus is one more than the number of counted vCPUs still to leave, from
\* the moment start_exclusive publishes its count until end_exclusive: no vCPU is
\* forgotten and none is subtracted twice.
PendingExact ==
    \A c \in CPU :
        pc[c] \in {"drain", "drainWoken"} \cup InSection =>
            pending_cpus = Cardinality(Waiting) + 1

\* A vCPU asleep in start_exclusive for the others to leave is never left asleep
\* once they have left: the signal of cpu_exec_end is not lost.
DrainSignalled ==
    \A c \in CPU : pc[c] = "drain" => Waiting # {}

\* A vCPU asleep until a section ends sleeps only while there is a section to
\* end: the broadcast of end_exclusive is not lost.
SleepersHaveSection ==
    \A c \in CPU : pc[c] \in {"idle", "wantIdle"} => pending_cpus # 0

\* No wakeup of the protocol is lost, neither to the thread that drains nor to
\* those that wait for the section to end.
WakeupsKept == DrainSignalled /\ SleepersHaveSection

Guests == {c \in CPU : pc[c] \in InGuest}

Owner ==
    IF \E c \in CPU : pc[c] \in InSection
      THEN CHOOSE c \in CPU : pc[c] \in InSection
      ELSE NoCpu

World == INSTANCE StopTheWorld WITH guests <- Guests, owner <- Owner

\* The protocol implements the abstract stop-the-world sections.
StopsTheWorld == World!Spec

\* Once some vCPU wants a section, some vCPU gets one, although the threads also
\* compete for the BQL and may be asleep, halted or in a device access.
SectionsHappen ==
    (\E c \in CPU : pc[c] \in {"want", "wantIdle"}) ~> (\E c \in CPU : pc[c] = "excl")
====
