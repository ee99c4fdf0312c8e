---- MODULE CpuExclusiveProofs ----
(* Proofs about the exclusive sections, for any number of vCPUs and any guest
   workload: the count of vCPUs to wait for is exact, a section excludes guest
   code and other sections, no wakeup is lost, and the protocol implements
   StopTheWorld. *)
EXTENDS CpuExclusive, FiniteSetTheorems, TLAPS

\* Where a thread owns the protocol: from pending_cpus = 1 to end_exclusive.
Owning == {"scan", "drain", "drainWoken"} \cup InSection

\* Where cpu->running is set.
RunningAt ==
    InGuest \cup {"check", "checkLock", "end", "step", "stepWait", "stepIo"}

\* Where a counted vCPU may be.
CountedAt == InGuest \cup {"check", "checkLock", "end", "endCheck", "endLock"}

\* Where a vCPU must have been counted, or be about to be, by the owner.
ToBeCountedAt == InGuest \cup {"end"}

OwnerInv ==
    /\ \A c \in CPU : running[c] <=> pc[c] \in RunningAt
    /\ pending_cpus # 0 <=> \E c \in CPU : pc[c] \in Owning
    /\ \A c, d \in CPU : pc[c] \in Owning /\ pc[d] \in Owning => c = d
    /\ \A c \in CPU : list_lock = c <=> pc[c] = "scan"

WaiterInv ==
    /\ \A o \in CPU : has_waiter[o] => pc[o] \in CountedAt /\ pending_cpus # 0
    /\ \A c, o \in CPU :
          pc[c] \in Owning /\ pc[o] \in ToBeCountedAt =>
              has_waiter[o] \/ (pc[c] = "scan" /\ o \in todo[c])
    /\ \A c, o \in CPU : pc[c] = "scan" /\ o \in todo[c] => ~has_waiter[o]
    /\ \A c, o \in CPU : pc[c] \in InSection => ~has_waiter[o]

CountInv ==
    \A c \in CPU :
        /\ pc[c] = "scan" => running_cpus[c] = Cardinality(Waiting)
        /\ pc[c] \in Owning /\ pc[c] # "scan" => pending_cpus = Cardinality(Waiting) + 1

\* The inductive invariant.
IInv ==
    /\ TypeOK
    /\ OwnerInv
    /\ WaiterInv
    /\ CountInv
    /\ DrainSignalled
    /\ SleepersHaveSection

\* ------------------------------------------------------- the set of counted vCPUs

\* The provers a leaf is tried with, one after the other, and for how long.
USE SMTT(40), Z3T(40), ZenonT(40)

\* The vCPUs that were counted are finitely many.
LEMMA WaitingFinite == IsFiniteSet(Waiting) /\ Cardinality(Waiting) \in Nat
<1>1. IsFiniteSet(CPU)
  BY CpuAssumption
<1>2. Waiting \subseteq CPU
  BY DEF Waiting
<1>3. IsFiniteSet(Waiting)
  BY <1>1, <1>2, FS_Subset
<1> QED
  BY <1>3, FS_CardinalityType

\* The count is 0 exactly when no has_waiter is set.
LEMMA NobodyCounted ==
    Cardinality(Waiting) = 0 <=> \A o \in CPU : ~has_waiter[o]
<1>1. Cardinality(Waiting) = 0 <=> Waiting = {}
  BY WaitingFinite, FS_EmptySet
<1> QED
  BY <1>1 DEF Waiting

\* Counting one more vCPU.
LEMMA CountOne ==
    ASSUME TypeOK, NEW o \in CPU, ~has_waiter[o],
           has_waiter' = [has_waiter EXCEPT ![o] = TRUE]
    PROVE  Cardinality(Waiting)' = Cardinality(Waiting) + 1
<1>1. Waiting' = Waiting \cup {o}
  BY DEF Waiting, TypeOK
<1>2. o \notin Waiting
  BY DEF Waiting
<1> QED
  BY ZenonT(40), <1>1, <1>2, WaitingFinite, FS_AddElement

\* A counted vCPU leaves.
LEMMA UncountOne ==
    ASSUME TypeOK, NEW o \in CPU, has_waiter[o],
           has_waiter' = [has_waiter EXCEPT ![o] = FALSE]
    PROVE  Cardinality(Waiting)' = Cardinality(Waiting) - 1
<1>1. Waiting' = Waiting \ {o}
  BY DEF Waiting, TypeOK
<1>2. o \in Waiting
  BY DEF Waiting
<1> QED
  BY <1>1, <1>2, WaitingFinite, FS_RemoveElement

\* ------------------------------------------------------- steps outside the protocol

\* The labels between which a thread moves without the protocol noticing.
Alike(a, b) ==
    /\ a \in RunningAt <=> b \in RunningAt
    /\ a \in Owning <=> b \in Owning
    /\ a \in InSection <=> b \in InSection
    /\ a \in CountedAt <=> b \in CountedAt
    /\ b \in ToBeCountedAt => a \in ToBeCountedAt
    /\ b \notin {"scan", "drain", "idle", "wantIdle"}
    /\ a # "scan"

\* A step that leaves the shared words alone and moves one thread between such
\* labels keeps the invariant.
LEMMA QuietStep ==
    ASSUME IInv, TypeOK', NEW c \in CPU, NEW l \in Labels, Alike(pc[c], l),
           Goto(c, l), UNCHANGED protocol
    PROVE  IInv'
<1> USE DEF IInv
<1>1. /\ pc \in [CPU -> Labels]
      /\ pc' = [pc EXCEPT ![c] = l]
      /\ UNCHANGED <<running, has_waiter, todo, running_cpus, pending_cpus, list_lock>>
  BY DEF TypeOK, Goto, protocol
<1>2. \A d \in CPU : pc'[d] = IF d = c THEN l ELSE pc[d]
  BY <1>1
<1>3. Cardinality(Waiting)' = Cardinality(Waiting)
  BY <1>1 DEF Waiting
<1>4. OwnerInv'
  BY <1>1, <1>2 DEF OwnerInv, Alike
<1>5. WaiterInv'
  BY <1>1, <1>2 DEF WaiterInv, Alike
<1>6. CountInv'
  BY <1>1, <1>2, <1>3 DEF CountInv, Alike
<1>7. DrainSignalled'
  BY <1>1, <1>2 DEF DrainSignalled, Alike, Waiting
<1>8. SleepersHaveSection'
  BY <1>1, <1>2 DEF SleepersHaveSection, Alike
<1> QED
  BY <1>4, <1>5, <1>6, <1>7, <1>8

\* Every step keeps the type invariant; only a counted vCPU subtracts from
\* pending_cpus, and it is not zero then.
LEMMA TypeStep == IInv /\ Next => TypeOK'
<1> SUFFICES ASSUME IInv, NEW c \in CPU, Thread(c) \/ Guest(c) \/ Access(c) PROVE TypeOK'
  BY DEF Next
<1> USE DEF TypeOK, Labels, Goto, protocol
<1>0. TypeOK
  BY DEF IInv
<1>1. CASE Access(c)
  BY <1>0, <1>1 DEF Access, TakeBql, DropBql
<1>2. CASE Guest(c)
  <2>1. CASE AskBql(c) \/ Wake(c)
    BY <1>0, <2>1 DEF AskBql, Wake
  <2>2. CASE async_safe_run_on_cpu(c)
    BY <1>0, <2>2, MaxWorkAssumption DEF async_safe_run_on_cpu
  <2>3. CASE \E reason \in {"none", "step"} : LeaveGuest(c, reason)
    BY <1>0, <2>3 DEF LeaveGuest
  <2> QED
    BY <1>2, <2>1, <2>2, <2>3 DEF Guest
<1>3. CASE LeaveLoop(c) \/ SetRunning(c) \/ CheckPending(c)
  BY ZenonT(40), <1>0, <1>3 DEF LeaveLoop, SetRunning, CheckPending
<1>4. CASE CheckCounted(c) \/ IdleAgain(c)
  BY ZenonT(40), <1>0, <1>4 DEF CheckCounted, IdleAgain
<1>5. CASE ClearRunning(c) \/ EndCheck(c)
  BY ZenonT(40), <1>0, <1>5 DEF ClearRunning, EndCheck
<1>6. CASE EndCounted(c)
  <2>1. has_waiter[c] => pending_cpus # 0
    BY DEF IInv, WaiterInv
  <2> QED
    BY <1>0, <1>6, <2>1 DEF EndCounted, EndWith
<1>7. CASE Relock(c) \/ WantStep(c)
  BY <1>0, <1>7 DEF Relock, WantStep
<1>8. CASE ClearRequest(c)
  BY <1>0, <1>8 DEF ClearRequest
<1>9. CASE process_queued_cpu_work(c)
  BY <1>0, <1>9, MaxWorkAssumption DEF process_queued_cpu_work
<1>10. CASE BeginExclusive(c)
  BY <1>0, <1>10 DEF BeginExclusive
<1>11. CASE \E o \in CPU : LookAt(c, o)
  <2>1. PICK o \in CPU : LookAt(c, o)
    BY <1>11
  <2>2. todo' \in [CPU -> SUBSET CPU] /\ running_cpus' \in [CPU -> Nat]
    BY <1>0, <2>1 DEF LookAt
  <2>3. has_waiter' \in [CPU -> BOOLEAN] /\ exit_request' \in [CPU -> BOOLEAN]
    BY ZenonT(40), <1>0, <2>1 DEF LookAt
  <2> QED
    BY <1>0, <2>1, <2>2, <2>3 DEF LookAt
<1>12. CASE WaitCounted(c) \/ Drained(c)
  BY <1>0, <1>12 DEF WaitCounted, Drained
<1>13. CASE RunItem(c)
  BY <1>0, <1>13 DEF RunItem
<1>14. CASE StepBegin(c)
  BY <1>0, <1>14 DEF StepBegin
<1>15. CASE StepEnd(c)
  BY <1>0, <1>15 DEF StepEnd
<1>16. CASE end_exclusive(c)
  BY <1>0, <1>16 DEF end_exclusive
<1> QED
  BY <1>1, <1>2, <1>3, <1>4, <1>5, <1>6, <1>7, <1>8, <1>9, <1>10, <1>11, <1>12,
     <1>13, <1>14, <1>15, <1>16 DEF Thread

\* ----------------------------------------------------------- steps of the protocol

\* Threads that enter and leave guest code, before and after they are counted.
LEMMA EnterStep ==
    ASSUME IInv, TypeOK', NEW c \in CPU,
           SetRunning(c) \/ CheckPending(c) \/ CheckCounted(c) \/ IdleAgain(c)
    PROVE  IInv'
<1> USE DEF IInv, Owning, RunningAt, CountedAt, ToBeCountedAt, InGuest, InSection
<1>1. TypeOK
  OBVIOUS
<1>2. UNCHANGED <<has_waiter, todo, running_cpus, pending_cpus, list_lock>>
  BY DEF SetRunning, CheckPending, CheckCounted, IdleAgain, protocol
<1>3. PICK l \in {"check", "checkLock", "guest", "idle"} : pc' = [pc EXCEPT ![c] = l]
  BY DEF SetRunning, CheckPending, CheckCounted, IdleAgain, Goto
<1>4. \A d \in CPU : pc'[d] = IF d = c THEN l ELSE pc[d]
  BY <1>1, <1>3 DEF TypeOK
<1>5. /\ pc[c] \in {"start", "check", "checkLock", "idleWoken"}
      /\ l = "idle" => pending_cpus # 0 /\ ~has_waiter[c]
      /\ l = "guest" => pending_cpus = 0 \/ has_waiter[c]
      /\ running' = [running EXCEPT ![c] = (l # "idle")]
  <2>1. pc'[c] = l
    BY <1>4
  <2>2. CASE SetRunning(c)
    BY ZenonT(40), <1>1, <2>1, <2>2 DEF SetRunning, Goto, TypeOK
  <2>3. CASE CheckPending(c)
    <3>1. running[c] = TRUE
      BY <1>1, <2>3 DEF CheckPending, OwnerInv, TypeOK
    <3>2. running = [running EXCEPT ![c] = TRUE]
      BY <1>1, <3>1 DEF TypeOK
    <3> QED
      BY ZenonT(40), <1>1, <2>1, <2>3, <3>2 DEF CheckPending, Goto, TypeOK, protocol
  <2>4. CASE CheckCounted(c)
    <3>1. running[c] = TRUE
      BY <1>1, <2>4 DEF CheckCounted, OwnerInv, TypeOK
    <3>2. running = [running EXCEPT ![c] = TRUE]
      BY <1>1, <3>1 DEF TypeOK
    <3> QED
      BY <1>1, <2>1, <2>4, <3>2 DEF CheckCounted, Goto, TypeOK
  <2>5. CASE IdleAgain(c)
    <3>1. running[c] = FALSE /\ ~has_waiter[c]
      BY <1>1, <2>5 DEF IdleAgain, OwnerInv, WaiterInv, TypeOK
    <3>2. running = [running EXCEPT ![c] = FALSE]
      BY <1>1, <3>1 DEF TypeOK
    <3> QED
      BY <1>1, <2>1, <2>5, <3>1, <3>2 DEF IdleAgain, Goto, TypeOK
  <2> QED
    BY <2>2, <2>3, <2>4, <2>5
<1>6. \A d \in CPU : running'[d] <=> (IF d = c THEN l # "idle" ELSE running[d])
  BY ZenonT(40), <1>1, <1>5 DEF TypeOK
<1>7. OwnerInv'
  BY <1>1, <1>2, <1>4, <1>5, <1>6 DEF OwnerInv
<1>8. WaiterInv'
  BY <1>1, <1>2, <1>4, <1>5 DEF WaiterInv, OwnerInv
<1>9. CountInv'
  <2>1. Cardinality(Waiting)' = Cardinality(Waiting)
    BY <1>2 DEF Waiting
  <2> QED
    BY <2>1, <1>2, <1>4, <1>5 DEF CountInv
<1>10. DrainSignalled'
  BY <1>2, <1>4, <1>5 DEF DrainSignalled, Waiting
<1>11. SleepersHaveSection'
  BY <1>2, <1>4, <1>5 DEF SleepersHaveSection
<1> QED
  BY <1>7, <1>8, <1>9, <1>10, <1>11

\* cpu_exec_end: a vCPU leaves guest code, before it looks at pending_cpus.
LEMMA LeaveStep ==
    ASSUME IInv, TypeOK', NEW c \in CPU, ClearRunning(c) \/ EndCheck(c)
    PROVE  IInv'
<1> USE DEF IInv, Owning, RunningAt, CountedAt, ToBeCountedAt, InGuest, InSection
<1>1. TypeOK
  OBVIOUS
<1>2. UNCHANGED <<has_waiter, todo, running_cpus, pending_cpus, list_lock>>
  BY DEF ClearRunning, EndCheck, protocol
<1>3. PICK l \in {"endCheck", "endLock", "after"} : pc' = [pc EXCEPT ![c] = l]
  BY DEF ClearRunning, EndCheck, Goto
<1>4. \A d \in CPU : pc'[d] = IF d = c THEN l ELSE pc[d]
  BY <1>1, <1>3 DEF TypeOK
<1>5. /\ pc[c] \in {"end", "endCheck"}
      /\ l = "after" => pending_cpus = 0
      /\ running' = [running EXCEPT ![c] = FALSE]
  <2>1. pc'[c] = l
    BY <1>4
  <2>2. CASE ClearRunning(c)
    BY <1>1, <2>1, <2>2 DEF ClearRunning, Goto, TypeOK
  <2>3. CASE EndCheck(c)
    <3>1. running[c] = FALSE
      BY <1>1, <2>3 DEF EndCheck, OwnerInv, TypeOK
    <3>2. running = [running EXCEPT ![c] = FALSE]
      BY <1>1, <3>1 DEF TypeOK
    <3> QED
      BY <1>1, <2>1, <2>3, <3>2 DEF EndCheck, Goto, TypeOK, protocol
  <2> QED
    BY <2>2, <2>3
<1>6. \A d \in CPU : running'[d] <=> (IF d = c THEN FALSE ELSE running[d])
  BY <1>1, <1>5 DEF TypeOK
<1>7. OwnerInv'
  BY <1>1, <1>2, <1>4, <1>5, <1>6 DEF OwnerInv
<1>8. WaiterInv'
  BY <1>1, <1>2, <1>4, <1>5 DEF WaiterInv, OwnerInv
<1>9. CountInv'
  <2>1. Cardinality(Waiting)' = Cardinality(Waiting)
    BY <1>2 DEF Waiting
  <2> QED
    BY <2>1, <1>2, <1>4, <1>5 DEF CountInv
<1>10. DrainSignalled'
  BY <1>2, <1>4, <1>5 DEF DrainSignalled, Waiting
<1>11. SleepersHaveSection'
  BY <1>2, <1>4, <1>5 DEF SleepersHaveSection
<1> QED
  BY <1>7, <1>8, <1>9, <1>10, <1>11

\* cpu_exec_end under the list lock: the last counted vCPU wakes the owner.
LEMMA CountedLeaves ==
    ASSUME IInv, TypeOK', NEW c \in CPU, EndCounted(c)
    PROVE  IInv'
<1> USE DEF IInv, Owning, RunningAt, CountedAt, ToBeCountedAt, InGuest, InSection
<1>1. TypeOK
  OBVIOUS
<1>2. /\ pc[c] = "endLock" /\ list_lock = NoCpu
      /\ has_waiter' = [has_waiter EXCEPT ![c] = FALSE]
      /\ pending_cpus' = IF has_waiter[c] THEN pending_cpus - 1 ELSE pending_cpus
      /\ UNCHANGED <<running, todo, running_cpus, list_lock>>
  BY <1>1 DEF EndCounted, EndWith, TypeOK
<1>3. \A d \in CPU :
        pc'[d] = IF d = c THEN "after"
                 ELSE IF pc[d] = "drain" /\ has_waiter[c] /\ pending_cpus = 2
                   THEN "drainWoken" ELSE pc[d]
  BY <1>1 DEF EndCounted, EndWith, TypeOK
<1>4. \A d \in CPU : pc[d] # "scan"
  BY <1>2, CpuAssumption DEF OwnerInv
<1>5. \A d \in CPU : has_waiter'[d] = IF d = c THEN FALSE ELSE has_waiter[d]
  BY <1>1, <1>2 DEF TypeOK
<1>6. Cardinality(Waiting) \in Nat /\ Cardinality(Waiting)' =
        IF has_waiter[c] THEN Cardinality(Waiting) - 1 ELSE Cardinality(Waiting)
  <2>1. CASE has_waiter[c]
    BY ZenonT(40), <1>1, <1>2, <2>1, UncountOne, WaitingFinite
  <2>2. CASE ~has_waiter[c]
    <3>1. Waiting' = Waiting
      BY ZenonT(40), <1>5, <2>2 DEF Waiting
    <3> QED
      BY <3>1, <2>2, WaitingFinite
  <2> QED
    BY <2>1, <2>2
<1>7. has_waiter[c] => pending_cpus = Cardinality(Waiting) + 1
  BY <1>4 DEF WaiterInv, OwnerInv, CountInv
<1>8. has_waiter[c] => pending_cpus' # 0
  BY <1>1, <1>2, <1>6, <1>7, NobodyCounted DEF TypeOK
<1>9. OwnerInv'
  <2>1. \A d \in CPU : pc'[d] \in Owning <=> pc[d] \in Owning
    BY <1>2, <1>3
  <2>2. \A d \in CPU : pc'[d] \in RunningAt <=> pc[d] \in RunningAt
    BY <1>2, <1>3
  <2>3. pending_cpus' # 0 <=> pending_cpus # 0
    BY <1>2, <1>8 DEF WaiterInv
  <2>4. \A d \in CPU : pc'[d] # "scan"
    BY <1>3, <1>4
  <2> QED
    BY <1>2, <1>4, <2>1, <2>2, <2>3, <2>4 DEF OwnerInv
<1>10. WaiterInv'
  <2>1. \A o \in CPU : has_waiter'[o] => pc'[o] \in CountedAt /\ pending_cpus' # 0
    BY ZenonT(40), <1>2, <1>3, <1>5, <1>8 DEF WaiterInv
  <2>2. \A d, o \in CPU : pc'[d] \in Owning /\ pc'[o] \in ToBeCountedAt => has_waiter'[o]
    BY <1>2, <1>3, <1>4, <1>5 DEF WaiterInv
  <2>3. \A d \in CPU : pc'[d] # "scan"
    BY <1>3, <1>4
  <2>4. \A d, o \in CPU : pc'[d] \in InSection => ~has_waiter'[o]
    BY <1>2, <1>3, <1>5 DEF WaiterInv
  <2> QED
    BY <2>1, <2>2, <2>3, <2>4 DEF WaiterInv
<1>11. CountInv'
  BY <1>1, <1>2, <1>3, <1>4, <1>6, <1>7 DEF CountInv, TypeOK
<1>12. DrainSignalled'
  <2> SUFFICES ASSUME NEW d \in CPU, pc'[d] = "drain" PROVE Waiting' # {}
    BY DEF DrainSignalled
  <2>1. pc[d] = "drain" /\ ~(has_waiter[c] /\ pending_cpus = 2)
    BY <1>2, <1>3
  <2>2. Cardinality(Waiting) # 0
    BY <2>1, NobodyCounted DEF DrainSignalled, Waiting
  <2>3. Cardinality(Waiting)' # 0
    BY <1>6, <1>7, <2>1, <2>2
  <2> QED
    BY <2>3, FS_EmptySet
<1>13. SleepersHaveSection'
  BY <1>2, <1>3, <1>8 DEF SleepersHaveSection
<1> QED
  BY <1>9, <1>10, <1>11, <1>12, <1>13

\* start_exclusive takes the protocol while nobody has it.
LEMMA BeginStep ==
    ASSUME IInv, TypeOK', NEW c \in CPU, BeginExclusive(c)
    PROVE  IInv'
<1> USE DEF IInv, Owning, RunningAt, CountedAt, ToBeCountedAt, InGuest, InSection
<1>1. TypeOK /\ pc[c] = "want" /\ list_lock = NoCpu /\ UNCHANGED <<running, has_waiter>>
  BY DEF BeginExclusive
<1>2. Cardinality(Waiting)' = Cardinality(Waiting)
  BY <1>1 DEF Waiting
<1>3. CASE pending_cpus # 0
  <2>1. UNCHANGED <<todo, running_cpus, pending_cpus, list_lock>>
    BY <1>3 DEF BeginExclusive
  <2>2. \A d \in CPU : pc'[d] = IF d = c THEN "wantIdle" ELSE pc[d]
    BY <1>1, <1>3 DEF BeginExclusive, Goto, TypeOK
  <2>3. OwnerInv'
    BY <1>1, <2>1, <2>2 DEF OwnerInv
  <2>4. WaiterInv'
    BY <1>1, <2>1, <2>2 DEF WaiterInv
  <2>5. CountInv' /\ DrainSignalled' /\ SleepersHaveSection'
    BY <1>1, <1>2, <1>3, <2>1, <2>2 DEF CountInv, DrainSignalled, SleepersHaveSection, Waiting
  <2> QED
    BY <2>3, <2>4, <2>5
<1>4. CASE pending_cpus = 0
  <2>1. pending_cpus' = 1 /\ list_lock' = c /\ todo'[c] = CPU /\ running_cpus'[c] = 0
    BY <1>1, <1>4 DEF BeginExclusive, TypeOK
  <2>2. \A d \in CPU : pc'[d] = IF d = c THEN "scan" ELSE pc[d]
    BY <1>1, <1>4 DEF BeginExclusive, Goto, TypeOK
  <2>3. \A d \in CPU : pc[d] \notin Owning /\ ~has_waiter[d]
    BY <1>4 DEF OwnerInv, WaiterInv
  <2>4. OwnerInv'
    BY <1>1, <2>1, <2>2, <2>3 DEF OwnerInv
  <2>5. WaiterInv'
    BY <1>1, <2>1, <2>2, <2>3 DEF WaiterInv
  <2>6. Cardinality(Waiting) = 0
    BY <2>3, NobodyCounted
  <2>7. CountInv'
    BY <1>2, <2>1, <2>2, <2>3, <2>6 DEF CountInv
  <2>8. DrainSignalled' /\ SleepersHaveSection'
    BY <2>1, <2>2, <2>3 DEF DrainSignalled, SleepersHaveSection
  <2> QED
    BY <2>4, <2>5, <2>7, <2>8
<1> QED
  BY <1>3, <1>4

\* One vCPU is looked at: it is counted exactly if it runs.
LEMMA LookStep ==
    ASSUME IInv, TypeOK', NEW c \in CPU, NEW o \in CPU, LookAt(c, o)
    PROVE  IInv'
<1> USE DEF IInv, Owning, RunningAt, CountedAt, ToBeCountedAt, InGuest, InSection
<1>1. /\ TypeOK /\ pc[c] = "scan" /\ o \in todo[c] /\ ~has_waiter[o]
      /\ UNCHANGED <<pc, running, pending_cpus, list_lock>>
  BY DEF LookAt, WaiterInv
<1>2. \A d \in CPU : todo'[d] = IF d = c THEN todo[c] \ {o} ELSE todo[d]
  BY <1>1 DEF LookAt, TypeOK
<1>3. \A d \in CPU : pc[d] \in Owning => d = c
  BY <1>1 DEF OwnerInv
<1>4. \A d \in CPU : has_waiter'[d] <=> (has_waiter[d] \/ (d = o /\ running[o]))
  BY <1>1 DEF LookAt, TypeOK
<1>5. OwnerInv'
  BY <1>1 DEF OwnerInv
<1>6. WaiterInv'
  <2>1. running[o] => pc[o] \in CountedAt /\ pending_cpus # 0
    BY <1>1, <1>3 DEF OwnerInv
  <2>2. pc[o] \in ToBeCountedAt => running[o]
    BY DEF OwnerInv
  <2>3. \A d \in CPU : has_waiter'[d] => pc'[d] \in CountedAt /\ pending_cpus' # 0
    BY <1>1, <1>4, <2>1 DEF WaiterInv
  <2>4. \A d, e \in CPU : pc'[d] \in Owning /\ pc'[e] \in ToBeCountedAt =>
            has_waiter'[e] \/ (pc'[d] = "scan" /\ e \in todo'[d])
    BY <1>1, <1>2, <1>3, <1>4, <2>2 DEF WaiterInv
  <2>5. \A d, e \in CPU : pc'[d] = "scan" /\ e \in todo'[d] => ~has_waiter'[e]
    BY <1>1, <1>2, <1>3, <1>4 DEF WaiterInv
  <2>6. \A d \in CPU : pc'[d] \notin InSection
    BY <1>1, <1>3
  <2> QED
    BY <2>3, <2>4, <2>5, <2>6 DEF WaiterInv
<1>7. CountInv'
  <2>1. running_cpus'[c] = Cardinality(Waiting)'
    <3>1. CASE running[o]
      <4>1. has_waiter' = [has_waiter EXCEPT ![o] = TRUE] /\ running_cpus'[c] = running_cpus[c] + 1
        BY <1>1, <3>1 DEF LookAt, TypeOK
      <4> QED
        BY ZenonT(40), <1>1, <4>1, CountOne DEF CountInv
    <3>2. CASE ~running[o]
      <4>1. UNCHANGED <<has_waiter, running_cpus>>
        BY <3>2 DEF LookAt
      <4> QED
        BY <1>1, <4>1 DEF CountInv, Waiting
    <3> QED
      BY <3>1, <3>2
  <2> QED
    BY <1>1, <1>3, <2>1 DEF CountInv
<1>8. DrainSignalled' /\ SleepersHaveSection'
  BY <1>1, <1>3 DEF DrainSignalled, SleepersHaveSection
<1> QED
  BY <1>5, <1>6, <1>7, <1>8

\* The count is published; the owner sleeps, or goes in when nobody was running.
LEMMA WaitStep ==
    ASSUME IInv, TypeOK', NEW c \in CPU, WaitCounted(c) \/ Drained(c)
    PROVE  IInv'
<1> USE DEF IInv, Owning, RunningAt, CountedAt, ToBeCountedAt, InGuest, InSection
<1>1. /\ TypeOK /\ UNCHANGED <<running, has_waiter, todo>>
      /\ pc[c] \in {"scan", "drainWoken"} /\ (pc[c] = "scan" => todo[c] = {})
      /\ list_lock' = NoCpu
      /\ pc[c] = "drainWoken" => list_lock = NoCpu
  BY DEF WaitCounted, Drained, protocol
<1>2. Cardinality(Waiting)' = Cardinality(Waiting) /\ Cardinality(Waiting) \in Nat
  BY <1>1, WaitingFinite DEF Waiting
<1>3. \A d \in CPU : pc[d] \in Owning => d = c
  BY <1>1 DEF OwnerInv
<1>4. pending_cpus' = Cardinality(Waiting) + 1
  BY <1>1, <1>2 DEF WaitCounted, Drained, CountInv, protocol
<1>5. \A d \in CPU :
        pc'[d] = IF d # c THEN pc[d]
                 ELSE IF Cardinality(Waiting) = 0 THEN "excl" ELSE "drain"
  <2>1. CASE WaitCounted(c)
    BY <1>1, <2>1 DEF WaitCounted, CountInv, Goto, TypeOK
  <2>2. CASE Drained(c)
    BY <1>1, <1>2, <2>2 DEF Drained, CountInv, Goto, TypeOK
  <2> QED
    BY <2>1, <2>2
<1>6. Cardinality(Waiting) = 0 => \A o \in CPU : ~has_waiter[o]
  BY NobodyCounted
<1>7. OwnerInv'
  <2>1. \A d \in CPU : pc'[d] # "scan" /\ list_lock' # d
    BY <1>1, <1>3, <1>5, CpuAssumption
  <2>2. \A d \in CPU : running'[d] <=> pc'[d] \in RunningAt
    BY <1>1, <1>5 DEF OwnerInv
  <2>3. pending_cpus' # 0 /\ pc'[c] \in Owning
    BY <1>2, <1>4, <1>5
  <2>4. \A d \in CPU : pc'[d] \in Owning => d = c
    BY <1>3, <1>5
  <2> QED
    BY <2>1, <2>2, <2>3, <2>4 DEF OwnerInv
<1>8. WaiterInv'
  <2>1. pending_cpus' # 0
    BY <1>2, <1>4
  <2>2. \A o \in CPU : pc'[o] \in ToBeCountedAt => has_waiter'[o]
    BY <1>1, <1>5 DEF WaiterInv
  <2>3. \A d \in CPU : pc'[d] # "scan"
    BY <1>1, <1>3, <1>5
  <2>4. \A d, o \in CPU : pc'[d] \in InSection => ~has_waiter'[o]
    BY <1>1, <1>3, <1>5, <1>6
  <2>5. \A o \in CPU : has_waiter'[o] => pc'[o] \in CountedAt
    BY <1>1, <1>5 DEF WaiterInv
  <2> QED
    BY <2>1, <2>2, <2>3, <2>4, <2>5 DEF WaiterInv
<1>9. CountInv'
  BY <1>1, <1>2, <1>3, <1>4, <1>5 DEF CountInv
<1>10. DrainSignalled'
  <2> SUFFICES ASSUME NEW d \in CPU, pc'[d] = "drain" PROVE Waiting' # {}
    BY DEF DrainSignalled
  <2>1. Cardinality(Waiting)' # 0
    BY <1>2, <1>3, <1>5
  <2> QED
    BY <2>1, FS_EmptySet
<1>11. SleepersHaveSection'
  BY <1>2, <1>4 DEF SleepersHaveSection
<1> QED
  BY <1>7, <1>8, <1>9, <1>10, <1>11

\* cpu->running is set and cleared inside a section, where nobody looks at it.
LEMMA SingleStep ==
    ASSUME IInv, TypeOK', NEW c \in CPU, StepBegin(c) \/ StepEnd(c)
    PROVE  IInv'
<1> USE DEF IInv, Owning, RunningAt, CountedAt, ToBeCountedAt, InGuest, InSection
<1>1. /\ TypeOK /\ pc[c] \in {"excl", "step"}
      /\ UNCHANGED <<has_waiter, todo, running_cpus, pending_cpus, list_lock>>
  BY DEF StepBegin, StepEnd
<1>2. \A d \in CPU :
        pc'[d] = IF d # c THEN pc[d] ELSE IF pc[c] = "excl" THEN "step" ELSE "leave"
  BY <1>1 DEF StepBegin, StepEnd, Goto, TypeOK
<1>3. \A d \in CPU : running'[d] <=> (IF d = c THEN pc[c] = "excl" ELSE running[d])
  BY <1>1 DEF StepBegin, StepEnd, TypeOK
<1>4. OwnerInv'
  BY <1>1, <1>2, <1>3 DEF OwnerInv
<1>5. WaiterInv'
  BY <1>1, <1>2 DEF WaiterInv
<1>6. CountInv'
  <2>1. Cardinality(Waiting)' = Cardinality(Waiting)
    BY <1>1 DEF Waiting
  <2> QED
    BY <1>1, <1>2, <2>1 DEF CountInv
<1>7. DrainSignalled' /\ SleepersHaveSection'
  BY <1>1, <1>2 DEF DrainSignalled, SleepersHaveSection, Waiting
<1> QED
  BY <1>4, <1>5, <1>6, <1>7

\* end_exclusive gives the protocol back; nobody is counted any more.
LEMMA EndStep ==
    ASSUME IInv, TypeOK', NEW c \in CPU, end_exclusive(c)
    PROVE  IInv'
<1> USE DEF IInv, Owning, RunningAt, CountedAt, ToBeCountedAt, InGuest, InSection
<1>1. /\ TypeOK /\ pc[c] = "leave" /\ pending_cpus' = 0 /\ list_lock = NoCpu
      /\ UNCHANGED <<running, has_waiter, todo, running_cpus, list_lock>>
  BY DEF end_exclusive
<1>2. \A d \in CPU :
        pc'[d] = IF d = c THEN "after"
                 ELSE IF pc[d] = "idle" THEN "idleWoken"
                 ELSE IF pc[d] = "wantIdle" THEN "want" ELSE pc[d]
  BY <1>1 DEF end_exclusive, TypeOK
<1>3. \A d \in CPU : pc'[d] \notin Owning /\ ~has_waiter'[d]
  BY <1>1, <1>2 DEF OwnerInv, WaiterInv
<1>4. OwnerInv'
  BY <1>1, <1>2, <1>3, CpuAssumption DEF OwnerInv
<1>5. WaiterInv' /\ CountInv' /\ DrainSignalled'
  BY <1>3 DEF WaiterInv, CountInv, DrainSignalled
<1>6. SleepersHaveSection'
  BY <1>1, <1>2 DEF SleepersHaveSection
<1> QED
  BY <1>4, <1>5, <1>6

\* ----------------------------------------------------------------------- theorems

\* At the start nobody runs guest code and nobody owns the protocol.
LEMMA InitInv == Init => IInv
<1> SUFFICES ASSUME Init PROVE IInv
  OBVIOUS
<1> USE DEF Init, Owning, RunningAt, CountedAt, ToBeCountedAt, InGuest, InSection
<1>1. TypeOK
  BY MaxWorkAssumption DEF TypeOK, Labels
<1>2. OwnerInv
  BY CpuAssumption DEF OwnerInv
<1>3. WaiterInv /\ CountInv /\ DrainSignalled /\ SleepersHaveSection
  BY DEF WaiterInv, CountInv, DrainSignalled, SleepersHaveSection
<1> QED
  BY <1>1, <1>2, <1>3 DEF IInv

\* Each action of a vCPU thread keeps the invariant.
LEMMA NextInv == IInv /\ [Next]_vars => IInv'
<1> SUFFICES ASSUME IInv, [Next]_vars PROVE IInv'
  OBVIOUS
<1>1. CASE UNCHANGED vars
  BY <1>1 DEF vars, IInv, TypeOK, OwnerInv, WaiterInv, CountInv, DrainSignalled,
              SleepersHaveSection, Waiting
<1>2. CASE Next
  <2>1. TypeOK'
    BY <1>2, TypeStep
  <2>2. PICK c \in CPU : Thread(c) \/ Guest(c) \/ Access(c)
    BY <1>2 DEF Next
  <2>3. ASSUME LeaveLoop(c) \/ Relock(c) \/ WantStep(c) \/ ClearRequest(c)
               \/ process_queued_cpu_work(c) \/ Wake(c)
        PROVE  IInv'
    <3>1. PICK l \in {"start", "loop", "work", "post", "want", "halted"} : Goto(c, l)
      BY <2>3 DEF LeaveLoop, Relock, WantStep, ClearRequest, process_queued_cpu_work, Wake
    <3>2. UNCHANGED protocol /\ pc[c] \in {"loop", "after", "post", "work", "halted"}
      BY <2>3 DEF LeaveLoop, Relock, WantStep, ClearRequest, process_queued_cpu_work,
                  Wake, protocol
    <3>3. Alike(pc[c], l) /\ l \in Labels
      BY <3>2 DEF Alike, Owning, RunningAt, CountedAt, ToBeCountedAt, InGuest,
                  InSection, Labels
    <3> QED
      BY <2>1, <3>1, <3>2, <3>3, QuietStep
  <2>4. ASSUME AskBql(c) \/ TakeBql(c) \/ DropBql(c) PROVE IInv'
    <3>1. PICK l \in {"guest", "guestWait", "guestIo", "step", "stepWait", "stepIo"} :
            /\ Goto(c, l)
            /\ \/ {pc[c], l} \subseteq {"guest", "guestWait", "guestIo"}
               \/ {pc[c], l} \subseteq {"step", "stepWait", "stepIo"}
      BY <2>4 DEF AskBql, TakeBql, DropBql
    <3>2. UNCHANGED protocol
      BY <2>4 DEF AskBql, TakeBql, DropBql, protocol
    <3>3. Alike(pc[c], l) /\ l \in Labels
      BY <3>1 DEF Alike, Owning, RunningAt, CountedAt, ToBeCountedAt, InGuest,
                  InSection, Labels
    <3> QED
      BY <2>1, <3>1, <3>2, <3>3, QuietStep
  <2>5. ASSUME NEW reason \in {"none", "step"}, LeaveGuest(c, reason) PROVE IInv'
    <3>1. Goto(c, "end") /\ UNCHANGED protocol /\ pc[c] = "guest"
      BY <2>5 DEF LeaveGuest, protocol
    <3>2. Alike(pc[c], "end") /\ "end" \in Labels
      BY <3>1 DEF Alike, Owning, RunningAt, CountedAt, ToBeCountedAt, InGuest,
                  InSection, Labels
    <3> QED
      BY <2>1, <3>1, <3>2, QuietStep
  <2>6. ASSUME RunItem(c) PROVE IInv'
    <3>1. Goto(c, "leave") /\ UNCHANGED protocol /\ pc[c] = "excl"
      BY <2>6 DEF RunItem, protocol
    <3>2. Alike(pc[c], "leave") /\ "leave" \in Labels
      BY <3>1 DEF Alike, Owning, RunningAt, CountedAt, ToBeCountedAt, InGuest,
                  InSection, Labels
    <3> QED
      BY <2>1, <3>1, <3>2, QuietStep
  <2>7. ASSUME async_safe_run_on_cpu(c) PROVE IInv'
    <3>1. UNCHANGED <<pc, protocol>>
      BY <2>7 DEF async_safe_run_on_cpu
    <3> QED
      BY <2>1, <3>1 DEF protocol, IInv, OwnerInv, WaiterInv, CountInv, DrainSignalled,
                        SleepersHaveSection, Waiting
  <2> QED
    BY <2>1, <2>2, <2>3, <2>4, <2>5, <2>6, <2>7, EnterStep, LeaveStep, CountedLeaves,
       BeginStep, LookStep, WaitStep, SingleStep, EndStep DEF Thread, Guest, Access
<1> QED
  BY <1>1, <1>2

\* The inductive invariant holds in every reachable state, for any set of vCPUs.
THEOREM Invariance == Spec => []IInv
  BY InitInv, NextInv, PTL DEF Spec

\* Type correctness; in particular pending_cpus never goes below zero.
THEOREM TypeCorrect == Spec => []TypeOK
<1>1. IInv => TypeOK
  BY DEF IInv
<1> QED
  BY <1>1, Invariance, PTL

\* A section excludes guest code and other sections (start_exclusive, tb_flush,
\* cpu_exec_step_atomic rely on it).
LEMMA InvExclusion == IInv => Exclusion
  BY DEF IInv, OwnerInv, WaiterInv, Exclusion, Owning, ToBeCountedAt, InGuest, InSection

\* While a thread is in its exclusive section no other vCPU is in guest code, for any
\* number of vCPUs: start_exclusive, cpu_exec_start and cpu_exec_end of cpu-common.c.
THEOREM SectionsExclude == Spec => []Exclusion
  BY InvExclusion, Invariance, PTL

\* The count that start_exclusive waits for is exact until end_exclusive.
THEOREM CountIsExact == Spec => []PendingExact
<1>1. IInv => PendingExact
  BY DEF IInv, CountInv, PendingExact, Owning, InSection
<1> QED
  BY <1>1, Invariance, PTL

\* No thread sleeps on a condition whose signal has already been sent: neither the
\* owner that drains nor a vCPU that waits for a section to end.
THEOREM NoLostWakeup == Spec => []WakeupsKept
<1>1. IInv => WakeupsKept
  BY DEF IInv, WakeupsKept
<1> QED
  BY <1>1, Invariance, PTL

\* ---------------------------------------------------------------------- refinement

OwnerExact ==
    /\ \A c \in CPU : pc[c] \in InSection => Owner = c
    /\ (\A c \in CPU : pc[c] \notin InSection) => Owner = NoCpu

\* The abstract owner is the thread in its section, if there is one.
LEMMA InvOwner == IInv => OwnerExact
<1> SUFFICES ASSUME IInv PROVE OwnerExact
  OBVIOUS
<1>1. \A c, d \in CPU : pc[c] \in InSection /\ pc[d] \in InSection => c = d
  BY DEF IInv, OwnerInv, Owning
<1> QED
  BY <1>1 DEF OwnerExact, Owner

\* What a step does to the places StopTheWorld knows of: only the acting thread
\* moves between them, and not from guest code into a section or back.
LEMMA OneMoves ==
    ASSUME TypeOK, NEW c \in CPU, Thread(c) \/ Guest(c) \/ Access(c)
    PROVE  /\ \A d \in CPU \ {c} : /\ pc'[d] \in InGuest <=> pc[d] \in InGuest
                                   /\ pc'[d] \in InSection <=> pc[d] \in InSection
           /\ ~(pc[c] \in InSection /\ pc'[c] \in InGuest)
           /\ ~(pc[c] \in InGuest /\ pc'[c] \in InSection)
<1> USE DEF InGuest, InSection, Goto
<1>1. pc \in [CPU -> Labels]
  BY DEF TypeOK
<1>2. CASE Guest(c) \/ Access(c)
  BY <1>1, <1>2 DEF Guest, Access, AskBql, TakeBql, DropBql, async_safe_run_on_cpu,
                    Wake, LeaveGuest
<1>3. CASE \/ LeaveLoop(c) \/ SetRunning(c) \/ CheckPending(c) \/ CheckCounted(c)
           \/ IdleAgain(c) \/ ClearRunning(c) \/ EndCheck(c)
  BY <1>1, <1>3 DEF LeaveLoop, SetRunning, CheckPending, CheckCounted, IdleAgain,
                    ClearRunning, EndCheck
<1>4. CASE EndCounted(c)
  BY <1>1, <1>4 DEF EndCounted, EndWith
<1>5. CASE Relock(c) \/ WantStep(c) \/ ClearRequest(c) \/ process_queued_cpu_work(c)
  BY <1>1, <1>5 DEF Relock, WantStep, ClearRequest, process_queued_cpu_work
<1>6. CASE BeginExclusive(c) \/ (\E o \in CPU : LookAt(c, o)) \/ WaitCounted(c) \/ Drained(c)
  BY <1>1, <1>6 DEF BeginExclusive, LookAt, WaitCounted, Drained
<1>7. CASE RunItem(c) \/ StepBegin(c) \/ StepEnd(c)
  BY <1>1, <1>7 DEF RunItem, StepBegin, StepEnd
<1>8. CASE end_exclusive(c)
  BY <1>1, <1>8 DEF end_exclusive
<1> QED
  BY ZenonT(40), <1>2, <1>3, <1>4, <1>5, <1>6, <1>7, <1>8 DEF Thread

\* Every step of the protocol is a step of StopTheWorld or leaves its state alone.
LEMMA StepRefines ==
    ASSUME IInv, Exclusion, Exclusion', OwnerExact, OwnerExact', [Next]_vars
    PROVE  [World!Next]_World!vars
<1>1. CASE UNCHANGED vars
  BY <1>1 DEF vars, World!vars, Guests, Owner
<1>2. CASE Next
  <2>1. PICK c \in CPU : Thread(c) \/ Guest(c) \/ Access(c)
    BY <1>2 DEF Next
  <2>2. /\ \A d \in CPU \ {c} : /\ pc'[d] \in InGuest <=> pc[d] \in InGuest
                                /\ pc'[d] \in InSection <=> pc[d] \in InSection
        /\ ~(pc[c] \in InSection /\ pc'[c] \in InGuest)
        /\ ~(pc[c] \in InGuest /\ pc'[c] \in InSection)
    BY <2>1, OneMoves DEF IInv
  <2>3. ASSUME pc'[c] \in InSection <=> pc[c] \in InSection PROVE Owner' = Owner
    BY <2>2, <2>3 DEF OwnerExact
  <2>4. ASSUME pc'[c] \in InGuest <=> pc[c] \in InGuest PROVE Guests' = Guests
    BY <2>2, <2>4 DEF Guests
  <2>5. InGuest \cap InSection = {}
    BY DEF InGuest, InSection
  <2>6. CASE pc'[c] \in InGuest /\ pc[c] \notin InGuest
    <3>1. \A d \in CPU : pc[d] \notin InSection
      BY <2>2, <2>6 DEF Exclusion
    <3>2. Owner = NoCpu /\ Owner' = Owner
      BY <2>2, <2>3, <2>5, <2>6, <3>1 DEF OwnerExact
    <3>3. Guests' = Guests \cup {c}
      BY <2>2, <2>6 DEF Guests
    <3> QED
      BY <3>2, <3>3 DEF World!Next, World!Enter
  <2>7. CASE pc[c] \in InGuest /\ pc'[c] \notin InGuest
    <3>1. Guests' = Guests \ {c}
      BY <2>2, <2>7 DEF Guests
    <3> QED
      BY <2>2, <2>3, <2>5, <2>7, <3>1 DEF World!Next, World!Exit
  <2>8. CASE pc'[c] \in InSection /\ pc[c] \notin InSection
    <3>1. \A d \in CPU : pc[d] \notin InSection /\ pc[d] \notin InGuest
      BY <2>2, <2>8 DEF Exclusion
    <3>2. Owner = NoCpu /\ Owner' = c /\ Guests = {}
      BY <2>8, <3>1 DEF OwnerExact, Guests
    <3> QED
      BY <2>2, <2>4, <2>5, <2>8, <3>2 DEF World!Next, World!Acquire
  <2>9. CASE pc[c] \in InSection /\ pc'[c] \notin InSection
    <3>1. \A d \in CPU : pc'[d] \notin InSection
      BY <2>2, <2>9 DEF Exclusion
    <3>2. Owner = c /\ Owner' = NoCpu
      BY <2>9, <3>1 DEF OwnerExact
    <3> QED
      BY <2>2, <2>4, <2>5, <2>9, <3>2 DEF World!Next, World!Release
  <2> QED
    BY <2>3, <2>4, <2>6, <2>7, <2>8, <2>9 DEF World!vars
<1> QED
  BY <1>1, <1>2

\* The exclusive sections of cpu-common.c implement StopTheWorld.
THEOREM Refinement == Spec => StopsTheWorld
<1>1. Init => World!Init
  BY DEF Init, World!Init, Guests, Owner, InGuest, InSection
<1>2. Spec => [](Exclusion /\ OwnerExact)
  BY Invariance, InvExclusion, InvOwner, PTL
<1>3. /\ IInv /\ Exclusion /\ Exclusion' /\ OwnerExact /\ OwnerExact'
      /\ [Next]_vars
      => [World!Next]_World!vars
  BY StepRefines
<1> QED
  BY <1>1, <1>2, <1>3, Invariance, PTL DEF Spec, StopsTheWorld, World!Spec
====
