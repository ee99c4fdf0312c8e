---- MODULE StopTheWorld ----
(* What the engine's exclusive sections promise to the code that relies on
   them (flushing the code buffer, single-stepping an atomic instruction): a
   section runs while no vCPU executes guest code, and sections do not overlap.
   CpuExclusive shows that the protocol of cpu-common.c implements this. *)

CONSTANTS CPU, NoCpu

VARIABLES guests,   \* the vCPUs that execute guest code
          owner     \* the vCPU whose exclusive section runs, or NoCpu

vars == <<guests, owner>>

Init ==
    /\ guests = {}
    /\ owner = NoCpu

Enter(c) ==
    /\ owner = NoCpu
    /\ guests' = guests \cup {c}
    /\ UNCHANGED owner

Exit(c) ==
    /\ guests' = guests \ {c}
    /\ UNCHANGED owner

Acquire(c) ==
    /\ owner = NoCpu
    /\ guests = {}
    /\ owner' = c
    /\ UNCHANGED guests

Release(c) ==
    /\ owner = c
    /\ owner' = NoCpu
    /\ UNCHANGED guests

Next == \E c \in CPU : Enter(c) \/ Exit(c) \/ Acquire(c) \/ Release(c)

Spec == Init /\ [][Next]_vars
====
