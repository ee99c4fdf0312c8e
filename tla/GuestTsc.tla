---- MODULE GuestTsc ----
(* The guest's time stamp counter: the lock-free path of cpu_get_ticks in
   system/cpu-timers.c.  Every vCPU thread has a host clock of its own (bb_clock_ms:
   timeOrigin + performance.now() of its worker), which only goes forward but may
   disagree with the others.  One shared word, ticks_max, holds the highest tick
   handed out; a thread that reads behind it moves its own clock forward (skew).

   The VM runs all the time (cpu_ticks_enabled, a fixed cpu_ticks_offset, taken as
   the origin of the clocks): Bootbox stops it only to end it.

   The point of a thread in the call:
     idle   outside the call           read   ticks_max loaded, clock to be read
     cas    in the compare-exchange    ret    about to return *)
EXTENDS Integers

CONSTANTS Thread,
          MaxClock,   \* bound of the clocks, for model checking
          Apart       \* how far two clocks may be apart

ASSUME ClockAssumption == MaxClock \in Nat /\ Apart \in Nat

VARIABLES clock,      \* Thread -> its host clock
          ticks_max,
          skew,       \* Thread -> skew
          point,      \* Thread -> where it is in the call
          prev,       \* Thread -> prev
          ticks,      \* Thread -> ticks
          handed,     \* highest value returned so far (history)
          floor,      \* Thread -> handed when its call began (history)
          lead        \* Thread -> its last reading minus its clock then (history)

tscVars == <<clock, ticks_max, skew, point, prev, ticks, handed, floor, lead>>

TscInit ==
    /\ clock = [t \in Thread |-> 0]
    /\ ticks_max = 0
    /\ skew = [t \in Thread |-> 0]
    /\ point = [t \in Thread |-> "idle"]
    /\ prev = [t \in Thread |-> 0]
    /\ ticks = [t \in Thread |-> 0]
    /\ handed = 0
    /\ floor = [t \in Thread |-> 0]
    /\ lead = [t \in Thread |-> 0]

MoveTo(t, label) == point' = [point EXCEPT ![t] = label]

\* A host clock advances.
Tick(t) ==
    /\ clock[t] < MaxClock
    /\ \A u \in Thread : clock[t] < clock[u] + Apart
    /\ clock' = [clock EXCEPT ![t] = @ + 1]
    /\ UNCHANGED <<ticks_max, skew, point, prev, ticks, handed, floor, lead>>

LoadMax(t) ==
    /\ point[t] = "idle"
    /\ prev' = [prev EXCEPT ![t] = ticks_max]
    /\ floor' = [floor EXCEPT ![t] = handed]
    /\ MoveTo(t, "read")
    /\ UNCHANGED <<clock, ticks_max, skew, ticks, handed, lead>>

\* The thread's reading, moved up to prev by moving its clock by moved.
ReadMoving(t, moved) ==
    LET now == clock[t] + skew[t]
        got == IF now < prev[t] THEN prev[t] ELSE now
    IN  /\ point[t] = "read"
        /\ ticks' = [ticks EXCEPT ![t] = got]
        /\ skew' = [skew EXCEPT ![t] = @ + moved * (got - now)]
        /\ lead' = [lead EXCEPT ![t] = got - clock[t]]
        /\ MoveTo(t, "cas")
        /\ UNCHANGED <<clock, ticks_max, prev, handed, floor>>

\* Fault: a reading behind the maximum is only clamped.
ReadClamping(t) == ReadMoving(t, 0)

ReadClock(t) == ReadMoving(t, 1)

\* Fault: the maximum is stored without a comparison.
Overwrite(t) ==
    /\ point[t] = "cas"
    /\ ticks[t] > prev[t]
    /\ ticks_max' = ticks[t]
    /\ MoveTo(t, "ret")
    /\ UNCHANGED <<clock, skew, prev, ticks, handed, floor, lead>>

Exchange(t) ==
    /\ point[t] = "cas"
    /\ ticks[t] > prev[t]
    /\ ticks_max = prev[t]
    /\ ticks_max' = ticks[t]
    /\ MoveTo(t, "ret")
    /\ UNCHANGED <<clock, skew, prev, ticks, handed, floor, lead>>

\* The weak exchange fails, perhaps with prev still current.
Refused(t) ==
    /\ point[t] = "cas"
    /\ ticks[t] > prev[t]
    /\ prev' = [prev EXCEPT ![t] = ticks_max]
    /\ UNCHANGED <<clock, ticks_max, skew, point, ticks, handed, floor, lead>>

Behind(t) ==
    /\ point[t] = "cas"
    /\ ticks[t] <= prev[t]
    /\ MoveTo(t, "ret")
    /\ UNCHANGED <<clock, ticks_max, skew, prev, ticks, handed, floor, lead>>

Return(t) ==
    /\ point[t] = "ret"
    /\ handed' = IF ticks[t] > handed THEN ticks[t] ELSE handed
    /\ MoveTo(t, "idle")
    /\ UNCHANGED <<clock, ticks_max, skew, prev, ticks, floor, lead>>

Call(t) ==
    \/ LoadMax(t) \/ ReadClock(t) \/ Exchange(t) \/ Refused(t) \/ Behind(t) \/ Return(t)

TscNext == \E t \in Thread : Tick(t) \/ Call(t)

TscSpec == TscInit /\ [][TscNext]_tscVars

\* ------------------------------------------------------------------ properties

\* Type invariant; skew never goes back below zero.
TscTypeOK ==
    /\ clock \in [Thread -> Nat]
    /\ ticks_max \in Nat
    /\ skew \in [Thread -> Nat]
    /\ point \in [Thread -> {"idle", "read", "cas", "ret"}]
    /\ prev \in [Thread -> Nat]
    /\ ticks \in [Thread -> Nat]
    /\ handed \in Nat
    /\ floor \in [Thread -> Nat]
    /\ lead \in [Thread -> Nat]

\* cpu_get_ticks is monotonic across all vCPUs: a call that begins after another one
\* returned, on whichever thread, never returns less.
Monotonic == \A t \in Thread : point[t] = "ret" => ticks[t] >= floor[t]

\* A vCPU's counter never freezes while its own clock runs: from one call to the
\* next on a thread it advances at least as far as that thread's clock did.
RunsOn == [][\A t \in Thread : lead'[t] >= lead[t]]_tscVars
====
