---- MODULE BbwebLaunch ----
(* Starting the Linux web browser: the launcher (bbweb-launch.c), which every tap on
   the browser and the pre-start after boot run, and the engine (bbweb.c), of which
   there is to be one.  They meet in three places:
     - the lock file: flock on an open file that the launcher shares with the engine
       it forks, so that it is free only when both have closed it;
     - the socket path: the listening socket of an engine, perhaps a dead one;
     - the connections that wait for the engine's main loop.
   A launcher forks at most one engine, which has its name.

   Launchers:
     send    send_to_running                lock     flock
     fork    has the lock                   unlock   forked; closes its lock
     card    waits for its own engine       wait     another one is starting
     retry   in that loop, after the socket failed
     again   got the lock there; closes it and starts over
     done
   Engines: none, starting, binding (between unlink and bind), up, quitting (between
   quit_browser and the end of gtk_main), exiting, dead.
   The native browser (open_native) ends a tap before any of this. *)
EXTENDS Integers, FiniteSets

CONSTANTS Tap,        \* launchers of taps
          Prewarm,    \* launchers with --prewarm
          NoEngine,
          MaxFaults   \* bound of crashes and failed forks

Launcher == Tap \cup Prewarm

ASSUME LauncherAssumption ==
    Tap \cap Prewarm = {} /\ NoEngine \notin Launcher /\ MaxFaults \in Nat

VARIABLES pc,         \* Launcher -> control point
          engine,     \* Launcher -> state of the engine it forked
          lockers,    \* Launcher -> who has the lock file open, locked by that launcher
          sock,       \* whose socket the path names
          queue,      \* engine -> taps connected and not yet read
          shown,      \* engine -> its window is up
          outcome,    \* Launcher -> "pending", "served", "lost", "gaveUp", "failed", "left"
          faults

vars == <<pc, engine, lockers, sock, queue, shown, outcome, faults>>

Init ==
    /\ pc = [l \in Launcher |-> IF l \in Tap THEN "send" ELSE "lock"]
    /\ engine = [l \in Launcher |-> "none"]
    /\ lockers = [l \in Launcher |-> {}]
    /\ sock = NoEngine
    /\ queue = [l \in Launcher |-> {}]
    /\ shown = [l \in Launcher |-> FALSE]
    /\ outcome = [l \in Launcher |-> "pending"]
    /\ faults = 0

Goto(l, label) == pc' = [pc EXCEPT ![l] = label]
End(l, how) == Goto(l, "done") /\ outcome' = [outcome EXCEPT ![l] = how]

Alive(e) == engine[e] \notin {"none", "dead"}
Listening == sock # NoEngine /\ engine[sock] = "up"
LockFree == \A l \in Launcher : lockers[l] = {}

\* --------------------------------------------------------------------- launcher

\* send_to_running: the connection waits for the engine, the launcher does not.
Connect(l) ==
    /\ Listening
    /\ queue' = [queue EXCEPT ![sock] = @ \cup {l}]
    /\ Goto(l, "done")
    /\ UNCHANGED <<engine, lockers, sock, shown, outcome, faults>>

Send(l) == pc[l] = "send" /\ Connect(l)

SendFails(l) ==
    /\ pc[l] = "send"
    /\ ~Listening
    /\ Goto(l, "lock")
    /\ UNCHANGED <<engine, lockers, sock, queue, shown, outcome, faults>>

\* Fault: the result of flock is not looked at.
LockBlindly(l) ==
    /\ pc[l] = "lock"
    /\ lockers' = [lockers EXCEPT ![l] = {"launcher"}]
    /\ Goto(l, "fork")
    /\ UNCHANGED <<engine, sock, queue, shown, outcome, faults>>

Lock(l) ==
    /\ pc[l] = "lock"
    /\ LockFree
    /\ lockers' = [lockers EXCEPT ![l] = {"launcher"}]
    /\ Goto(l, "fork")
    /\ UNCHANGED <<engine, sock, queue, shown, outcome, faults>>

LockFails(l) ==
    /\ pc[l] = "lock"
    /\ ~LockFree
    /\ IF l \in Tap THEN Goto(l, "wait") /\ UNCHANGED outcome ELSE End(l, "left")
    /\ UNCHANGED <<engine, lockers, sock, queue, shown, faults>>

\* The engine shares the lock; a pre-start returns at once, which closes its own.
Fork(l) ==
    /\ pc[l] = "fork"
    /\ engine' = [engine EXCEPT ![l] = "starting"]
    /\ IF l \in Tap
         THEN /\ lockers' = [lockers EXCEPT ![l] = {"launcher", "engine"}]
              /\ Goto(l, "unlock") /\ UNCHANGED outcome
         ELSE lockers' = [lockers EXCEPT ![l] = {"engine"}] /\ End(l, "left")
    /\ UNCHANGED <<sock, queue, shown, faults>>

ForkFails(l) ==
    /\ pc[l] = "fork"
    /\ faults < MaxFaults
    /\ faults' = faults + 1
    /\ lockers' = [lockers EXCEPT ![l] = {}]
    /\ End(l, "failed")
    /\ UNCHANGED <<engine, sock, queue, shown>>

Unlock(l) ==
    /\ pc[l] = "unlock"
    /\ lockers' = [lockers EXCEPT ![l] = @ \ {"launcher"}]
    /\ Goto(l, "card")
    /\ UNCHANGED <<engine, sock, queue, shown, outcome, faults>>

\* The card goes when the window is drawn or the engine is gone.
CardDown(l) ==
    /\ pc[l] = "card"
    /\ shown[l] \/ engine[l] = "dead"
    /\ End(l, IF shown[l] THEN "served" ELSE "lost")
    /\ UNCHANGED <<engine, lockers, sock, queue, shown, faults>>

\* 240 s have passed.
GiveUp(l) ==
    /\ pc[l] \in {"card", "wait"}
    /\ End(l, "gaveUp")
    /\ UNCHANGED <<engine, lockers, sock, queue, shown, faults>>

WaitSend(l) == pc[l] = "wait" /\ Connect(l)

WaitSendFails(l) ==
    /\ pc[l] = "wait"
    /\ ~Listening
    /\ Goto(l, "retry")
    /\ UNCHANGED <<engine, lockers, sock, queue, shown, outcome, faults>>

\* Fault: the launcher waits for the socket only.
WaitForSocket(l) ==
    /\ pc[l] = "retry"
    /\ Goto(l, "wait")
    /\ UNCHANGED <<engine, lockers, sock, queue, shown, outcome, faults>>

WaitLock(l) ==
    /\ pc[l] = "retry"
    /\ IF LockFree
         THEN lockers' = [lockers EXCEPT ![l] = {"launcher"}] /\ Goto(l, "again")
         ELSE Goto(l, "wait") /\ UNCHANGED lockers
    /\ UNCHANGED <<engine, sock, queue, shown, outcome, faults>>

\* close, then execv of the launcher itself, with a new limit of 240 s.
StartOver(l) ==
    /\ pc[l] = "again"
    /\ lockers' = [lockers EXCEPT ![l] = {}]
    /\ Goto(l, "send")
    /\ UNCHANGED <<engine, sock, queue, shown, outcome, faults>>

\* ----------------------------------------------------------------------- engine

Becomes(e, state) == engine' = [engine EXCEPT ![e] = state]

\* listen_for_launches.
Unlink(e) ==
    /\ engine[e] = "starting"
    /\ Becomes(e, "binding")
    /\ sock' = NoEngine
    /\ UNCHANGED <<pc, lockers, queue, shown, outcome, faults>>

Bind(e) ==
    /\ engine[e] = "binding"
    /\ Becomes(e, "up")
    /\ sock' = e
    /\ UNCHANGED <<pc, lockers, queue, shown, outcome, faults>>

\* A pre-started engine stays hidden.
on_first_draw(e) ==
    /\ engine[e] = "up"
    /\ e \in Tap /\ ~shown[e]
    /\ shown' = [shown EXCEPT ![e] = TRUE]
    /\ UNCHANGED <<pc, engine, lockers, sock, queue, outcome, faults>>

\* The main loop reads a connection; the window of a pre-started engine comes up.
on_incoming(e) ==
    /\ engine[e] = "up"
    /\ \E l \in queue[e] :
         /\ queue' = [queue EXCEPT ![e] = @ \ {l}]
         /\ outcome' = [outcome EXCEPT ![l] = "served"]
    /\ shown' = [shown EXCEPT ![e] = @ \/ e \in Prewarm]
    /\ UNCHANGED <<pc, engine, lockers, sock, faults>>

\* Fault: the lock goes with the window.
QuitUnlocking(e) ==
    /\ engine[e] = "up" /\ shown[e]
    /\ Becomes(e, "quitting")
    /\ sock' = NoEngine
    /\ lockers' = [lockers EXCEPT ![e] = @ \ {"engine"}]
    /\ UNCHANGED <<pc, queue, shown, outcome, faults>>

\* The user closes the window or its last tab; the socket goes first.
quit_browser(e) ==
    /\ engine[e] = "up" /\ shown[e]
    /\ Becomes(e, "quitting")
    /\ sock' = NoEngine
    /\ UNCHANGED <<pc, lockers, queue, shown, outcome, faults>>

\* The unlink after gtk_main.
LastUnlink(e) ==
    /\ engine[e] = "quitting"
    /\ Becomes(e, "exiting")
    /\ sock' = NoEngine
    /\ UNCHANGED <<pc, lockers, queue, shown, outcome, faults>>

\* The process ends: its lock is closed and its connections are gone.
Ends(e) ==
    /\ Becomes(e, "dead")
    /\ lockers' = [lockers EXCEPT ![e] = @ \ {"engine"}]
    /\ queue' = [queue EXCEPT ![e] = {}]
    /\ outcome' = [l \in Launcher |-> IF l \in queue[e] THEN "lost" ELSE outcome[l]]
    /\ UNCHANGED <<pc, sock, shown>>

Exit(e) == engine[e] = "exiting" /\ Ends(e) /\ UNCHANGED faults

\* It crashes, or could not be executed; its socket stays behind.
Crash(e) ==
    /\ Alive(e)
    /\ faults < MaxFaults
    /\ faults' = faults + 1
    /\ Ends(e)

LaunchStep(l) ==
    \/ Send(l) \/ SendFails(l) \/ Lock(l) \/ LockFails(l) \/ Fork(l) \/ ForkFails(l)
    \/ Unlock(l) \/ CardDown(l) \/ WaitSend(l) \/ WaitSendFails(l) \/ WaitLock(l)
    \/ StartOver(l)

EngineStep(e) ==
    Unlink(e) \/ Bind(e) \/ on_first_draw(e) \/ on_incoming(e) \/ LastUnlink(e) \/ Exit(e)

Next == \E l \in Launcher :
    LaunchStep(l) \/ GiveUp(l) \/ EngineStep(l) \/ quit_browser(l) \/ Crash(l)

Spec == Init /\ [][Next]_vars

\* A launcher finds the lock taken by one that is only about to start over.
Collide(l) == LockFails(l) /\ \A k \in Launcher : "engine" \notin lockers[k]

\* Processes run, and an engine that started gets to its main loop.  The lock of a
\* launcher that starts over is held for two system calls, every half second: it is
\* not in the way of another launcher for ever.
FairSpec ==
    /\ Spec
    /\ \A l \in Launcher : WF_vars(LaunchStep(l)) /\ WF_vars(EngineStep(l))
    /\ <>[][\A l \in Launcher : ~Collide(l)]_vars

\* ------------------------------------------------------------------ properties

\* Type invariant; only taps that wait for an answer are in a queue.
TypeOK ==
    /\ pc \in [Launcher -> {"send", "lock", "fork", "unlock", "card", "wait", "retry",
                            "again", "done"}]
    /\ engine \in [Launcher -> {"none", "starting", "binding", "up", "quitting",
                                "exiting", "dead"}]
    /\ lockers \in [Launcher -> SUBSET {"launcher", "engine"}]
    /\ sock \in Launcher \cup {NoEngine}
    /\ outcome \in [Launcher -> {"pending", "served", "lost", "gaveUp", "failed", "left"}]
    /\ \A e \in Launcher : \A l \in queue[e] : l \in Tap /\ outcome[l] = "pending"

\* Single instance: never two engines, whichever taps, pre-starts, crashes and closed
\* windows meet ("instead of starting a second ~340 MB copy").
OneEngine == Cardinality({e \in Launcher : Alive(e)}) <= 1

\* An engine that is up stays reachable: nobody else's unlink, not even the last one
\* of an engine that was just closed, takes its socket away.
Reachable == \A e \in Launcher : engine[e] = "up" => sock = e

\* Every tap comes to an end: a launcher that waits for an engine which quits or
\* dies instead of listening notices, starts over and gets a browser up.
TapsEnd == \A l \in Tap : <>(outcome[l] # "pending")
====
