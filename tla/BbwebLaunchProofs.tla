---- MODULE BbwebLaunchProofs ----
(* One browser engine, reachable while it is up, for any number of taps, pre-starts
   and crashes.  The argument is the lock: an engine has it open from the fork to its
   end, and it is had by one launcher and its engine at a time.  Then the queues: a
   tap that handed over waits in one of them. *)
EXTENDS BbwebLaunch, FiniteSetTheorems, TLAPS

Places == {"send", "lock", "fork", "unlock", "card", "wait", "retry", "again", "done"}
States == {"none", "starting", "binding", "up", "quitting", "exiting", "dead"}

Shape ==
    /\ pc \in [Launcher -> Places]
    /\ engine \in [Launcher -> States]
    /\ lockers \in [Launcher -> SUBSET {"launcher", "engine"}]

\* An engine lives exactly as long as it has the lock file open.
EngineHolds == \A e \in Launcher : "engine" \in lockers[e] <=> Alive(e)

\* Before the fork, and before it starts over, a launcher has the lock alone.
LauncherHolds == \A l \in Launcher : pc[l] \in {"fork", "again"} => lockers[l] = {"launcher"}

\* The lock is had through one open file at a time.
OneLock == \A l, k \in Launcher : lockers[l] # {} /\ lockers[k] # {} => l = k

\* The inductive invariant.
IInv == Shape /\ EngineHolds /\ LauncherHolds /\ OneLock /\ Reachable

\* The provers a leaf is tried with, one after the other, and for how long.
USE SMTT(40), Z3T(40), ZenonT(40)

\* At boot nobody has the lock and there is no engine.
LEMMA InitInv == Init => IInv
<1> SUFFICES ASSUME Init PROVE IInv
  OBVIOUS
<1>1. Shape
  BY DEF Init, Shape, Places, States
<1>2. EngineHolds /\ OneLock /\ Reachable
  BY DEF Init, EngineHolds, Alive, OneLock, Reachable
<1>3. LauncherHolds
  BY DEF Init, LauncherHolds
<1> QED
  BY <1>1, <1>2, <1>3 DEF IInv

\* A launcher moves on and leaves the lock and the engines alone.
LEMMA MoveStep ==
    ASSUME IInv, NEW l \in Launcher, NEW p \in Places \ {"fork", "again"}, Goto(l, p),
           UNCHANGED <<engine, lockers, sock>>
    PROVE  IInv'
<1>1. Shape'
  BY DEF IInv, Shape, Goto
<1>2. EngineHolds' /\ OneLock' /\ Reachable'
  BY DEF IInv, EngineHolds, Alive, OneLock, Reachable
<1>3. LauncherHolds'
  BY DEF IInv, LauncherHolds, Goto, Shape
<1> QED
  BY <1>1, <1>2, <1>3 DEF IInv

\* A launcher takes the lock, which nobody has.
LEMMA TakeStep ==
    ASSUME IInv, NEW l \in Launcher, NEW p \in {"fork", "again"}, Goto(l, p), LockFree,
           lockers' = [lockers EXCEPT ![l] = {"launcher"}], UNCHANGED <<engine, sock>>
    PROVE  IInv'
<1>1. /\ pc \in [Launcher -> Places] /\ lockers \in [Launcher -> SUBSET {"launcher", "engine"}]
      /\ pc' = [pc EXCEPT ![l] = p]
  BY DEF IInv, Shape, Goto
<1>2. \A k \in Launcher : lockers[k] = {} /\ ~Alive(k)
  BY DEF IInv, EngineHolds, LockFree
<1>3. \A k \in Launcher : lockers'[k] = IF k = l THEN {"launcher"} ELSE {}
  BY <1>1, <1>2
<1>4. Shape'
  BY <1>1 DEF IInv, Shape, Places
<1>5. EngineHolds' /\ OneLock' /\ Reachable'
  BY <1>2, <1>3 DEF IInv, EngineHolds, Alive, OneLock, Reachable
<1>6. LauncherHolds'
  BY <1>1, <1>2, <1>3 DEF IInv, LauncherHolds
<1> QED
  BY <1>4, <1>5, <1>6 DEF IInv

\* A launcher closes the lock; its engine, if it has one, keeps it.
LEMMA DropStep ==
    ASSUME IInv, NEW l \in Launcher, NEW p \in Places \ {"fork", "again"}, Goto(l, p),
           lockers' = [lockers EXCEPT ![l] = @ \ {"launcher"}], UNCHANGED <<engine, sock>>
    PROVE  IInv'
<1>1. /\ pc \in [Launcher -> Places] /\ lockers \in [Launcher -> SUBSET {"launcher", "engine"}]
      /\ pc' = [pc EXCEPT ![l] = p]
  BY DEF IInv, Shape, Goto
<1>2. \A k \in Launcher : lockers'[k] = IF k = l THEN lockers[l] \ {"launcher"} ELSE lockers[k]
  BY <1>1
<1>3. Shape'
  BY <1>1 DEF IInv, Shape
<1>4. EngineHolds' /\ OneLock' /\ Reachable'
  BY <1>2 DEF IInv, EngineHolds, Alive, OneLock, Reachable
<1>5. LauncherHolds'
  BY <1>1, <1>2 DEF IInv, LauncherHolds
<1> QED
  BY <1>3, <1>4, <1>5 DEF IInv

\* The engine is forked by the launcher that has the lock.
LEMMA ForkStep == ASSUME IInv, NEW l \in Launcher, Fork(l) PROVE IInv'
<1>1. /\ pc \in [Launcher -> Places] /\ lockers \in [Launcher -> SUBSET {"launcher", "engine"}]
      /\ engine \in [Launcher -> States] /\ UNCHANGED sock
      /\ pc[l] = "fork" /\ lockers[l] = {"launcher"}
  BY DEF IInv, Shape, Fork, LauncherHolds
<1>2. PICK p \in {"unlock", "done"}, h \in {{"launcher", "engine"}, {"engine"}} :
        pc' = [pc EXCEPT ![l] = p] /\ lockers' = [lockers EXCEPT ![l] = h]
  BY DEF Fork, Goto, End
<1>3. engine' = [engine EXCEPT ![l] = "starting"]
  BY DEF Fork
<1>4. \A k \in Launcher : /\ pc'[k] = IF k = l THEN p ELSE pc[k]
                          /\ lockers'[k] = IF k = l THEN h ELSE lockers[k]
                          /\ engine'[k] = IF k = l THEN "starting" ELSE engine[k]
  BY <1>1, <1>2, <1>3
<1>5. Shape'
  BY <1>1, <1>2, <1>3 DEF Shape, Places, States
<1>6. EngineHolds'
  BY <1>2, <1>4 DEF IInv, EngineHolds, Alive
<1>7. OneLock'
  BY <1>1, <1>4 DEF IInv, OneLock
<1>8. LauncherHolds' /\ Reachable'
  BY <1>1, <1>2, <1>4 DEF IInv, LauncherHolds, Reachable
<1> QED
  BY <1>5, <1>6, <1>7, <1>8 DEF IInv

\* An engine that lives goes on; nobody else's socket is at the path.
LEMMA EngineGoesOn ==
    ASSUME IInv, NEW e \in Launcher, Alive(e), NEW s \in States \ {"none", "dead"},
           Becomes(e, s), s = "up" => sock' = e, UNCHANGED <<pc, lockers>>
    PROVE  IInv'
<1>1. engine \in [Launcher -> States] /\ engine' = [engine EXCEPT ![e] = s]
  BY DEF IInv, Shape, Becomes
<1>2. \A k \in Launcher : engine'[k] = IF k = e THEN s ELSE engine[k]
  BY <1>1
<1>3. \A k \in Launcher : Alive(k) => k = e
  BY DEF IInv, EngineHolds, OneLock
<1>4. Shape'
  BY <1>1 DEF IInv, Shape
<1>5. EngineHolds' /\ OneLock' /\ LauncherHolds'
  BY <1>2 DEF IInv, EngineHolds, Alive, OneLock, LauncherHolds
<1>6. Reachable'
  BY <1>2, <1>3 DEF Reachable, Alive
<1> QED
  BY <1>4, <1>5, <1>6 DEF IInv

\* An engine that ends closes the lock.
LEMMA EndsStep == ASSUME IInv, NEW e \in Launcher, Alive(e), Ends(e) PROVE IInv'
<1>1. /\ engine \in [Launcher -> States] /\ engine' = [engine EXCEPT ![e] = "dead"]
      /\ lockers \in [Launcher -> SUBSET {"launcher", "engine"}]
      /\ lockers' = [lockers EXCEPT ![e] = @ \ {"engine"}]
      /\ UNCHANGED <<pc, sock>>
  BY DEF IInv, Shape, Ends, Becomes
<1>2. \A k \in Launcher : /\ engine'[k] = IF k = e THEN "dead" ELSE engine[k]
                          /\ lockers'[k] = IF k = e THEN lockers[e] \ {"engine"} ELSE lockers[k]
  BY <1>1
<1>3. Shape'
  BY <1>1 DEF IInv, Shape, States
<1>4. EngineHolds' /\ OneLock' /\ Reachable'
  BY <1>1, <1>2 DEF IInv, EngineHolds, Alive, OneLock, Reachable
<1>5. LauncherHolds'
  BY <1>1, <1>2 DEF IInv, LauncherHolds, EngineHolds
<1> QED
  BY <1>3, <1>4, <1>5 DEF IInv

\* Every step of a launcher is one of the kinds above.
LEMMA LaunchInv ==
    ASSUME IInv, NEW l \in Launcher, LaunchStep(l) \/ GiveUp(l) PROVE IInv'
<1> USE DEF Places
<1>1. CASE Send(l) \/ SendFails(l) \/ CardDown(l) \/ GiveUp(l) \/ WaitSend(l) \/ WaitSendFails(l)
  <2>1. UNCHANGED <<engine, lockers, sock>> /\ \E p \in {"done", "lock", "retry"} : Goto(l, p)
    BY <1>1 DEF Send, SendFails, CardDown, GiveUp, WaitSend, WaitSendFails, Connect, End
  <2> QED
    BY <2>1, MoveStep
<1>2. CASE LockFails(l)
  <2>1. UNCHANGED <<engine, lockers, sock>> /\ \E p \in {"wait", "done"} : Goto(l, p)
    BY <1>2 DEF LockFails, End
  <2> QED
    BY <2>1, MoveStep
<1>3. CASE Lock(l)
  BY ZenonT(40), <1>3, TakeStep DEF Lock
<1>4. CASE Fork(l)
  BY <1>4, ForkStep
<1>5. CASE ForkFails(l) \/ StartOver(l)
  <2>1. lockers[l] = {"launcher"} /\ lockers \in [Launcher -> SUBSET {"launcher", "engine"}]
    BY <1>5 DEF IInv, Shape, LauncherHolds, ForkFails, StartOver
  <2>2. lockers' = [lockers EXCEPT ![l] = {}] /\ UNCHANGED <<engine, sock>>
    BY <1>5 DEF ForkFails, StartOver
  <2>3. lockers' = [lockers EXCEPT ![l] = @ \ {"launcher"}]
    BY ZenonT(40), <2>1, <2>2
  <2>4. \E p \in {"done", "send"} : Goto(l, p)
    BY <1>5 DEF ForkFails, StartOver, End
  <2> QED
    BY ZenonT(40), <2>2, <2>3, <2>4, DropStep
<1>6. CASE Unlock(l)
  BY ZenonT(40), <1>6, DropStep DEF Unlock
<1>7. CASE WaitLock(l)
  <2>1. CASE LockFree
    BY <1>7, <2>1, TakeStep DEF WaitLock
  <2>2. CASE ~LockFree
    BY <1>7, <2>2, MoveStep DEF WaitLock
  <2> QED
    BY <2>1, <2>2
<1> QED
  BY <1>1, <1>2, <1>3, <1>4, <1>5, <1>6, <1>7 DEF LaunchStep

\* Every step of an engine is one of the kinds above, or only takes a connection.
LEMMA EngineInv ==
    ASSUME IInv, NEW e \in Launcher, EngineStep(e) \/ quit_browser(e) \/ Crash(e) PROVE IInv'
<1> USE DEF States
<1>1. CASE Unlink(e)
  BY <1>1, EngineGoesOn DEF Unlink, Alive
<1>2. CASE Bind(e)
  BY <1>2, EngineGoesOn DEF Bind, Alive
<1>3. CASE quit_browser(e)
  BY <1>3, EngineGoesOn DEF quit_browser, Alive
<1>4. CASE LastUnlink(e)
  BY <1>4, EngineGoesOn DEF LastUnlink, Alive
<1>5. CASE on_first_draw(e) \/ on_incoming(e)
  <2>1. UNCHANGED <<pc, engine, lockers, sock>>
    BY <1>5 DEF on_first_draw, on_incoming
  <2> QED
    BY <2>1 DEF IInv, Shape, EngineHolds, Alive, LauncherHolds, OneLock, Reachable
<1>6. CASE Exit(e) \/ Crash(e)
  BY <1>6, EndsStep DEF Exit, Crash, Alive
<1> QED
  BY <1>1, <1>2, <1>3, <1>4, <1>5, <1>6 DEF EngineStep

\* No step of a launcher or an engine leaves the invariant.
LEMMA NextInv == IInv /\ [Next]_vars => IInv'
<1> SUFFICES ASSUME IInv, [Next]_vars PROVE IInv'
  OBVIOUS
<1>1. CASE UNCHANGED vars
  BY <1>1 DEF vars, IInv, Shape, EngineHolds, Alive, LauncherHolds, OneLock, Reachable
<1>2. CASE Next
  BY <1>2, LaunchInv, EngineInv DEF Next
<1> QED
  BY <1>1, <1>2

\* The lock, the engines and the socket path agree in every reachable state.
THEOREM Invariance == Spec => []IInv
  BY InitInv, NextInv, PTL DEF Spec

\* There is never a second engine, whatever number of taps, pre-starts, crashes and
\* closed windows meet: flock on the open file that launcher and engine share.
THEOREM SingleEngine == Spec => []OneEngine
<1>1. IInv => OneEngine
  <2> SUFFICES ASSUME IInv PROVE OneEngine
    OBVIOUS
  <2> DEFINE living == {e \in Launcher : Alive(e)}
  <2>1. \A e, f \in living : e = f
    BY DEF IInv, EngineHolds, OneLock
  <2>2. CASE living = {}
    BY <2>2, FS_EmptySet DEF OneEngine
  <2>3. CASE living # {}
    <3>1. PICK e \in living : TRUE
      BY <2>3
    <3>2. living = {e}
      BY <2>1, <3>1
    <3>3. Cardinality(living) = 1
      BY <3>2, FS_Singleton
    <3> QED
      BY <3>3 DEF OneEngine
  <2> QED
    BY <2>2, <2>3
<1> QED
  BY <1>1, Invariance, PTL

\* The path always names the socket of the engine that is up: no unlink, not even the
\* last one of an engine that was closed, removes another one's.
THEOREM StaysReachable == Spec => []Reachable
<1>1. IInv => Reachable
  BY DEF IInv
<1> QED
  BY <1>1, Invariance, PTL

(* What waits for an engine's main loop: the taps in a queue. *)

Outcomes == {"pending", "served", "lost", "gaveUp", "failed", "left"}

\* A pre-start is at the lock, at the fork or done, and a launcher that is not done
\* has no outcome.
Running == \A l \in Launcher :
    /\ pc[l] \in {"send", "unlock", "card", "wait", "retry", "again"} => l \in Tap
    /\ pc[l] # "done" => outcome[l] = "pending"

\* A tap that waits in a queue has handed over, has no outcome, and waits in no other.
Waiting == \A l \in Launcher, e \in Launcher : l \in queue[e] =>
    /\ pc[l] = "done" /\ outcome[l] = "pending"
    /\ \A f \in Launcher : l \in queue[f] => f = e

QShape ==
    /\ pc \in [Launcher -> Places]
    /\ sock \in Launcher \cup {NoEngine}
    /\ queue \in [Launcher -> SUBSET Tap]
    /\ outcome \in [Launcher -> Outcomes]

\* The inductive invariant of the queues.
QInv == QShape /\ Running /\ Waiting

\* At boot nothing waits.
LEMMA InitQueues == Init => QInv
<1> SUFFICES ASSUME Init PROVE QInv
  OBVIOUS
<1>1. QShape
  BY DEF Init, QShape, Places, Outcomes
<1>2. Running /\ Waiting
  BY DEF Init, Running, Waiting
<1> QED
  BY <1>1, <1>2 DEF QInv

\* A launcher moves on without ending.
LEMMA MoveQueues ==
    ASSUME QInv, NEW l \in Launcher, NEW p \in Places \ {"done"}, Goto(l, p), pc[l] # "done",
           p \in {"lock", "fork"} \/ l \in Tap, UNCHANGED <<sock, queue, outcome>>
    PROVE  QInv'
<1>1. QShape'
  BY DEF QInv, QShape, Goto
<1>2. Running'
  BY DEF QInv, QShape, Running, Goto, Places
<1>3. Waiting'
  BY DEF QInv, QShape, Waiting, Goto
<1> QED
  BY <1>1, <1>2, <1>3 DEF QInv

\* A launcher ends with an outcome: it is in no queue.
LEMMA EndQueues ==
    ASSUME QInv, NEW l \in Launcher, NEW how \in Outcomes, End(l, how), pc[l] # "done",
           UNCHANGED <<sock, queue>>
    PROVE  QInv'
<1>1. QShape'
  BY DEF QInv, QShape, End, Goto, Places
<1>2. Running'
  BY DEF QInv, QShape, Running, End, Goto, Places
<1>3. Waiting'
  BY DEF QInv, QShape, Waiting, End, Goto
<1> QED
  BY <1>1, <1>2, <1>3 DEF QInv

\* A launcher hands over to the engine that listens.
LEMMA ConnectQueues ==
    ASSUME QInv, NEW l \in Tap, pc[l] # "done", Connect(l)
    PROVE  QInv'
<1> l \in Launcher
  BY DEF Launcher
<1>1. sock \in Launcher /\ sock' = sock /\ outcome' = outcome
  BY DEF QInv, QShape, Connect, Listening
<1>2. /\ pc' \in [Launcher -> Places] /\ pc'[l] = "done"
      /\ \A k \in Launcher \ {l} : pc'[k] = pc[k]
  BY DEF QInv, QShape, Connect, Goto, Places
<1>3. /\ queue' \in [Launcher -> SUBSET Tap] /\ queue'[sock] = queue[sock] \cup {l}
      /\ \A e \in Launcher \ {sock} : queue'[e] = queue[e]
  BY <1>1 DEF QInv, QShape, Connect
<1>4. QShape'
  BY <1>1, <1>2, <1>3 DEF QInv, QShape
<1>5. Running'
  BY <1>1, <1>2 DEF QInv, Running
<1>6. Waiting'
  BY <1>1, <1>2, <1>3 DEF QInv, Running, Waiting
<1> QED
  BY <1>4, <1>5, <1>6 DEF QInv

\* Every step of a launcher is one of the three.
LEMMA LaunchQueues ==
    ASSUME QInv, NEW l \in Launcher, LaunchStep(l) \/ GiveUp(l)
    PROVE  QInv'
<1>1. pc[l] \in {"send", "unlock", "card", "wait", "retry", "again"} => l \in Tap
  BY DEF QInv, Running
<1>2. CASE Send(l) \/ WaitSend(l)
  BY <1>1, <1>2, ConnectQueues DEF Send, WaitSend
<1>3. CASE SendFails(l) \/ WaitSendFails(l) \/ StartOver(l) \/ Unlock(l)
  BY <1>1, <1>3, MoveQueues DEF SendFails, WaitSendFails, StartOver, Unlock, Places
<1>4. CASE Lock(l) \/ WaitLock(l)
  BY <1>1, <1>4, MoveQueues DEF Lock, WaitLock, Places
<1>5. CASE LockFails(l)
  BY <1>5, MoveQueues, EndQueues DEF LockFails, Places, Outcomes
<1>6. CASE Fork(l)
  BY <1>6, MoveQueues, EndQueues DEF Fork, Places, Outcomes
<1>7. CASE ForkFails(l) \/ GiveUp(l)
  BY <1>7, EndQueues DEF ForkFails, GiveUp, Outcomes
<1>8. CASE CardDown(l)
  BY <1>8, EndQueues DEF CardDown, Outcomes
<1> QED
  BY <1>2, <1>3, <1>4, <1>5, <1>6, <1>7, <1>8 DEF LaunchStep

\* An engine that ends loses the taps that wait for it, and those only.
LEMMA EndsQueues ==
    ASSUME QInv, NEW e \in Launcher, Ends(e)
    PROVE  QInv'
<1>1. /\ pc' = pc /\ sock' = sock
      /\ queue' \in [Launcher -> SUBSET Tap] /\ queue'[e] = {}
      /\ \A f \in Launcher \ {e} : queue'[f] = queue[f]
  BY DEF QInv, QShape, Ends
<1>2. /\ outcome' \in [Launcher -> Outcomes]
      /\ \A l \in Launcher : l \notin queue[e] => outcome'[l] = outcome[l]
  BY DEF QInv, QShape, Ends, Outcomes
<1>3. QShape'
  BY <1>1, <1>2 DEF QInv, QShape
<1>4. Running'
  BY <1>1, <1>2 DEF QInv, Running, Waiting
<1>5. Waiting'
  BY <1>1, <1>2 DEF QInv, Waiting
<1> QED
  BY <1>3, <1>4, <1>5 DEF QInv

\* The main loop answers one tap and takes it off its queue.
LEMMA IncomingQueues ==
    ASSUME QInv, NEW e \in Launcher, on_incoming(e)
    PROVE  QInv'
<1>1. PICK l \in queue[e] : /\ queue' = [queue EXCEPT ![e] = @ \ {l}]
                            /\ outcome' = [outcome EXCEPT ![l] = "served"]
  BY ZenonT(40) DEF on_incoming
<1>2. l \in Launcher /\ pc' = pc /\ sock' = sock
  BY <1>1 DEF QInv, QShape, on_incoming, Launcher
<1>3. /\ queue' \in [Launcher -> SUBSET Tap] /\ queue'[e] = queue[e] \ {l}
      /\ \A f \in Launcher \ {e} : queue'[f] = queue[f]
  BY <1>1 DEF QInv, QShape
<1>4. /\ outcome' \in [Launcher -> Outcomes]
      /\ \A k \in Launcher \ {l} : outcome'[k] = outcome[k]
  BY <1>1, ZenonT(40) DEF QInv, QShape, Outcomes
<1>5. QShape'
  BY <1>2, <1>3, <1>4 DEF QInv, QShape
<1>6. Running'
  BY <1>1, <1>2, <1>4 DEF QInv, Running, Waiting
<1>7. Waiting'
  BY <1>1, <1>2, <1>3, <1>4 DEF QInv, Waiting
<1> QED
  BY <1>5, <1>6, <1>7 DEF QInv

\* No step of a launcher or an engine leaves the invariant of the queues.
LEMMA NextQueues == QInv /\ [Next]_vars => QInv'
<1> SUFFICES ASSUME QInv, [Next]_vars PROVE QInv'
  OBVIOUS
<1>1. CASE UNCHANGED vars
  BY <1>1 DEF vars, QInv, QShape, Running, Waiting
<1>2. ASSUME NEW l \in Launcher, LaunchStep(l) \/ GiveUp(l) PROVE QInv'
  BY <1>2, LaunchQueues
<1>3. ASSUME NEW e \in Launcher, EngineStep(e) \/ quit_browser(e) \/ Crash(e) PROVE QInv'
  <2>1. CASE Exit(e) \/ Crash(e)
    BY <2>1, EndsQueues DEF Exit, Crash
  <2>2. CASE on_incoming(e)
    BY <2>2, IncomingQueues
  <2>3. CASE Unlink(e) \/ Bind(e) \/ on_first_draw(e) \/ LastUnlink(e) \/ quit_browser(e)
    <3>1. UNCHANGED <<pc, queue, outcome>> /\ sock' \in Launcher \cup {NoEngine}
      BY <2>3 DEF Unlink, Bind, on_first_draw, LastUnlink, quit_browser, QInv, QShape
    <3> QED
      BY <3>1 DEF QInv, QShape, Running, Waiting
  <2> QED
    BY <1>3, <2>1, <2>2, <2>3 DEF EngineStep
<1> QED
  BY <1>1, <1>2, <1>3 DEF Next

\* A tap that handed over waits in one queue until it is answered or lost, whatever
\* engines end meanwhile: send_to_running and on_incoming.
THEOREM TapsWaitOnce == Spec => []QInv
  BY InitQueues, NextQueues, PTL DEF Spec

\* The type invariant: the variables of launchers and engines hold what their
\* declarations say, and only taps that wait for an answer are in a queue.
THEOREM TypeCorrect == Spec => []TypeOK
<1>1. IInv /\ QInv => TypeOK
  <2> SUFFICES ASSUME IInv, QInv PROVE TypeOK
    OBVIOUS
  <2>1. \A e \in Launcher : \A l \in queue[e] : l \in Tap /\ outcome[l] = "pending"
    <3> SUFFICES ASSUME NEW e \in Launcher, NEW l \in queue[e]
                 PROVE  l \in Tap /\ outcome[l] = "pending"
      OBVIOUS
    <3>1. l \in Tap
      BY DEF QInv, QShape
    <3> QED
      BY <3>1 DEF QInv, Waiting, Launcher
  <2> QED
    BY <2>1 DEF IInv, Shape, Places, States, QInv, QShape, Outcomes, TypeOK
<1> QED
  BY <1>1, Invariance, TapsWaitOnce, PTL
====
