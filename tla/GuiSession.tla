------------------------------ MODULE GuiSession ----------------------------
(***************************************************************************)
(* run.js: the page's viewer of the guest's display.  connectGui opens an  *)
(* RFB session (vendor/novnc, modelled as run.js uses it), the viewer's     *)
(* disconnect event retries on a timer, a watchdog and the reconnect button *)
(* replace a session that hangs.                                           *)
(***************************************************************************)
EXTENDS Integers

CONSTANTS Id,        \* RFB objects that may exist at a time
          None,      \* rfb = null
          GiveUp,    \* 60: retries before a guest that is no touch guest is given up
          ImportTries, \* 45: retries before a viewer that does not load is given up
          MaxTaps,   \* bound: times the GUI is opened
          MaxForce,  \* bound: uses of the reconnect button
          MaxFaults, \* bound: sessions that fail or break, imports that fail
          MaxHangs   \* bound: sessions that hang or die without an event

ASSUME GuiSessionAssumption ==
    /\ None \notin Id
    /\ {GiveUp, ImportTries, MaxTaps, MaxForce, MaxFaults, MaxHangs} \subseteq Nat

VARIABLES touch,    \* opts.touchGuest
          rfb,      \* the session connectGui knows of
          sess,     \* state of every RFB object
          warm,     \* __RFB: set ("ok"), or how __rfbWarm stands
          calls,    \* connectGui calls waiting for __rfbWarm
          imports,  \* connectGui calls waiting for an import of their own
          timers,   \* retry timers set
          retries,  \* guiRetries
          opened,   \* the GUI has been opened (lastGuiHost)
          overlap,  \* history: two calls waited for the viewer at once
          replaced, \* history: a session was replaced by another
          taps, forced, faults, hangs

guiVars == <<touch, rfb, sess, warm, calls, imports, timers, retries, opened, overlap,
             replaced, taps, forced, faults, hangs>>

GuiInit ==
    /\ touch \in BOOLEAN
    /\ rfb = None
    /\ sess = [i \in Id |-> "none"]
    /\ warm = "loading"
    /\ calls = 0 /\ imports = 0 /\ timers = 0 /\ retries = 0
    /\ opened = FALSE /\ overlap = FALSE /\ replaced = FALSE
    /\ taps = 0 /\ forced = 0 /\ faults = 0 /\ hangs = 0

Fault == faults < MaxFaults /\ faults' = faults + 1
Hang == hangs < MaxHangs /\ hangs' = hangs + 1

\* Calls that the viewer's arrival resumes run before any other event does.
Quiet == warm # "ok" \/ calls = 0

-----------------------------------------------------------------------------
(* connectGui and what it starts.                                          *)

\* new RFB: it connects, or its guest side hangs and it stays as it is.
NewSession(s) ==
    \E i \in {j \in Id : sess[j] = "none"} :
        /\ rfb' = i
        /\ \/ sess' = [s EXCEPT ![i] = "connecting"] /\ UNCHANGED hangs
           \/ sess' = [s EXCEPT ![i] = "stuck"] /\ Hang

\* The call waits: for the viewer that is loading, or for one it imports itself
\* because that could not be loaded.
AwaitViewer ==
    /\ calls' = IF warm = "loading" THEN calls + 1 ELSE calls
    /\ imports' = IF warm = "failed" THEN imports + 1 ELSE imports

\* Mutant: connectGui opens a session although there is one.
ConnectGuiAgain(r, s) ==
    /\ overlap' = (overlap \/ (r = None /\ calls + imports > 0))
    /\ replaced' = (replaced \/ rfb # r)
    /\ IF warm = "ok" THEN NewSession(s) /\ UNCHANGED <<calls, imports>>
       ELSE AwaitViewer /\ rfb' = r /\ sess' = s /\ UNCHANGED hangs

\* connectGui up to its first await, with rfb = r and sessions s.
ConnectGui(r, s) ==
    /\ overlap' = (overlap \/ (r = None /\ calls + imports > 0))
    /\ replaced' = (replaced \/ rfb # r)
    /\ IF r # None THEN rfb' = r /\ sess' = s /\ UNCHANGED <<calls, imports, hangs>>
       ELSE IF warm = "ok" THEN NewSession(s) /\ UNCHANGED <<calls, imports>>
       ELSE AwaitViewer /\ rfb' = r /\ sess' = s /\ UNCHANGED hangs

\* The GUI is opened.
Tap ==
    /\ Quiet
    /\ taps < MaxTaps
    /\ taps' = taps + 1
    /\ opened' = TRUE
    /\ ConnectGui(rfb, sess)
    /\ UNCHANGED <<touch, warm, timers, retries, forced, faults>>

\* The viewer has loaded, or could not be: the calls that waited for it go on,
\* each with an import of its own.
WarmEnds ==
    /\ warm = "loading"
    /\ \/ warm' = "ok" /\ UNCHANGED <<calls, imports, faults>>
       \/ warm' = "failed" /\ imports' = calls /\ calls' = 0 /\ Fault
    /\ UNCHANGED <<touch, overlap, replaced, rfb, sess, timers, retries, opened, taps, forced, hangs>>

\* A waiting call goes on, with no second look at rfb.
Resume ==
    /\ calls > 0
    /\ warm = "ok"
    /\ calls' = calls - 1
    /\ NewSession(sess)
    /\ UNCHANGED <<touch, overlap, replaced, warm, imports, timers, retries, opened, taps, forced, faults>>

\* A call's own import ends, whether or not another one's has succeeded before.
Import ==
    /\ imports > 0
    /\ imports' = imports - 1
    /\ \/ warm' = "ok" /\ NewSession(sess) /\ UNCHANGED <<timers, retries, faults>>
       \/ /\ Fault
          /\ retries' = retries + 1
          /\ timers' = IF retries < ImportTries THEN timers + 1 ELSE timers
          /\ UNCHANGED <<warm, rfb, sess, hangs>>
    /\ UNCHANGED <<touch, overlap, replaced, calls, opened, taps, forced>>

-----------------------------------------------------------------------------
(* The session's events.                                                   *)

Connects(i) ==
    /\ Quiet
    /\ sess[i] = "connecting"
    /\ sess' = [sess EXCEPT ![i] = "connected"]
    /\ retries' = 0
    /\ UNCHANGED <<touch, overlap, replaced, rfb, warm, calls, imports, timers, opened, taps, forced, faults, hangs>>

\* Mutant: every guest is given up after GiveUp retries.
OnDisconnectGivesUp(i) ==
    /\ sess' = [sess EXCEPT ![i] = "none"]
    /\ rfb' = None
    /\ retries' = retries + 1
    /\ timers' = IF retries < GiveUp THEN timers + 1 ELSE timers

\* The disconnect event of session i: rfb is cleared whichever session it is.
OnDisconnect(i) ==
    /\ sess' = [sess EXCEPT ![i] = "none"]
    /\ rfb' = None
    /\ retries' = retries + 1
    /\ timers' = IF retries < GiveUp \/ touch THEN timers + 1 ELSE timers

\* The connection is refused or breaks.
Breaks(i) ==
    /\ Quiet
    /\ sess[i] \in {"connecting", "connected"}
    /\ Fault
    /\ OnDisconnect(i)
    /\ UNCHANGED <<touch, overlap, replaced, warm, calls, imports, opened, taps, forced, hangs>>

\* The socket dies under a connected session and no event comes.
DiesSilently(i) ==
    /\ Quiet
    /\ sess[i] = "connected"
    /\ Hang
    /\ sess' = [sess EXCEPT ![i] = "dead"]
    /\ UNCHANGED <<touch, overlap, replaced, rfb, warm, calls, imports, timers, retries, opened, taps, forced, faults>>

\* A session that was told to disconnect has done so.
Disconnected(i) ==
    /\ Quiet
    /\ sess[i] = "closing"
    /\ OnDisconnect(i)
    /\ UNCHANGED <<touch, overlap, replaced, warm, calls, imports, opened, taps, forced, faults, hangs>>

\* The retry timer.
Retry ==
    /\ Quiet
    /\ timers > 0
    /\ timers' = timers - 1
    /\ ConnectGui(rfb, sess)
    /\ UNCHANGED <<touch, warm, retries, opened, taps, forced, faults>>

-----------------------------------------------------------------------------
\* Mutant: the old session is dropped and none is opened.
ForceReconnectGuiDrops ==
    /\ replaced' = (replaced \/ rfb # None)
    /\ rfb' = None
    /\ sess' = IF rfb = None THEN sess ELSE [sess EXCEPT ![rfb] = "closing"]
    /\ UNCHANGED <<calls, imports, overlap, hangs>>

\* forceReconnectGui: disconnect() only starts the disconnection.
ForceReconnectGui ==
    ConnectGui(None, IF rfb = None THEN sess ELSE [sess EXCEPT ![rfb] = "closing"])

\* The reconnect button.
Reconnect ==
    /\ Quiet
    /\ opened
    /\ forced < MaxForce
    /\ forced' = forced + 1
    /\ retries' = 0
    /\ ForceReconnectGui
    /\ UNCHANGED <<touch, warm, timers, opened, taps, faults>>

\* The watchdog: a dead socket, or a session not connected for 20 s.
Watchdog ==
    /\ Quiet
    /\ rfb # None
    /\ sess[rfb] \in {"dead", "stuck"}
    /\ retries' = IF sess[rfb] = "dead" THEN 0 ELSE retries
    /\ ForceReconnectGui
    /\ UNCHANGED <<touch, warm, timers, opened, taps, forced, faults>>

GuiNext ==
    \/ Tap \/ WarmEnds \/ Resume \/ Import \/ Retry \/ Reconnect \/ Watchdog
    \/ \E i \in Id : Connects(i) \/ Breaks(i) \/ DiesSilently(i) \/ Disconnected(i)

GuiSpec == GuiInit /\ [][GuiNext]_guiVars

\* The browser runs timers and delivers events; a display server that is up
\* answers a session that is not stuck.
GuiFairSpec ==
    /\ GuiSpec
    /\ WF_guiVars(WarmEnds) /\ WF_guiVars(Resume) /\ WF_guiVars(Import)
    /\ WF_guiVars(Retry) /\ WF_guiVars(Watchdog)
    /\ \A i \in Id : WF_guiVars(Connects(i)) /\ WF_guiVars(Disconnected(i))

-----------------------------------------------------------------------------
Live == {i \in Id : sess[i] \in {"connecting", "stuck", "connected", "dead"}}

GuiTypeOK ==
    /\ rfb \in Id \cup {None}
    /\ sess \in [Id -> {"none", "connecting", "stuck", "connected", "dead", "closing"}]
    /\ warm \in {"loading", "ok", "failed"}
    /\ touch \in BOOLEAN /\ opened \in BOOLEAN /\ overlap \in BOOLEAN /\ replaced \in BOOLEAN
    /\ calls \in Nat /\ imports \in Nat /\ timers \in Nat /\ retries \in Nat

OneSession == \A i, j \in Live : i = j

\* There are only two ways to two viewers: a session that was replaced, whose
\* disconnect event comes late, and calls that waited for the viewer together.
\* Taps and retry timers alone, in any order, leave one (lines 728, 795-800).
OneSessionOtherwise == ~overlap /\ ~replaced => OneSession

\* With the viewer loaded, at most one session is open: connectGui is
\* "Idempotent (no-op if already connected)" (line 374).
OneSessionLoaded == ~overlap => OneSession

\* Nothing is under way that would open a session.
Idle == calls = 0 /\ imports = 0 /\ timers = 0

\* The viewer could not be loaded in ImportTries retries and none is left
\* (lines 736-737).
ViewerGivenUp == retries > ImportTries /\ warm = "failed"

\* The viewer never stops trying unnoticed: once the GUI has been opened there
\* is a session, a call or a timer, or the retries are used up (lines 781-800).
\* For a guest that is no touch guest this needs that no session was left
\* beside another, whose connect event would reset the retries of the one lost.
NeverForgotten ==
    /\ opened /\ rfb = None /\ Idle
    /\ touch \/ (~overlap /\ ~replaced)
    => (retries > GiveUp /\ ~touch) \/ ViewerGivenUp

\* Once the GUI of a touch guest has been opened, its display is connected in
\* the end whatever sessions failed, hung or were replaced before: the display
\* of such a guest is not given up (lines 786-790).  The one way out is a viewer
\* that does not load in all its retries, after which nothing is tried until
\* the user opens the GUI again.
DisplayComesBack ==
    opened /\ touch ~> (\E i \in Id : sess[i] = "connected" /\ rfb = i)
                       \/ (ViewerGivenUp /\ Idle)

\* "Android (touchGuest): the display IS the whole UI, so never give up" (line
\* 786).  That holds of its sessions; the imports of the viewer are given up.
TouchNeverGivenUp == ~(opened /\ touch /\ rfb = None /\ Idle)
=============================================================================
