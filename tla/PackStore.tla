------------------------------ MODULE PackStore -----------------------------
(***************************************************************************)
(* How a guest pack gets onto the device: emulator.js ensureRootfs and     *)
(* expandPack in the page, BinaryBridge "download", "gunzip" and "delete"  *)
(* and Downloader in the app, and the imports folder they share.           *)
(*                                                                         *)
(* The folder holds NAME.data.gz (gz), NAME.data (raw) and NAME.data.part  *)
(* (part).  The app's downloads and expansions outlive the page: a page    *)
(* that dies is loaded again while they go on.  The app itself may be      *)
(* killed at any step; its files stay and its jobs are gone.               *)
(***************************************************************************)
EXTENDS Integers, FiniteSets

CONSTANTS
    Tasks,        \* identities of expansions; each is used once
    Jobs,         \* identities of downloads; each is used once
    Whole,        \* writes that make up a whole expanded pack
    MaxKills,     \* bound: times the app is killed
    MaxReloads,   \* bound: times the page dies while it waits for the app
    MaxTimeouts,  \* bound: bridge replies later than the page's 4 s
    MaxEarly,     \* bound: final events of downloads sent while the call that
                  \* starts one has not been answered
    MaxDeletes    \* bound: files deleted through the bridge

ASSUME ConstantsAssumption ==
    /\ Whole \in Nat \ {0}
    /\ "none" \notin Tasks
    /\ {MaxKills, MaxReloads, MaxTimeouts, MaxEarly, MaxDeletes} \subseteq Nat

VARIABLES
    gz,      \* the compressed pack: "none", "good", or of a wrong size: "cut"
             \* short, or a whole archive of something else ("other")
    part,    \* the task whose output has the temporary name, or "none"
    raw,     \* the task whose output has the final name, or "none"
    len,     \* task -> writes its output file holds, whatever its name
    task,    \* task -> where the expansion is and the archive it has open
    job,     \* job -> where the download is
    page,    \* where ensureRootfs is
    budget   \* what is left of the bounds

vars == <<gz, part, raw, len, task, job, page, budget>>
files == <<gz, part, raw, len>>

Spend(what) == budget[what] > 0 /\ budget' = [budget EXCEPT ![what] = @ - 1]

FreeTasks == {t \in Tasks : task[t].pc = "unused"}
FreeJobs == {j \in Jobs : job[j] = "unused"}

\* bound: a run of ensureRootfs begins only while there are identities for the
\* two expansions and the download it may start.
CanRun == Cardinality(FreeTasks) >= 2 /\ FreeJobs # {}

Init ==
    /\ gz = "none" /\ part = "none" /\ raw = "none"
    /\ len = [t \in Tasks |-> 0]
    /\ task = [t \in Tasks |-> [pc |-> "unused", src |-> "none"]]
    /\ job = [j \in Jobs |-> "unused"]
    /\ page = "start"
    /\ budget = [kill |-> MaxKills, reload |-> MaxReloads,
                 timeout |-> MaxTimeouts, early |-> MaxEarly, delete |-> MaxDeletes]

-----------------------------------------------------------------------------
(* The bridge calls of the page.  Replies and events reach the page in the  *)
(* order in which the app sends them, and the page listens for the final    *)
(* event from the reply on: it receives what is sent after the reply, and   *)
(* nothing that was sent before.                                            *)

\* BinaryBridge "gunzip" when the pack is expanded: a leftover .gz is dropped.
GunzipCached ==
    /\ raw # "none"
    /\ gz' = "none"
    /\ UNCHANGED <<part, raw, len, task, job>>

GunzipNoSource ==
    /\ raw = "none"
    /\ gz = "none"
    /\ UNCHANGED <<files, task, job>>

GunzipStarted ==
    /\ raw = "none"
    /\ gz # "none"
    /\ FreeTasks # {}
    /\ task' = [task EXCEPT ![CHOOSE t \in FreeTasks : TRUE].pc = "queued"]
    /\ UNCHANGED <<files, job>>

\* BinaryBridge "download": cached means there and of the expected size.
DownloadCached ==
    /\ gz = "good"
    /\ UNCHANGED <<files, task, job>>

DownloadStarted ==
    /\ gz # "good"
    /\ gz' = "none"
    /\ FreeJobs # {}
    /\ job' = [job EXCEPT ![CHOOSE j \in FreeJobs : TRUE] = "transfer"]
    /\ UNCHANGED <<part, raw, len, task>>

\* The call's reply arrives after the page gave up on it.
LateReply(handled) == handled /\ Spend("timeout")
InTime(handled) == handled /\ UNCHANGED budget

\* ensureRootfs: expand first; with nothing to expand, download.
ExpandFirst ==
    /\ page = "start"
    /\ \/ InTime(GunzipCached) /\ page' = "boot"
       \/ InTime(GunzipNoSource) /\ page' = "download"
       \/ InTime(GunzipStarted) /\ page' = "expanding"
       \/ LateReply(GunzipCached \/ GunzipNoSource \/ GunzipStarted) /\ page' = "download"

Download ==
    /\ page = "download"
    /\ \/ InTime(DownloadCached) /\ page' = "boot"
       \/ LateReply(DownloadCached) /\ page' = "error"
       \/ InTime(DownloadStarted) /\ page' = "starting"

\* "download" answers when the transfer is already running; the page starts to
\* listen.
DownloadReply ==
    /\ page = "starting"
    /\ \/ UNCHANGED budget /\ page' = "downloading"
       \/ Spend("timeout") /\ page' = "error"
    /\ UNCHANGED <<files, task, job>>

\* ensureRootfs: expand what was just downloaded; if that fails the compressed
\* pack is used.
ExpandDownloaded ==
    /\ page = "expand"
    /\ \/ InTime(GunzipCached \/ GunzipNoSource) /\ page' = "boot"
       \/ InTime(GunzipStarted) /\ page' = "expanding"
       \/ LateReply(GunzipCached \/ GunzipNoSource \/ GunzipStarted) /\ page' = "boot"

\* What the page's listeners do with a final event for this pack.  An expansion
\* that failed is not an error: the guest boots from the compressed pack.
OnGunzipDone == page' = IF page = "expanding" THEN "boot" ELSE page
OnDownloadDone(ok) ==
    /\ page' = IF page # "downloading" THEN page ELSE IF ok THEN "expand" ELSE "error"
    /\ IF page = "starting" THEN Spend("early") ELSE UNCHANGED budget

-----------------------------------------------------------------------------
(* BinaryBridge "gunzip", on a background queue.                           *)

\* Mutant: the expansion writes straight to the final name.
ExpandBeginInPlace(t) ==
    /\ task[t].pc = "queued"
    /\ task' = [task EXCEPT ![t] = [pc |-> "inflate", src |-> gz]]
    /\ raw' = t
    /\ len' = [len EXCEPT ![t] = 0]
    /\ UNCHANGED <<gz, part, job, page, budget>>

\* An old .part is removed; the archive is opened and a new .part created.
ExpandBegin(t) ==
    /\ task[t].pc = "queued"
    /\ task' = [task EXCEPT ![t] = [pc |-> "inflate", src |-> gz]]
    /\ part' = t
    /\ len' = [len EXCEPT ![t] = 0]
    /\ UNCHANGED <<gz, raw, job, page, budget>>

\* The writes an archive is good for.  One cut short never inflates to its end;
\* one of something else does, and its trailer is not looked at.
Yields(src) ==
    IF src \in {"good", "other"} THEN Whole ELSE IF src = "cut" THEN Whole - 1 ELSE 0

\* GunzipStream.inflate writes through its own handle, whatever name the file
\* has by now.
ExpandWrite(t) ==
    /\ task[t].pc = "inflate"
    /\ len[t] < Yields(task[t].src)
    /\ len' = [len EXCEPT ![t] = @ + 1]
    /\ UNCHANGED <<gz, part, raw, task, job, page, budget>>

\* The decoder, or a write on a full disk, throws.
ExpandThrows(t) ==
    /\ task[t].pc = "inflate"
    /\ task' = [task EXCEPT ![t].pc = "failed"]
    /\ UNCHANGED <<files, job, page, budget>>

ExpandEnd(t) ==
    /\ task[t].pc = "inflate"
    /\ len[t] = Whole
    /\ task' = [task EXCEPT ![t].pc = "replace"]
    /\ UNCHANGED <<files, job, page, budget>>

\* removeItem(dst)
ExpandRemoveOld(t) ==
    /\ task[t].pc = "replace"
    /\ raw' = "none"
    /\ task' = [task EXCEPT ![t].pc = "rename"]
    /\ UNCHANGED <<gz, part, len, job, page, budget>>

\* moveItem(part, dst) throws when there is no .part or dst has come back.
ExpandRename(t) ==
    /\ task[t].pc = "rename"
    /\ IF part # "none" /\ raw = "none"
       THEN raw' = part /\ part' = "none" /\ task' = [task EXCEPT ![t].pc = "drop"]
       ELSE task' = [task EXCEPT ![t].pc = "failed"] /\ UNCHANGED <<part, raw>>
    /\ UNCHANGED <<gz, len, job, page, budget>>

\* removeItem(src), then the final event.
ExpandDropArchive(t) ==
    /\ task[t].pc = "drop"
    /\ gz' = "none"
    /\ task' = [task EXCEPT ![t].pc = "over"]
    /\ OnGunzipDone
    /\ UNCHANGED <<part, raw, len, job, budget>>

\* Mutant: a failed expansion takes the archive with it.
ExpandCatchDropsArchive(t) ==
    /\ task[t].pc = "failed"
    /\ part' = "none"
    /\ gz' = "none"
    /\ task' = [task EXCEPT ![t].pc = "over"]
    /\ OnGunzipDone
    /\ UNCHANGED <<raw, len, job, budget>>

\* The catch block: the .part of this name goes, whoever wrote it.
ExpandCatch(t) ==
    /\ task[t].pc = "failed"
    /\ part' = "none"
    /\ task' = [task EXCEPT ![t].pc = "over"]
    /\ OnGunzipDone
    /\ UNCHANGED <<gz, raw, len, job, budget>>

-----------------------------------------------------------------------------
(* Downloader's delegate callbacks, one at a time on the session's queue.  *)

\* didFinishDownloadingTo: a 200 body, of the right size or not, replaces dest.
\* dest is removed first: body = "none" is a move and copy that both failed, or
\* the app stopping between the two.
FinishDownload(j, body) ==
    /\ job[j] = "transfer"
    /\ gz' = body
    /\ job' = [job EXCEPT ![j] = "landed"]
    /\ UNCHANGED <<part, raw, len, task, page, budget>>

\* Mutant: a failed transfer sends no final event.
CompleteFailedSilent(j) ==
    /\ job[j] = "transfer"
    /\ gz' = "none"
    /\ job' = [job EXCEPT ![j] = "over"]
    /\ UNCHANGED <<part, raw, len, task, page, budget>>

\* didCompleteWithError of a transport error or a status other than 200: dest
\* is removed.
CompleteFailed(j) ==
    /\ job[j] = "transfer"
    /\ gz' = "none"
    /\ job' = [job EXCEPT ![j] = "over"]
    /\ OnDownloadDone(FALSE)
    /\ UNCHANGED <<part, raw, len, task>>

\* Mutant: existence alone counts as success.
CompleteUnchecked(j) ==
    /\ job[j] = "landed"
    /\ job' = [job EXCEPT ![j] = "over"]
    /\ OnDownloadDone(gz # "none")
    /\ UNCHANGED <<files, task>>

\* didCompleteWithError of a 200: what is at dest must have the expected size.
CompleteChecked(j) ==
    /\ job[j] = "landed"
    /\ gz' = IF gz = "good" THEN gz ELSE "none"
    /\ job' = [job EXCEPT ![j] = "over"]
    /\ OnDownloadDone(gz = "good")
    /\ UNCHANGED <<part, raw, len, task>>

-----------------------------------------------------------------------------
(* The user and the system.                                                *)

\* The guest stopped, or the download failed: the user starts it again.
BootAgain ==
    /\ page \in {"boot", "error"}
    /\ CanRun
    /\ page' = "start"
    /\ UNCHANGED <<files, task, job, budget>>

\* The page dies, or is loaded afresh, while the app works for it.
Reload ==
    /\ page \in {"expanding", "starting", "downloading"}
    /\ CanRun
    /\ Spend("reload")
    /\ page' = "start"
    /\ UNCHANGED <<files, task, job>>

\* The app is killed.
Kill ==
    /\ page # "off"
    /\ Spend("kill")
    /\ task' = [t \in Tasks |-> IF task[t].pc = "unused" THEN task[t]
                                ELSE [task[t] EXCEPT !.pc = "over"]]
    /\ job' = [j \in Jobs |-> IF job[j] = "unused" THEN "unused" ELSE "over"]
    /\ page' = "off"
    /\ UNCHANGED files

\* The next launch: cleanupStale removes the .part before the page is loaded.
Launch ==
    /\ page = "off"
    /\ CanRun
    /\ part' = "none"
    /\ page' = "start"
    /\ UNCHANGED <<gz, raw, len, task, job, budget>>

\* BinaryBridge "delete" of the pack in either form.
Delete ==
    /\ page # "off"
    /\ Spend("delete")
    /\ \/ gz # "none" /\ gz' = "none" /\ UNCHANGED raw
       \/ raw # "none" /\ raw' = "none" /\ UNCHANGED gz
    /\ UNCHANGED <<part, len, task, job, page>>

Page == ExpandFirst \/ Download \/ DownloadReply \/ ExpandDownloaded
Expansion(t) ==
    \/ ExpandBegin(t) \/ ExpandWrite(t) \/ ExpandThrows(t) \/ ExpandEnd(t)
    \/ ExpandRemoveOld(t) \/ ExpandRename(t) \/ ExpandDropArchive(t) \/ ExpandCatch(t)
Transfer(j) ==
    \/ \E body \in {"good", "cut", "other", "none"} : FinishDownload(j, body)
    \/ CompleteFailed(j)
    \/ CompleteChecked(j)

Next ==
    \/ Page
    \/ \E t \in Tasks : Expansion(t)
    \/ \E j \in Jobs : Transfer(j)
    \/ BootAgain \/ Reload \/ Kill \/ Launch \/ Delete

Spec == Init /\ [][Next]_vars

\* The page's script runs, a dispatched block is executed, and a URLSession
\* task always reaches its completion callback.
FairSpec ==
    /\ Spec
    /\ WF_vars(Page)
    /\ \A t \in Tasks : WF_vars(Expansion(t))
    /\ \A j \in Jobs : WF_vars(Transfer(j))

-----------------------------------------------------------------------------
(* Properties.                                                             *)

TypeOK ==
    /\ gz \in {"none", "good", "cut", "other"}
    /\ part \in Tasks \cup {"none"}
    /\ raw \in Tasks \cup {"none"}
    /\ len \in [Tasks -> 0..Whole]
    /\ task \in [Tasks -> [pc : {"unused", "queued", "inflate", "replace", "rename",
                                 "drop", "failed", "over"},
                           src : {"none", "good", "cut", "other"}]]
    /\ job \in [Jobs -> {"unused", "transfer", "landed", "over"}]
    /\ page \in {"start", "download", "starting", "downloading", "expand", "expanding",
                 "boot", "error", "off"}
    /\ budget \in [{"kill", "reload", "timeout", "early", "delete"} -> Nat]

\* The final name is on a finished expansion or on nothing, at every step at
\* which the app can be killed: "Keeping the final `.img` absent until the expand
\* completes makes a partial unbootable" (BinaryBridge.swift:55-63).
RawIsWhole == raw # "none" => len[raw] = Whole

\* So far the page has waited for everything it started: no expansion outlived
\* the call or the page that asked for it.
Waited == budget.reload = MaxReloads /\ budget.timeout = MaxTimeouts

\* RawIsWhole, kills and restarts included, while the page has waited for what
\* it started, so that one expansion of a pack is in progress at a time.
RawIsWholeAlone == Waited => RawIsWhole

\* The archive is given up only for a whole expansion: as long as the user has
\* deleted nothing and the page has waited for what it started, a good .gz
\* disappears only when a whole raw pack is there (BinaryBridge.swift:49, 77;
\* Downloader.swift:80).
ArchiveKept ==
    [][gz = "good" /\ gz' = "none" /\ budget'.delete = MaxDeletes /\ Waited' =>
          raw' # "none" /\ len[raw'] = Whole]_vars

\* A guest is never booted from an archive of the wrong size: what is served
\* is the whole expansion of a good archive, a good .gz, or nothing; "so a
\* poisoned cache self-heals on the next boot" (Downloader.swift:11-16).
BootsWholePack ==
    page = "boot" =>
        IF raw = "none" THEN gz \in {"none", "good"}
        ELSE len[raw] = Whole /\ task[raw].src = "good"

\* BootsWholePack while the app has not been killed, whatever the transfers and
\* expansions did.
BootsWholePackUnkilled == Waited /\ budget.kill = MaxKills => BootsWholePack

\* ensureRootfs comes to an end: to a boot, to an error or with the app.
EnsureEndsAlways == page = "start" ~> page \in {"boot", "error", "off"}

\* EnsureEndsAlways as long as no final event of a download overtook the reply to
\* the call that started it: what the listeners wait for is then always still
\* to come, through failed and late transfers, reloads and late replies
\* (emulator.js:138-146, 163-180; BinaryBridge.swift:34-35, 53-54).
EnsureEnds ==
    page = "start" ~> page \in {"boot", "error", "off"} \/ budget.early < MaxEarly
=============================================================================
