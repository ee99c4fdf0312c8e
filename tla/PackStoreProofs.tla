--------------------------- MODULE PackStoreProofs --------------------------
(***************************************************************************)
(* The imports folder, for any number of expansions, downloads, kills,      *)
(* reloads, late replies and deletions: what is under the final name is     *)
(* whole as long as the page has waited for what it started.                *)
(***************************************************************************)
EXTENDS PackStore, TLAPS

\* An expansion, or a download, that the app is working on.
Live(t) == task[t].pc \notin {"unused", "over"}
Flying(j) == job[j] \in {"transfer", "landed"}

\* What is left of the bounds is never more than they were.
Bounds ==
    /\ budget.kill <= MaxKills /\ budget.reload <= MaxReloads
    /\ budget.timeout <= MaxTimeouts /\ budget.early <= MaxEarly
    /\ budget.delete <= MaxDeletes

\* The page waits for the one expansion or the one download it has started.
OneAtATime ==
    /\ \A t \in Tasks : Live(t) => page = "expanding"
    /\ \A t, u \in Tasks : Live(t) /\ Live(u) => t = u
    /\ \A j \in Jobs : Flying(j) => page \in {"starting", "downloading"}
    /\ \A j, k \in Jobs : Flying(j) /\ Flying(k) => j = k

\* The temporary name is on the output of the expansion in progress, which is
\* whole before the final name is taken away; the final name is on the output
\* of an expansion that is over, and whole.
Names ==
    /\ \A t \in Tasks : task[t].pc \in {"inflate", "replace", "rename"} => part = t
    /\ \A t \in Tasks : task[t].pc \in {"replace", "rename"} => len[t] = Whole
    /\ raw # "none" => task[raw].pc \in {"drop", "over"} /\ len[raw] = Whole
    /\ \A t \in Tasks : task[t].pc = "drop" /\ budget.delete = MaxDeletes => raw # "none"

\* A download begins with no archive, and one of the wrong size is there only
\* until its completion callback, unless the app was killed before it.
Archive ==
    /\ \A j \in Jobs : job[j] = "transfer" => gz = "none"
    /\ budget.kill = MaxKills /\ gz \in {"cut", "other"} => \E j \in Jobs : job[j] = "landed"

\* What an app that was not killed expands is a good archive, or one deleted
\* before it was opened, which yields nothing.
Sources ==
    budget.kill = MaxKills =>
        /\ \A t \in Tasks : task[t].pc = "inflate" =>
              task[t].src = "good" \/ (task[t].src = "none" /\ len[t] = 0)
        /\ \A t \in Tasks : task[t].pc \in {"replace", "rename"} => task[t].src = "good"
        /\ raw # "none" => task[raw].src = "good"

\* The inductive invariant.
IInv == TypeOK /\ Bounds /\ (Waited => OneAtATime /\ Names /\ Archive /\ Sources)

-----------------------------------------------------------------------------
(* The bounds.                                                             *)

BudgetType == budget \in [{"kill", "reload", "timeout", "early", "delete"} -> Nat]

\* A step leaves the bounds as they are or lowers one of them.
Frugal ==
    /\ BudgetType' /\ Bounds'
    /\ Waited' => Waited
    /\ budget'.kill = MaxKills => budget.kill = MaxKills
    /\ budget'.delete = MaxDeletes => budget.delete = MaxDeletes

\* The provers a leaf is tried with, one after the other, and for how long.
USE SMTT(40), Z3T(40), ZenonT(40)

\* A step that spends nothing.
LEMMA KeepBudget ==
    ASSUME BudgetType, Bounds, UNCHANGED budget
    PROVE  Frugal
BY DEF BudgetType, Bounds, Waited, Frugal

\* A step that spends one: the bound is no longer what it was.
LEMMA SpendBudget ==
    ASSUME BudgetType, Bounds,
           NEW what \in {"kill", "reload", "timeout", "early", "delete"}, Spend(what)
    PROVE  /\ Frugal
           /\ what = "kill" => budget'.kill # MaxKills
           /\ what = "delete" => budget'.delete # MaxDeletes
           /\ what \in {"reload", "timeout"} => ~Waited'
<1>1. /\ budget' = [budget EXCEPT ![what] = @ - 1]
      /\ budget[what] > 0
  BY DEF Spend
<1>2. BudgetType'
  BY <1>1 DEF BudgetType
<1>3. {MaxKills, MaxReloads, MaxTimeouts, MaxEarly, MaxDeletes} \subseteq Nat
  BY ConstantsAssumption
<1>4. CASE what = "kill"
  BY <1>1, <1>2, <1>3, <1>4 DEF BudgetType, Bounds, Waited, Frugal
<1>5. CASE what = "reload"
  BY <1>1, <1>2, <1>3, <1>5 DEF BudgetType, Bounds, Waited, Frugal
<1>6. CASE what = "timeout"
  BY <1>1, <1>2, <1>3, <1>6 DEF BudgetType, Bounds, Waited, Frugal
<1>7. CASE what = "early"
  BY <1>1, <1>2, <1>3, <1>7 DEF BudgetType, Bounds, Waited, Frugal
<1>8. CASE what = "delete"
  BY <1>1, <1>2, <1>3, <1>8 DEF BudgetType, Bounds, Waited, Frugal
<1> QED
  BY <1>4, <1>5, <1>6, <1>7, <1>8

-----------------------------------------------------------------------------
(* The expansion, step by step.                                            *)

\* A new .part: no final name is on the output of an expansion not yet begun.
LEMMA BeginStep ==
    ASSUME IInv, NEW t \in Tasks, ExpandBegin(t)
    PROVE  IInv'
<1>1. TypeOK'
  BY ConstantsAssumption DEF IInv, TypeOK, ExpandBegin, files
<1>2. Frugal
  BY KeepBudget DEF IInv, TypeOK, BudgetType, ExpandBegin, files
<1>3. ASSUME Waited, OneAtATime, Names, Archive, Sources
      PROVE  OneAtATime' /\ Names' /\ Archive' /\ Sources'
  <2>1. OneAtATime'
    BY <1>3 DEF IInv, TypeOK, OneAtATime, Live, Flying, ExpandBegin, files
  <2>2. Names'
    BY <1>3, ConstantsAssumption DEF IInv, TypeOK, OneAtATime, Names, Live, Flying, ExpandBegin,
       files
  <2>3. Archive'
    BY <1>3 DEF IInv, TypeOK, OneAtATime, Archive, Live, Flying, ExpandBegin, files
  <2>4. Sources'
    BY <1>2, <1>3, ConstantsAssumption DEF IInv, TypeOK, OneAtATime, Names, Archive, Sources,
       Frugal, Live, Flying, ExpandBegin, files
  <2> QED
    BY <2>1, <2>2, <2>3, <2>4
<1> QED
  BY <1>1, <1>2, <1>3 DEF IInv, Frugal

\* A write goes to the output of an expansion in progress.
LEMMA WriteStep ==
    ASSUME IInv, NEW t \in Tasks, ExpandWrite(t)
    PROVE  IInv'
<1>1. TypeOK'
  BY ConstantsAssumption DEF IInv, TypeOK, ExpandWrite, Yields
<1>2. Frugal
  BY KeepBudget DEF IInv, TypeOK, BudgetType, ExpandWrite, Yields
<1>3. ASSUME Waited, OneAtATime, Names, Archive, Sources
      PROVE  OneAtATime' /\ Names' /\ Archive' /\ Sources'
  <2>1. OneAtATime'
    BY <1>3 DEF IInv, TypeOK, OneAtATime, Live, Flying, ExpandWrite, Yields
  <2>2. Names'
    BY <1>3, ConstantsAssumption DEF IInv, TypeOK, OneAtATime, Names, Live, Flying, ExpandWrite,
       Yields
  <2>3. Archive'
    BY <1>3 DEF IInv, TypeOK, OneAtATime, Archive, Live, Flying, ExpandWrite, Yields
  <2>4. Sources'
    <3>1. /\ task[t].pc = "inflate" /\ len[t] < Yields(task[t].src) /\ len[t] \in Nat
          /\ UNCHANGED <<raw, task, budget>>
          /\ \A u \in Tasks : u # t => len'[u] = len[u]
      BY DEF IInv, TypeOK, ExpandWrite
    <3>2. task[t].src # "none"
      BY <3>1 DEF Yields
    <3> QED
      BY <1>3, <3>1, <3>2 DEF Sources
  <2> QED
    BY <2>1, <2>2, <2>3, <2>4
<1> QED
  BY <1>1, <1>2, <1>3 DEF IInv, Frugal

\* The decoder throws.
LEMMA ThrowsStep ==
    ASSUME IInv, NEW t \in Tasks, ExpandThrows(t)
    PROVE  IInv'
<1>1. TypeOK'
  BY ConstantsAssumption DEF IInv, TypeOK, ExpandThrows, files
<1>2. Frugal
  BY KeepBudget DEF IInv, TypeOK, BudgetType, ExpandThrows, files
<1>3. ASSUME Waited, OneAtATime, Names, Archive, Sources
      PROVE  OneAtATime' /\ Names' /\ Archive' /\ Sources'
  <2>1. OneAtATime'
    BY <1>3 DEF IInv, TypeOK, OneAtATime, Live, Flying, ExpandThrows, files
  <2>2. Names'
    BY <1>3, ConstantsAssumption DEF IInv, TypeOK, OneAtATime, Names, Live, Flying, ExpandThrows,
       files
  <2>3. Archive'
    BY <1>3 DEF IInv, TypeOK, OneAtATime, Archive, Live, Flying, ExpandThrows, files
  <2>4. Sources'
    BY <1>2, <1>3, ConstantsAssumption DEF IInv, TypeOK, OneAtATime, Names, Archive, Sources,
       Frugal, Live, Flying, ExpandThrows, files
  <2> QED
    BY <2>1, <2>2, <2>3, <2>4
<1> QED
  BY <1>1, <1>2, <1>3 DEF IInv, Frugal

\* The decoder is at its end: the output is whole.
LEMMA EndStep ==
    ASSUME IInv, NEW t \in Tasks, ExpandEnd(t)
    PROVE  IInv'
<1>1. TypeOK'
  BY ConstantsAssumption DEF IInv, TypeOK, ExpandEnd, files
<1>2. Frugal
  BY KeepBudget DEF IInv, TypeOK, BudgetType, ExpandEnd, files
<1>3. ASSUME Waited, OneAtATime, Names, Archive, Sources
      PROVE  OneAtATime' /\ Names' /\ Archive' /\ Sources'
  <2>1. OneAtATime'
    BY <1>3 DEF IInv, TypeOK, OneAtATime, Live, Flying, ExpandEnd, files
  <2>2. Names'
    BY <1>3, ConstantsAssumption DEF IInv, TypeOK, OneAtATime, Names, Live, Flying, ExpandEnd, files
  <2>3. Archive'
    BY <1>3 DEF IInv, TypeOK, OneAtATime, Archive, Live, Flying, ExpandEnd, files
  <2>4. Sources'
    BY <1>2, <1>3, ConstantsAssumption DEF IInv, TypeOK, OneAtATime, Names, Archive, Sources,
       Frugal, Live, Flying, ExpandEnd, files
  <2> QED
    BY <2>1, <2>2, <2>3, <2>4
<1> QED
  BY <1>1, <1>2, <1>3 DEF IInv, Frugal

\* The old pack is removed.
LEMMA RemoveOldStep ==
    ASSUME IInv, NEW t \in Tasks, ExpandRemoveOld(t)
    PROVE  IInv'
<1>1. TypeOK'
  BY ConstantsAssumption DEF IInv, TypeOK, ExpandRemoveOld, files
<1>2. Frugal
  BY KeepBudget DEF IInv, TypeOK, BudgetType, ExpandRemoveOld, files
<1>3. ASSUME Waited, OneAtATime, Names, Archive, Sources
      PROVE  OneAtATime' /\ Names' /\ Archive' /\ Sources'
  <2>1. OneAtATime'
    BY <1>3 DEF IInv, TypeOK, OneAtATime, Live, Flying, ExpandRemoveOld, files
  <2>2. Names'
    BY <1>3, ConstantsAssumption DEF IInv, TypeOK, OneAtATime, Names, Live, Flying,
       ExpandRemoveOld, files
  <2>3. Archive'
    BY <1>3 DEF IInv, TypeOK, OneAtATime, Archive, Live, Flying, ExpandRemoveOld, files
  <2>4. Sources'
    BY <1>2, <1>3, ConstantsAssumption DEF IInv, TypeOK, OneAtATime, Names, Archive, Sources,
       Frugal, Live, Flying, ExpandRemoveOld, files
  <2> QED
    BY <2>1, <2>2, <2>3, <2>4
<1> QED
  BY <1>1, <1>2, <1>3 DEF IInv, Frugal

\* The .part that is renamed is this expansion's own.
LEMMA RenameStep ==
    ASSUME IInv, NEW t \in Tasks, ExpandRename(t)
    PROVE  IInv'
<1>1. TypeOK'
  BY ConstantsAssumption DEF IInv, TypeOK, ExpandRename, files
<1>2. Frugal
  BY KeepBudget DEF IInv, TypeOK, BudgetType, ExpandRename, files
<1>3. ASSUME Waited, OneAtATime, Names, Archive, Sources
      PROVE  OneAtATime' /\ Names' /\ Archive' /\ Sources'
  <2>1. OneAtATime'
    BY <1>3 DEF IInv, TypeOK, OneAtATime, Live, Flying, ExpandRename, files
  <2>2. Names'
    <3>1. /\ \A u \in Tasks : Live(u) => u = t
          /\ part = t /\ len[t] = Whole /\ UNCHANGED <<len, budget>>
      BY <1>3 DEF OneAtATime, Names, Live, ExpandRename
    <3>2. CASE raw = "none"
      <4>1. /\ raw' = t /\ part' = "none"
            /\ \A u \in Tasks : task'[u].pc = IF u = t THEN "drop" ELSE task[u].pc
        BY <3>1, <3>2, ConstantsAssumption DEF IInv, TypeOK, ExpandRename
      <4> QED
        BY <3>1, <4>1, ConstantsAssumption DEF Names, Live
    <3>3. CASE raw # "none"
      <4>1. /\ UNCHANGED <<raw, part>> /\ raw \in Tasks /\ raw # t
            /\ \A u \in Tasks : task'[u].pc = IF u = t THEN "failed" ELSE task[u].pc
        BY <1>3, <3>3 DEF IInv, TypeOK, Names, ExpandRename
      <4> QED
        BY <1>3, <3>1, <4>1 DEF Names, Live
    <3> QED
      BY <3>2, <3>3
  <2>3. Archive'
    BY <1>3 DEF IInv, TypeOK, OneAtATime, Archive, Live, Flying, ExpandRename, files
  <2>4. Sources'
    BY <1>2, <1>3, ConstantsAssumption DEF IInv, TypeOK, OneAtATime, Names, Archive, Sources,
       Frugal, Live, Flying, ExpandRename, files
  <2> QED
    BY <2>1, <2>2, <2>3, <2>4
<1> QED
  BY <1>1, <1>2, <1>3 DEF IInv, Frugal

\* The archive is removed.
LEMMA DropStep ==
    ASSUME IInv, NEW t \in Tasks, ExpandDropArchive(t)
    PROVE  IInv'
<1>1. TypeOK'
  BY ConstantsAssumption DEF IInv, TypeOK, ExpandDropArchive, OnGunzipDone
<1>2. Frugal
  BY KeepBudget DEF IInv, TypeOK, BudgetType, ExpandDropArchive, OnGunzipDone
<1>3. ASSUME Waited, OneAtATime, Names, Archive, Sources
      PROVE  OneAtATime' /\ Names' /\ Archive' /\ Sources'
  <2>1. OneAtATime'
    BY <1>3 DEF IInv, TypeOK, OneAtATime, Live, Flying, ExpandDropArchive, OnGunzipDone
  <2>2. Names'
    BY <1>3, ConstantsAssumption DEF IInv, TypeOK, OneAtATime, Names, Live, Flying,
       ExpandDropArchive, OnGunzipDone
  <2>3. Archive'
    BY <1>3 DEF IInv, TypeOK, OneAtATime, Archive, Live, Flying, ExpandDropArchive, OnGunzipDone
  <2>4. Sources'
    BY <1>2, <1>3, ConstantsAssumption DEF IInv, TypeOK, OneAtATime, Names, Archive, Sources,
       Frugal, Live, Flying, ExpandDropArchive, OnGunzipDone
  <2> QED
    BY <2>1, <2>2, <2>3, <2>4
<1> QED
  BY <1>1, <1>2, <1>3 DEF IInv, Frugal

\* The catch block removes the .part.
LEMMA CatchStep ==
    ASSUME IInv, NEW t \in Tasks, ExpandCatch(t)
    PROVE  IInv'
<1>1. TypeOK'
  BY ConstantsAssumption DEF IInv, TypeOK, ExpandCatch, OnGunzipDone
<1>2. Frugal
  BY KeepBudget DEF IInv, TypeOK, BudgetType, ExpandCatch, OnGunzipDone
<1>3. ASSUME Waited, OneAtATime, Names, Archive, Sources
      PROVE  OneAtATime' /\ Names' /\ Archive' /\ Sources'
  <2>1. OneAtATime'
    BY <1>3 DEF IInv, TypeOK, OneAtATime, Live, Flying, ExpandCatch, OnGunzipDone
  <2>2. Names'
    BY <1>3, ConstantsAssumption DEF IInv, TypeOK, OneAtATime, Names, Live, Flying, ExpandCatch,
       OnGunzipDone
  <2>3. Archive'
    BY <1>3 DEF IInv, TypeOK, OneAtATime, Archive, Live, Flying, ExpandCatch, OnGunzipDone
  <2>4. Sources'
    BY <1>2, <1>3, ConstantsAssumption DEF IInv, TypeOK, OneAtATime, Names, Archive, Sources,
       Frugal, Live, Flying, ExpandCatch, OnGunzipDone
  <2> QED
    BY <2>1, <2>2, <2>3, <2>4
<1> QED
  BY <1>1, <1>2, <1>3 DEF IInv, Frugal

-----------------------------------------------------------------------------
(* The download's callbacks.                                               *)

\* The body lands.
LEMMA FinishStep ==
    ASSUME IInv, NEW j \in Jobs, NEW body \in {"good", "cut", "other", "none"},
           FinishDownload(j, body)
    PROVE  IInv'
<1>1. TypeOK'
  BY ConstantsAssumption DEF IInv, TypeOK, FinishDownload
<1>2. Frugal
  BY KeepBudget DEF IInv, TypeOK, BudgetType, FinishDownload
<1>3. ASSUME Waited, OneAtATime, Names, Archive, Sources
      PROVE  OneAtATime' /\ Names' /\ Archive' /\ Sources'
  <2>1. OneAtATime'
    BY <1>3 DEF IInv, TypeOK, OneAtATime, Live, Flying, FinishDownload
  <2>2. Names'
    BY <1>3, ConstantsAssumption DEF IInv, TypeOK, OneAtATime, Names, Live, Flying, FinishDownload
  <2>3. Archive'
    BY <1>3 DEF IInv, TypeOK, OneAtATime, Archive, Live, Flying, FinishDownload
  <2>4. Sources'
    BY <1>2, <1>3, ConstantsAssumption DEF IInv, TypeOK, OneAtATime, Names, Archive, Sources,
       Frugal, Live, Flying, FinishDownload
  <2> QED
    BY <2>1, <2>2, <2>3, <2>4
<1> QED
  BY <1>1, <1>2, <1>3 DEF IInv, Frugal

\* The transfer fails.
LEMMA FailedStep ==
    ASSUME IInv, NEW j \in Jobs, CompleteFailed(j)
    PROVE  IInv'
<1>1. Frugal
  BY KeepBudget, SpendBudget DEF IInv, TypeOK, BudgetType, CompleteFailed, OnDownloadDone
<1>2. TypeOK'
  BY <1>1 DEF IInv, TypeOK, Frugal, BudgetType, CompleteFailed, OnDownloadDone
<1>3. ASSUME Waited, OneAtATime, Names, Archive, Sources
      PROVE  OneAtATime' /\ Names' /\ Archive' /\ Sources'
  <2>1. OneAtATime'
    BY <1>3 DEF IInv, TypeOK, OneAtATime, Live, Flying, CompleteFailed, OnDownloadDone
  <2>2. Names'
    BY <1>1, <1>3, ConstantsAssumption DEF IInv, TypeOK, OneAtATime, Names, Frugal, Live, Flying,
       CompleteFailed, OnDownloadDone
  <2>3. Archive'
    BY <1>1, <1>3 DEF IInv, TypeOK, OneAtATime, Archive, Frugal, Live, Flying, CompleteFailed,
       OnDownloadDone
  <2>4. Sources'
    BY <1>1, <1>3, ConstantsAssumption DEF IInv, TypeOK, OneAtATime, Names, Archive, Sources,
       Frugal, Live, Flying, CompleteFailed, OnDownloadDone
  <2> QED
    BY <2>1, <2>2, <2>3, <2>4
<1> QED
  BY <1>1, <1>2, <1>3 DEF IInv, Frugal

\* What landed has the right size or is removed.
LEMMA CheckedStep ==
    ASSUME IInv, NEW j \in Jobs, CompleteChecked(j)
    PROVE  IInv'
<1>1. Frugal
  BY KeepBudget, SpendBudget DEF IInv, TypeOK, BudgetType, CompleteChecked, OnDownloadDone
<1>2. TypeOK'
  BY <1>1 DEF IInv, TypeOK, Frugal, BudgetType, CompleteChecked, OnDownloadDone
<1>3. ASSUME Waited, OneAtATime, Names, Archive, Sources
      PROVE  OneAtATime' /\ Names' /\ Archive' /\ Sources'
  <2>1. OneAtATime'
    BY <1>3 DEF IInv, TypeOK, OneAtATime, Live, Flying, CompleteChecked, OnDownloadDone
  <2>2. Names'
    BY <1>1, <1>3, ConstantsAssumption DEF IInv, TypeOK, OneAtATime, Names, Frugal, Live, Flying,
       CompleteChecked, OnDownloadDone
  <2>3. Archive'
    BY <1>1, <1>3 DEF IInv, TypeOK, OneAtATime, Archive, Frugal, Live, Flying, CompleteChecked,
       OnDownloadDone
  <2>4. Sources'
    BY <1>1, <1>3, ConstantsAssumption DEF IInv, TypeOK, OneAtATime, Names, Archive, Sources,
       Frugal, Live, Flying, CompleteChecked, OnDownloadDone
  <2> QED
    BY <2>1, <2>2, <2>3, <2>4
<1> QED
  BY <1>1, <1>2, <1>3 DEF IInv, Frugal

-----------------------------------------------------------------------------
(* The page's calls.                                                       *)

\* What a "gunzip" call does to the folder and the expansions keeps their types.
LEMMA GunzipTypes ==
    ASSUME TypeOK, GunzipCached \/ GunzipNoSource \/ GunzipStarted,
           page' \in {"boot", "download", "expanding"}, BudgetType'
    PROVE  TypeOK'
<1>1. CASE GunzipCached
  BY <1>1 DEF TypeOK, BudgetType, GunzipCached
<1>2. CASE GunzipNoSource
  BY <1>2 DEF TypeOK, BudgetType, GunzipNoSource, files
<1>3. CASE GunzipStarted
  <2>1. PICK t \in FreeTasks : task' = [task EXCEPT ![t].pc = "queued"]
    BY ZenonT(40), <1>3 DEF GunzipStarted
  <2>2. t \in Tasks /\ UNCHANGED <<gz, part, raw, len, job>>
    BY <1>3 DEF TypeOK, GunzipStarted, FreeTasks, files
  <2> QED
    BY <2>1, <2>2 DEF TypeOK, BudgetType
<1> QED
  BY <1>1, <1>2, <1>3

\* And a "download" call.
LEMMA DownloadTypes ==
    ASSUME TypeOK, DownloadCached \/ DownloadStarted,
           page' \in {"boot", "starting", "error"}, BudgetType'
    PROVE  TypeOK'
<1>1. CASE DownloadCached
  BY <1>1 DEF TypeOK, BudgetType, DownloadCached, files
<1>2. CASE DownloadStarted
  <2>1. PICK j \in FreeJobs : job' = [job EXCEPT ![j] = "transfer"]
    BY ZenonT(40), <1>2 DEF DownloadStarted
  <2>2. j \in Jobs /\ gz' = "none" /\ UNCHANGED <<part, raw, len, task>>
    BY <1>2 DEF TypeOK, DownloadStarted, FreeJobs
  <2> QED
    BY <2>1, <2>2 DEF TypeOK, BudgetType
<1> QED
  BY <1>1, <1>2

\* A call the page gave up on: nothing more is promised.
LEMMA LateStep ==
    ASSUME IInv, TypeOK', Spend("timeout")
    PROVE  IInv'
BY SpendBudget DEF IInv, TypeOK, BudgetType, Frugal

\* The page at rest, with nothing going on, starts an expansion and waits.
LEMMA GunzipStartedStep ==
    ASSUME IInv, TypeOK', page \in {"start", "expand"},
           GunzipStarted, page' = "expanding", UNCHANGED budget
    PROVE  IInv'
<1>1. Frugal
  BY KeepBudget DEF IInv, TypeOK, BudgetType
<1>2. ASSUME Waited, OneAtATime, Names, Archive, Sources
      PROVE  OneAtATime' /\ Names' /\ Archive' /\ Sources'
  <2>1. PICK t \in FreeTasks : task' = [task EXCEPT ![t].pc = "queued"]
    BY ZenonT(40) DEF GunzipStarted
  <2>2. /\ UNCHANGED <<gz, part, raw, len, job>>
        /\ t \in Tasks /\ task[t].pc = "unused" /\ raw = "none"
    BY DEF GunzipStarted, files, FreeTasks, IInv, TypeOK
  <2>3. \A u \in Tasks : ~Live(u)
    BY <1>2 DEF OneAtATime
  <2>4. \A u \in Tasks : task'[u].pc = IF u = t THEN "queued" ELSE task[u].pc
    BY <2>1, <2>2 DEF IInv, TypeOK
  <2>5. OneAtATime'
    BY <1>2, <2>2, <2>3, <2>4 DEF OneAtATime, Live, Flying
  <2>6. Names'
    BY <1>2, <2>2, <2>3, <2>4 DEF Names, Live
  <2>7. Archive'
    BY <1>2, <2>2 DEF Archive
  <2>8. \A u \in Tasks : task'[u].src = task[u].src
    BY <2>1, <2>2 DEF IInv, TypeOK
  <2>9. Sources'
    BY <1>2, <2>2, <2>3, <2>4, <2>8 DEF Sources, Live
  <2> QED
    BY <2>5, <2>6, <2>7, <2>9
<1> QED
  BY <1>1, <1>2 DEF IInv, Frugal

\* It finds the pack expanded, or nothing to expand.
LEMMA GunzipDoneStep ==
    ASSUME IInv, TypeOK', page \in {"start", "expand"},
           GunzipCached \/ GunzipNoSource, page' \in {"boot", "download"}, UNCHANGED budget
    PROVE  IInv'
<1>1. Frugal
  BY KeepBudget DEF IInv, TypeOK, BudgetType
<1>2. /\ gz' \in {gz, "none"}
      /\ UNCHANGED <<part, raw, len, task, job>>
  BY DEF GunzipCached, GunzipNoSource, files
<1>3. ASSUME Waited, OneAtATime, Names, Archive, Sources
      PROVE  OneAtATime' /\ Names' /\ Archive' /\ Sources'
  BY <1>2, <1>3 DEF OneAtATime, Names, Archive, Sources, Live, Flying
<1> QED
  BY <1>1, <1>3 DEF IInv, Frugal

\* It starts a download and waits for the answer.
LEMMA DownloadStartedStep ==
    ASSUME IInv, TypeOK', page = "download",
           DownloadStarted, page' = "starting", UNCHANGED budget
    PROVE  IInv'
<1>1. Frugal
  BY KeepBudget DEF IInv, TypeOK, BudgetType
<1>2. ASSUME Waited, OneAtATime, Names, Archive, Sources
      PROVE  OneAtATime' /\ Names' /\ Archive' /\ Sources'
  <2>1. PICK j \in FreeJobs : job' = [job EXCEPT ![j] = "transfer"]
    BY ZenonT(40) DEF DownloadStarted
  <2>2. /\ UNCHANGED <<part, raw, len, task>> /\ gz' = "none"
        /\ j \in Jobs /\ job[j] = "unused"
    BY DEF DownloadStarted, FreeJobs, IInv, TypeOK
  <2>3. \A k \in Jobs : ~Flying(k)
    BY <1>2 DEF OneAtATime
  <2>4. \A k \in Jobs : job'[k] = IF k = j THEN "transfer" ELSE job[k]
    BY <2>1, <2>2 DEF IInv, TypeOK
  <2>5. OneAtATime'
    BY <1>2, <2>2, <2>3, <2>4 DEF OneAtATime, Live, Flying
  <2>6. Names'
    BY <1>2, <2>2 DEF Names
  <2>7. Archive'
    BY <2>2 DEF Archive
  <2>8. Sources'
    BY <1>2, <2>2 DEF Sources
  <2> QED
    BY <2>5, <2>6, <2>7, <2>8
<1> QED
  BY <1>1, <1>2 DEF IInv, Frugal

\* Nothing happens but that the page moves on, from one place of rest to another.
LEMMA RestStep ==
    ASSUME IInv, TypeOK', page \notin {"expanding", "starting", "downloading"},
           UNCHANGED <<gz, raw, len, task, job, budget>>,
           part' = part \/ page = "off"
    PROVE  IInv'
<1>1. Frugal
  BY KeepBudget DEF IInv, TypeOK, BudgetType
<1>2. ASSUME Waited, OneAtATime, Names, Archive, Sources
      PROVE  OneAtATime' /\ Names' /\ Archive' /\ Sources'
  <2>1. \A t \in Tasks : ~Live(t)
    BY <1>2 DEF OneAtATime
  <2>2. \A j \in Jobs : ~Flying(j)
    BY <1>2 DEF OneAtATime
  <2>3. OneAtATime'
    BY <2>1, <2>2 DEF OneAtATime, Live, Flying
  <2>4. Names'
    BY <1>2, <2>1 DEF Names, Live
  <2>5. Archive' /\ Sources'
    BY <1>2 DEF Archive, Sources
  <2> QED
    BY <2>3, <2>4, <2>5
<1> QED
  BY <1>1, <1>2 DEF IInv, Frugal

\* The start of the download is answered and the page listens.
LEMMA ReplyStep ==
    ASSUME IInv, DownloadReply
    PROVE  IInv'
<1>1. CASE Spend("timeout")
  <2>1. BudgetType'
    BY <1>1, SpendBudget DEF IInv, TypeOK, BudgetType, Frugal
  <2>2. TypeOK'
    BY <2>1 DEF IInv, TypeOK, BudgetType, DownloadReply, files
  <2> QED
    BY <1>1, <2>2, LateStep
<1>2. CASE UNCHANGED budget /\ page' = "downloading"
  <2>1. /\ page = "starting"
        /\ UNCHANGED <<gz, part, raw, len, task, job>>
    BY DEF DownloadReply, files
  <2> QED
    BY <1>2, <2>1 DEF IInv, TypeOK, Bounds, Waited, OneAtATime, Names, Archive, Sources, Live,
       Flying
<1> QED
  BY <1>1, <1>2 DEF DownloadReply

\* ensureRootfs and expandPack, call by call.
LEMMA PageStep ==
    ASSUME IInv, Page
    PROVE  IInv'
<1>1. TypeOK /\ BudgetType /\ Bounds
  BY DEF IInv, TypeOK, BudgetType
<1>2. Spend("timeout") => BudgetType'
  BY <1>1, SpendBudget DEF Frugal
<1>3. UNCHANGED budget => BudgetType'
  BY <1>1 DEF BudgetType
<1>4. CASE ExpandFirst
  <2>1. CASE InTime(GunzipCached) /\ page' = "boot"
    BY <1>1, <1>3, <1>4, <2>1, GunzipTypes, GunzipDoneStep DEF ExpandFirst, InTime
  <2>2. CASE InTime(GunzipNoSource) /\ page' = "download"
    BY <1>1, <1>3, <1>4, <2>2, GunzipTypes, GunzipDoneStep DEF ExpandFirst, InTime
  <2>3. CASE InTime(GunzipStarted) /\ page' = "expanding"
    BY <1>1, <1>3, <1>4, <2>3, GunzipTypes, GunzipStartedStep DEF ExpandFirst, InTime
  <2>4. CASE LateReply(GunzipCached \/ GunzipNoSource \/ GunzipStarted) /\ page' = "download"
    BY <1>1, <1>2, <2>4, GunzipTypes, LateStep DEF LateReply
  <2> QED
    BY <1>4, <2>1, <2>2, <2>3, <2>4 DEF ExpandFirst
<1>5. CASE Download
  <2>1. CASE InTime(DownloadCached) /\ page' = "boot"
    BY <1>1, <1>3, <1>5, <2>1, DownloadTypes, RestStep DEF Download, InTime, DownloadCached, files
  <2>2. CASE InTime(DownloadStarted) /\ page' = "starting"
    BY <1>1, <1>3, <1>5, <2>2, DownloadTypes, DownloadStartedStep DEF Download, InTime
  <2>3. CASE LateReply(DownloadCached) /\ page' = "error"
    BY <1>1, <1>2, <2>3, DownloadTypes, LateStep DEF LateReply
  <2> QED
    BY <1>5, <2>1, <2>2, <2>3 DEF Download
<1>6. CASE ExpandDownloaded
  <2>1. CASE InTime(GunzipCached \/ GunzipNoSource) /\ page' = "boot"
    BY <1>1, <1>3, <1>6, <2>1, GunzipTypes, GunzipDoneStep DEF ExpandDownloaded, InTime
  <2>2. CASE InTime(GunzipStarted) /\ page' = "expanding"
    BY <1>1, <1>3, <1>6, <2>2, GunzipTypes, GunzipStartedStep DEF ExpandDownloaded, InTime
  <2>3. CASE LateReply(GunzipCached \/ GunzipNoSource \/ GunzipStarted) /\ page' = "boot"
    BY <1>1, <1>2, <2>3, GunzipTypes, LateStep DEF LateReply
  <2> QED
    BY <1>6, <2>1, <2>2, <2>3 DEF ExpandDownloaded
<1> QED
  BY <1>4, <1>5, <1>6, ReplyStep DEF Page

-----------------------------------------------------------------------------
(* The user and the system.                                                *)

\* The page is loaded again while the app works: nothing more is promised.
LEMMA ReloadStep ==
    ASSUME IInv, Reload
    PROVE  IInv'
<1>1. Frugal /\ ~Waited'
  BY SpendBudget DEF IInv, TypeOK, BudgetType, Reload
<1>2. TypeOK'
  BY <1>1 DEF IInv, TypeOK, Reload, Frugal, BudgetType, files
<1> QED
  BY <1>1, <1>2 DEF IInv, Frugal

\* The app is killed: its files stay, and nothing is at work.
LEMMA KillStep ==
    ASSUME IInv, Kill
    PROVE  IInv'
<1>1. Frugal /\ budget'.kill # MaxKills
  BY SpendBudget DEF IInv, TypeOK, BudgetType, Kill
<1>2. TypeOK'
  BY <1>1 DEF IInv, TypeOK, Kill, Frugal, BudgetType, files
<1>3. /\ \A t \in Tasks : task'[t].pc = IF task[t].pc = "unused" THEN "unused" ELSE "over"
      /\ \A j \in Jobs : job'[j] = IF job[j] = "unused" THEN "unused" ELSE "over"
      /\ UNCHANGED <<gz, part, raw, len>>
  BY DEF IInv, TypeOK, Kill, files
<1>4. ASSUME Waited, OneAtATime, Names, Archive, Sources
      PROVE  OneAtATime' /\ Names' /\ Archive' /\ Sources'
  <2>1. OneAtATime'
    BY <1>3 DEF OneAtATime, Live, Flying
  <2>2. Names'
    BY <1>3, <1>4 DEF Names, IInv, TypeOK
  <2>3. Archive' /\ Sources'
    BY <1>1, <1>3 DEF Archive, Sources
  <2> QED
    BY <2>1, <2>2, <2>3
<1> QED
  BY <1>1, <1>2, <1>4 DEF IInv, Frugal

\* A file is deleted.
LEMMA DeleteStep ==
    ASSUME IInv, Delete
    PROVE  IInv'
<1>1. Frugal /\ budget'.delete # MaxDeletes
  BY SpendBudget DEF IInv, TypeOK, BudgetType, Delete
<1>2. TypeOK'
  BY <1>1 DEF IInv, TypeOK, Delete, Frugal, BudgetType
<1>3. /\ gz' \in {gz, "none"} /\ raw' \in {raw, "none"}
      /\ UNCHANGED <<part, len, task, job, page>>
  BY DEF Delete
<1>4. ASSUME Waited, OneAtATime, Names, Archive, Sources
      PROVE  OneAtATime' /\ Names' /\ Archive' /\ Sources'
  <2>1. OneAtATime'
    BY <1>3, <1>4 DEF OneAtATime, Live, Flying
  <2>2. Names'
    BY <1>1, <1>3, <1>4 DEF Names
  <2>3. Archive' /\ Sources'
    BY <1>1, <1>3, <1>4 DEF Archive, Sources, Frugal
  <2> QED
    BY <2>1, <2>2, <2>3
<1> QED
  BY <1>1, <1>2, <1>4 DEF IInv, Frugal

\* The first launch.
LEMMA InitInv ==
    ASSUME Init
    PROVE  IInv
<1>1. TypeOK /\ Bounds
  BY ConstantsAssumption DEF Init, TypeOK, Bounds
<1>2. OneAtATime /\ Names /\ Archive /\ Sources
  BY DEF Init, OneAtATime, Names, Archive, Sources, Live, Flying
<1> QED
  BY <1>1, <1>2 DEF IInv

\* Every step keeps the invariant.
LEMMA NextInv ==
    ASSUME IInv, [Next]_vars
    PROVE  IInv'
<1>1. CASE Page
  BY <1>1, PageStep
<1>2. CASE \E t \in Tasks : Expansion(t)
  <2>1. PICK t \in Tasks : Expansion(t)
    BY <1>2
  <2> QED
    BY <2>1, BeginStep, WriteStep, ThrowsStep, EndStep, RemoveOldStep, RenameStep, DropStep,
       CatchStep DEF Expansion
<1>3. CASE \E j \in Jobs : Transfer(j)
  <2>1. PICK j \in Jobs : Transfer(j)
    BY <1>3
  <2> QED
    BY <2>1, FinishStep, FailedStep, CheckedStep DEF Transfer
<1>4. CASE BootAgain
  <2>1. TypeOK'
    BY <1>4 DEF IInv, TypeOK, BootAgain, files
  <2> QED
    BY <1>4, <2>1, RestStep DEF BootAgain, files
<1>5. CASE Launch
  <2>1. TypeOK'
    BY <1>5 DEF IInv, TypeOK, Launch
  <2> QED
    BY <1>5, <2>1, RestStep DEF Launch
<1>6. CASE UNCHANGED vars
  BY <1>6 DEF vars, IInv, TypeOK, Bounds, Waited, OneAtATime, Names, Archive, Sources, Live,
     Flying
<1> QED
  BY <1>1, <1>2, <1>3, <1>4, <1>5, <1>6, ReloadStep, KillStep, DeleteStep DEF Next

-----------------------------------------------------------------------------
(* The theorems.                                                           *)

\* The page waits for one expansion or one download at a time, and the names in
\* the imports folder are on the files they should be on, as long as it has
\* waited for what it started (emulator.js ensureRootfs, BinaryBridge.swift
\* gunzip and download, Downloader.swift).
THEOREM Invariance == Spec => []IInv
<1>1. Init => IInv
  BY InitInv
<1>2. IInv /\ [Next]_vars => IInv'
  BY NextInv
<1> QED
  BY <1>1, <1>2, PTL DEF Spec

\* The state of the folder, the expansions, the downloads and the page is well
\* typed, whatever the page waited for.
THEOREM TypeCorrect == Spec => []TypeOK
<1>1. IInv => TypeOK
  BY DEF IInv
<1> QED
  BY <1>1, Invariance, PTL

\* The final name is on a whole pack or on nothing at every step at which the
\* app can be killed, for any number of kills and launches, as long as the page
\* has waited for what it started (BinaryBridge.swift:55-63).
THEOREM FinalNameWhole == Spec => []RawIsWholeAlone
<1>1. IInv => RawIsWholeAlone
  BY DEF IInv, Names, RawIsWholeAlone, RawIsWhole
<1> QED
  BY <1>1, Invariance, PTL

\* A guest of an app that was not killed is never booted from an archive of the
\* wrong size, nor from the expansion of one (Downloader.swift:11-16).
THEOREM BootsWhole == Spec => []BootsWholePackUnkilled
<1>1. IInv => BootsWholePackUnkilled
  BY DEF IInv, Names, Archive, Sources, OneAtATime, Flying, TypeOK,
     BootsWholePackUnkilled, BootsWholePack
<1> QED
  BY <1>1, Invariance, PTL

\* A good archive is given up only for a whole expansion, when the user deletes
\* nothing and the page waits for what it starts (BinaryBridge.swift:49, 77;
\* Downloader.swift:80).
THEOREM ArchiveGivenUp == Spec => ArchiveKept
<1>1. ASSUME IInv, [Next]_vars
      PROVE  [gz = "good" /\ gz' = "none" /\ budget'.delete = MaxDeletes /\ Waited' =>
                 raw' # "none" /\ len[raw'] = Whole]_vars
  <2> SUFFICES ASSUME Next, gz = "good", gz' = "none", budget'.delete = MaxDeletes, Waited'
               PROVE  raw' # "none" /\ len[raw'] = Whole
    BY <1>1
  <2>1. IInv' /\ (raw' # "none" => len'[raw'] = Whole)
    BY <1>1, NextInv DEF IInv, Names
  <2>2. TypeOK /\ BudgetType /\ Bounds
    BY <1>1 DEF IInv, TypeOK, BudgetType
  <2>3. CASE Page
    <3>1. Spend("timeout") => ~Waited'
      BY <2>2, SpendBudget
    <3>2. GunzipCached
      BY <2>3, <3>1 DEF Page, ExpandFirst, Download, DownloadReply, ExpandDownloaded, InTime,
         LateReply,
         GunzipNoSource, GunzipStarted, DownloadCached, DownloadStarted, files
    <3> QED
      BY <2>1, <3>2 DEF GunzipCached
  <2>4. CASE \E t \in Tasks : Expansion(t)
    <3>1. PICK t \in Tasks : Expansion(t)
      BY <2>4
    <3>2. ExpandDropArchive(t)
      BY <3>1 DEF Expansion, ExpandBegin, ExpandWrite, ExpandThrows, ExpandEnd, ExpandRemoveOld,
         ExpandRename, ExpandCatch, files
    <3>3. UNCHANGED <<raw, len, budget>> /\ task[t].pc = "drop"
      BY <3>2 DEF ExpandDropArchive
    <3>4. Waited /\ budget.delete = MaxDeletes
      BY <3>3 DEF Waited
    <3> QED
      BY <1>1, <2>1, <3>3, <3>4 DEF IInv, Names
  <2>5. CASE \E j \in Jobs : Transfer(j)
    <3>1. PICK j \in Jobs : Transfer(j)
      BY <2>5
    <3>2. job[j] = "transfer" /\ (UNCHANGED budget \/ Spend("early"))
      BY ZenonT(40), <3>1 DEF Transfer, FinishDownload, CompleteFailed, CompleteChecked,
         OnDownloadDone
    <3>3. Waited
      BY <2>2, <3>2, KeepBudget, SpendBudget DEF Frugal
    <3> QED
      BY <1>1, <3>2, <3>3 DEF IInv, Archive
  <2>6. CASE Delete
    BY <2>2, <2>6, SpendBudget DEF Delete
  <2>7. CASE BootAgain \/ Reload \/ Kill \/ Launch
    BY <2>7 DEF BootAgain, Reload, Kill, Launch, files
  <2> QED
    BY <2>3, <2>4, <2>5, <2>6, <2>7 DEF Next
<1> QED
  BY <1>1, Invariance, PTL DEF Spec, ArchiveKept
=============================================================================
