------------------------------- MODULE VfsDisk ------------------------------
(***************************************************************************)
(* kernel/vfs.js over kernel/bridge.js and FilesBridge.swift: the page's    *)
(* file tree, loaded once with retries, saved on a debounced timer, against *)
(* a host that may answer late, fail, or outlive the page.                 *)
(***************************************************************************)
EXTENDS Integers, Sequences, FiniteSets

CONSTANTS File,         \* paths of the tree
          Tries,        \* 3: attempts to read the disk
          MaxWrites,    \* bound: writes and removals
          MaxTimeouts,  \* bound: reads the host answers after 4 s
          MaxReadErrs,  \* bound: reads of the disk that fail
          MaxWriteErrs, \* bound: writes of the disk that fail
          MaxDeaths     \* bound: times the page dies and is started again

ASSUME VfsDiskAssumption ==
    /\ Tries \in Nat \ {0}
    /\ {MaxWrites, MaxTimeouts, MaxReadErrs, MaxWriteErrs, MaxDeaths} \subseteq Nat

VARIABLES disk,      \* the disk file: [kind, files]
          page,      \* "off", "loading", "up"
          attempt, readOnly, timer,
          tree,      \* path -> the number of the write that made its content, or 0
          msgs,      \* calls on their way to the host, in order
          removed,   \* history: paths the user removed
          dirty,     \* history: the page has changed the tree it may save
          budget

vars == <<disk, page, attempt, tree, readOnly, timer, msgs, removed, dirty, budget>>

Empty == [f \in File |-> 0]
Absent == [kind |-> "absent", files |-> Empty]
Garbled == [kind |-> "garbled", files |-> Empty]
Tree(fs) == [kind |-> "tree", files |-> fs]

\* The number of the next write; 1 is what was there before the first.
Stamp == MaxWrites - budget.write + 2

Spend(b) == budget[b] > 0 /\ budget' = [budget EXCEPT ![b] = @ - 1]

Init ==
    /\ disk \in {Absent, Garbled} \cup {Tree(fs) : fs \in [File -> 0..1]}
    /\ page = "off" /\ attempt = 0 /\ tree = Empty /\ readOnly = FALSE /\ timer = FALSE
    /\ msgs = <<>> /\ removed = {} /\ dirty = FALSE
    /\ budget = [write |-> MaxWrites, timeout |-> MaxTimeouts, readerr |-> MaxReadErrs,
                 writeerr |-> MaxWriteErrs, death |-> MaxDeaths]

-----------------------------------------------------------------------------
(* The page.                                                               *)

Read(n) == [op |-> "read", attempt |-> n]
SaveOf(fs) == [op |-> "write", files |-> fs]

\* A page starts with the default tree and loads the disk, after the host has
\* handled what it received from the page before.
Start ==
    /\ page = "off"
    /\ msgs = <<>>
    /\ page' = "loading"
    /\ attempt' = 1
    /\ tree' = Empty /\ readOnly' = FALSE /\ timer' = FALSE
    /\ msgs' = Append(msgs, Read(1))
    /\ UNCHANGED <<disk, removed, dirty, budget>>

\* The host has not answered in time.
Timeout ==
    /\ page = "loading"
    /\ Spend("timeout")
    /\ IF attempt < Tries
       THEN /\ attempt' = attempt + 1
            /\ msgs' = Append(msgs, Read(attempt + 1))
            /\ UNCHANGED <<page, readOnly>>
       ELSE /\ page' = "up"
            /\ readOnly' = TRUE
            /\ UNCHANGED <<attempt, msgs>>
    /\ UNCHANGED <<disk, tree, timer, removed, dirty>>

\* Mutant: saving before the disk has been read.
SaveEarly == timer' = (timer \/ ~readOnly)

\* Mutant: no save while one is on its way.
SaveUnlessBusy == timer' = (timer \/ (page = "up" /\ ~readOnly /\ msgs = <<>>))

\* save: nothing before the disk was read or when it could not be.
Save == timer' = (timer \/ (page = "up" /\ ~readOnly))

\* A change of a tree that may be saved.
Changes == dirty' = (dirty \/ (page = "up" /\ ~readOnly))

\* Mutant: write does not save.
WriteNoSave(f) ==
    /\ page # "off"
    /\ f \notin removed
    /\ Spend("write")
    /\ tree' = [tree EXCEPT ![f] = Stamp]
    /\ Changes
    /\ UNCHANGED <<disk, page, attempt, readOnly, timer, msgs, removed>>

\* write or mkdir.  (bound: a removed path is not written again.)
Write(f) ==
    /\ page # "off"
    /\ f \notin removed
    /\ Spend("write")
    /\ tree' = [tree EXCEPT ![f] = Stamp]
    /\ Changes
    /\ Save
    /\ UNCHANGED <<disk, page, attempt, readOnly, msgs, removed>>

Remove(f) ==
    /\ page # "off"
    /\ tree[f] # 0
    /\ Spend("write")
    /\ tree' = [tree EXCEPT ![f] = 0]
    /\ removed' = removed \cup {f}
    /\ Changes
    /\ Save
    /\ UNCHANGED <<disk, page, attempt, readOnly, msgs>>

\* The debounced save: the tree as it is now.
TimerFires ==
    /\ timer
    /\ timer' = FALSE
    /\ msgs' = Append(msgs, SaveOf(tree))
    /\ UNCHANGED <<disk, page, attempt, tree, readOnly, removed, dirty, budget>>

\* iPadOS ends the page; the calls the host has received are still handled.
Dies ==
    /\ page # "off"
    /\ Spend("death")
    /\ page' = "off"
    /\ timer' = FALSE
    /\ dirty' = FALSE
    /\ \E n \in 0..Len(msgs) : msgs' = SubSeq(msgs, 1, n)
    /\ UNCHANGED <<disk, attempt, tree, readOnly, removed>>

-----------------------------------------------------------------------------
(* The host, one call at a time.                                           *)

Handles(op) == msgs # <<>> /\ Head(msgs).op = op /\ msgs' = Tail(msgs)

\* load, on the answer d: a tree replaces the page's own, null leaves it, and
\* what cannot be parsed makes the session read-only.
Loaded(d) ==
    /\ page' = "up"
    /\ tree' = IF d.kind = "tree" THEN d.files ELSE tree
    /\ readOnly' = (d.kind = "garbled")

\* "read" answers null when there is no file and when it cannot be read; an
\* answer nobody waits for any more is dropped.
HostReads ==
    /\ Handles("read")
    /\ IF page = "loading" /\ Head(msgs).attempt = attempt
       THEN \/ Loaded(disk) /\ UNCHANGED budget
            \/ Loaded(Absent) /\ Spend("readerr")
       ELSE UNCHANGED <<page, tree, readOnly, budget>>
    /\ UNCHANGED <<disk, attempt, timer, removed, dirty>>

\* "write" replaces the file or, failing, leaves it.
HostWrites ==
    /\ Handles("write")
    /\ \/ /\ disk' = Tree(Head(msgs).files)
          /\ UNCHANGED budget
       \/ Spend("writeerr") /\ UNCHANGED disk
    /\ UNCHANGED <<page, attempt, tree, readOnly, timer, removed, dirty>>

Next ==
    \/ Start \/ Timeout \/ TimerFires \/ Dies \/ HostReads \/ HostWrites
    \/ \E f \in File : Write(f) \/ Remove(f)

Spec == Init /\ [][Next]_vars

\* Timers fire and the host handles its calls.
FairSpec == Spec /\ WF_vars(Start) /\ WF_vars(TimerFires) /\ WF_vars(HostReads \/ HostWrites)

-----------------------------------------------------------------------------
Contents == [File -> Nat]
Calls == [op : {"read"}, attempt : 1..Tries] \cup [op : {"write"}, files : Contents]

TypeOK ==
    /\ disk \in {Absent, Garbled} \cup {Tree(fs) : fs \in Contents}
    /\ page \in {"off", "loading", "up"}
    /\ attempt \in 0..Tries
    /\ tree \in Contents /\ removed \subseteq File
    /\ readOnly \in BOOLEAN /\ timer \in BOOLEAN /\ dirty \in BOOLEAN
    /\ msgs \in Seq(Calls)
    /\ budget \in [{"write", "timeout", "readerr", "writeerr", "death"} -> Nat]

\* What is kept of a tree: paths the user did not remove, with this content or a
\* newer one.
Below(old, new) == \A f \in File \ removed : old[f] <= new[f]

\* Steps of the disk that lose nothing the user did not remove, put back no older
\* content, and leave alone what could not be parsed.
Kept ==
    /\ disk.kind = "garbled" => disk' = disk
    /\ disk.kind = "tree" => Below(disk.files, disk'.files)

\* A save never destroys what is on the disk.  "If the disk can't be read or
\* parsed, this session doesn't save at all rather than destroy it"
\* (vfs.js 29-30).
DiskNotDestroyed == [][Kept]_disk

\* As long as the host can read the file, no save destroys it, whatever was
\* late, failed or died, and whenever the user wrote (vfs.js 33-58).
ReadableDiskKept == [][budget.readerr = MaxReadErrs => Kept]_disk

\* What is in a tree that was changed after it was loaded reaches the disk, in
\* this or a newer content, unless it is removed, the page dies first or the
\* host's write fails (vfs.js 50-58).
WritesReachDisk ==
    \A f \in File, n \in 1..(MaxWrites + 1) :
        dirty /\ tree[f] = n ~>
            disk.files[f] >= n \/ f \in removed \/ ~dirty \/ budget.writeerr < MaxWriteErrs

\* When nothing is on its way, the disk is the tree of a page that has changed it
\* since it was loaded: the timer is set again for every change, and no older
\* save overtakes a newer one (vfs.js 50-58).
SettledIsSaved ==
    page = "up" /\ dirty /\ ~timer /\ msgs = <<>> /\ budget.writeerr = MaxWriteErrs =>
        disk = Tree(tree)
=============================================================================
