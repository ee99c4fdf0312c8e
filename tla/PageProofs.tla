----------------------------- MODULE PageProofs -----------------------------
(***************************************************************************)
(* The page's file tree, its viewer of the guest's display and its reads of *)
(* a pack, for any numbers of files, sessions, faults and bytes.  The three *)
(* components share no state; each has a section of its own.               *)
(***************************************************************************)
EXTENDS VfsDisk, GuiSession, SyncRange, TLAPS

\* The provers a leaf is tried with, one after the other, and for how long.
USE SMTT(40), Z3T(40), ZenonT(40)

-----------------------------------------------------------------------------
(* The file tree.                                                          *)

\* No call from the n-th on is a save.
NoSave(q, n) == \A i \in n..Len(q) : q[i].op # "write"

\* Nothing is newer than the last write.
Aged(fs) == \A f \in File : fs[f] < Stamp

VfsBounds ==
    /\ budget.write <= MaxWrites
    /\ budget.readerr <= MaxReadErrs /\ budget.writeerr <= MaxWriteErrs
    /\ Aged(tree) /\ Aged(disk.files)
    /\ \A i \in 1..Len(msgs) : msgs[i].op = "write" => Aged(msgs[i].files)

\* Only a page that has loaded its tree and may save it has a timer set, and a
\* page that loads has no save of its predecessor before it.
Stages ==
    /\ page # "up" => ~timer /\ ~dirty
    /\ page = "loading" => NoSave(msgs, 1)
    /\ readOnly => ~timer /\ ~dirty

\* The newest tree is in the timer's hands, in the last save under way, or on
\* the disk with no save behind it.
Newest ==
    page = "up" /\ dirty /\ ~timer /\ budget.writeerr = MaxWriteErrs =>
        \/ disk = Tree(tree) /\ NoSave(msgs, 1)
        \/ \E i \in 1..Len(msgs) : msgs[i] = SaveOf(tree) /\ NoSave(msgs, i + 1)

\* The disk, the saves under way in their order, and the tree that may be saved
\* keep ever more, and none of them is there over a disk that was not parsed.
Order ==
    /\ \A i \in 1..Len(msgs) : msgs[i].op = "write" =>
          disk.kind # "garbled" /\ Below(disk.files, msgs[i].files)
    /\ \A i, j \in 1..Len(msgs) : i < j /\ msgs[i].op = "write" /\ msgs[j].op = "write" =>
          Below(msgs[i].files, msgs[j].files)
    /\ page = "up" /\ ~readOnly =>
          /\ disk.kind # "garbled" /\ Below(disk.files, tree)
          /\ \A i \in 1..Len(msgs) : msgs[i].op = "write" => Below(msgs[i].files, tree)

\* The inductive invariant of the file tree.
VfsInv ==
    /\ TypeOK /\ VfsBounds /\ Stages /\ Newest
    /\ budget.readerr = MaxReadErrs => Order

\* What a queue holds after a call is added.
LEMMA Appended ==
    ASSUME NEW S, NEW q \in Seq(S), NEW m \in S
    PROVE  /\ Append(q, m) \in Seq(S) /\ Len(Append(q, m)) = Len(q) + 1 /\ Len(q) \in Nat
           /\ \A i \in 1..Len(q) : Append(q, m)[i] = q[i]
           /\ Append(q, m)[Len(q) + 1] = m
OBVIOUS

\* What a queue holds after the host takes a call.
LEMMA Tailed ==
    ASSUME NEW S, NEW q \in Seq(S), q # <<>>
    PROVE  /\ Tail(q) \in Seq(S) /\ Len(q) \in Nat \ {0} /\ Len(Tail(q)) = Len(q) - 1
           /\ \A i \in 1..(Len(q) - 1) : Tail(q)[i] = q[i + 1]
           /\ Head(q) = q[1] /\ Head(q) \in S
OBVIOUS

\* The invariant holds of a page that was never started.
LEMMA VfsStarts == Init => VfsInv
<1> SUFFICES ASSUME Init PROVE VfsInv
  OBVIOUS
<1>1. /\ page = "off" /\ attempt = 0 /\ tree = Empty /\ readOnly = FALSE /\ timer = FALSE
      /\ msgs = <<>> /\ removed = {} /\ dirty = FALSE
      /\ budget = [write |-> MaxWrites, timeout |-> MaxTimeouts, readerr |-> MaxReadErrs,
                   writeerr |-> MaxWriteErrs, death |-> MaxDeaths]
  BY DEF Init
<1>2. /\ Tries \in Nat /\ MaxWrites \in Nat /\ MaxTimeouts \in Nat /\ MaxReadErrs \in Nat
      /\ MaxWriteErrs \in Nat /\ MaxDeaths \in Nat
  BY VfsDiskAssumption
<1>3. budget \in [{"write", "timeout", "readerr", "writeerr", "death"} -> Nat]
  BY <1>1, <1>2
<1>4. disk \in {Absent, Garbled} \cup {Tree(fs) : fs \in [File -> 0..1]}
  BY DEF Init
<1>5. /\ disk \in {Absent, Garbled} \cup {Tree(fs) : fs \in Contents}
      /\ \A f \in File : disk.files[f] \in 0..1
  BY <1>4 DEF Absent, Garbled, Tree, Empty, Contents
<1>6. Stamp = 2 /\ Empty \in Contents /\ \A f \in File : tree[f] = 0
  BY <1>1, <1>2 DEF Stamp, Empty, Contents
<1>7. Len(msgs) = 0 /\ msgs \in Seq(Calls)
  BY <1>1
<1>8. TypeOK
  <2>1. attempt \in 0..Tries /\ removed \subseteq File
    BY <1>1, <1>2
  <2>2. readOnly \in BOOLEAN /\ timer \in BOOLEAN /\ dirty \in BOOLEAN
    BY <1>1, ZenonT(40)
  <2>3. page \in {"off", "loading", "up"} /\ tree \in Contents
    BY <1>1, <1>6
  <2> QED
    BY <2>1, <2>2, <2>3, <1>3, <1>5, <1>7, Zenon DEF TypeOK
<1>9. VfsBounds
  BY <1>1, <1>2, <1>5, <1>6, <1>7 DEF VfsBounds, Aged
<1> QED
  BY <1>1, <1>7, <1>8, <1>9 DEF VfsInv, Stages, Newest, Order, NoSave

Budgets == {"write", "timeout", "readerr", "writeerr", "death"}

\* One unit of a budget is spent.
LEMMA Spent ==
    ASSUME budget \in [Budgets -> Nat], NEW b \in Budgets, Spend(b)
    PROVE  /\ budget' \in [Budgets -> Nat]
           /\ budget[b] > 0 /\ budget'[b] = budget[b] - 1
           /\ \A c \in Budgets \ {b} : budget'[c] = budget[c]
BY DEF Spend, Budgets

\* The calls: what is on its way is a read or a save of some tree.
LEMMA CallTypes ==
    /\ \A n \in 1..Tries : Read(n) \in Calls /\ Read(n).op = "read"
    /\ \A fs \in Contents : /\ SaveOf(fs) \in Calls
                                /\ SaveOf(fs).op = "write" /\ SaveOf(fs).files = fs
    /\ \A m \in Calls : m.op = "write" => m.files \in Contents /\ m = SaveOf(m.files)
BY DEF Calls, Read, SaveOf

\* The disks: a tree, or nothing to keep.
LEMMA DiskTypes ==
    ASSUME TypeOK
    PROVE  /\ disk.files \in Contents
           /\ disk.kind \in {"absent", "garbled", "tree"}
           /\ disk.kind # "tree" => disk.files = Empty
           /\ disk.kind = "tree" => disk = Tree(disk.files)
<1>1. Empty \in Contents
  BY DEF Empty, Contents
<1> QED
  BY <1>1 DEF TypeOK, Absent, Garbled, Tree

\* A page that starts has no save before it and an empty tree.
LEMMA VfsStart == VfsInv /\ Start => VfsInv'
<1> SUFFICES ASSUME VfsInv, Start PROVE VfsInv'
  OBVIOUS
<1>1. /\ page = "off" /\ msgs = <<>> /\ page' = "loading" /\ attempt' = 1
      /\ tree' = Empty /\ readOnly' = FALSE /\ timer' = FALSE
      /\ msgs' = Append(msgs, Read(1))
      /\ disk' = disk /\ removed' = removed /\ dirty' = dirty /\ budget' = budget
  BY DEF Start
<1>2. TypeOK /\ VfsBounds /\ Stages
  BY DEF VfsInv
<1>3. Tries \in Nat /\ 1 \in 1..Tries /\ MaxWrites \in Nat
  BY VfsDiskAssumption
<1>4. msgs' \in Seq(Calls) /\ Len(msgs') = 1 /\ msgs'[1].op = "read"
  <2>1. Read(1) \in Calls /\ Read(1).op = "read"
    BY <1>3, CallTypes
  <2> QED
    BY <1>1, <2>1
<1>5. TypeOK'
  <2>1. Empty \in Contents
    BY DEF Empty, Contents
  <2>2. attempt' \in 0..Tries
    BY <1>1, <1>3
  <2> QED
    BY <1>1, <1>2, <1>4, <2>1, <2>2, Zenon DEF TypeOK
<1>6. VfsBounds'
  <2>1. budget.write \in Nat /\ budget.write <= MaxWrites
    BY <1>2 DEF TypeOK, VfsBounds
  <2>2. Stamp' = Stamp /\ Stamp >= 2
    BY <1>1, <1>3, <2>1 DEF Stamp
  <2>3. Stamp \in Int
    BY <1>3, <2>1 DEF Stamp
  <2>4. Aged(tree)'
    BY <1>1, <2>2, <2>3 DEF Aged, Empty
  <2>5. Aged(disk.files)'
    BY <1>1, <1>2, <2>2 DEF Aged, VfsBounds
  <2> QED
    BY <1>1, <1>2, <1>4, <2>4, <2>5 DEF VfsBounds
<1>7. Stages' /\ Newest' /\ Order'
  BY <1>1, <1>2, <1>4 DEF Stages, Newest, Order, NoSave
<1> QED
  BY <1>5, <1>6, <1>7 DEF VfsInv

\* A read that is late is followed by another, or ends in a page that may not
\* save.
LEMMA VfsTimeout == VfsInv /\ Timeout => VfsInv'
<1> SUFFICES ASSUME VfsInv, Timeout PROVE VfsInv'
  OBVIOUS
<1>1. /\ page = "loading" /\ Spend("timeout")
      /\ disk' = disk /\ tree' = tree /\ timer' = timer /\ removed' = removed /\ dirty' = dirty
  BY DEF Timeout
<1>2. TypeOK /\ VfsBounds /\ Stages
  BY DEF VfsInv
<1>3. Tries \in Nat /\ MaxWrites \in Nat /\ attempt \in 0..Tries
  BY <1>2, VfsDiskAssumption DEF TypeOK
<1>4. /\ budget' \in [Budgets -> Nat] /\ budget'.write = budget.write
      /\ budget'.readerr = budget.readerr /\ budget'.writeerr = budget.writeerr
  BY <1>1, <1>2, Spent DEF TypeOK, Budgets
<1>5. /\ msgs' \in Seq(Calls) /\ NoSave(msgs', 1) /\ attempt' \in 0..Tries
      /\ readOnly' \in BOOLEAN
      /\ \/ page' = "loading" /\ readOnly' = readOnly
         \/ page' = "up" /\ readOnly' = TRUE
  <2>1. msgs \in Seq(Calls) /\ NoSave(msgs, 1) /\ readOnly \in BOOLEAN
    BY <1>1, <1>2 DEF TypeOK, Stages
  <2>2. CASE attempt < Tries
    <3>1. /\ attempt' = attempt + 1 /\ msgs' = Append(msgs, Read(attempt + 1))
          /\ page' = page /\ readOnly' = readOnly
      BY <2>2 DEF Timeout
    <3>2. attempt + 1 \in 1..Tries
      BY <2>2, <1>3
    <3>3. Read(attempt + 1) \in Calls /\ Read(attempt + 1).op = "read"
      BY <3>2, CallTypes
    <3>4. /\ msgs' \in Seq(Calls) /\ Len(msgs') = Len(msgs) + 1 /\ Len(msgs) \in Nat
          /\ \A i \in 1..Len(msgs) : msgs'[i] = msgs[i]
          /\ msgs'[Len(msgs) + 1].op = "read"
      BY <3>1, <3>3, <2>1, Appended
    <3>5. NoSave(msgs', 1)
      BY <3>4, <2>1 DEF NoSave
    <3> QED
      BY <3>1, <3>2, <3>4, <3>5, <2>1, <1>1, <1>3
  <2>3. CASE ~(attempt < Tries)
    <3>1. page' = "up" /\ readOnly' = TRUE /\ attempt' = attempt /\ msgs' = msgs
      BY <2>3 DEF Timeout
    <3> QED
      BY <3>1, <2>1, <1>3
  <2> QED
    BY <2>2, <2>3, ZenonT(40)
<1>6. TypeOK'
  <2>1. page' \in {"off", "loading", "up"}
    BY <1>5
  <2> QED
    BY <1>1, <1>2, <1>4, <1>5, <2>1, Zenon DEF TypeOK, Budgets
<1>7. VfsBounds'
  <2>1. Stamp' = Stamp
    BY <1>4 DEF Stamp
  <2>2. \A i \in 1..Len(msgs') : msgs'[i].op # "write"
    BY <1>5 DEF NoSave
  <2> QED
    BY <1>1, <1>2, <1>4, <2>1, <2>2 DEF VfsBounds, Aged
<1>8. ~timer' /\ ~dirty'
  BY <1>1, <1>2 DEF Stages
<1>9. Stages' /\ Newest' /\ Order'
  BY <1>5, <1>8 DEF Stages, Newest, Order, NoSave
<1> QED
  BY <1>6, <1>7, <1>9 DEF VfsInv

\* A changed tree is the timer's, and no path that is still there gets older.
LEMMA VfsChange ==
    ASSUME VfsInv, NEW f \in File, Write(f) \/ Remove(f)
    PROVE  VfsInv'
<1>1. /\ page # "off" /\ Spend("write") /\ Changes /\ Save
      /\ disk' = disk /\ page' = page /\ attempt' = attempt /\ readOnly' = readOnly
      /\ msgs' = msgs
      /\ \/ tree' = [tree EXCEPT ![f] = Stamp] /\ removed' = removed
         \/ tree' = [tree EXCEPT ![f] = 0] /\ removed' = removed \cup {f}
  BY DEF Write, Remove
<1>2. TypeOK /\ VfsBounds /\ Stages
  BY DEF VfsInv
<1>3. /\ budget \in [Budgets -> Nat] /\ budget' \in [Budgets -> Nat]
      /\ budget.write > 0 /\ budget'.write = budget.write - 1
      /\ budget'.readerr = budget.readerr /\ budget'.writeerr = budget.writeerr
  BY <1>1, <1>2, Spent DEF TypeOK, Budgets
<1>4. /\ MaxWrites \in Nat /\ budget.write \in Nat /\ budget.write <= MaxWrites
      /\ Stamp \in Nat /\ Stamp' = Stamp + 1 /\ Stamp >= 2
  <2>1. MaxWrites \in Nat /\ budget.write \in Nat /\ budget.write <= MaxWrites
    BY <1>2, <1>3, VfsDiskAssumption DEF VfsBounds, Budgets
  <2> QED
    BY <2>1, <1>3 DEF Stamp
<1>5. /\ tree \in [File -> Nat] /\ tree' \in [File -> Nat]
      /\ \A g \in File \ {f} : tree'[g] = tree[g]
      /\ \/ tree'[f] = Stamp /\ removed' = removed
         \/ tree'[f] = 0 /\ removed' = removed \cup {f}
  <2>1. tree \in [File -> Nat]
    BY <1>2 DEF TypeOK, Contents
  <2>2. PICK n \in Nat : /\ tree' = [tree EXCEPT ![f] = n]
                         /\ \/ n = Stamp /\ removed' = removed
                            \/ n = 0 /\ removed' = removed \cup {f}
    BY <1>1, <1>4
  <2>3. tree' \in [File -> Nat] /\ tree'[f] = n /\ \A g \in File \ {f} : tree'[g] = tree[g]
    BY <2>1, <2>2
  <2> QED
    BY <2>1, <2>2, <2>3
<1>6. /\ timer \in BOOLEAN /\ dirty \in BOOLEAN /\ readOnly \in BOOLEAN
      /\ timer' = (timer \/ (page = "up" /\ ~readOnly))
      /\ dirty' = (dirty \/ (page = "up" /\ ~readOnly))
  BY <1>1, <1>2 DEF TypeOK, Changes, Save
<1>7. /\ disk.files \in [File -> Nat]
      /\ \A i \in 1..Len(msgs) : msgs[i].op = "write" => msgs[i].files \in [File -> Nat]
  <2>1. \A i \in 1..Len(msgs) : msgs[i] \in Calls
    BY <1>2 DEF TypeOK
  <2> QED
    BY <1>2, <2>1, DiskTypes, CallTypes DEF Contents
<1>8. TypeOK'
  <2>1. removed' \subseteq File
    BY <1>2, <1>5 DEF TypeOK
  <2>2. timer' \in BOOLEAN /\ dirty' \in BOOLEAN
    BY <1>6
  <2> QED
    BY <1>1, <1>2, <1>3, <1>5, <2>1, <2>2, Zenon DEF TypeOK, Contents, Budgets
<1>9. VfsBounds'
  <2>1. Aged(tree)'
    BY <1>2, <1>4, <1>5 DEF VfsBounds, Aged
  <2>2. Aged(disk.files)'
    BY <1>1, <1>2, <1>4, <1>7 DEF VfsBounds, Aged
  <2>3. ASSUME NEW i \in 1..Len(msgs), msgs[i].op = "write"
        PROVE  \A g \in File : msgs[i].files[g] < Stamp'
    BY <1>2, <1>4, <1>7, <2>3 DEF VfsBounds, Aged
  <2>4. \A i \in 1..Len(msgs') : msgs'[i].op = "write" => Aged(msgs[i].files)'
    BY <1>1, <2>3 DEF Aged
  <2>5. /\ budget'.write <= MaxWrites
        /\ budget'.readerr <= MaxReadErrs /\ budget'.writeerr <= MaxWriteErrs
    BY <1>2, <1>3, <1>4 DEF VfsBounds
  <2> QED
    BY <2>1, <2>2, <2>4, <2>5 DEF VfsBounds
<1>10. Stages'
  BY <1>1, <1>2, <1>6 DEF Stages, NoSave
<1>11. Newest'
  \* A page that is up has its timer set, or may not save.
  <2>1. ~timer' /\ page' = "up" => readOnly
    BY <1>1, <1>6, ZenonT(40)
  <2>2. readOnly => ~dirty'
    BY <1>2, <1>6 DEF Stages
  <2> QED
    BY <2>1, <2>2 DEF Newest
<1>12. ASSUME budget'.readerr = MaxReadErrs PROVE Order'
  <2>1. Order
    BY <1>3, <1>12 DEF VfsInv
  <2>2. \A g \in File \ removed' : g \in File \ removed
    BY <1>5
  <2>3. /\ \A i \in 1..Len(msgs') : msgs'[i].op = "write" =>
             disk'.kind # "garbled" /\ Below(disk.files, msgs[i].files)'
        /\ \A i, j \in 1..Len(msgs') : i < j /\ msgs'[i].op = "write" /\ msgs'[j].op = "write" =>
             Below(msgs[i].files, msgs[j].files)'
    BY <1>1, <2>1, <2>2 DEF Order, Below
  <2>4. ASSUME NEW fs \in [File -> Nat], Below(fs, tree), Aged(fs), NEW g \in File \ removed'
        PROVE  fs[g] <= tree'[g]
    <3>1. fs[g] <= tree[g] /\ fs[g] < Stamp /\ fs[g] \in Nat
      BY <2>2, <2>4 DEF Below, Aged
    <3>2. tree'[g] = tree[g] \/ tree'[g] = Stamp
      BY <1>5
    <3> QED
      BY <1>4, <3>1, <3>2
  <2>5. ASSUME page' = "up", ~readOnly' PROVE \A g \in File \ removed' : disk.files[g] <= tree'[g]
    <3>1. Below(disk.files, tree) /\ Aged(disk.files)
      BY <1>1, <1>2, <2>1, <2>5 DEF Order, VfsBounds
    <3> QED
      BY <1>7, <2>4, <3>1
  <2>6. ASSUME page' = "up", ~readOnly', NEW i \in 1..Len(msgs), msgs[i].op = "write"
        PROVE  \A g \in File \ removed' : msgs[i].files[g] <= tree'[g]
    <3>1. Below(msgs[i].files, tree) /\ Aged(msgs[i].files)
      BY <1>1, <1>2, <2>1, <2>6 DEF Order, VfsBounds
    <3> QED
      BY <1>7, <2>4, <2>6, <3>1
  <2>7. page' = "up" /\ ~readOnly' =>
            /\ disk'.kind # "garbled" /\ Below(disk.files, tree)'
            /\ \A i \in 1..Len(msgs') : msgs'[i].op = "write" => Below(msgs[i].files, tree)'
    BY <1>1, <2>1, <2>5, <2>6 DEF Order, Below
  <2> QED
    BY <2>3, <2>7 DEF Order
<1> QED
  BY <1>8, <1>9, <1>10, <1>11, <1>12 DEF VfsInv

\* The save the timer sends is the newest tree, behind every older save.
LEMMA VfsTimer == VfsInv /\ TimerFires => VfsInv'
<1> SUFFICES ASSUME VfsInv, TimerFires PROVE VfsInv'
  OBVIOUS
<1>1. /\ timer /\ timer' = FALSE /\ msgs' = Append(msgs, SaveOf(tree))
      /\ disk' = disk /\ page' = page /\ attempt' = attempt /\ tree' = tree
      /\ readOnly' = readOnly /\ removed' = removed /\ dirty' = dirty /\ budget' = budget
  BY DEF TimerFires
<1>2. TypeOK /\ VfsBounds /\ Stages
  BY DEF VfsInv
<1>3. page = "up" /\ ~readOnly
  BY <1>1, <1>2 DEF Stages, TypeOK
<1>4. /\ SaveOf(tree) \in Calls
      /\ SaveOf(tree).op = "write" /\ SaveOf(tree).files = tree
  BY <1>2, CallTypes DEF TypeOK
<1>5. /\ msgs' \in Seq(Calls) /\ Len(msgs') = Len(msgs) + 1 /\ Len(msgs) \in Nat
      /\ \A i \in 1..Len(msgs) : msgs'[i] = msgs[i]
      /\ msgs'[Len(msgs) + 1] = SaveOf(tree)
  BY <1>1, <1>2, <1>4, Appended DEF TypeOK
<1>6. TypeOK'
  <2>1. timer' \in BOOLEAN
    BY <1>1, ZenonT(40)
  <2> QED
    BY <1>1, <1>2, <1>5, <2>1, Zenon DEF TypeOK
<1>7. VfsBounds'
  <2>1. Stamp' = Stamp
    BY <1>1 DEF Stamp
  <2>2. ASSUME NEW i \in 1..Len(msgs'), msgs'[i].op = "write" PROVE Aged(msgs'[i].files)
    <3>1. CASE i \in 1..Len(msgs)
      BY <1>2, <1>5, <2>2, <3>1 DEF VfsBounds
    <3>2. CASE i = Len(msgs) + 1
      BY <1>2, <1>4, <1>5, <3>2 DEF VfsBounds
    <3> QED
      BY <1>5, <3>1, <3>2
  <2> QED
    BY <1>1, <1>2, <2>1, <2>2 DEF VfsBounds, Aged
<1>8. Stages'
  BY <1>1, <1>2, <1>3 DEF Stages
<1>9. Newest'
  <2>1. Len(msgs') \in 1..Len(msgs') /\ msgs'[Len(msgs')] = SaveOf(tree')
    BY <1>1, <1>5
  <2>2. NoSave(msgs', Len(msgs') + 1)
    BY <1>5 DEF NoSave
  <2> QED
    BY <2>1, <2>2 DEF Newest
<1>10. ASSUME budget'.readerr = MaxReadErrs PROVE Order'
  <2>1. Order
    BY <1>1, <1>10 DEF VfsInv
  <2>2. disk.kind # "garbled" /\ Below(disk.files, tree)
    BY <1>3, <2>1 DEF Order
  <2>3. \A i \in 1..Len(msgs) : msgs[i].op = "write" => Below(msgs[i].files, tree)
    BY <1>3, <2>1 DEF Order
  <2>4. Below(tree, tree)
    BY <1>2 DEF Below, TypeOK, Contents
  <2>5. \A i \in 1..Len(msgs') : msgs'[i].op = "write" =>
            Below(disk.files, msgs'[i].files) /\ Below(msgs'[i].files, tree)
    <3> SUFFICES ASSUME NEW i \in 1..Len(msgs'), msgs'[i].op = "write"
                 PROVE  Below(disk.files, msgs'[i].files) /\ Below(msgs'[i].files, tree)
      OBVIOUS
    <3>1. CASE i \in 1..Len(msgs)
      BY <1>5, <2>1, <2>3, <3>1 DEF Order
    <3>2. CASE i = Len(msgs) + 1
      BY <1>4, <1>5, <2>2, <2>4, <3>2
    <3> QED
      BY <1>5, <3>1, <3>2
  <2>6. \A i, j \in 1..Len(msgs') : i < j /\ msgs'[i].op = "write" /\ msgs'[j].op = "write" =>
            Below(msgs'[i].files, msgs'[j].files)
    <3> SUFFICES ASSUME NEW i \in 1..Len(msgs'), NEW j \in 1..Len(msgs'), i < j,
                        msgs'[i].op = "write", msgs'[j].op = "write"
                 PROVE  Below(msgs'[i].files, msgs'[j].files)
      OBVIOUS
    <3>1. CASE j \in 1..Len(msgs)
      <4>1. i \in 1..Len(msgs)
        BY <3>1, <1>5
      <4> QED
        BY <1>5, <2>1, <3>1, <4>1 DEF Order
    <3>2. CASE j = Len(msgs) + 1
      BY <1>4, <1>5, <2>5, <3>2
    <3> QED
      BY <1>5, <3>1, <3>2
  <2> QED
    BY <1>1, <2>2, <2>5, <2>6 DEF Order, Below
<1> QED
  BY <1>6, <1>7, <1>8, <1>9, <1>10 DEF VfsInv

\* The saves the host has received outlive the page; no others do.
LEMMA VfsDies == VfsInv /\ Dies => VfsInv'
<1> SUFFICES ASSUME VfsInv, Dies PROVE VfsInv'
  OBVIOUS
<1>1. /\ page # "off" /\ Spend("death") /\ page' = "off" /\ timer' = FALSE /\ dirty' = FALSE
      /\ disk' = disk /\ attempt' = attempt /\ tree' = tree /\ readOnly' = readOnly
      /\ removed' = removed
  BY DEF Dies
<1>2. TypeOK /\ VfsBounds /\ Stages
  BY DEF VfsInv
<1>3. PICK n \in 0..Len(msgs) : msgs' = SubSeq(msgs, 1, n)
  BY DEF Dies
<1>4. /\ budget' \in [Budgets -> Nat] /\ budget'.write = budget.write
      /\ budget'.readerr = budget.readerr /\ budget'.writeerr = budget.writeerr
  BY <1>1, <1>2, Spent DEF TypeOK, Budgets
<1>5. /\ msgs' \in Seq(Calls) /\ Len(msgs') = n /\ Len(msgs) \in Nat
      /\ \A i \in 1..n : i \in 1..Len(msgs) /\ msgs'[i] = msgs[i]
  <2>1. msgs \in Seq(Calls)
    BY <1>2 DEF TypeOK
  <2> QED
    BY <1>3, <2>1
<1>6. TypeOK'
  <2>1. timer' \in BOOLEAN /\ dirty' \in BOOLEAN
    BY <1>1, ZenonT(40)
  <2>2. page' \in {"off", "loading", "up"}
    BY <1>1
  <2> QED
    BY <1>1, <1>2, <1>4, <1>5, <2>1, <2>2, Zenon DEF TypeOK, Budgets
<1>7. VfsBounds'
  <2>1. Stamp' = Stamp
    BY <1>4 DEF Stamp
  <2>2. \A i \in 1..Len(msgs') : msgs'[i].op = "write" => Aged(msgs'[i].files)
    BY <1>2, <1>5 DEF VfsBounds
  <2> QED
    BY <1>1, <1>2, <1>4, <2>1, <2>2 DEF VfsBounds, Aged
<1>8. Stages' /\ Newest'
  BY <1>1 DEF Stages, Newest
<1>9. ASSUME budget'.readerr = MaxReadErrs PROVE Order'
  <2>1. Order
    BY <1>4, <1>9 DEF VfsInv
  <2>2. \A i \in 1..Len(msgs') : msgs'[i].op = "write" =>
            disk.kind # "garbled" /\ Below(disk.files, msgs'[i].files)
    BY <1>5, <2>1 DEF Order
  <2>3. \A i, j \in 1..Len(msgs') : i < j /\ msgs'[i].op = "write" /\ msgs'[j].op = "write" =>
            Below(msgs'[i].files, msgs'[j].files)
    BY <1>5, <2>1 DEF Order
  <2> QED
    BY <1>1, <2>2, <2>3 DEF Order, Below
<1> QED
  BY <1>6, <1>7, <1>8, <1>9 DEF VfsInv

\* The host answers a read: nothing is saved, and a page that may save has what
\* is on the disk or, there being nothing on it, its own tree.
LEMMA VfsReads == VfsInv /\ HostReads => VfsInv'
<1> SUFFICES ASSUME VfsInv, HostReads PROVE VfsInv'
  OBVIOUS
<1>1. /\ msgs # <<>> /\ Head(msgs).op = "read" /\ msgs' = Tail(msgs)
      /\ disk' = disk /\ attempt' = attempt /\ timer' = timer /\ removed' = removed
      /\ dirty' = dirty
  BY DEF HostReads, Handles
<1>2. TypeOK /\ VfsBounds /\ Stages
  BY DEF VfsInv
<1>3. /\ msgs' \in Seq(Calls) /\ Len(msgs) \in Nat \ {0} /\ Len(msgs') = Len(msgs) - 1
      /\ \A i \in 1..Len(msgs') : i + 1 \in 1..Len(msgs) /\ msgs'[i] = msgs[i + 1]
      /\ msgs[1].op = "read"
  <2>1. msgs \in Seq(Calls)
    BY <1>2 DEF TypeOK
  <2> QED
    BY <1>1, <2>1, Tailed
<1>4. budget \in [Budgets -> Nat] /\ tree \in Contents /\ readOnly \in BOOLEAN
  BY <1>2 DEF TypeOK, Budgets
<1>5. /\ disk.files \in Contents
      /\ disk.kind \in {"absent", "garbled", "tree"}
      /\ disk.kind # "tree" => disk.files = Empty
  BY <1>2, DiskTypes
<1>6. \/ /\ page = "loading" /\ page' = "up" /\ budget' = budget
         /\ tree' = (IF disk.kind = "tree" THEN disk.files ELSE tree)
         /\ readOnly' = (disk.kind = "garbled")
      \/ /\ page = "loading" /\ page' = "up" /\ Spend("readerr")
         /\ tree' = tree /\ readOnly' = FALSE
      \/ page' = page /\ tree' = tree /\ readOnly' = readOnly /\ budget' = budget
  <2>1. Absent.kind = "absent"
    BY DEF Absent
  <2> QED
    BY <2>1, ZenonT(40) DEF HostReads, Loaded
<1>7. /\ budget' \in [Budgets -> Nat] /\ budget'.write = budget.write
      /\ budget'.readerr <= budget.readerr /\ budget'.writeerr = budget.writeerr
      /\ budget'.readerr = MaxReadErrs => budget' = budget
  <2>1. CASE budget' = budget
    BY <2>1, <1>4 DEF Budgets
  <2>2. CASE Spend("readerr")
    <3>1. /\ budget' \in [Budgets -> Nat] /\ budget'.write = budget.write
          /\ budget'.readerr = budget.readerr - 1 /\ budget'.writeerr = budget.writeerr
      BY <2>2, <1>4, Spent DEF Budgets
    <3>2. budget.readerr \in Nat /\ budget.readerr <= MaxReadErrs /\ MaxReadErrs \in Nat
      BY <1>2, <1>4, VfsDiskAssumption DEF VfsBounds, Budgets
    <3> QED
      BY <3>1, <3>2
  <2> QED
    BY <1>6, <2>1, <2>2
<1>8. /\ tree' \in Contents /\ readOnly' \in BOOLEAN /\ page' \in {"off", "loading", "up"}
      /\ tree' = tree \/ tree' = disk.files
  BY <1>2, <1>4, <1>5, <1>6, ZenonT(40) DEF TypeOK
<1>9. TypeOK'
  BY <1>1, <1>2, <1>3, <1>7, <1>8, Zenon DEF TypeOK, Budgets
<1>10. VfsBounds'
  <2>1. Stamp' = Stamp
    BY <1>7 DEF Stamp
  <2>2. \A i \in 1..Len(msgs') : msgs'[i].op = "write" => Aged(msgs'[i].files)
    BY <1>2, <1>3 DEF VfsBounds
  <2>3. Aged(tree')
    BY <1>2, <1>8 DEF VfsBounds
  <2>4. budget'.readerr <= MaxReadErrs
    BY <1>2, <1>4, <1>7, VfsDiskAssumption DEF VfsBounds, Budgets
  <2> QED
    BY <1>1, <1>2, <1>7, <2>1, <2>2, <2>3, <2>4 DEF VfsBounds, Aged
<1>11. page = "loading" => NoSave(msgs', 1) /\ ~timer /\ ~dirty
  BY <1>2, <1>3 DEF Stages, NoSave
<1>12. Stages'
  BY <1>1, <1>2, <1>6, <1>11 DEF Stages
<1>13. Newest'
  <2> SUFFICES ASSUME page' = "up", dirty', ~timer', budget'.writeerr = MaxWriteErrs
               PROVE  \/ disk' = Tree(tree') /\ NoSave(msgs', 1)
                      \/ \E i \in 1..Len(msgs') :
                            msgs'[i] = SaveOf(tree') /\ NoSave(msgs', i + 1)
    BY DEF Newest
  <2>1. page = "up" /\ tree' = tree
    BY <1>1, <1>6, <1>11
  <2>2. \/ disk = Tree(tree) /\ NoSave(msgs, 1)
        \/ \E i \in 1..Len(msgs) : msgs[i] = SaveOf(tree) /\ NoSave(msgs, i + 1)
    BY <1>1, <1>7, <2>1 DEF VfsInv, Newest
  <2>3. CASE disk = Tree(tree) /\ NoSave(msgs, 1)
    BY <1>1, <1>3, <2>1, <2>3 DEF NoSave
  <2>4. ASSUME NEW i \in 1..Len(msgs), msgs[i] = SaveOf(tree), NoSave(msgs, i + 1)
        PROVE  \E k \in 1..Len(msgs') :
                  msgs'[k] = SaveOf(tree') /\ NoSave(msgs', k + 1)
    <3>1. i # 1
      BY <1>3, <1>4, <2>4, CallTypes
    <3>2. i - 1 \in 1..Len(msgs') /\ msgs'[i - 1] = SaveOf(tree')
      BY <1>3, <2>1, <2>4, <3>1
    <3>3. NoSave(msgs', (i - 1) + 1)
      BY <1>3, <2>4 DEF NoSave
    <3> QED
      BY <3>2, <3>3
  <2> QED
    BY <2>2, <2>3, <2>4
<1>14. ASSUME budget'.readerr = MaxReadErrs PROVE Order'
  <2>1. Order /\ budget' = budget
    BY <1>7, <1>14 DEF VfsInv
  <2>2. CASE page' = page /\ tree' = tree /\ readOnly' = readOnly
    <3>1. \A i \in 1..Len(msgs') : msgs'[i].op = "write" =>
             disk.kind # "garbled" /\ Below(disk.files, msgs'[i].files)
      BY <1>3, <2>1 DEF Order
    <3>2. \A i, j \in 1..Len(msgs') : i < j /\ msgs'[i].op = "write" /\ msgs'[j].op = "write" =>
             Below(msgs'[i].files, msgs'[j].files)
      <4> SUFFICES ASSUME NEW i \in 1..Len(msgs'), NEW j \in 1..Len(msgs'), i < j,
                          msgs'[i].op = "write", msgs'[j].op = "write"
                   PROVE  Below(msgs'[i].files, msgs'[j].files)
        OBVIOUS
      <4>1. i + 1 \in 1..Len(msgs) /\ j + 1 \in 1..Len(msgs) /\ i + 1 < j + 1
        BY <1>3
      <4>2. msgs'[i] = msgs[i + 1] /\ msgs'[j] = msgs[j + 1]
        BY <1>3
      <4>3. Below(msgs[i + 1].files, msgs[j + 1].files)
        BY <2>1, <4>1, <4>2, ZenonT(40) DEF Order
      <4> QED
        BY <4>2, <4>3
    <3>3. page = "up" /\ ~readOnly =>
             /\ disk.kind # "garbled" /\ Below(disk.files, tree)
             /\ \A i \in 1..Len(msgs') : msgs'[i].op = "write" => Below(msgs'[i].files, tree)
      BY <1>3, <2>1 DEF Order
    <3> QED
      BY <1>1, <2>2, <3>1, <3>2, <3>3 DEF Order, Below
  <2>3. CASE ~(page' = page /\ tree' = tree /\ readOnly' = readOnly)
    <3>1. /\ page = "loading"
          /\ tree' = (IF disk.kind = "tree" THEN disk.files ELSE tree)
          /\ readOnly' = (disk.kind = "garbled")
      <4>1. ~Spend("readerr")
        BY <2>1, <1>4, Spent DEF Budgets
      <4> QED
        BY <1>6, <2>3, <4>1
    <3>2. \A i \in 1..Len(msgs') : msgs'[i].op # "write"
      BY <1>11, <3>1 DEF NoSave
    <3>3. \A f \in File : disk.files[f] <= tree'[f]
      BY <1>4, <1>5, <3>1 DEF Contents, Empty
    <3> QED
      BY <1>1, <3>1, <3>2, <3>3, ZenonT(40) DEF Order, Below
  <2> QED
    BY <2>2, <2>3
<1> QED
  BY <1>9, <1>10, <1>12, <1>13, <1>14 DEF VfsInv

\* The host handles a save: the oldest one reaches the disk, or fails.
LEMMA VfsWrites ==
    ASSUME VfsInv, HostWrites
    PROVE  VfsInv' /\ (budget.readerr = MaxReadErrs => Kept \/ disk' = disk)
<1>1. /\ msgs # <<>> /\ Head(msgs).op = "write" /\ msgs' = Tail(msgs)
      /\ page' = page /\ attempt' = attempt /\ tree' = tree /\ readOnly' = readOnly
      /\ timer' = timer /\ removed' = removed /\ dirty' = dirty
      /\ \/ disk' = Tree(Head(msgs).files) /\ budget' = budget
         \/ Spend("writeerr") /\ disk' = disk
  BY DEF HostWrites, Handles
<1>2. TypeOK /\ VfsBounds /\ Stages
  BY DEF VfsInv
<1>3. /\ msgs' \in Seq(Calls) /\ Len(msgs) \in Nat \ {0} /\ Len(msgs') = Len(msgs) - 1
      /\ \A i \in 1..Len(msgs') : i + 1 \in 1..Len(msgs) /\ msgs'[i] = msgs[i + 1]
      /\ 1 \in 1..Len(msgs) /\ Head(msgs) = msgs[1] /\ msgs[1] \in Calls
  <2>1. msgs \in Seq(Calls)
    BY <1>2 DEF TypeOK
  <2> QED
    BY <1>1, <2>1, Tailed
<1>4. msgs[1].op = "write" /\ msgs[1].files \in Contents
  BY <1>1, <1>3, CallTypes
<1>5. budget \in [Budgets -> Nat] /\ tree \in Contents
  BY <1>2 DEF TypeOK, Budgets
<1>6. /\ budget' \in [Budgets -> Nat] /\ budget'.write = budget.write
      /\ budget'.readerr = budget.readerr /\ budget'.writeerr <= budget.writeerr
      /\ budget'.writeerr = MaxWriteErrs => disk' = Tree(msgs[1].files) /\ budget' = budget
  <2>1. CASE disk' = Tree(Head(msgs).files) /\ budget' = budget
    BY <1>3, <1>5, <2>1 DEF Budgets
  <2>2. CASE Spend("writeerr")
    <3>1. /\ budget' \in [Budgets -> Nat] /\ budget'.write = budget.write
          /\ budget'.writeerr = budget.writeerr - 1 /\ budget'.readerr = budget.readerr
      BY <2>2, <1>5, Spent DEF Budgets
    <3>2. budget.writeerr \in Nat /\ budget.writeerr <= MaxWriteErrs /\ MaxWriteErrs \in Nat
      BY <1>2, <1>5, VfsDiskAssumption DEF VfsBounds, Budgets
    <3> QED
      BY <3>1, <3>2
  <2> QED
    BY <1>1, <2>1, <2>2
<1>7. disk' = disk \/ disk' = Tree(msgs[1].files)
  BY <1>1, <1>3
<1>8. TypeOK'
  <2>1. disk' \in {Absent, Garbled} \cup {Tree(fs) : fs \in Contents}
    BY <1>2, <1>4, <1>7, Zenon DEF TypeOK
  <2> QED
    BY <1>1, <1>2, <1>3, <1>6, <2>1, Zenon DEF TypeOK, Budgets
<1>9. VfsBounds'
  <2>1. Stamp' = Stamp
    BY <1>6 DEF Stamp
  <2>2. \A i \in 1..Len(msgs) : msgs[i].op = "write" => Aged(msgs[i].files)
    BY <1>2 DEF VfsBounds
  <2>3. \A i \in 1..Len(msgs') : msgs'[i].op = "write" => Aged(msgs'[i].files)
    BY <1>3, <2>2
  <2>4. Aged(disk'.files)
    <3>1. Aged(disk.files) /\ Aged(msgs[1].files)
      BY <1>2, <1>3, <1>4, <2>2 DEF VfsBounds
    <3>2. Tree(msgs[1].files).files = msgs[1].files
      BY DEF Tree
    <3> QED
      BY <1>7, <3>1, <3>2
  <2>5. budget'.writeerr <= MaxWriteErrs
    BY <1>2, <1>5, <1>6, VfsDiskAssumption DEF VfsBounds, Budgets
  <2> QED
    BY <1>1, <1>2, <1>6, <2>1, <2>3, <2>4, <2>5 DEF VfsBounds, Aged
<1>10. Stages'
  BY <1>1, <1>2, <1>3 DEF Stages, NoSave
<1>11. Newest'
  <2> SUFFICES ASSUME page' = "up", dirty', ~timer', budget'.writeerr = MaxWriteErrs
               PROVE  \/ disk' = Tree(tree') /\ NoSave(msgs', 1)
                      \/ \E i \in 1..Len(msgs') :
                            msgs'[i] = SaveOf(tree') /\ NoSave(msgs', i + 1)
    BY DEF Newest
  <2>1. disk' = Tree(msgs[1].files) /\ budget' = budget
    BY <1>6
  <2>2. \E i \in 1..Len(msgs) : msgs[i] = SaveOf(tree) /\ NoSave(msgs, i + 1)
    <3>1. ~NoSave(msgs, 1)
      BY <1>3, <1>4 DEF NoSave
    <3> QED
      BY <1>1, <2>1, <3>1 DEF VfsInv, Newest
  <2>3. PICK i \in 1..Len(msgs) : msgs[i] = SaveOf(tree) /\ NoSave(msgs, i + 1)
    BY <2>2
  <2>4. CASE i = 1
    <3>1. msgs[1].files = tree
      BY <1>5, <2>3, <2>4, CallTypes
    <3>2. NoSave(msgs', 1)
      BY <1>3, <2>3, <2>4 DEF NoSave
    <3> QED
      BY <1>1, <2>1, <3>1, <3>2
  <2>5. CASE i # 1
    <3>1. i - 1 \in 1..Len(msgs') /\ msgs'[i - 1] = SaveOf(tree')
      BY <1>1, <1>3, <2>3, <2>5
    <3>2. NoSave(msgs', (i - 1) + 1)
      BY <1>3, <2>3 DEF NoSave
    <3> QED
      BY <3>1, <3>2
  <2> QED
    BY <2>4, <2>5
<1>12. ASSUME budget.readerr = MaxReadErrs
       PROVE  Order' /\ (Kept \/ disk' = disk)
  <2>1. Order
    BY <1>12 DEF VfsInv
  <2>2. \A i \in 1..Len(msgs) : msgs[i].op = "write" =>
            disk.kind # "garbled" /\ Below(disk.files, msgs[i].files)
    BY <2>1 DEF Order
  <2>3. disk.kind # "garbled" /\ Below(disk.files, msgs[1].files)
    BY <1>3, <1>4, <2>2
  <2>4. \A i \in 1..Len(msgs') : msgs'[i].op = "write" =>
            Below(disk.files, msgs'[i].files) /\ Below(msgs[1].files, msgs'[i].files)
    <3> SUFFICES ASSUME NEW i \in 1..Len(msgs'), msgs'[i].op = "write"
                 PROVE  /\ Below(disk.files, msgs'[i].files)
                        /\ Below(msgs[1].files, msgs'[i].files)
      OBVIOUS
    <3>1. i + 1 \in 1..Len(msgs) /\ 1 < i + 1 /\ msgs'[i] = msgs[i + 1]
      BY <1>3
    <3> QED
      BY <1>3, <1>4, <2>1, <3>1, ZenonT(40) DEF Order
  <2>5. Tree(msgs[1].files).files = msgs[1].files /\ Tree(msgs[1].files).kind = "tree"
    BY DEF Tree
  <2>6. /\ disk'.kind # "garbled"
        /\ \A i \in 1..Len(msgs') : msgs'[i].op = "write" =>
              Below(disk'.files, msgs'[i].files)
    BY <1>7, <2>3, <2>4, <2>5
  <2>7. \A i, j \in 1..Len(msgs') : i < j /\ msgs'[i].op = "write" /\ msgs'[j].op = "write" =>
            Below(msgs'[i].files, msgs'[j].files)
    <3> SUFFICES ASSUME NEW i \in 1..Len(msgs'), NEW j \in 1..Len(msgs'), i < j,
                        msgs'[i].op = "write", msgs'[j].op = "write"
                 PROVE  Below(msgs'[i].files, msgs'[j].files)
      OBVIOUS
    <3>1. i + 1 \in 1..Len(msgs) /\ j + 1 \in 1..Len(msgs) /\ i + 1 < j + 1
      BY <1>3
    <3>2. msgs'[i] = msgs[i + 1] /\ msgs'[j] = msgs[j + 1]
      BY <1>3
    <3>3. Below(msgs[i + 1].files, msgs[j + 1].files)
      BY <2>1, <3>1, <3>2, ZenonT(40) DEF Order
    <3> QED
      BY <3>2, <3>3
  <2>8. page = "up" /\ ~readOnly =>
            /\ Below(disk'.files, tree)
            /\ \A i \in 1..Len(msgs') : msgs'[i].op = "write" => Below(msgs'[i].files, tree)
    BY <1>3, <1>4, <1>7, <2>1, <2>5 DEF Order
  <2>9. Order'
    BY <1>1, <2>6, <2>7, <2>8, ZenonT(40) DEF Order, Below
  <2>10. disk' = disk \/ Kept
    BY <1>7, <2>3, <2>5 DEF Kept
  <2> QED
    BY <2>9, <2>10
<1> QED
  BY <1>6, <1>8, <1>9, <1>10, <1>11, <1>12 DEF VfsInv

\* Every step keeps the invariant, and the disk as long as it can be read.
LEMMA VfsStep ==
    ASSUME VfsInv, [Next]_vars
    PROVE  VfsInv' /\ (budget.readerr = MaxReadErrs => Kept \/ disk' = disk)
<1>1. CASE Start
  BY <1>1, VfsStart DEF Start
<1>2. CASE Timeout
  BY <1>2, VfsTimeout DEF Timeout
<1>3. CASE TimerFires
  BY <1>3, VfsTimer DEF TimerFires
<1>4. CASE Dies
  BY <1>4, VfsDies DEF Dies
<1>5. CASE HostReads
  BY <1>5, VfsReads DEF HostReads
<1>6. CASE HostWrites
  BY <1>6, VfsWrites
<1>7. ASSUME NEW f \in File, Write(f) \/ Remove(f)
      PROVE  VfsInv' /\ disk' = disk
  BY <1>7, VfsChange DEF Write, Remove
<1>8. CASE UNCHANGED vars
  <2>1. /\ disk' = disk /\ page' = page /\ attempt' = attempt /\ tree' = tree
        /\ readOnly' = readOnly /\ timer' = timer /\ msgs' = msgs /\ removed' = removed
        /\ dirty' = dirty /\ budget' = budget
    BY <1>8 DEF vars
  <2>2. TypeOK' /\ VfsBounds'
    BY <2>1 DEF VfsInv, TypeOK, VfsBounds, Aged, Stamp
  <2>3. Stages' /\ Newest'
    BY <2>1 DEF VfsInv, Stages, Newest
  <2>4. budget'.readerr = MaxReadErrs => Order'
    BY <2>1 DEF VfsInv, Order, Below
  <2> QED
    BY <2>1, <2>2, <2>3, <2>4 DEF VfsInv
<1> QED
  BY <1>1, <1>2, <1>3, <1>4, <1>5, <1>6, <1>7, <1>8 DEF Next

\* The inductive invariant: in every state the disk, the saves under way and the
\* tree are in the order of their writes, and the newest tree is not forgotten.
THEOREM VfsInvariant == Spec => []VfsInv
<1>1. Init => VfsInv
  BY VfsStarts
<1>2. VfsInv /\ [Next]_vars => VfsInv'
  BY VfsStep
<1> QED
  BY <1>1, <1>2, PTL DEF Spec

\* The variables keep their types (vfs.js 11-58, FilesBridge.swift).
THEOREM VfsTyped == Spec => []TypeOK
<1>1. VfsInv => TypeOK
  BY DEF VfsInv
<1> QED
  BY <1>1, VfsInvariant, PTL

\* Whatever the number of files, writes, late answers and deaths: when nothing is
\* on its way, the disk is the tree of a page that has changed it since it was
\* loaded, and no write of the host has failed (vfs.js 50-58).
THEOREM SettledSaved == Spec => []SettledIsSaved
<1>1. VfsInv => SettledIsSaved
  <2> SUFFICES ASSUME VfsInv, page = "up", dirty, ~timer, msgs = <<>>,
                      budget.writeerr = MaxWriteErrs
               PROVE  disk = Tree(tree)
    BY DEF SettledIsSaved
  <2>1. ~ \E i \in 1..Len(msgs) : TRUE
    OBVIOUS
  <2> QED
    BY <2>1 DEF VfsInv, Newest
<1> QED
  BY <1>1, VfsInvariant, PTL

\* Whatever else is late, fails or dies: as long as the host can read the file,
\* a save loses nothing the user did not remove, puts back no older content, and
\* leaves alone a disk that could not be parsed (vfs.js 33-58).
THEOREM ReadableKept == Spec => ReadableDiskKept
<1>1. VfsInv /\ [Next]_vars => [budget.readerr = MaxReadErrs => Kept]_disk
  BY VfsStep
<1> QED
  BY <1>1, VfsInvariant, PTL DEF Spec, ReadableDiskKept

-----------------------------------------------------------------------------
(* The viewer of the display.                                              *)

SessStates == {"none", "connecting", "stuck", "connected", "dead", "closing"}

\* Before the viewer has loaded there is no session.
NoneYet == warm # "ok" => rfb = None /\ \A i \in Id : sess[i] = "none"

\* Unless two calls waited together or a session was replaced, connectGui knows
\* of every session, and a call waits only while there is none.
Known ==
    ~overlap /\ ~replaced =>
        /\ Live \subseteq {rfb}
        /\ \A i \in Id : sess[i] # "closing"
        /\ calls + imports <= 1
        /\ calls + imports = 1 => rfb = None
        /\ imports > 0 => warm = "failed"

\* A GUI that was opened has a call that waits while the viewer loads; with the
\* viewer there, a touch guest has a session, a call or a timer.
Trying ==
    /\ warm = "loading" => imports = 0 /\ (opened => calls > 0)
    /\ warm = "ok" /\ touch /\ opened => rfb # None \/ calls > 0 \/ timers > 0

\* The inductive invariant of the viewer.
GuiInv == GuiTypeOK /\ NoneYet /\ Known /\ Trying /\ NeverForgotten

\* The invariant holds before the GUI is opened.
LEMMA GuiStarts == GuiInit => GuiInv
<1> SUFFICES ASSUME GuiInit PROVE GuiInv
  OBVIOUS
<1>1. /\ touch \in BOOLEAN /\ rfb = None /\ sess = [i \in Id |-> "none"] /\ warm = "loading"
      /\ calls = 0 /\ imports = 0 /\ timers = 0 /\ retries = 0
      /\ opened = FALSE /\ overlap = FALSE /\ replaced = FALSE
  BY DEF GuiInit
<1>2. \A i \in Id : sess[i] = "none"
  BY <1>1
<1>3. GuiTypeOK
  <2>1. sess \in [Id -> SessStates]
    BY <1>1 DEF SessStates
  <2> QED
    BY <1>1, <2>1, ZenonT(40) DEF GuiTypeOK, SessStates
<1>4. Live = {}
  BY <1>2 DEF Live
<1> QED
  BY <1>1, <1>2, <1>3, <1>4 DEF GuiInv, NoneYet, Known, Trying, NeverForgotten

\* A new session is the one connectGui knows of.
LEMMA NewOne ==
    ASSUME NEW s \in [Id -> SessStates], NewSession(s)
    PROVE  \E i \in Id, v \in {"connecting", "stuck"} :
              /\ sess[i] = "none" /\ rfb' = i
              /\ sess' = [s EXCEPT ![i] = v] /\ sess' \in [Id -> SessStates]
              /\ sess'[i] = v /\ \A j \in Id \ {i} : sess'[j] = s[j]
BY DEF NewSession, SessStates

\* A session opened where there was none is the only one.
LEMMA NewAlone ==
    ASSUME GuiTypeOK, Live \subseteq {None},
           \A i \in Id : sess[i] # "closing", NewSession(sess)
    PROVE  Live' \subseteq {rfb'} /\ \A i \in Id : sess'[i] # "closing"
<1>1. sess \in [Id -> SessStates]
  BY DEF GuiTypeOK, SessStates
<1>2. PICK i \in Id, v \in {"connecting", "stuck"} :
         rfb' = i /\ sess'[i] = v /\ \A j \in Id \ {i} : sess'[j] = sess[j]
  BY <1>1, NewOne
<1>3. \A j \in Id : sess[j] \notin {"connecting", "stuck", "connected", "dead"}
  BY GuiSessionAssumption DEF Live
<1> QED
  BY <1>2, <1>3 DEF Live

\* connectGui, called with the session it knows of or after forceReconnectGui
\* forgot it, leaves a session or a call that waits.
LEMMA ConnectKeeps ==
    ASSUME GuiTypeOK, NoneYet, Known, Trying, warm' = warm,
           NEW r, NEW s,
           \/ r = rfb /\ s = sess
           \/ r = None /\ s = (IF rfb = None THEN sess ELSE [sess EXCEPT ![rfb] = "closing"]),
           ConnectGui(r, s)
    PROVE  /\ rfb' \in Id \cup {None} /\ sess' \in [Id -> SessStates]
           /\ calls' \in Nat /\ imports' \in Nat
           /\ overlap' \in BOOLEAN /\ replaced' \in BOOLEAN
           /\ NoneYet' /\ Known'
           /\ warm = "ok" => rfb' # None
           /\ warm = "loading" => calls' > 0 /\ imports' = 0
           /\ warm = "failed" => imports' > 0
<1>1. /\ rfb \in Id \cup {None} /\ sess \in [Id -> SessStates]
      /\ calls \in Nat /\ imports \in Nat /\ warm \in {"loading", "ok", "failed"}
      /\ overlap \in BOOLEAN /\ replaced \in BOOLEAN /\ None \notin Id
  BY GuiSessionAssumption DEF GuiTypeOK, SessStates
<1>2. /\ r \in Id \cup {None} /\ s \in [Id -> SessStates]
      /\ r = rfb => s = sess
  BY <1>1 DEF SessStates
<1>3. /\ overlap' = (overlap \/ (r = None /\ calls + imports > 0))
      /\ replaced' = (replaced \/ rfb # r)
  BY DEF ConnectGui
<1>4. ASSUME ~overlap', ~replaced'
      PROVE  /\ r = rfb /\ s = sess /\ (r = None => calls = 0 /\ imports = 0)
             /\ Live \subseteq {rfb} /\ \A i \in Id : sess[i] # "closing"
             /\ calls + imports <= 1 /\ (calls + imports = 1 => rfb = None)
             /\ imports > 0 => warm = "failed"
  <2>1. ~overlap /\ ~replaced /\ rfb = r /\ ~(r = None /\ calls + imports > 0)
    BY <1>3, <1>4, ZenonT(40)
  <2>2. r = None => calls = 0 /\ imports = 0
    BY <1>1, <2>1
  <2> QED
    BY <1>2, <2>1, <2>2 DEF Known
<1>5. CASE r # None
  <2>1. rfb' = r /\ sess' = s /\ calls' = calls /\ imports' = imports
    BY <1>5 DEF ConnectGui
  <2>2. warm = "ok"
    BY <1>5 DEF NoneYet
  <2>3. Known'
    BY <1>4, <2>1 DEF Known, Live
  <2>4. NoneYet'
    BY <2>2 DEF NoneYet
  <2> QED
    BY <1>1, <1>2, <1>3, <1>5, <2>1, <2>2, <2>3, <2>4
<1>6. CASE r = None /\ warm = "ok"
  <2>1. NewSession(s) /\ calls' = calls /\ imports' = imports
    BY <1>6 DEF ConnectGui
  <2>2. PICK i \in Id, v \in {"connecting", "stuck"} : rfb' = i /\ sess' \in [Id -> SessStates]
    BY <1>2, <2>1, NewOne
  <2>3. Known'
    <3> SUFFICES ASSUME ~overlap', ~replaced'
                 PROVE  /\ Live' \subseteq {rfb'} /\ \A j \in Id : sess'[j] # "closing"
                        /\ calls' = 0 /\ imports' = 0
      BY DEF Known
    <3>1. calls' = 0 /\ imports' = 0 /\ NewSession(sess) /\ Live \subseteq {None}
      BY <1>4, <1>6, <2>1
    <3> QED
      BY <1>4, <3>1, NewAlone
  <2>4. NoneYet'
    BY <1>6 DEF NoneYet
  <2> QED
    BY <1>1, <1>3, <1>6, <2>1, <2>2, <2>3, <2>4
<1>7. CASE r = None /\ warm # "ok"
  <2>1. /\ calls' = IF warm = "loading" THEN calls + 1 ELSE calls
        /\ imports' = IF warm = "failed" THEN imports + 1 ELSE imports
        /\ rfb' = r /\ sess' = s
    BY <1>7 DEF ConnectGui, AwaitViewer
  <2>2. r = rfb /\ s = sess
    BY <1>2, <1>7 DEF NoneYet
  <2>3. Known'
    BY <1>1, <1>4, <1>7, <2>1, <2>2 DEF Known, Live
  <2>4. NoneYet'
    BY <1>7, <2>1, <2>2 DEF NoneYet
  <2>5. warm = "loading" => imports = 0
    BY DEF Trying
  <2> QED
    BY <1>1, <1>2, <1>3, <1>7, <2>1, <2>3, <2>4, <2>5
<1> QED
  BY <1>5, <1>6, <1>7

\* A step that opens a session or leaves a call waiting keeps the invariant.
LEMMA GuiConnect ==
    GuiInv /\ (Tap \/ Retry \/ Reconnect \/ Watchdog)
    => GuiInv'
<1> SUFFICES ASSUME GuiInv,
                    Tap \/ Retry \/ Reconnect \/ Watchdog
             PROVE  GuiInv'
  OBVIOUS
<1>1. GuiTypeOK /\ NoneYet /\ Known /\ Trying
  BY DEF GuiInv
<1>2. warm' = warm /\ touch' = touch /\ warm \in {"loading", "ok", "failed"}
  BY DEF Tap, Retry, Reconnect, Watchdog, GuiInv, GuiTypeOK
<1>3. opened' \in BOOLEAN /\ timers' \in Nat /\ retries' \in Nat
  <2>1. opened \in BOOLEAN /\ timers \in Nat /\ retries \in Nat
    BY <1>1 DEF GuiTypeOK
  <2>2. CASE Tap
    BY <2>1, <2>2 DEF Tap
  <2>3. CASE Retry
    BY <2>1, <2>3 DEF Retry
  <2>4. CASE Reconnect
    BY <2>1, <2>4 DEF Reconnect
  <2>5. CASE Watchdog
    BY <2>1, <2>5 DEF Watchdog
  <2> QED
    BY <2>2, <2>3, <2>4, <2>5
<1>4. \/ ConnectGui(rfb, sess)
      \/ ConnectGui(None, IF rfb = None THEN sess ELSE [sess EXCEPT ![rfb] = "closing"])
  BY DEF Tap, Retry, Reconnect, Watchdog, ForceReconnectGui
<1>5. /\ rfb' \in Id \cup {None} /\ sess' \in [Id -> SessStates]
      /\ calls' \in Nat /\ imports' \in Nat
      /\ overlap' \in BOOLEAN /\ replaced' \in BOOLEAN
      /\ NoneYet' /\ Known'
      /\ warm = "ok" => rfb' # None
      /\ warm = "loading" => calls' > 0 /\ imports' = 0
      /\ warm = "failed" => imports' > 0
  <2>1. CASE ConnectGui(rfb, sess)
    BY <1>1, <1>2, <2>1, ConnectKeeps
  <2>2. CASE ConnectGui(None, IF rfb = None THEN sess ELSE [sess EXCEPT ![rfb] = "closing"])
    BY <1>1, <1>2, <2>2, ConnectKeeps
  <2> QED
    BY <1>4, <2>1, <2>2
<1>6. GuiTypeOK'
  BY <1>1, <1>2, <1>3, <1>5 DEF GuiTypeOK, SessStates
<1>7. NeverForgotten'
  BY <1>2, <1>5 DEF NeverForgotten, Idle
<1>8. Trying'
  BY <1>2, <1>5 DEF Trying
<1> QED
  BY <1>5, <1>6, <1>7, <1>8 DEF GuiInv

\* A call that waited goes on and opens a session.
LEMMA GuiOpens ==
    ASSUME GuiInv,
           \/ calls > 0 /\ calls' = calls - 1 /\ imports' = imports
           \/ imports > 0 /\ imports' = imports - 1 /\ calls' = calls,
           NewSession(sess), warm' = "ok", touch' = touch, opened' = opened,
           timers' = timers, retries' = retries, overlap' = overlap, replaced' = replaced
    PROVE  GuiInv'
<1>1. GuiTypeOK /\ Known /\ None \notin Id
  BY GuiSessionAssumption DEF GuiInv
<1>2. sess \in [Id -> SessStates] /\ calls \in Nat /\ imports \in Nat
  BY <1>1 DEF GuiTypeOK, SessStates
<1>3. PICK i \in Id, v \in {"connecting", "stuck"} : rfb' = i /\ sess' \in [Id -> SessStates]
  BY <1>2, NewOne
<1>4. calls' \in Nat /\ imports' \in Nat
  BY <1>2
<1>5. GuiTypeOK'
  BY <1>1, <1>3, <1>4 DEF GuiTypeOK, SessStates
<1>6. Known'
  <2> SUFFICES ASSUME ~overlap', ~replaced'
               PROVE  /\ Live' \subseteq {rfb'} /\ \A j \in Id : sess'[j] # "closing"
                      /\ calls' = 0 /\ imports' = 0
    BY DEF Known
  <2>1. ~overlap /\ ~replaced
    BY ZenonT(40)
  <2>2. /\ Live \subseteq {rfb} /\ (\A j \in Id : sess[j] # "closing")
        /\ calls + imports <= 1 /\ (calls + imports = 1 => rfb = None)
    BY <1>1, <2>1 DEF Known
  <2>3. calls + imports = 1 /\ calls' = 0 /\ imports' = 0
    BY <1>2, <2>2
  <2> QED
    BY <1>1, <2>2, <2>3, NewAlone
<1>7. NoneYet' /\ Trying' /\ NeverForgotten'
  BY <1>1, <1>3 DEF NoneYet, Trying, NeverForgotten
<1> QED
  BY <1>5, <1>6, <1>7 DEF GuiInv

\* The viewer arrives or fails to: a waiting call goes on, or sets a timer until
\* its tries are used up.
LEMMA GuiLoads ==
    GuiInv /\ (WarmEnds \/ Resume \/ Import) => GuiInv'
<1> SUFFICES ASSUME GuiInv PROVE
                    (WarmEnds \/ Resume \/ Import) => GuiInv'
  OBVIOUS
<1>1. GuiTypeOK /\ NoneYet /\ Known /\ Trying /\ NeverForgotten
  BY DEF GuiInv
<1>2. CASE WarmEnds
  <2>1. /\ warm = "loading" /\ warm' \in {"ok", "failed"}
        /\ touch' = touch /\ overlap' = overlap /\ replaced' = replaced /\ rfb' = rfb
        /\ sess' = sess /\ timers' = timers /\ retries' = retries /\ opened' = opened
        /\ warm' = "ok" => calls' = calls /\ imports' = imports
        /\ warm' = "failed" => imports' = calls /\ calls' = 0
    BY <1>2 DEF WarmEnds
  <2>2. imports = 0 /\ (opened => calls > 0) /\ calls \in Nat
    BY <1>1, <2>1 DEF Trying, GuiTypeOK
  <2>3. GuiTypeOK'
    BY <1>1, <2>1 DEF GuiTypeOK
  <2>4. NoneYet' /\ Known'
    BY <1>1, <2>1, <2>2 DEF NoneYet, Known, Live
  <2>5. Trying' /\ NeverForgotten'
    BY <2>1, <2>2 DEF Trying, NeverForgotten, Idle
  <2> QED
    BY <2>3, <2>4, <2>5 DEF GuiInv
<1>3. CASE Resume
  <2>1. /\ calls > 0 /\ calls' = calls - 1 /\ imports' = imports
        /\ NewSession(sess) /\ warm' = "ok"
        /\ touch' = touch /\ overlap' = overlap /\ replaced' = replaced
        /\ timers' = timers /\ retries' = retries /\ opened' = opened
    BY <1>3 DEF Resume
  <2> QED
    BY <2>1, GuiOpens
<1>4. CASE Import
  <2>1. /\ imports > 0 /\ imports' = imports - 1 /\ calls' = calls
        /\ touch' = touch /\ overlap' = overlap /\ replaced' = replaced /\ opened' = opened
    BY <1>4 DEF Import
  <2>2. CASE warm' = "ok" /\ NewSession(sess) /\ timers' = timers /\ retries' = retries
    BY <2>1, <2>2, GuiOpens
  <2>3. CASE /\ retries' = retries + 1 /\ warm' = warm /\ rfb' = rfb /\ sess' = sess
             /\ timers' = IF retries < ImportTries THEN timers + 1 ELSE timers
    <3>1. /\ calls \in Nat /\ imports \in Nat /\ timers \in Nat /\ retries \in Nat
          /\ ImportTries \in Nat /\ warm \in {"loading", "ok", "failed"}
      BY <1>1, GuiSessionAssumption DEF GuiTypeOK
    <3>2. imports' \in Nat /\ timers' \in Nat /\ retries' \in Nat
      BY <2>1, <2>3, <3>1
    <3>3. GuiTypeOK'
      BY <1>1, <2>1, <2>3, <3>2 DEF GuiTypeOK
    <3>4. NoneYet' /\ Known'
      BY <1>1, <2>1, <2>3, <3>1 DEF NoneYet, Known, Live
    <3>5. warm \in {"ok", "failed"}
      BY <1>1, <2>1, <3>1 DEF Trying
    <3>6. Trying'
      BY <1>1, <2>1, <2>3, <3>1, <3>5 DEF Trying
    <3>7. warm = "failed" => timers' > 0 \/ (retries' > ImportTries /\ warm' = "failed")
      BY <2>3, <3>1
    <3>8. NeverForgotten'
      <4>1. CASE warm = "failed"
        BY <3>2, <3>7, <4>1 DEF NeverForgotten, Idle, ViewerGivenUp
      <4>2. CASE warm = "ok" /\ touch
        BY <2>1, <2>3, <3>6, <4>2 DEF Trying, NeverForgotten, Idle
      <4>3. CASE warm = "ok" /\ ~touch
        <5>1. overlap \/ replaced
          BY <1>1, <2>1, <4>3 DEF Known
        <5> QED
          BY <2>1, <4>3, <5>1 DEF NeverForgotten
      <4> QED
        BY <3>5, <4>1, <4>2, <4>3
    <3> QED
      BY <3>3, <3>4, <3>6, <3>8 DEF GuiInv
  <2> QED
    BY <1>4, <2>2, <2>3 DEF Import
<1> QED
  BY <1>2, <1>3, <1>4

\* The events of a session: one that ends sets a timer, unless its guest is
\* given up; none forgets a session connectGui knows of and leaves it open.
LEMMA GuiEvents ==
    ASSUME GuiInv, NEW i \in Id,
           Connects(i) \/ Breaks(i) \/ DiesSilently(i) \/ Disconnected(i)
    PROVE  GuiInv'
<1>1. GuiTypeOK /\ NoneYet /\ Known /\ Trying /\ NeverForgotten
  BY DEF GuiInv
<1>2. /\ touch' = touch /\ overlap' = overlap /\ replaced' = replaced /\ warm' = warm
      /\ calls' = calls /\ imports' = imports /\ opened' = opened
  BY DEF Connects, Breaks, DiesSilently, Disconnected
<1>3. /\ sess \in [Id -> SessStates] /\ timers \in Nat /\ retries \in Nat /\ None \notin Id
      /\ GiveUp \in Nat /\ touch \in BOOLEAN /\ calls \in Nat /\ imports \in Nat
  BY <1>1, GuiSessionAssumption DEF GuiTypeOK, SessStates
<1>4. sess[i] # "none" /\ warm = "ok"
  BY <1>1 DEF NoneYet, Connects, Breaks, DiesSilently, Disconnected
<1>5. NoneYet'
  BY <1>2, <1>4 DEF NoneYet
<1>6. CASE Connects(i) \/ DiesSilently(i)
  <2>1. /\ rfb' = rfb /\ timers' = timers /\ retries' \in {0, retries}
        /\ sess[i] \in {"connecting", "connected"}
        /\ sess' = [sess EXCEPT ![i] = "connected"] \/ sess' = [sess EXCEPT ![i] = "dead"]
    BY <1>6 DEF Connects, DiesSilently
  <2>2. sess' \in [Id -> SessStates] /\ retries' \in Nat
    BY <1>3, <2>1 DEF SessStates
  <2>3. GuiTypeOK'
    BY <1>1, <1>2, <2>1, <2>2 DEF GuiTypeOK, SessStates
  <2>4. Live' = Live /\ i \in Live /\ (\A j \in Id : sess'[j] = "closing" => sess[j] = "closing")
    BY <1>3, <2>1 DEF Live
  <2>5. Known' /\ Trying'
    BY <1>1, <1>2, <2>1, <2>4 DEF Known, Trying
  <2>6. CASE ~overlap /\ ~replaced
    <3>1. rfb' # None
      BY <1>1, <1>3, <2>1, <2>4, <2>6 DEF Known
    <3> QED
      BY <2>3, <2>5, <3>1, <1>5 DEF GuiInv, NeverForgotten
  <2>7. CASE overlap \/ replaced
    <3>1. ~(opened /\ rfb = None /\ Idle /\ touch)
      BY <1>1, <1>4 DEF NeverForgotten, ViewerGivenUp
    <3>2. NeverForgotten'
      BY <1>2, <2>1, <2>7, <3>1 DEF NeverForgotten, Idle
    <3> QED
      BY <2>3, <2>5, <3>2, <1>5 DEF GuiInv
  <2> QED
    BY <2>6, <2>7
<1>7. CASE Breaks(i) \/ Disconnected(i)
  <2>1. /\ sess' = [sess EXCEPT ![i] = "none"] /\ rfb' = None /\ retries' = retries + 1
        /\ timers' = IF retries < GiveUp \/ touch THEN timers + 1 ELSE timers
    BY <1>7 DEF Breaks, Disconnected, OnDisconnect
  <2>2. sess' \in [Id -> SessStates] /\ retries' \in Nat /\ timers' \in Nat
    BY <1>3, <2>1 DEF SessStates
  <2>3. GuiTypeOK'
    BY <1>1, <1>2, <2>1, <2>2 DEF GuiTypeOK, SessStates
  <2>4. Live' = Live \ {i} /\ (\A j \in Id : sess'[j] = "closing" => sess[j] = "closing")
    BY <1>3, <2>1 DEF Live
  <2>5. Known'
    <3> SUFFICES ASSUME ~overlap', ~replaced'
                 PROVE  /\ Live' \subseteq {rfb'} /\ (\A j \in Id : sess'[j] # "closing")
                        /\ calls' + imports' <= 1 /\ (calls' + imports' = 1 => rfb' = None)
                        /\ imports' > 0 => warm' = "failed"
      BY DEF Known
    <3>1. /\ Live \subseteq {rfb} /\ (\A j \in Id : sess[j] # "closing")
          /\ calls + imports <= 1 /\ (imports > 0 => warm = "failed")
      BY <1>1, <1>2 DEF Known
    <3>2. i \in Live
      BY <1>3, <1>4, <3>1 DEF Live, SessStates
    <3> QED
      BY <1>2, <2>1, <2>4, <3>1, <3>2
  <2>6. timers' > 0 \/ (retries' > GiveUp /\ ~touch)
    BY <1>3, <2>1
  <2>7. NeverForgotten'
    BY <1>2, <2>2, <2>6 DEF NeverForgotten, Idle
  <2>8. Trying'
    BY <1>2, <1>3, <1>4, <2>1 DEF Trying
  <2> QED
    BY <2>3, <2>5, <2>7, <2>8, <1>5 DEF GuiInv
<1> QED
  BY <1>6, <1>7

\* Every step keeps the invariant.
LEMMA GuiStep == ASSUME GuiInv, [GuiNext]_guiVars PROVE GuiInv'
<1>1. CASE UNCHANGED guiVars
  <2>1. /\ touch' = touch /\ overlap' = overlap /\ replaced' = replaced /\ rfb' = rfb
        /\ sess' = sess /\ calls' = calls /\ imports' = imports /\ timers' = timers
        /\ retries' = retries /\ opened' = opened /\ warm' = warm
    BY <1>1 DEF guiVars
  <2>2. GuiTypeOK' /\ NoneYet'
    BY <2>1 DEF GuiInv, GuiTypeOK, NoneYet
  <2>3. Known' /\ Trying' /\ NeverForgotten'
    BY <2>1 DEF GuiInv, Known, Live, Trying, NeverForgotten, Idle, ViewerGivenUp
  <2> QED
    BY <2>2, <2>3 DEF GuiInv
<1> QED
  BY <1>1, GuiConnect, GuiLoads, GuiEvents DEF GuiNext

\* The inductive invariant: a session connectGui does not know of comes from a
\* replaced session or from calls that waited together.
THEOREM GuiInvariant == GuiSpec => []GuiInv
<1>1. GuiInit => GuiInv
  BY GuiStarts
<1>2. GuiInv /\ [GuiNext]_guiVars => GuiInv'
  BY GuiStep
<1> QED
  BY <1>1, <1>2, PTL DEF GuiSpec

\* The variables keep their types (run.js 370-420, 700-800).
THEOREM GuiTyped == GuiSpec => []GuiTypeOK
<1>1. GuiInv => GuiTypeOK
  BY DEF GuiInv
<1> QED
  BY <1>1, GuiInvariant, PTL

\* Whatever the number of taps, retries, faults and hangs: unless a session was
\* replaced or two calls waited for the viewer together, at most one session is
\* open (run.js 728, 795-800).
THEOREM OneViewer == GuiSpec => []OneSessionOtherwise
<1>1. GuiInv => OneSessionOtherwise
  <2> SUFFICES ASSUME GuiInv, ~overlap, ~replaced PROVE OneSession
    BY DEF OneSessionOtherwise
  <2>1. Live \subseteq {rfb}
    BY DEF GuiInv, Known
  <2> QED
    BY <2>1 DEF OneSession
<1> QED
  BY <1>1, GuiInvariant, PTL

\* Whatever failed, hung or was replaced: once the GUI has been opened there is a
\* session, a call that waits or a timer, or the retries are used up, and those
\* of a touch guest only while the viewer cannot be loaded (run.js 781-800).
THEOREM ViewerNotForgotten ==
    GuiSpec => []NeverForgotten
<1>1. GuiInv => NeverForgotten
  BY DEF GuiInv
<1> QED
  BY <1>1, GuiInvariant, PTL

-----------------------------------------------------------------------------
(* The reads of a pack.                                                    *)

\* Each request made so far for a range inside an expanded pack began with a
\* mark.
Tried ==
    status = "open" /\ src = "raw" /\ end <= held =>
        \A p \in 0..(pre - 1) : Bom(SubSeq(file, start - p + 1, end))

\* The inductive invariant of a read.
SyncInv ==
    /\ SyncTypeOK /\ Tried /\ ReturnsExact /\ GivesUpOnlyOnMarks

\* The elements of a sequence.
LEMMA Elements ==
    ASSUME NEW S, NEW s \in Seq(S)
    PROVE  Len(s) \in Nat /\ \A i \in 1..Len(s) : s[i] \in S
OBVIOUS

\* A sequence is the function of its elements.
LEMMA AsFunction ==
    ASSUME NEW S, NEW s \in Seq(S), NEW n, Len(s) = n
    PROVE  s = [i \in 1..n |-> s[i]]
OBVIOUS

\* Functions with the same elements are the same.
LEMMA SameElements ==
    ASSUME NEW D, NEW s, NEW t, s = [i \in D |-> s[i]], t = [i \in D |-> t[i]],
           \A i \in D : s[i] = t[i]
    PROVE  s = t
OBVIOUS

\* The marks differ in their first byte.
LEMMA FirstByte ==
    ASSUME NEW s \in Seq(Byte)
    PROVE  /\ Mark8(s) => Len(s) >= 3 /\ s[1] = 239
           /\ Mark16(s) => Len(s) >= 2 /\ s[1] \in {254, 255}
<1>1. Len(s) \in Nat
  OBVIOUS
<1>2. ASSUME NEW a, NEW b, NEW c, Len(s) >= 3, SubSeq(s, 1, 3) = <<a, b, c>> PROVE s[1] = a
  <2>1. SubSeq(s, 1, 3)[1] = s[1]
    BY <1>1, <1>2
  <2>2. <<a, b, c>>[1] = a
    OBVIOUS
  <2> QED
    BY <1>2, <2>1, <2>2, ZenonT(40)
<1>3. ASSUME NEW a, NEW b, Len(s) >= 2, SubSeq(s, 1, 2) = <<a, b>> PROVE s[1] = a
  <2>1. SubSeq(s, 1, 2)[1] = s[1]
    BY <1>1, <1>3
  <2>2. <<a, b>>[1] = a
    OBVIOUS
  <2> QED
    BY <1>3, <2>1, <2>2, ZenonT(40)
<1>4. Mark8(s) => Len(s) >= 3 /\ s[1] = 239
  BY <1>2 DEF Mark8
<1>5. Mark16(s) => Len(s) >= 2 /\ s[1] \in {254, 255}
  BY <1>3 DEF Mark16
<1> QED
  BY <1>4, <1>5

\* A character as Binary lets it pass.
Plain(c) == c \in Int /\ (c <= 127 \/ (63360 <= c /\ c <= 63487))

\* What x-user-defined makes of a byte.
Char(b) == IF b < 128 THEN b ELSE 63232 + b

\* Such a character passes Binary and carries its byte.
LEMMA CharOfByte == ASSUME NEW b \in Nat, b < 256 PROVE Plain(Char(b)) /\ Char(b) % 256 = b
BY DEF Plain, Char

\* The texts with at most n characters.
LEMMA ShortTexts ==
    ASSUME NEW n \in Nat, NEW text \in UpTo(n)
    PROVE  Len(text) \in Nat /\ Len(text) <= n /\ \A i \in 1..Len(text) : text[i] \in Nat
<1>1. PICK k \in 0..n : text \in [1..k -> Unit]
  BY DEF UpTo
<1>2. k \in Nat /\ k <= n /\ Len(text) = k
  BY <1>1
<1> QED
  BY <1>1, <1>2, SyncRangeAssumption

\* What the decoder makes of bytes without a mark.
LEMMA DecodedBinary ==
    ASSUME NEW s \in Seq(Byte), ~Bom(s), NEW text \in Texts(s)
    PROVE  /\ Len(text) = Len(s)
           /\ \A i \in 1..Len(s) : text[i] \in Nat /\ Plain(text[i]) /\ text[i] % 256 = s[i]
<1>1. Len(s) \in Nat /\ \A i \in 1..Len(s) : s[i] \in Byte
  BY Elements
<1>2. text = [i \in 1..Len(s) |-> Char(s[i])]
  BY DEF Texts, Bom, Char
<1>3. Len(text) = Len(s)
  BY <1>1, <1>2
<1>4. \A i \in 1..Len(s) : s[i] \in Nat /\ s[i] < 256 /\ text[i] = Char(s[i])
  BY <1>1, <1>2, SyncRangeAssumption
<1>5. \A i \in 1..Len(s) : text[i] \in Nat
  BY <1>4 DEF Char
<1>6. \A i \in 1..Len(s) : Plain(text[i]) /\ text[i] % 256 = s[i]
  BY <1>4, CharOfByte
<1> QED
  BY <1>3, <1>5, <1>6

\* A mark makes the text shorter than the bytes, whatever they decode to.
LEMMA DecodedShort ==
    ASSUME NEW s \in Seq(Byte), Bom(s), NEW text \in Texts(s)
    PROVE  Len(text) \in Nat /\ Len(text) < Len(s) /\ \A i \in 1..Len(text) : text[i] \in Nat
<1>1. Len(s) \in Nat
  OBVIOUS
<1>2. CASE Mark8(s)
  <2> DEFINE rest == SubSeq(s, 4, Len(s))
  <2>1. Len(s) >= 3
    BY <1>2, FirstByte
  <2>2. rest \in Seq(Byte) /\ Len(rest) = Len(s) - 3
    <3>1. \A k \in Nat : k >= 3 => k = 3 \/ k > 3
      OBVIOUS
    <3>2. CASE Len(s) = 3
      BY <3>2
    <3>3. CASE Len(s) > 3
      BY <1>1, <3>3
    <3> QED
      BY <1>1, <2>1, <3>1, <3>2, <3>3, ZenonT(40)
  <2>3. text \in Texts8(rest)
    BY <1>2 DEF Texts
  <2> HIDE DEF rest
  <2>4. text = rest \/ text \in UpTo(Len(rest))
    BY <2>3 DEF Texts8
  <2>5. ASSUME text = rest PROVE \A i \in 1..Len(text) : text[i] \in Nat
    BY <2>2, <2>5, Elements, SyncRangeAssumption
  <2>6. Len(rest) \in Nat
    BY <1>1, <2>1, <2>2
  <2>7. ASSUME text \in UpTo(Len(rest))
        PROVE  /\ Len(text) \in Nat /\ Len(text) <= Len(rest)
               /\ \A i \in 1..Len(text) : text[i] \in Nat
    BY <2>6, <2>7, ShortTexts
  <2> QED
    BY <1>1, <2>2, <2>4, <2>5, <2>6, <2>7
<1>3. CASE ~Mark8(s) /\ Mark16(s)
  <2>1. Len(s) >= 2
    BY <1>3, FirstByte
  <2>2. (Len(s) - 1) \div 2 \in Nat /\ (Len(s) - 1) \div 2 < Len(s)
    <3>1. \A k \in Nat : k >= 2 => (k - 1) \div 2 \in Nat /\ (k - 1) \div 2 < k
      OBVIOUS
    <3> QED
      BY <1>1, <2>1, <3>1, ZenonT(40)
  <2>3. text \in UpTo((Len(s) - 1) \div 2)
    BY <1>3 DEF Texts
  <2> DEFINE n == (Len(s) - 1) \div 2
  <2> HIDE DEF n
  <2>4. n \in Nat /\ n < Len(s) /\ text \in UpTo(n)
    BY <2>2, <2>3 DEF n
  <2>5. Len(text) \in Nat /\ Len(text) <= n /\ \A i \in 1..Len(text) : text[i] \in Nat
    BY <2>4, ShortTexts
  <2> QED
    BY <1>1, <2>4, <2>5
<1> QED
  BY <1>2, <1>3 DEF Bom

\* The range of the pack, and a longer one that starts earlier.
LEMMA Ranges ==
    ASSUME SyncTypeOK
    PROVE  /\ file \in Seq(Byte) /\ Len(file) = FileLen
           /\ \A m \in 1..(start + 1), n \in 0..FileLen :
                 /\ SubSeq(file, m, n) \in Seq(Byte)
                 /\ Len(SubSeq(file, m, n)) = (IF m <= n THEN n - m + 1 ELSE 0)
                 /\ \A i \in 1..(n - m + 1) : SubSeq(file, m, n)[i] = file[m + i - 1]
<1>1. file \in [1..FileLen -> Byte] /\ FileLen \in Nat /\ start \in Nat
  BY SyncRangeAssumption DEF SyncTypeOK
<1>2. file \in Seq(Byte) /\ Len(file) = FileLen
  BY <1>1
<1>3. ASSUME NEW m \in 1..(start + 1), NEW n \in 0..FileLen
      PROVE  /\ SubSeq(file, m, n) \in Seq(Byte)
             /\ Len(SubSeq(file, m, n)) = (IF m <= n THEN n - m + 1 ELSE 0)
             /\ \A i \in 1..(n - m + 1) : SubSeq(file, m, n)[i] = file[m + i - 1]
  <2>1. m \in Int /\ n \in Int /\ 1 <= m /\ n <= Len(file)
    BY <1>1, <1>2
  <2> QED
    BY <1>1, <1>2, <2>1
<1> QED
  BY <1>2, <1>3

\* A read has its invariant when it starts.
LEMMA SyncStarts == SyncInit => SyncInv
<1> SUFFICES ASSUME SyncInit PROVE SyncInv
  OBVIOUS
<1>1. /\ file \in [1..FileLen -> Byte] /\ held \in Held /\ src = "raw"
      /\ start \in Starts /\ end <= FileLen
      /\ pre = 0 /\ status = "open" /\ out = <<>>
  BY DEF SyncInit
<1>2. PICK n \in Lengths : end = start + n
  BY DEF SyncInit
<1>3. start \in Nat /\ n \in Nat \ {0} /\ MaxPre \in Nat /\ held \in Nat /\ held <= FileLen
  BY <1>1, <1>2, SyncRangeAssumption
<1>4. SyncTypeOK
  <2>1. end \in Nat /\ start < end /\ pre \in 0..MaxPre /\ pre <= start
    BY <1>1, <1>2, <1>3
  <2> QED
    BY <1>1, <1>3, <2>1 DEF SyncTypeOK
<1> QED
  BY <1>1, <1>4 DEF SyncInv, Tried, ReturnsExact, GivesUpOnlyOnMarks

\* The answer to one request: unless it is a whole pack that begins with a mark,
\* characters that pass the test are the bytes asked for, and all of them are
\* there; those of an expansion that has the range fail it only by a mark.
LEMMA Answer ==
    ASSUME SyncInv, Http # 404,
           NEW text \in Texts(Body(start - pre, end - 1))
    PROVE  /\ Len(text) = end - start + pre => Take(text) \in Seq(Nat)
           /\ Len(text) = end - start + pre /\ Binary(text) =>
                 \/ src = "gz" /\ Bom(file)
                 \/ /\ Take(text) = SubSeq(file, start + 1, end)
                    /\ src = "raw" => end <= held
           /\ src = "raw" /\ end <= held /\ ~(Len(text) = end - start + pre /\ Binary(text)) =>
                 Bom(SubSeq(file, start - pre + 1, end))
<1> DEFINE b == Body(start - pre, end - 1)
           top == IF end <= held THEN end ELSE held
<1>1. /\ start \in Nat /\ end \in Nat /\ start < end /\ pre \in Nat /\ pre <= start
      /\ FileLen \in Nat /\ end <= FileLen /\ held \in Nat /\ held <= FileLen
      /\ src \in {"raw", "gz"}
  BY SyncRangeAssumption DEF SyncInv, SyncTypeOK, Http
<1>2. /\ file \in Seq(Byte) /\ Len(file) = FileLen
      /\ \A m \in 1..(start + 1), n \in 0..FileLen :
            /\ SubSeq(file, m, n) \in Seq(Byte)
            /\ Len(SubSeq(file, m, n)) = (IF m <= n THEN n - m + 1 ELSE 0)
            /\ \A i \in 1..(n - m + 1) : SubSeq(file, m, n)[i] = file[m + i - 1]
  BY Ranges DEF SyncInv
<1>3. start - pre + 1 \in 1..(start + 1) /\ top \in 0..FileLen /\ start + 1 \in 1..(start + 1)
  BY <1>1
<1>4. /\ src = "raw" => b = SubSeq(file, start - pre + 1, top)
      /\ src = "gz" => b = file
  <2>1. (IF end - 1 < held THEN (end - 1) + 1 ELSE held) = top
    BY <1>1
  <2>2. src = "raw" => b = SubSeq(file, (start - pre) + 1,
                                  IF end - 1 < held THEN (end - 1) + 1 ELSE held)
    BY ZenonT(40) DEF Body
  <2>3. src = "gz" => b = file
    BY DEF Body
  <2> QED
    BY <2>1, <2>2, <2>3, ZenonT(40)
<1>5. /\ b \in Seq(Byte) /\ Len(b) \in Nat
      /\ src = "raw" => /\ Len(b) = (IF start - pre + 1 <= top THEN top - start + pre ELSE 0)
                        /\ \A i \in 1..(top - start + pre) : b[i] = file[start - pre + i]
      /\ src = "gz" => Len(b) = FileLen
  <2>1. CASE src = "raw"
    <3>1. /\ SubSeq(file, start - pre + 1, top) \in Seq(Byte)
          /\ Len(SubSeq(file, start - pre + 1, top)) =
                (IF start - pre + 1 <= top THEN top - (start - pre + 1) + 1 ELSE 0)
          /\ \A i \in 1..(top - (start - pre + 1) + 1) :
                SubSeq(file, start - pre + 1, top)[i] = file[(start - pre + 1) + i - 1]
      BY <1>2, <1>3
    <3> HIDE DEF b, top
    <3>2. top \in Nat
      BY <1>1, <1>3
    <3>3. /\ top - (start - pre + 1) + 1 = top - start + pre
          /\ \A i \in Int : (start - pre + 1) + i - 1 = start - pre + i
      BY <1>1, <3>2
    <3>4. b = SubSeq(file, start - pre + 1, top)
      BY <1>4, <2>1, ZenonT(40)
    <3>5. /\ b \in Seq(Byte)
          /\ Len(b) = (IF start - pre + 1 <= top THEN top - (start - pre + 1) + 1 ELSE 0)
          /\ \A i \in 1..(top - (start - pre + 1) + 1) : b[i] = file[(start - pre + 1) + i - 1]
      BY <3>1, <3>4, ZenonT(40)
    <3>6. /\ Len(b) = (IF start - pre + 1 <= top THEN top - start + pre ELSE 0)
          /\ \A i \in 1..(top - start + pre) : b[i] = file[start - pre + i]
      <4>1. Len(b) = (IF start - pre + 1 <= top THEN top - start + pre ELSE 0)
        BY <3>3, <3>5, ZenonT(40)
      <4>2. ASSUME NEW i \in 1..(top - start + pre) PROVE b[i] = file[start - pre + i]
        <5>1. i \in Int /\ i \in 1..(top - (start - pre + 1) + 1)
          BY <3>3
        <5>2. (start - pre + 1) + i - 1 = start - pre + i
          BY <1>1, <5>1
        <5> QED
          BY <3>5, <5>1, <5>2, ZenonT(40)
      <4> QED
        BY <4>1, <4>2
    <3>7. Len(b) \in Nat
      BY <3>5
    <3> QED
      BY <2>1, <3>5, <3>6, <3>7, ZenonT(40)
  <2>2. CASE src = "gz"
    BY <1>1, <1>2, <1>4, <2>2
  <2> QED
    BY <1>1, <2>1, <2>2
<1> HIDE DEF b
<1>6. text \in Texts(b)
  BY DEF b
<1>7. ASSUME Bom(b), src = "raw" PROVE Len(text) # end - start + pre
  <2>1. Len(text) \in Nat /\ Len(text) < Len(b)
    BY <1>5, <1>6, <1>7, DecodedShort
  <2>2. Len(b) <= end - start + pre
    BY <1>1, <1>5, <1>7
  <2> QED
    BY <1>1, <1>5, <2>1, <2>2
<1>8. ASSUME ~Bom(b)
      PROVE  /\ Len(text) = Len(b)
             /\ \A i \in 1..Len(b) : Plain(text[i]) /\ text[i] % 256 = b[i]
  BY <1>5, <1>6, <1>8, DecodedBinary
<1>9. Len(text) \in Nat /\ \A i \in 1..Len(text) : text[i] \in Nat
  <2>1. CASE Bom(b)
    BY <1>5, <1>6, <2>1, DecodedShort
  <2>2. CASE ~Bom(b)
    <3>1. Len(text) = Len(b) /\ \A i \in 1..Len(b) : text[i] \in Nat
      BY <1>5, <1>6, <2>2, DecodedBinary
    <3> QED
      BY <1>5, <3>1
  <2> QED
    BY <2>1, <2>2
<1>10. ASSUME Len(text) = end - start + pre PROVE Take(text) \in Seq(Nat)
  <2>1. \A i \in 1..(end - start) : text[pre + i] % 256 \in Nat
    <3> TAKE i \in 1..(end - start)
    <3>1. pre + i \in 1..Len(text)
      BY <1>1, <1>10
    <3>2. text[pre + i] \in Nat
      BY <1>9, <3>1
    <3> QED
      BY <3>2
  <2>2. Take(text) \in [1..(end - start) -> Nat]
    BY <2>1 DEF Take
  <2>3. end - start \in Nat
    BY <1>1
  <2> DEFINE n == end - start
             s == Take(text)
  <2> HIDE DEF n, s
  <2>4. n \in Nat /\ s \in [1..n -> Nat]
    BY <2>2, <2>3 DEF n, s
  <2>5. s \in Seq(Nat)
    BY <2>4
  <2> QED
    BY <2>5 DEF s
<1>11. ASSUME Len(text) = end - start + pre, ~(src = "gz" /\ Bom(file))
      PROVE  Take(text) = SubSeq(file, start + 1, end) /\ (src = "raw" => end <= held)
  <2>1. ~Bom(b)
    BY <1>1, <1>4, <1>7, <1>11, ZenonT(40)
  <2>2. Len(b) = end - start + pre /\ \A i \in 1..Len(b) : text[i] % 256 = b[i]
    BY <1>8, <1>11, <2>1
  <2>3. end <= FileLen /\ (src = "raw" => end <= held) /\ (src = "gz" => pre = start)
    BY <1>1, <1>5, <2>2
  <2>4. \A i \in 1..(end - start) : b[pre + i] = file[start + i]
    BY <1>1, <1>4, <1>5, <2>2, <2>3
  <2>5. \A i \in 1..(end - start) : text[pre + i] % 256 = file[start + i]
    BY <1>1, <2>2, <2>4
  <2>6. /\ SubSeq(file, start + 1, end) \in Seq(Byte)
        /\ Len(SubSeq(file, start + 1, end)) = end - start
        /\ \A i \in 1..(end - start) : SubSeq(file, start + 1, end)[i] = file[start + i]
    <3>1. end \in 0..FileLen /\ start + 1 <= end /\ end - (start + 1) + 1 = end - start
      BY <1>1, <2>3
    <3>2. /\ SubSeq(file, start + 1, end) \in Seq(Byte)
          /\ Len(SubSeq(file, start + 1, end)) = end - (start + 1) + 1
          /\ \A i \in 1..(end - (start + 1) + 1) :
                SubSeq(file, start + 1, end)[i] = file[(start + 1) + i - 1]
      BY <1>2, <1>3, <3>1
    <3> QED
      BY <1>1, <3>1, <3>2
  <2> DEFINE r == SubSeq(file, start + 1, end)
             n == end - start
             t == Take(text)
  <2>7. /\ r \in Seq(Byte) /\ Len(r) = n
        /\ \A i \in 1..n : r[i] = file[start + i]
    BY <2>6
  <2>8. t = [i \in 1..n |-> t[i]]
    BY DEF Take
  <2>9. \A i \in 1..n : t[i] = text[pre + i] % 256
    BY DEF Take
  <2>10. \A i \in 1..n : t[i] = r[i]
    BY <2>5, <2>7, <2>9
  <2> HIDE DEF r, n, t
  <2>11. r = [i \in 1..n |-> r[i]]
    BY <2>7, AsFunction
  <2>12. t = r
    BY <2>8, <2>10, <2>11, SameElements, ZenonT(40)
  <2> QED
    BY <2>3, <2>12 DEF r, t
<1>12. ASSUME src = "raw", end <= held,
              ~(Len(text) = end - start + pre /\ Binary(text))
       PROVE  Bom(SubSeq(file, start - pre + 1, end))
  <2> SUFFICES ASSUME ~Bom(b) PROVE FALSE
    BY <1>4, <1>12, ZenonT(40)
  <2>1. Len(text) = end - start + pre
    <3>1. Len(text) = Len(b)
      BY <1>8
    <3>2. top = end /\ start - pre + 1 <= top
      BY <1>1, <1>12
    <3> HIDE DEF top
    <3>3. Len(b) = top - start + pre
      BY <1>5, <1>12, <3>2
    <3> QED
      BY <3>1, <3>2, <3>3
  <2>2. ASSUME NEW i \in (pre + 1)..Len(text)
        PROVE  text[i] <= 127 \/ (63360 <= text[i] /\ text[i] <= 63487)
    <3>1. i \in 1..Len(b)
      BY <1>1, <1>5, <1>8, <2>1
    <3> QED
      BY <1>8, <3>1 DEF Plain
  <2>3. Binary(text)
    BY <2>2 DEF Binary
  <2> QED
    BY <1>12, <2>1, <2>3
<1> QED
  BY <1>11, <1>12, <1>10

\* One request keeps the invariant.
LEMMA SyncRequest == SyncInv /\ Request => SyncInv'
<1> SUFFICES ASSUME SyncInv, Request PROVE SyncInv'
  OBVIOUS
<1>1. /\ status = "open" /\ file' = file /\ held' = held /\ src' = src
      /\ start' = start /\ end' = end
  BY DEF Request
<1>2. SyncTypeOK /\ Tried
  BY DEF SyncInv
<1>3. /\ start \in Nat /\ end \in Nat /\ start < end /\ pre \in 0..MaxPre /\ pre <= start
      /\ pre \in Nat /\ MaxPre \in Nat /\ FileLen \in Nat
      /\ src \in {"raw", "gz", "none"}
  BY <1>2, SyncRangeAssumption DEF SyncTypeOK
<1>4. \/ status' = "http" /\ pre' = pre /\ out' = out
      \/ /\ status' = "ok" /\ pre' = pre /\ out' \in Seq(Nat)
         /\ \/ src = "gz" /\ Bom(file)
            \/ out' = SubSeq(file, start + 1, end) /\ (src = "raw" => end <= held)
      \/ /\ ~LastTry /\ pre' = pre + 1 /\ status' = status /\ out' = out
         /\ src = "raw" /\ end <= held => Bom(SubSeq(file, start - pre + 1, end))
      \/ /\ LastTry /\ status' = "unreadable" /\ pre' = pre /\ out' = out
         /\ src = "raw" /\ end <= held => Bom(SubSeq(file, start - pre + 1, end))
  <2>1. CASE Http = 404
    BY <2>1 DEF Request
  <2>2. CASE Http # 404
    <3>1. PICK text \in Texts(Body(start - pre, end - 1)) :
             LET good == Len(text) = end - start + pre /\ Binary(text)
             IN  \/ good /\ status' = "ok" /\ out' = Take(text) /\ pre' = pre
                 \/ ~good /\ ~LastTry /\ pre' = pre + 1 /\ status' = status /\ out' = out
                 \/ ~good /\ LastTry /\ status' = "unreadable" /\ pre' = pre /\ out' = out
      BY <2>2 DEF Request
    <3>2. /\ Len(text) = end - start + pre => Take(text) \in Seq(Nat)
          /\ Len(text) = end - start + pre /\ Binary(text) =>
                \/ src = "gz" /\ Bom(file)
                \/ /\ Take(text) = SubSeq(file, start + 1, end)
                   /\ src = "raw" => end <= held
          /\ src = "raw" /\ end <= held /\ ~(Len(text) = end - start + pre /\ Binary(text)) =>
                Bom(SubSeq(file, start - pre + 1, end))
      BY <2>2, Answer
    <3> QED
      BY <3>1, <3>2, ZenonT(40)
  <2> QED
    BY <2>1, <2>2
<1>5. CASE status' = "http" /\ pre' = pre /\ out' = out
  <2>1. SyncTypeOK'
    BY <1>1, <1>2, <1>5 DEF SyncTypeOK
  <2> QED
    BY <1>5, <2>1 DEF SyncInv, Tried, ReturnsExact, GivesUpOnlyOnMarks
<1>6. CASE /\ status' = "ok" /\ pre' = pre /\ out' \in Seq(Nat)
           /\ \/ src = "gz" /\ Bom(file)
              \/ out' = SubSeq(file, start + 1, end) /\ (src = "raw" => end <= held)
  <2>1. SyncTypeOK'
    BY <1>1, <1>2, <1>6 DEF SyncTypeOK
  <2>2. ReturnsExact'
    BY <1>1, <1>6, ZenonT(40) DEF ReturnsExact
  <2> QED
    BY <1>6, <2>1, <2>2 DEF SyncInv, Tried, GivesUpOnlyOnMarks
<1>7. CASE /\ ~LastTry /\ pre' = pre + 1 /\ status' = status /\ out' = out
           /\ src = "raw" /\ end <= held => Bom(SubSeq(file, start - pre + 1, end))
  <2>1. pre' \in 0..MaxPre /\ pre' <= start
    BY <1>3, <1>7 DEF LastTry
  <2>2. SyncTypeOK'
    BY <1>1, <1>2, <1>7, <2>1 DEF SyncTypeOK
  <2>3. Tried'
    <3> SUFFICES ASSUME src = "raw", end <= held, NEW p \in 0..(pre' - 1)
                 PROVE  Bom(SubSeq(file, start - p + 1, end))
      BY <1>1, ZenonT(40) DEF Tried
    <3>1. CASE p = pre
      BY <1>7, <3>1
    <3>2. CASE p \in 0..(pre - 1)
      BY <1>1, <1>2, <3>2 DEF Tried
    <3> QED
      BY <1>3, <1>7, <3>1, <3>2
  <2> QED
    BY <1>1, <1>7, <2>2, <2>3 DEF SyncInv, ReturnsExact, GivesUpOnlyOnMarks
<1>8. CASE /\ LastTry /\ status' = "unreadable" /\ pre' = pre /\ out' = out
           /\ src = "raw" /\ end <= held => Bom(SubSeq(file, start - pre + 1, end))
  <2>1. SyncTypeOK'
    BY <1>1, <1>2, <1>8 DEF SyncTypeOK
  <2>2. GivesUpOnlyOnMarks'
    <3> SUFFICES ASSUME src = "raw", end <= held, NEW p \in 0..MaxPre, p <= start
                 PROVE  Bom(SubSeq(file, start - p + 1, end))
      BY <1>1, ZenonT(40) DEF GivesUpOnlyOnMarks
    <3>1. p = pre \/ p \in 0..(pre - 1)
      BY <1>3, <1>8 DEF LastTry
    <3>2. CASE p = pre
      BY <1>8, <3>2
    <3>3. CASE p \in 0..(pre - 1)
      BY <1>1, <1>2, <3>3 DEF Tried
    <3> QED
      BY <3>1, <3>2, <3>3
  <2> QED
    BY <1>8, <2>1, <2>2 DEF SyncInv, Tried, ReturnsExact
<1> QED
  BY <1>4, <1>5, <1>6, <1>7, <1>8, ZenonT(40)

\* Every step keeps the invariant.
LEMMA SyncStep == ASSUME SyncInv, [SyncNext]_syncVars PROVE SyncInv'
<1>1. CASE Lose
  <2>1. /\ status = "open" /\ src' \in {"gz", "none"} /\ file' = file /\ held' = held
        /\ start' = start /\ end' = end /\ pre' = pre /\ status' = status /\ out' = out
    BY <1>1 DEF Lose
  <2>2. SyncTypeOK'
    BY <2>1 DEF SyncInv, SyncTypeOK
  <2> QED
    BY <2>1, <2>2 DEF SyncInv, Tried, ReturnsExact, GivesUpOnlyOnMarks
<1>2. CASE UNCHANGED syncVars
  <2>1. /\ src' = src /\ file' = file /\ held' = held /\ start' = start /\ end' = end
        /\ pre' = pre /\ status' = status /\ out' = out
    BY <1>2 DEF syncVars
  <2>2. SyncTypeOK'
    BY <2>1 DEF SyncInv, SyncTypeOK
  <2>3. Tried'
    BY <2>1, ZenonT(40) DEF SyncInv, Tried
  <2>4. ReturnsExact' /\ GivesUpOnlyOnMarks'
    BY <2>1, ZenonT(40) DEF SyncInv, ReturnsExact, GivesUpOnlyOnMarks
  <2> QED
    BY <2>1, <2>2, <2>3, <2>4 DEF SyncInv
<1> QED
  BY <1>1, <1>2, SyncRequest DEF SyncNext

\* The inductive invariant: the requests made so far began with a mark.
THEOREM SyncInvariant == SyncSpec => []SyncInv
<1>1. SyncInit => SyncInv
  BY SyncStarts
<1>2. SyncInv /\ [SyncNext]_syncVars => SyncInv'
  BY SyncStep
<1> QED
  BY <1>1, <1>2, PTL DEF SyncSpec

\* Whatever the pack, however short its expansion and whatever text a mark makes
\* the browser decode, syncRange returns the bytes asked for or none, with one
\* exception: the server sends the .gz whole and the pack begins with a mark
\* (lazypack.js 41-63).
THEOREM ReadsExact == SyncSpec => []ReturnsExact
<1>1. SyncInv => ReturnsExact
  BY DEF SyncInv
<1> QED
  BY <1>1, SyncInvariant, PTL

\* syncRange gives up on a range inside an expanded pack only if every request
\* it may make begins with a byte order mark (lazypack.js 42-62).
THEOREM GivesUpOnMarks ==
    SyncSpec => []GivesUpOnlyOnMarks
<1>1. SyncInv => GivesUpOnlyOnMarks
  BY DEF SyncInv
<1> QED
  BY <1>1, SyncInvariant, PTL
=============================================================================
