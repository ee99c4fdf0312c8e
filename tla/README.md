# Bootbox: TLA+ specifications

Bootbox boots operating systems inside an iPad app. This directory holds TLA+
models of the parts of it in which order, concurrency, failure or stale state
matter, the TLC configurations that check them on small instances, and TLAPS
proofs for all of them. Every invariant and every action property that a run
checks is also proved, for every value of the constants; liveness is left to TLC.

    tlc -config LazyPack.cfg MCLazyPack      # model-check one configuration
    tlapm LazyPackProofs.tla                 # check the proofs (also
                                             # CpuExclusiveProofs, GuestProofs,
                                             # BbwebLaunchProofs, TbCacheProofs,
                                             # PackStoreProofs, AdbShellProofs,
                                             # PageProofs: 45 minutes in all)

`PROJECT.json` lists the runs, what each definition models (file and lines), one
mutant per property, the hazards and the disagreements found.

## The system

    Swift app                                  page (WKWebView)
    ---------                                  ----------------
    HostView: loads, replaces the page         firmware, boot menu, desktop
    BridgeRouter + bridges   <-- messages -->  kernel/bridge.js
      BinaryBridge, Downloader, GunzipStream   apps/emulator.js (boots guests)
      FilesBridge, SystemBridge, ...           kernel/vfs.js (the page's files)
    LocalServer: files by HTTP range <-------  vendor/qemu/lazypack.js
    user-mode network (iosnet.go)    <-------  run.js (display), adbshell.js
                                               QEMU in WebAssembly, one worker
                                               per vCPU (tcg/wasm32.c)

The app and the page are separate processes. The page can be ended by iPadOS at
any moment and loaded again while the app's background work goes on; the app can
be killed with its files left as they are. Inside the page there is one main
thread, whose callbacks interleave at every `await`, timer and event; the
emulator's vCPUs are threads that share memory.

### Inventory

| part | state | operations | what makes it hard | module |
|---|---|---|---|---|
| `lazypack.js` makeLazy | file length, pack end, LRU cache, written chunks | read, write, truncate, fallocate | mixed chunks, shrink then grow, failing fetch | LazyPack, PackFile |
| `lazypack.js` syncRange, LocalServer ranges | attempt, answer | range request | text decoding of binary, short or whole answers | SyncRange |
| ensureRootfs, BinaryBridge, Downloader | .gz, .part, raw file; jobs; page | download, expand, delete, boot | kills, reloads, late replies, shared .part | PackStore |
| `tcg/wasm32.c` instances | slots, free stack, clock hand, counts, cap | run, compile, sweep, share, flush | threads without locks, reuse of slots | TbCache |
| `cpu-common.c` exclusive sections | running, has_waiter, pending_cpus, big lock | enter and leave guest code, start and end a section, queued work | lock-free flags against a counter, wakeups, two locks | CpuExclusive, StopTheWorld |
| device accesses (`cputlb.c`, `translate-all.c`, `wasm32.c`) | blocks, split hints, interpreter depth | look up, translate, run, restart, split | three restart rules that meet, shared blocks | GuestIo |
| `cpu-timers.c` | highest tick, skew per thread | cpu_get_ticks | clocks that disagree, weak exchange | GuestTsc |
| `run.js` display | session, retries, timers, waiting calls | connect, retry, watchdog, reconnect | awaits, late events of old sessions | GuiSession |
| `adbshell.js` | queues, acknowledgement, window size | type, resize, close, packets | flow control, fragmentation, ends in any order | AdbShell |
| `vfs.js`, FilesBridge | tree, disk file, timer | load, write, remove, save | timeouts, failed reads, page death | VfsDisk |
| bridge, page life cycle | pending calls, page | call, reply, reload | replies to a page that is gone | planned: Bridge |
| boot64 ladder, crash note | level, start time, crash note | boot, crash, 75 s timer | crash before the note is saved | planned: SafeLadder |
| LocalServer upload, Save button | .part, saved state | upload, rename, restore | failed writes, two uploads | planned: SaveUpload |
| `panel.js` | busy flag, markers | run command, list, upload | timeouts while the command runs on | planned: PanelScrape |
| `wm.js` | windows, desktops | open, minimise, move, switch | timers, renumbering | planned: WM |
| `bbweb-launch.c`, `bbweb.c` | lock, socket, engine | launch, pre-start, hand over, quit | races of processes | BbwebLaunch |
| `mem_helper.c` bulk strings | registers, memory | REP MOVS/STOS | page ends, wraps, overlap | planned: RepBulk |
| `bootbox_android_vnc.c` | connection, frame, touch state | relay, touch, key | partial messages | planned: AndroidVnc |
| File provider | imports, materialised links | edit, import, rename, delete | remove before copy | planned: FileProvider |

Left out for good: the user interfaces (shell, apps), calls that only pass on to
iPadOS, the demonstration interpreters of `web/js/runtime`, and third-party code
(QEMU itself, noVNC, v86, xterm). Where modelled code depends on third-party
code, the model has it as an external action.

## The modules

Every component's module has a `TypeOK` that says what its variables hold. It is
proved for all but `GuestIo`, as a theorem or as part of the inductive invariant.
It is not among the properties of the runs, which are about behaviour; adding
`INVARIANT TypeOK` to any of the configurations checks it there. Components whose proofs
share a module need names of their own: it is `GuiInit`, `GuiNext`, `GuiSpec`,
`GuiTypeOK` in `GuiSession`, and likewise `Sync...` in `SyncRange` and `Tsc...` in
`GuestTsc`.

### LazyPack and PackFile

`LazyPack` is `makeLazy`. The variables are the closure's: `usedBytes`,
`packEnd`, the Map `cache` (its contents, and `lru` for its insertion order) and
`dirty`. A call of `read` or `write` is `StartRead`/`StartWrite`, one
`ReadChunk`/`WriteChunk` per turn of its loop, and `Return`; `FetchFails` is the
exception out of `syncRange` at any turn that has to fetch. `Shrink`/`Grow` are
`setattr` with a size, `Allocate` is `allocate`. Calls do not overlap because the
main thread runs them one after the other.

`PackFile` is what QEMU relies on: one array of bytes with a length. `LazyPack`
implements it under the mapping `data <- Data`, `size <- usedBytes`, where `Data`
reads through written chunks to the pack below `packEnd` and never through the
cache: the cache is therefore shown to be invisible.

Run `lazypack` (chunks of 2, pack of 5 bytes, file up to 6, two cached chunks,
calls up to 3 bytes, bytes 0 and 1): the pack ends inside a chunk, a call spans
three positions of two or three chunks, the cache must evict, the file shrinks
below and grows beyond the pack. `ZeroPastEnd`, `ReadIsExact`, `RefinesPackFile`,
all of them also proved; `CacheIsClean` and `CacheBounded`, about the cache
alone, are only proved.

### SyncRange

One call of `syncRange` against `LocalServer.respond`: the body the server sends
(a clamped range, or a whole `.gz`), the browser's decoder, which honours a byte
order mark before the requested charset, and the retry from an earlier byte. The
expansion may be a cut one (`held`), and may be deleted between two requests, when
the server falls back to a `.gz` if there is one (`Lose`). A mark is dropped and
the rest decoded as UTF-8 or UTF-16. What comes out is left open beyond this: at
most one character per byte, or per two bytes, and ASCII is ASCII (`Texts`). So
the characters after a mark may all be ones that the binary charset makes too, and
it is the length that tells them apart. It does so for a range of an expanded
pack, where the text is shorter than asked for. It does not when the answer is a
whole pack: its text after a mark can have just the length of the range.
`ReturnsExact` names that exception. Run `syncrange` takes every file of 6 bytes
over the five byte values marks are made of and an ASCII byte, whole or one byte
short, ranges of 2 and 3 at two offsets (one with fewer than four bytes before it,
one with four), and three characters for text after a mark: an ASCII one, one of
the binary charset's upper half and U+FFFD. `ReturnsExact`, `GivesUpOnlyOnMarks`.

### PackStore

How a guest pack gets onto the device. Page: `ensureRootfs` as the variable
`page`. App: expansions (`task`, each a block on a background queue whose
removals, writes and renames are single steps) and downloads (`job`, the
delegate's callbacks). The files are `gz`, `part` and `raw`; a file is named by
the task that wrote it, since a writer keeps writing through its handle after a
rename. `Kill` and `Launch` are the end and next start of the app, `Reload` a
new page, `LateReply` a bridge call the page has given up on. Decompression is
abstracted to the number of writes an archive is good for: one that was cut short
never reaches its end, but a complete archive of something else (a body of the
wrong size that the server sent) does, with the wrong content.

`download` starts the transfer before it answers, and the page listens for the
final event only once it has the answer (`DownloadStarted`, `DownloadReply`). An
event sent in between is lost (`OnDownloadDone` while the page is "starting", at
most `MaxEarly` times). `gunzip` answers first and is not exposed to this.

Run `packstore` allows one kill, one reload, one late reply, one early event and
one deletion in one behaviour, three expansions and two downloads. `RawIsWholeAlone` and `ArchiveKept` are stated for as long as the
page has waited for what it started, `BootsWholePackUnkilled` for as long as,
besides, the app has not been killed: what goes wrong otherwise is in the table of
disagreements below. `EnsureEnds` is liveness, for as long as no final event has
overtaken the reply. Fairness: the page's script runs and its calls are answered,
a dispatched block is executed, a URLSession task reaches its completion callback.
The user and the system are not fair.

### TbCache

Which translated blocks run as compiled WebAssembly. Every vCPU thread has its
table of slots, free stack, high-water mark and clock hand; the live count, the
cap and the flush generation are shared. A step is what a thread does between
two accesses to shared memory: the check of the cap and the increment of the
count are apart (`Compile`, `AddInstance`), as are the comparison and the store
of a lowered cap (`Refused`, `LowerCap`); a sweep goes slot by slot. `gen` in a
slot is the generation of the code it was compiled from, which the C code does
not store: it is what `NoStaleCode` is about. The bridge between threads for
shared modules keeps `MaxMods` of them, oldest dropped first.

Run `tbcache`: two threads, two blocks, three slots each, a cap of two, one
flush, one module kept, sharing on; symmetric in threads and blocks.
`AliveExact`, `CapOvershoot` (the cap may be exceeded, by at most one instance
per thread), `CapFloor`, `FreeStackExact`, `SlotAvailable`, `SweepFrees`,
`NoStaleCode`.

Three observations met on the way and not pursued as findings: the sweep goes
round twice, so its second lap evicts instances that ran since the last sweep,
which the comment at `wasm32.c:246-247` excludes; a refused compile evicts an
eighth of the thread's instances where the comment at 2273-2275 says half; and a
thread that owns no instance cannot make room when the others hold the whole
cap.

### CpuExclusive and StopTheWorld

`CpuExclusive` is the protocol of `cpu-common.c` by which one vCPU thread stops
all others, with the loop of a vCPU thread around it and the two users of a
section: queued safe work (a flush of all translations) and the single step of an
atomic instruction. Each access to a shared word is a step: `running`,
`has_waiter` and `pending_cpus` are read and written in the order of the source,
whose barriers make the steps sequentially consistent. `start_exclusive` looks at
the other CPUs one at a time. The big lock (BQL) is a variable, because a section
started while holding it would wait for a CPU that wants it. What the guest does
is a choice: `Queuers`, `Steppers` and `Drivers` say which vCPUs' guests cause
safe work, atomic steps and device accesses.

`StopTheWorld` is the promise: a set of vCPUs in guest code, and an owner, never
both. Property `StopsTheWorld` is the refinement.

Run `cpuexclusive`, three vCPUs (one queues, one steps and touches devices, one
only runs): `Exclusion`, `WakeupsKept`, `StopsTheWorld`, and `SectionsHappen`,
liveness; `PendingExact`, the exactness of the count, is proved. Fairness
is strong, per thread: a mutex that is released again and again is obtained in
the end, a device access ends, and a vCPU that was kicked leaves guest code,
because each block checks for the request as it starts. Not in the model: CPUs
that come, go or are stopped, nested sections (`exclusive_context_count`),
spurious wakeups (both waits are loops that test again). The workload is confined
by those constants to keep the state space small; the proofs below are for any.

### GuestIo

What happens to a guest instruction that touches a device. Three rules may send
it back: the access must be the last instruction of its block
(`cpu_io_recompile`, which also leaves a split hint and retires the block); a
handler that may switch coroutines must not run on top of the fast interpreter
(the guards, which ask for the full interpreter); a fast interpreter that meets a
cold operation lets the full one finish the block (`FinishInFull`). Blocks and
hints are shared by the threads; a hint is two words written and read apart. An
instruction is an address with a kind; whether a block has a compiled module is a
free choice where the code allows one. Run `guestio`: a loop of four
instructions, one access of each kind, two vCPUs, for one of which two operands
are RAM. `YieldsOffFastPath`, `GuestAdvances`, `SplitSticks`; fairness: each
thread is scheduled. `SplitSticks` is about blocks of one page: for a block on two
pages `cpu_io_recompile` keeps no hint, and the run has one that is stopped at
every lap of the loop. The full interpreter leaves `bb_fast_tci_depth` as it is
(`tci_exec`); that it is 0 then is proved, not assumed. Bounds: the slots of the hints do not collide, nothing
flushes the blocks, no interrupts; the instruction on two pages is one whose
handler never yields (see the disagreements).

### GuestTsc

The lock-free path of `cpu_get_ticks`, each atomic operation a step: `LoadMax`,
`ReadClock`, `Exchange`, `Refused` (the weak exchange may fail with nothing
changed), `Behind`, `Return`. `handed`, `floor` and `lead` are history variables:
the highest value returned, its value when a call began, and how far a thread's
last reading was ahead of its own clock. Run `guesttsc`: three threads,
symmetric, clocks to 2 and any disagreement within that. `Monotonic`, `RunsOn`;
both are also proved for every number of threads and every disagreement. The
64-bit width is not modelled: a counter of host ticks does not reach it. Stopping
the clock is not modelled either: Bootbox stops a machine only to end it.

One observation: "moves its own clock forward by the difference ONCE"
(`cpu-timers.c:84-85`) is once per reading that lags. With clocks at most 1 apart
TLC reaches a lead of more than 1: thread A, moved up to B's maximum, is then the
one that B lags behind. The guest's clock can gain on the host's in this way; the
locked code it replaces ratchets alike.

### BbwebLaunch

The launcher that every tap on the guest's browser runs, the pre-start after boot,
and the engine. The lock belongs to an open file that launcher and engine share
after `fork`, so it is free when both have closed it (`lockers`). `sock` is whose
socket the path names, perhaps a dead engine's. An engine removes a stale path
before it binds and its own path at the end; `quit_browser`, the end of the main
loop, the last unlink and the exit are steps. A launcher that found the lock
taken waits, hands over, or takes the lock and starts over. Run `bbweb`: three
taps, one pre-start, one crash or failed fork: `OneEngine`, `Reachable`,
`TapsEnd`. Deadlock is not checked since all launchers end. Left out: failures to
open the lock file, to make a pipe or to bind.

Fairness: processes run, and an engine that started gets to its main loop. One
more assumption is needed: two launchers that start over at the same time can
find each other's lock for ever, and `execv` starts the 240 seconds anew. The
lock is held then for two system calls in each half second, so `FairSpec`
assumes that such collisions stop (`Collide`).

### GuiSession

`connectGui` up to its `await` (`ConnectGui`), after it (`Resume`), the import that
each call makes for itself when the viewer could not be loaded in advance
(`AwaitViewer`, `Import`: several can be under way, and end apart), the events of a session, the retry timer, the watchdog and the reconnect button.
noVNC is external: a session connects, breaks, hangs, or dies with no event;
`disconnect()` is answered by an event later. `overlap` and `replaced` are
history variables used by the properties only. `Quiet` says that calls resumed by the viewer's arrival are microtasks and run
before the next event. The real 60 and 45 retries are `GiveUp` and `ImportTries`,
both 1 in the run, with four faults, so that each limit is reached and passed. An
exception out of `new RFB` is not modelled.

Run `guisession`: `OneSessionOtherwise` names the only two ways to two viewers,
`NeverForgotten`, and the liveness property `DisplayComesBack` for guests whose
display is their whole interface; its one exception is a viewer module that could
not be loaded in all its retries. Fairness: timers fire, events are delivered,
and a display server that is up answers a session that does not hang. The number
of faults and hangs is bounded, so "the guest comes up in the end" is part of
the model; the user's taps and the reconnect button are not fair.

### AdbShell

A session of the adb client with an adbd modelled from what the client expects.
Bytes typed are numbered, so that order and loss are visible, and a string is the
interval of its bytes, which `pump` cuts in two when it is longer than a WRTE. A
shell packet is two cells, header and body, that a WRTE may part; `told` is what
the page was told, packet by packet, with 0 for a call of `onExit`. An adb message
reaches the page in pieces of its own: it is a header and as many cells as it has
data, a WebSocket message brings some of the cells under way (`OnMessage`, `inbuf`
counts them), and `handleMsg` is called for what is complete (`Received`, `Slice`).
A resize is a counter, carried by the window packet as sent. Run `adbshell` (three bytes typed
in strings of up to two, one byte per WRTE, two resizes, two packets of output):
`InputExact`, `OneUnacked`,
`WindowSettles`, `OutputExact`, `ExitOnce`, and `InputArrives` under fairness of
the browser and of adbd.

### VfsDisk

The page's tree, its delayed save, the host's `read` and `write` in order, and a
page that dies; a dead page's calls are handled as far as the host has received
them, before the new page starts. Reads may be late (three attempts), may fail,
and the file may be absent or garbled from the start. A content is the number of
the write that made it, so that an older one is told from a newer: a tree maps a
path to that number, or to 0 when it is not there. `dirty` is a history variable,
set when a page changes a tree it may save. `SettledIsSaved` says that the disk is
then exactly the tree once nothing is under way. Run `vfsdisk`:
`ReadableDiskKept`, `SettledIsSaved`, `WritesReachDisk`, over two deaths, four
late reads, one failed read and one failed write. Bound: a path once removed is
not written again, which lets `removed` tell intended losses from others. Each
write sets the 250 ms timer anew (`vfs.js:53`). A page that kept writing at shorter
intervals for ever would never save; the writes of the run are bounded in number,
so `WritesReachDisk` is about a page that pauses.

## Disagreements between code and its comments

Each row is a statement of the repository, checked as a property, and what TLC's
counterexample does. Only the first is among the runs of `PROJECT.json`, which
are kept few; the others are configurations to be run by hand,
and the passing runs check the same statements under the condition that makes
them true (last column).

| command | statement | what happens | holds when |
|---|---|---|---|
| run `vfsdisk_readerr` | a disk that can't be read is not saved over (`vfs.js:29-30`) | the bridge answers null for an unreadable file, as for a fresh disk | `ReadableDiskKept` |
| `tlc -config PackStoreReload.cfg MCPackStore` | a partial expansion never has the final name (`BinaryBridge.swift:61-63`) | the page is reloaded during an expansion and asks again; both write one `.part`; the first to finish gives the other's partial file the final name | `RawIsWholeAlone` |
| `tlc -config PackStorePoison.cfg MCPackStore` | a poisoned archive heals at the next boot (`Downloader.swift:15-16`) | a kill between the two callbacks leaves an unverified archive; at the next boot the expansion fails and the boot goes on without the size check | `BootsWholePackUnkilled` |
| `tlc -config PackStoreEarly.cfg MCPackStore` | "reply immediately, then drive the guest with "downloadProgress" events" (`BinaryBridge.swift:16-17`) | the transfer is started before the reply; one that fails at once sends its only final event before the page listens, and the boot waits for ever | `EnsureEnds` |
| `tlc -config SyncRangeWhole.cfg MCSyncRange` | any mis-decode is detected, by length or by an out-of-range character (`lazypack.js:38-39`) | the expansion is deleted during a read and the server sends the whole `.gz`; the pack begins with a UTF-8 mark, and the rest of it is ASCII and as long as the range asked for | `ReturnsExact` |
| `tlc -config SyncRangeMarks.cfg MCSyncRange` | an earlier start no longer begins with a mark (`lazypack.js:38-40`) | alternating FE and FF bytes: all five attempts begin with one | `GivesUpOnlyOnMarks` |
| `tlc -config GuiSessionForce.cfg MCGuiSession` | `connectGui` is idempotent (`run.js:374`) | the replaced session's late event clears the new one and its timer opens another | `OneSessionOtherwise` |
| `tlc -config GuiSessionImports.cfg MCGuiSession` | for a touch guest "never give up" (`run.js:786`) | that is so of its sessions; when the viewer module fails to load, the page stops after 45 retries, for every guest (736-737) | `NeverForgotten`, `DisplayComesBack` |
| `tlc -config GuestIoStraddle.cfg MCGuestIo` | an access that may switch coroutines is re-run in the instrumented interpreter (`exec-all.h:534-535`) | for an instruction on two pages no hint is kept (`translate-all.c:788-789`) and, with `lazywasm=1`, no module is built (407-408): the one-instruction block is refused by the fast interpreter's guard, the whole block by the last-instruction rule, for ever | `GuestAdvances` in run `guestio` |

## Proofs

`LazyPackProofs` proves, for every chunk size, pack, cache size, file bound and
call length allowed by `ConstantsAssumption`:

- `TypeCorrect`, `CacheStaysClean`, `CacheStaysBounded`, `EndStaysZero`,
  `ReadsAreExact`: the five invariants, of which run `lazypack` also checks two;
- `Refinement`: `Spec => PackFile's Spec` under the mapping above.

The assumptions are that chunks and the cache are not empty, that the pack fits
the bound, and that 0 is a byte.

Its inductive invariant is `IInv`, the conjunction of the five. None but the type
invariant is inductive alone: `ReadIsExact` needs a clean cache, a clean cache
needs the cache's keys to be those of `lru`, and `ZeroPastEnd` survives a failed
write only because a fetch can fail only below `packEnd`, hence inside the file.
The type invariant carries two facts the rest depends on: the pack backs no byte
past the end, and between two pieces a loop stands at the start of a chunk, so
that a piece never crosses one. The lemmas are about chunk arithmetic
(`Locate`, `PieceInChunk`), the recency list (`WithoutProperties`,
`LruAfterProperties`) and the content before and after a piece or a truncate
(`PieceContent`, `WriteContent`, `ShrinkContent`); then one lemma per action, and
`NextRefines` maps each action to one of `PackFile` or to a stutter.

`CpuExclusiveProofs` proves, for every finite set of vCPUs and every workload,
`TypeCorrect`, `SectionsExclude`, `CountIsExact`, `NoLostWakeup` and
`Refinement` (`CpuExclusive` implements `StopTheWorld`). `Exclusion` is not
inductive: nothing in it prevents a vCPU from being in guest code uncounted. The
inductive invariant adds where `running` is set and that at most one thread owns
the protocol, exactly when `pending_cpus` is not 0 (`OwnerInv`); that while there
is an owner, each vCPU in guest code has been counted or is still to be looked at
(`WaiterInv`); and that the counter agrees with the set of counted vCPUs before
and after it is published (`CountInv`). A section begins when the count is 1, so
nobody is counted, so nobody is in guest code. The case that needs the order of
the accesses is a vCPU between setting `running` and reading `pending_cpus`: it
may be counted or not, and is outside guest code either way.

`GuestProofs` proves `NeverStepsBack` (`Monotonic`) and `NeverFreezes`
(`RunsOn`) for every set of threads and clocks. The invariant is `Covered`: the
shared maximum is at least whatever was returned, and what a thread loaded of it
is at least what had been returned when its call began; and `LeadIsSkew`, which
bounds the lead of the last reading by the skew kept for the next.

Its second part is about `GuestIo`: `YieldsSafely` (the action property
`YieldsOffFastPath`), for every program, set of vCPUs and choice of compiled
modules. The guards do not ask which interpreter runs; they read
`bb_fast_tci_depth`. What has to be invariant is that this counter tells
(`DepthTells`): it is 1 exactly while the fast interpreter runs the thread's
block. `DepthExact` adds that nothing runs before a block has been picked, since
a thread that started one with the depth still at 1 would break it. Each step of a
thread leaves the interpreter alone, returns to the loop, starts a block or
changes the interpreter inside one (`EngineMoves`).

`BbwebLaunchProofs` proves `SingleEngine` (`OneEngine`) and `StaysReachable`
(`Reachable`) for any sets of taps and pre-starts and any number of faults. Neither
is inductive: `OneEngine` alone does not prevent a fork beside a living engine, nor
`Reachable` an unlink by another one. The invariant adds that an engine lives
exactly as long as it has the lock file open (`EngineHolds`), that a launcher about
to fork or to start over has the lock alone (`LauncherHolds`), and that the lock is
had through one open file at a time (`OneLock`). The last unlink of a closing engine
is then harmless: until it has exited it has the lock, so nobody else is up.
`TapsWaitOnce` is about the queues: a tap that waits for an engine's main loop has
handed over, has no outcome, and waits in that queue only. The type invariant
(`TypeCorrect`) needs it, because an engine that ends gives an outcome to all that
wait for it: a tap in two queues would be lost and still be waiting.

`TbCacheProofs` proves all seven properties of run `tbcache` for any finite set of
threads, any blocks, any number of slots above the cap, and any tuning of the thresholds: `AliveCounted` (`AliveExact`), `OvershootBounded`
(`CapOvershoot`), `FloorKept` (`CapFloor`), `FreeStackKept` (`FreeStackExact`),
`SlotFound` (`SlotAvailable`), `SweepEvicts` (`SweepFrees`) and `CodeCurrent`
(`NoStaleCode`). The first part is about one thread's table, without counting.
Its invariant `TInv` adds to `FreeStackExact`, `CapFloor` and `NoStaleCode` what a
thread carries from step to step (`Stage`), that the clock hand is on a slot handed
out (`Hand`), and, for `SweepFrees`, where the hand has been (`Clock`): until a
sweep has evicted something, the slots it has passed once have lost their second
chance and those it has passed twice were empty, so that two laps without an
eviction mean an empty table. It also shows that each step is of one of four kinds,
by what it does to the count: nothing, a thread below the cap asks to compile, it
adds an instance, it subtracts what it evicted. The second part argues from the
four kinds alone, by cardinalities of finite sets. `SlotAvailable` needs `Room`: a
thread that compiles holds fewer instances than the tuned cap, since it was below
the cap when it asked and only it adds to its own. A full table without a free slot
would hold more.

`PackStoreProofs` proves `FinalNameWhole` (`RawIsWholeAlone`), `BootsWhole`
(`BootsWholePackUnkilled`) and the action property `ArchiveGivenUp`
(`ArchiveKept`) for any number of expansions, downloads, kills, reloads, late
replies and deletions. `RawIsWholeAlone` is not inductive: a rename may put a part
of an expansion under the final name, unless what the rename finds is known to be
whole. The invariant adds, for as long as the page has waited for what it started,
that the app works on one expansion or one download, the one the page is waiting
for (`OneAtATime`); that the temporary name is on the output of that expansion, and
that output whole before the final name is touched (`Names`); that an archive
of the wrong size is there only between the end of its transfer and the completion
callback (`Archive`); and that an app not killed expands a good archive, or one
deleted before it was opened, which yields nothing (`Sources`): otherwise a whole
output could be of the wrong content.

`AdbShellProofs` proves the five invariants of run `adbshell` for strings, output
and resizes of any number and length and any limit on a WRTE: `InputInOrder`
(`InputExact`), `StopAndWait` (`OneUnacked`), `ResizeArrives` (`WindowSettles`),
`OneExit` (`ExitOnce`) and `OutputInOrder` (`OutputExact`). The invariant follows
the session: `Connecting`, then the stages of the handshake (`Greeting`), then the
open stream (`Streaming`). While the socket is open it says of each direction that
at most one WRTE or its OKAY is under way, and none when the sender's flag is down
(`Acks`, `DevAcks`). `OneUnacked` alone is not inductive, since it does not exclude
an OKAY left over from the handshake or a WRTE sent before it; nor is
`WindowSettles`, which is about the moment nothing is unacknowledged and needs
where the size is before (`Window`: pending, in the WRTE under way, or arrived) and
that `pump` leaves no resize pending when it may send (`Settled`). `TypeCorrect`
needs, besides, that what `Received` takes off `inbuf` is there; the other
invariants say nothing of `inbuf`, and hold because `handleMsg` sees whole messages
only (`WholeSlice`). `Input` is
`InputExact` for the queues before and after a `pump`. `OutputExact` rests on
`Flow`: what was told, the part of a packet in `v2buf`, the WRTE under way and what
the device still has to send are, put together, the shell's output from its first
cell to its last, and `closed` holds exactly when the exit has been told. That
`told` has no packet after the exit then follows although `handleV2` does not look
at `closed`. The device in these proofs is the external one of the module: a
theorem about an adbd that breaks the protocol is not claimed.

`PageProofs` is about three components of the page that share no state, `VfsDisk`,
`GuiSession` and `SyncRange`, each in a section of its own.

- The file tree, for any paths and any number of writes, late or failed reads,
  failed writes and deaths: `SettledSaved` (`SettledIsSaved`) and `ReadableKept`
  (the action property `ReadableDiskKept`). `SettledIsSaved` speaks of the moment
  nothing is under way and says nothing of the steps before it. `Newest` does: a
  changed tree is in the hands of the timer, or is the last save under way, or is
  the disk with no save behind it. `ReadableDiskKept` rests on `Order`: from the disk
  through the saves under way, in their order, to the tree the page may save,
  contents only get newer, and none of these is there over a disk that could not
  be parsed. `Order` holds only as long as no read failed, which is what the run
  `vfsdisk_readerr` shows. `Stages` has what a page may hold before it has loaded: no
  timer, and no save of its predecessor before its own read. `VfsBounds` says that
  no content is newer than the last write.
- The viewer, for any number of sessions, taps, faults, hangs and retries:
  `OneViewer` (`OneSessionOtherwise`) and `ViewerNotForgotten` (`NeverForgotten`).
  One session is not inductive: `connectGui` looks at `rfb` only, so it has to be
  known that `rfb` is the one there is, that no session waits for a late event, and
  that a call, or its import, waits for the viewer only while there is none
  (`Known`); that no session is there before the viewer has loaded (`NoneYet`); and
  for `NeverForgotten` what keeps an opened viewer alive (`Trying`).
- A range read, for packs and expansions of any length and content, any offsets and
  lengths and any number of attempts: `ReadsExact` (`ReturnsExact`) and `GivesUpOnMarks`
  (`GivesUpOnlyOnMarks`). `Tried` says that each attempt so far began with a mark.
  What a request leads to is lemma `Answer`, from two facts about the decoder:
  without a mark every byte comes back as a character that carries it
  (`CharOfByte`, `DecodedBinary`); and after a mark the text is shorter than the
  bytes, whatever its characters are (`DecodedShort`). An expanded pack never
  sends more bytes than were asked for, so that its marked answers fail the length
  test.

Only model-checked: all liveness (`EnsureEnds`, `DisplayComesBack`,
`InputArrives`, `WritesReachDisk`, `SectionsHappen`, `GuestAdvances`,
`SplitSticks`, `TapsEnd`), which is outside what the prover can do, as are
statements about `ENABLED` and induction over data; and the type invariant of
`GuestIo`, of which the proofs need only the part in `DepthExact`.

## Not modelled

- QEMU itself. The repository carries the whole of it, about two million lines of
  C; the models cover the parts Bootbox changed or leans on. A large share of
  that tree (instruction sets and devices the app does not build) has no
  behaviour in Bootbox at all.
- Bulk string instructions (`mem_helper.c`) and 16-byte accesses
  (`atomic128-ldst.h`): sequential computations, better served by operators
  checked against an element-wise form.
- The code generator of `wasm32.c`: a compiler.
- `Bridge`, `SaveUpload`, `SafeLadder`, `PanelScrape`, `WM`, `AndroidVnc` and
  `FileProvider` of the inventory: modellable, not done. Their hazards are listed
  without a property.
- User interfaces, calls that only pass on to iPadOS, demonstration interpreters,
  third-party code.

## Plan

1. Extend the model: `Bridge` (replies across pages) composed with `VfsDisk`;
   `SaveUpload`; `SafeLadder` over the promise of `VfsDisk`; `PanelScrape`; `WM`;
   `AndroidVnc`; `RepBulk` and the range arithmetic of the servers as operators;
   `TbCache` over the promise of `StopTheWorld`, which its flush relies on.
2. Prove more: the type invariant of `GuestIo`, and the safety half of its
   `SplitSticks` (a hint, once whole, is not lost).
3. Abstract specifications for the pack store (a pack is absent or whole) and the
   display (one session or none), with the detailed modules shown to implement
   them once their conditions are stated.
