# marspot in TLA+

marspot is a terminal emulator for macOS built as three layers of processes
that can each be replaced while the others, and the user's shells, keep
running.  This directory holds specifications of the parts of it that are hard
to test, model-checked with TLC, and proofs checked with TLAPS.

Contents: [the system](#1-the-system) · [the modules](#2-the-modules-and-the-code) ·
[the runs](#3-the-runs) · [fairness](#4-fairness) ·
[where the code differs](#5-where-the-code-differs-from-what-it-says) ·
[the proofs](#6-the-proofs) · [what is left out](#7-what-is-not-modelled-and-why) ·
[the plan](#8-the-plan)

To check: `tlc -config <file>.cfg <module>.tla` for a run of section 3,
`tlapm <module>.tla` for a proof module.  `PROJECT.json` ties every definition
to the lines of `src/` it models, and every hazard to the properties about it.


## 1. The system

    L1  marspot-shell    src/src/bin/marspot-shell/   one per app: windows, watchdog, updates, plugins
     |  control socket, surfaces
    L2  marspot-core     src/src/                     the renderer: panes, layout, drawing, input
     |  control socket (one per pane), grid_shm region (one per pane)
    L3  marspot-session  src/crates/marspot-session/  one per pane: the PTY, the terminal, history
     |  PTY
        the user's shell

`crates/marspot-term` is the library the three share (terminal, scrollback,
sockets, files); `crates/marspot-peer` carries messages between agents that run
in panes, and a worker of L1 (`plugins/peerbus`) speaks for the Codex sessions
among them; `crates/marspot-linkify` finds links in text.  L1 restarts L2 when it
hangs; L2 finds the L3s again through a registry on disk; L3 replaces itself by
`execv`, keeping the PTY, and leaves what it knows in `state.bin`.  L1 does the
same to itself after promoting a probed build.

| component | state it keeps | operations | what is hard | what makes it correct | here |
|---|---|---|---|---|---|
| Async file writer (`async_writer.rs`) | caller's buffer, spare, free list, bounded channel, thread's file | write, hand_off, flush, truncate, swap_file, drop | two threads, two channels, a refused hand-off, a blocked send | the file is always a prefix of the stream; flush and truncate are barriers; no caller stays blocked | AsyncWriter, AppendLog |
| Scrollback files (`scrollback/file*`) | hot and cold data and index files, ring, three line boundaries, tail offset | push, rotate, open/trim, read, clear, flush, reflow, drop | two writer threads, a crash between any two file operations | reads never guess; a restart finds an unbroken run; cleared stays cleared | FileScrollback |
| Pane history across processes (`terminal.rs` snapshots, `snapshot_writer.rs`) | state.bin, the snapshot in the writer's hand, the replayed lines | periodic and final snapshot, resume, replay, forget | three records of one history that end at different lines | a hand-over loses nothing; restored lines are in order and there once | ScrollbackRestore |
| Shared grid region (`grid_shm.rs`) | a sequence number and a frame of words in shared memory | publish, read_frame, poll | another process copies while it is rewritten; the writer may die | a shown frame is one published frame; no read hangs | GridShm, FrameRegister |
| Frame path (`session/main.rs`, `pane.rs`) | two gates and what they owe, last hash, client generation, pokes | publish_and_poke, adopt a client, end of a client, hold and release a grid, poll | frames held back on a timer, clients replaced while events are queued | what differs from the screen is owed, and comes | FramePath |
| Bounded writers (`frame_writer.rs`, `control_writer.rs`) | pending byte count, channel, the frame being written, the socket | send, backlog, close, into_raw_fd | the count changes on two threads; execv cuts a frame | accepted frames arrive whole and in order; an empty backlog means delivered | FrameWriter |
| Session process (`session/main.rs`, `local_session.rs`, the readers) | event queue, PTY queues, held output, probe state, pending resize | key, resize, hold, update, close, probe answer, execv | five threads end at an execv at any point | no key and no output is lost or reordered; a close wins over an update | L3Handoff |
| L1: core supervision and updates (`marspot-shell/main.rs`, `supervisor.rs`, `binary_tree.rs`) | hello/ping/pong, crash budget, cool-down, probe round, slots current/prev/pending | poll_supervisor, restart_core, start_probe, finish_probe, swap, exec, rollback | deadlines that run while nobody listens, files replaced meanwhile, a shell that dies half-way | crashes charged are real, respawns are rationed, what cannot start is never current, a sound core comes back | CoreSupervisor |
| Search over history (`snapshot.rs`) | descriptors of both hot files, the number of rows | snapshot_for_search, read_row | another thread reads files that rotation renames and removes and a clear cuts | a row is the line the history had there when the search started | HistorySearch |
| PTY and replies (`pty.rs`, `reply_guard.rs`) | reader's parking, unread replies | read, park, flush replies | whether a program reads is seen only by asking the kernel | a reply nobody reads is not typed into the next program | reader in L3Handoff; guard not modelled |
| Wire format (`shell_proto.rs`) | none | encode, decode | - | round trip | frames as lengths and order in FrameWriter |
| Session registry and owner lock (`session_registry*`, `uds_server.rs`) | sessions/<sid>/: entry, socket, lock; retired/; the next number | register, bind, list, lock, sweep, retire | two L2s and a restarting L3 on one directory, directories renamed under a process | one process in charge; numbers are fresh; no named session is swept | SessionOwner |
| L2: spawn, reattach, close (`marspot-core.rs`, `pane.rs`, `state.rs`) | panes per window, a worker per spawn and restored window, the saved layout | boot, restore, spawn, revive, move, close | L3s that start, stop or replace themselves while the boot looks at them | no session that serves is lost by a boot; none serves where nobody finds it | SessionOwner |
| Scrolled views of L2 and L3 | an offset on each side | scroll, push, follow | each side moves it on its own, messages cross | what is read stays; who types sees the live tail | ViewSync |
| Byte log (`bytelog.rs`) | two segments | append, rotate, replay | a stop between rename and open | replay reads an unbroken run | planned; its writer is AsyncWriter |
| Structured log (`logx*`) | a file several processes append to | log, rotate, gc | rotation under another process's handle | lines go to a file that is kept | planned |
| Terminal emulation (`terminal.rs`, `parser.rs`, `grid.rs`) | screen, modes, cursor, tab stops | feed | breadth, not interleaving | the tests and fuzzers of the repository | tab stops and scroll regions planned |
| L1: plugins and scripted operations (`plugins/pty_op.rs`) | per pane: a queue, the run that holds it, step and deadline | submit, pump, tick, wake, cancel | steps race the agent, the person, the core, a restart | one run holds the pane; every run ends or waits for the person | PtyOp |
| L1: submit receipts (`receipts.rs`) | a bounded list with a time to live | record, claim, expire | - | - | not modelled: no script has the step that claims one |
| L1: pane status (`pane_status.rs`) | status, hysteresis timers | observe, expire | two observers disagree | no flapping, no stuck status | planned |
| L1: Claude Code and Codex plugins | dormant.tsv, what is armed, profiles, quotas, hand-over ledger | reclaim, wake, re-arm, switch | a stale scan, an agent that dies late, a restart in between | a sleeping pane has its record and one way back | PaneReclaim (reclaiming) |
| Peer bus (`plugins/peerbus`, `marspot-peer`) | bindings of panes to threads, inboxes, subscribers, a connection | rescan, bind, unbind, hand over, notice | a worker that blocks in calls while titles, threads and mail move on | mail goes where it was sent; notices are neither false nor withheld | PeerBus |
| L1: orphans, CLI, status | none of its own | queries, clean-up at quit | reads of the process table | - | not modelled |
| L1: windows and presenting | windows, surface pairs | present, resize | AppKit, Metal | - | not modelled |
| L2: rendering and user interface | scene, glyph cache, layout | draw, input | one thread | pictures in the repository's tests | not modelled |
| Links in text (`marspot-linkify`) | none | find | pure | an oracle of its own in the repository | not modelled |
| Loop watch, host load, settings, paths | counters, a file | sample, read | - | - | not modelled |

What talks to what, and is modelled as such:

- L2 -> L3 control frames: `sock` in L3Handoff, event queue `evs` in FramePath.
- L3 -> L2 frames: the region (GridShm) and a poke (`wake` in FramePath).
- L3 -> its own files: two AsyncWriters per scrollback and one per byte log;
  FileScrollback uses them through what AppendLog promises.
- L3 -> the next image of itself: `state.bin` (ScrollbackRestore), the open
  descriptors (FrameWriter `Replace`, L3Handoff `Exec`).
- L1 <-> L2: hello, ping and pong (`asked`, `inbox` in CoreSupervisor).
- L1 and the updater: the slots of BinaryTree (`tree`).
- L2 <-> L3 over the disk: directory, entry, socket and lock of a session
  (`dir`, `node` in SessionOwner), and the layout L2 saves.
- L1 -> a pane: bytes typed by a run, the keyboard it takes in L2 (`keys`), the
  picture it holds in L3 (`hold` in PtyOp).
- L1 -> its next image: `dormant.tsv` (`disk` in PaneReclaim); everything else of
  a plugin or of the peer bus ends with the image.
- L2 -> L3: the offset of a scrolled view (`wire` in ViewSync), and back the window
  and the depth of the history (`frame`).
- The peer bus's worker <-> the Codex daemon: calls that block, and notes that
  come whenever they come (`evs` in PeerBus).


## 2. The modules and the code

Every module names its constants' bounds and what it abstracts in its head
comment.  A definition called after a mutation (`...Kept`, `...Forgotten`, with
a comment "Mutant:") is a plausible bug used to see that a property notices it;
nothing else uses it.

**AsyncWriter**, **AppendLog.**  Bytes are numbered as they are written, so a
buffer, a message and a file are runs `[lo, hi]` of one stream.  The caller's
operations are `Write`, `HandOff`, `HandOffRefused`, `StartFlush`/`Flush`,
`Truncate`, `SwapFile`, `DropWriter`; a send into a full channel waits in
`pend` until `Send`.  The thread is `Receive`, then `WriteData` and
`ReturnBuffer`, `WriteBarrier`, `CutFile` or `SwapIn`.  The buffers on the free
list are counted because the order in which caller and thread take and return
them is where a deadlock could be.  AppendLog is the contract: a stream in
memory, a prefix of it on disk.

**FileScrollback.**  A line is the number of the push that made it, a position
the ordinal of a record.  Variables carry the names of the fields
(`hotFirst` = `hot_first_line`, `tail` = `bin_tail_offset`, `unflushed` =
`has_unflushed`); `disk`, `buffer` and `queued` are the files and what AppendLog
says of two writers in front of them.  Which push fills the 64 KiB data buffer
or the file depends on line widths and is a choice; index entries have one size
and fill their buffer at `IdxCap`.  Rotation and clear are one action per file
operation (`stage` tells how far), and `Crash` may come between any two, with
any prefix of what the threads still held and a torn last record (`TornWrites`).
`Open` finds what is there, trims it and loads the ring.  Cells are left out but for
one thing: a clear empties the ring and keeps the lengths of its slots
(`ram_lens`, file/read.rs:308-311), so the lines that fill it next may be read cut
to an older line's length.  `clipped` says which (any of them may be: it depends on
the widths of lines that are gone), and `CutShort(l)` is the front of line `l`; what
a reflow or a snapshot reads of such a line is all it keeps of it.

**HistorySearch** extends it with a search: `StartSearch` flushes both files and
opens them again, `ReadEntry` and `ReadRecord` are the two reads of a row on the
worker's thread, and `FileWork` is any step of FileScrollback together with what
it does to the two descriptors: a file that is renamed is still the one that was
opened (`name`), one that is removed can be read on (`kept`).

**ScrollbackRestore** extends it with `state.bin`: `PeriodicSnapshot` hands a
snapshot to the writer's thread (`job`), `WriteSnapshot` renames it in,
`Leave` writes the last one on the main thread and goes, `Die` kills the
process, `Resume` opens the files, `Serialize`/`Replay` are the two halves of
the deduplication by line index, `ForgetState` removes what has been applied.
The ghost `last` keeps what the process that ended had, and whether the indexes
of its files and of its snapshot may differ (`shifted`: a tier given up, a
rotation or a clear in progress, a snapshot that began behind the end of the
files).

**GridShm**, **FrameRegister.**  A frame is a set of parts, each carrying the
number of the publish that wrote it; the fences order the sequence number
against the parts and nothing else, so `Store` and `Load` take the parts in any
order (the reader's header first), and a load that races returns anything
(`Garbage`).  `Begin`/`Spin`/`Load`/`Accept`/`Retry`/`GiveUp` are `read_frame`
and `poll`; `Die` leaves a publish half done.  FrameRegister is a register that
takes a whole frame in one step.

**FramePath** is what surrounds the region: `Output` is a chunk read from the
PTY, `Turn` a whole turn of L3's loop (drain, gates, `publish_if_changed`,
poke), `HandleNew`/`HandleGone`/`HandleHold` the events that matter to it,
`Tick` time, `L2Poll` the renderer.  A publish is one step, which is what
`ImplementsRegister` of GridShm allows.

**FrameWriter** is `BoundedWriter`: `Check`, `Add`, `Put` are the three points
of `send` another thread can come between, `Take`, `WriteSome`, `CountOut` the
thread's; `Replace` is `into_raw_fd` followed by `execv`.

**L3Handoff** has every queue a key or a piece of output passes: socket,
reader, event queue, PTY queue, writer, PTY; and back.  The readers are a poll,
a read and a queueing each (`ControlPoll` ... `PtyQueue`), the main loop a batch
of events (`HandleKey` ... `HandleProbe`), a turn, and, when it leaves, the steps
of the dispatcher: `StopControl`, `JoinControl`, `Leftover`, `StopPty`,
`JoinPty`, `WaitInput`, `Exec` or `ExecFails`.  What `Exec` runs is what is
staged then, which need not be what was probed.  Queue limits are in
FrameWriter, and the terminal across the execv is in ScrollbackRestore.

**CoreSupervisor.**  One pass of L1's main thread is `Drain` (or `TryAgain`),
then `GoneOrMute` or `Judge`, then `Ping` or `Hung`, then `NotYet` or
`FinishProbe`; between passes a probe thread runs, the updater stages a build,
a user rolls back, the shell dies.  The core's answers cross the socket through
`CoreAnswers`.  An update is a list of steps (`todo`): `Park` and `Land` are the
two renames of a promotion, then `Swap` or `Exec`.  Between two of these the
shell may die and the updater may stage.  A shell whose exec came back has already
let go of its surfaces (`surfaces`) and can start no core until it is replaced.

**SessionOwner** is everything that decides which process serves a session.  A
directory that is renamed or deleted and made again is another `node`: what a
process has open stays with the old one, what it looks up by path is in the new
one; that is what makes a lock on a directory interesting.  A boot's probe takes
the lock for an instant, in which a process that binds finds it taken (`Tried`).  A process is
`Open`, `Bind` (the lock, the stale socket, the socket), `Register`, `Reexec`,
`Deadman` or `ShellExits`, `Ends`.  A core is a boot window and a restored one,
each assembled by its own thread, one step per slot and per call: `Scan`,
`Reattach` or `ReattachFails`, `Probe`, `Clear`, `Fork`, `Connect`, `SlotsDone`,
then, in the boot window only, `Adopt` and `Retire`.  `NewPane`, `Revive`,
`Close` and `Move` are the person's; `WorkerForks`, `WorkerConnects` and
`SpawnFinished` a spawn on a worker.  `CoreDies` ends the core and all its
threads at any point and leaves every L3 running.  It is one module because the
windows, the workers and the session processes meet in the directories and
nowhere else.

**PtyOp** is one pane and the runs that type into it.  `Pump` takes what was
submitted and begins the next run, `Tick` moves the registered one by one step
of its script (`StepCapture` ... `StepEnter`, with `TickProgramExited` and
`TickFinished` before them), `Wake`, `Escape`, `Forget`, `CliSend` and `Restart`
come between two polls; `World` is the core, the pane and the agent.  Four
scripts stand for all: they have the steps the others are made of, and each
kind of wait.  A deadline (`Clock`) may pass at any poll.

**PaneReclaim** extends it with the plugin that submits: `ScanDone` (what the
worker thread saw), `ApplyScan` (the policy on it, then the ends of older runs,
then the re-arm sweep, in the order of the code), `ClickCycle`, `Reexec`.
`GraceEnds` is the 15 seconds a record is young: they are longer than the steps
up to the kill together, so they cannot pass before those are over, but they do
pass for a run that is still queued behind another.  Whether the person looks
at the pane when the policy runs is an input.  Several `DormantRecord`s can be
there for one pane, named by the run that made each.

**PeerBus** is the worker, one action per event (`HandleWant`, `HandleThreads`,
`HandleStatus`, `HandleTurn`, `HandleMail`, `HandleTold`, `HandleAsk`,
`HandleClosed`), with a rescan divided into the calls it makes: `Refresh` looks
once at titles and threads, then one `Unbind` or `Bind` at a time, during which
anything may happen and wait in `evs`.  A call can succeed, find the connection
closed, be lost after it was carried out, or never leave.  The TUI (`Starts`,
`Shows`, `Quits`) and the daemon (`Begins`, `TurnEnds`, `Unloads`, `Breaks`) are
modelled from what the worker expects of them and marked external in the map.
`NewWorker` is L1 executed anew.  The ghosts say when a property may speak:
`followed` (the binding began with its thread idle and no gap since), `sure` (no
subscribing call was lost), `idled` on a subscription (its thread has been idle
since it was sent).

**ViewSync** is one pane that is read: lines are numbered as they are pushed, a
picture is the number of the line at its top.  `Turn` is the part of L3's loop
FramePath leaves out: the last request of a batch (`Asked`), then the output
(`Feed`: lines, perhaps with a switch between the screens, each of which has a
count and a depth of its own), then the pin (`Pinned`), then the window
(`Picture`).  `Scroll`, `Jump` and `Type` are what the person does in L2, each
through `forward_scroll` (`Forward`); `L2Poll` takes a window over and makes the
pin of L2's side, on a mirror that never counts a line (`MirrorPushed`).  `Exec`
is another image of L3, `NewCore` another L2.  Offsets and depths wrap at `W`.
The ghost `anchor` is the line the last request put at the top.

How they compose:

    AsyncWriter --implements--> AppendLog --used by--> FileScrollback --extended by--> ScrollbackRestore
    GridShm --implements--> FrameRegister --used by--> FramePath
    FileScrollback --extended by--> HistorySearch
    L3Handoff  leaves its sockets to FrameWriter and its history to ScrollbackRestore
    CoreSupervisor  starts and ends the L2 processes FramePath calls clients
    SessionOwner  cores, windows, workers and session processes over one registry;
                  a Reexec there is what L3Handoff does in detail
    PtyOp --extended by--> PaneReclaim
    ViewSync  what the frames of FramePath show of a history


## 3. The runs

States are distinct states TLC finds; each run takes between two seconds and
three minutes with two workers.

| run | constants | states | checks |
|---|---|---|---|
| `async_writer` | buffers of 2 bytes, channel of 2 messages, writes of 1 or 3, 8 bytes, 2 files | 130 k | `FlushIsDurable`, `ImplementsLog`, `CallerReturns` |
| `grid_shm` | 1 reader, 3 parts, 2 attempts a read, 3 publishes | 78 k | `ImplementsRegister`, `ReaderKeepsUp` |
| `frame_writer` | room for 3 bytes, frames of 1 or 2, 6 frames, 2 images | 19 k | `BacklogTruthful` |
| `frame_path` | 3 screens, gates of 2 and 1 ticks, 2 chunks, 2 clients, a hold and its end, any 2 of these 3 | 271 k | `DebtIsExact`, `PokeKept`, `MirrorCatchesUp` |
| `l3_handoff` | 2 keys, updates and a close; or 2 pieces of output, holds, 1 SIGTERM, with 2 frames in flight, a key, or a resize; 3 kinds of build | 762 k | `InputInFlight`, `OutputInFlight`, `NoExecAfterClose`, `HandOverEnds` |
| `file_scrollback` | ring of 1, index buffer of 2, 5 lines, 3 processes; a search of up to 2 lines in the first | 3.0 M | `NeverAnotherLine`, `ClearedStaysCleared`, `HistoryRecovered`, `SearchReadsItsHistory` |
| `scrollback_restore` | ring of 2, index buffer of 4, periodic tail of 2, 4 lines, 3 processes | 6.8 M | `HandOverKeepsHistory`, `RestoredInOrder` |
| `core_supervisor` | see below | 680 k | `RestartRate`, `DeadNeverCurrent`, `CrashIsReal`, `CoreComesBack` |
| `session_owner` | 3 sessions, one saved per window, cap of 3, 2 processes, 4 directories, 2 cores, 1 new pane, 1 gesture, 1 mishap | 238 k | `OneServes`, `SweepSpares`, `IdsNotReused`, `NoneLost`, `StrandedLeaves` |
| `pane_reclaim` | 2 agents, a queue of 2; 2 operations, or 1 and 2 mishaps | 117 k | `SlotIsSession`, `ParkedIsRecorded`, `OneWakePath`, `SleeperWakes`, `WorkDrains` |
| `peer_bus` | 2 panes, 2 threads, 1 peer, 3 changes of a TUI, 2 frames, any 4 of these 5, 1 turn, 1 mishap, 1 event waiting | 979 k | `MailToItsThread`, `NoStraySubscription`, `WantsServed`, `SubscriberTold`, `NoticeEarned` |
| `view_sync` | offsets below 4, 4 lines, an alternate history of 1, 2 gestures, 2 switches, 1 execv or new core | 62 k | `ReadingStays`, `TypingShowsLive` |

Every listed property is seen to fail when one definition of the model is
replaced by a plausible bug (`mutants` in PROJECT.json).  Most modules state
a type invariant; those of AsyncWriter, GridShm and FrameWriter are proved as
theorems of their own, and the invariants of section 6 hold what the other proofs
need of theirs.
Five modules name their specification after themselves (`ViewSpec`,
`FileSpec`, `SearchSpec`, `RestoreSpec`, `WriterSpec`), because one proof module extends two
components.

What they show, and why the bounds are enough:

- **async_writer.**  A write can stop short of the cap, reach it, or overshoot
  it; the channel can be full while the thread has not run, so a send blocks and
  a hand-off is refused; two files allow one swap.  Bytes differ only by their
  number, so more of them repeat the same situations.
- **grid_shm.**  Three publishes let a read be overtaken by two whole ones and
  lose both attempts; more attempts only spin longer.  Three parts are the
  header and two more whose order is free.  Readers do not see each other, so
  one is enough for TLC; the proof has any number.
- **frame_writer.**  Frames of both sizes get refused and accepted in turn; a
  hand-over comes at any of the three points of `send` and inside a frame.
- **frame_path.**  The shorter gate can run out inside the longer; the second
  client can connect before or after the end of the first is seen, and before or
  after a hold; two chunks open an update and leave it open, or close it.  Tried
  as well: the second client and both ends of the hold in one behaviour (714
  thousand states).
- **l3_handoff.**  What the surroundings may do is one of four `Worlds`, chosen
  at the start of a behaviour, as input and output meet only in the loop's
  program counter and all of it at once is beyond TLC.  Three builds (the same,
  one that starts, one that does not) give every verdict of the probe, and a
  build staged after the verdict; a second probe can overlap one that hangs.
  Tried as well, for `OutputInFlight`: a key, a resize, holds and a SIGTERM in one
  world, two frames in flight (3.5 million states); and two frames in flight in
  the world of input (1.0 million).
- **file_scrollback, scrollback_restore.**  In the program a ring has 256 lines
  and an index buffer 512: lines leave the ring before their index entries leave
  memory, and so they do with 1 and 2, or 2 and 4.  Five lines are enough for two
  rotations, so that a cold tier is replaced; three processes for a crash in the
  recovery of a crash.  `file_scrollback` runs MCHistorySearch, whose steps are
  those of FileScrollback and of a search: two lines may both be in buffers and
  queues when it starts, and the other three rotate twice behind it, so that the
  files it has open are renamed and then removed.  It needs one process, with
  which it ends.  Tried as well: a search of up to four lines (`MaxRows` 4, four
  lines, one process: 1.7 million states), and for the hand-over a ring of 1 and
  an index buffer of 2, with a periodic tail of 1 or 2 (6.1 and 9.9 million), and
  five lines with two processes (4.3 million).
- **core_supervisor.**  A tick is a ping interval; hello, pong and stall limits
  are one tick each, the crash window three, the budget one crash
  (three in the code; the rule `RestartRate` is about is the same), one doubling of the
  cool-down (three in the code), answers within the tick, a boot of one tick.
  Two builds are staged and one thing goes wrong on its own (a hang, an exit, a
  long gap, a failed spawn, a rollback, a dead shell); builds that cannot start
  or speak another protocol are staged on top of that.
- **session_owner.**  Two processes are two that meet in one directory; four
  directories let one be retired and made again; two cores are the one that dies
  at any step and the one that finds what it left.  Tried as well: three
  processes, of which one replaces either of the two (1.9 million states).
- **pane_reclaim.**  Two operations are one that holds the pane and one that
  waits, of each pair of kinds; two agents are the one taken down and the one
  that comes back; two mishaps are, say, a core that is lost and the person who
  starts an agent in the pane by hand.  A behaviour has one or the other
  (`Slices`).  Tried as well: two operations and a mishap (540
  thousand states).
- **peer_bus.**  Two panes can want the same thread or exchange theirs; with two
  frames a message and a subscription cross; with one event waiting, whatever
  comes next meets a worker that has not yet seen what came before, since calls
  block it besides.  Tried as well: all five changes and frames in one behaviour
  (6.3 million states).
- **view_sync.**  Two gestures are two whose requests fall into one turn, or one
  made from what was seen before the other; a turn pushes none, one or two lines;
  the fourth line is where a depth cast to u16 becomes 0.  `ReadingStays` is
  about a history that fits a u16 and stays with the process and the screen.
  Tried as well: three gestures (198 thousand states).


## 4. Fairness

- **AsyncWriter**: the thread runs, and so does a caller that can go on after a
  send or a join.  Nothing obliges the caller to call anything.
- **GridShm**: a writer in the middle of a publish goes on unless it dies, a
  reader in the middle of a read goes on.  Publishing is not fair.
- **FramePath**: time, the loop (a turn, and the handling of a batch), and the
  one-second poll of L2.  Programs, clients and holds are free.
- **L3Handoff**: the main loop and the two readers.  The PTY, the log's disk,
  L2 and the probe may stall for ever: the code's timeouts (`WaitInput`, the
  poll of the readers) are what has to end the hand-over.
- **CoreSupervisor**: time passes (strong fairness, since the steps of a pass
  and of an update come before it), a pass that is due is made (the event loop
  wakes itself by timer), and a core that runs answers.  Builds, failures,
  rollbacks and deaths are free.
- **SessionOwner**: each session process takes its own steps (it boots, its
  deadman looks once a second, it ends).  A core owes nobody a step: it may stop
  between any two for ever.
- **PaneReclaim**: L1 polls, which its event loop does at least twice a second;
  the scanning worker answers and deadlines pass (strong fairness, since they
  wait for the place between two polls).  Nobody owes a pane its wake, an agent
  its start or its end, or L1 a core.
- **ViewSync**: L3's loop takes requests that wait (its turn is woken by each), and
  L2 looks at the region (the poke, or the one-second poll).  No program owes
  output: that a line pushed later would bring a view back is not counted on.
- FrameWriter, FileScrollback, ScrollbackRestore and PeerBus have no liveness
  property.  PeerBus says what must have happened once the worker rests, which
  needs no fairness.


## 5. Where the code differs from what it says

These properties are stated in the modules because a comment or a test states
them, and are not had by the code.  They are not checked by any run; to see
the counterexample, put the property into the configuration named (with the
constants changed as shown) in place of its properties:

| module: property | configuration | what TLC shows |
|---|---|---|
| FileScrollback: RingMissIsFileHit | MCHistorySearch, MaxOpens 2, MaxSearchOpens 0 | file.rs:42-46 says "ring miss => file hit", scrollback.rs:117 that the flush covers both buffers; `flush_for_handoff` flushes the data file only and clears `has_unflushed`: lines between the ring and the index buffer read as nothing until the next push |
| FileScrollback: NeverGuesses | the same | file/read.rs:1-5: a read that finds nothing "returns `None` rather than guessing"; `clear` empties `ram_cells` and keeps `ram_lens` (308-311), `push_into_ring` puts the new lengths behind the old ones (write.rs:392): until a slot is written again, `read_line` and `cell_at` (read.rs:116, 224) give the lines that fill the ring the lengths of older ones, and cut those that are longer.  A snapshot or a reflow in that time keeps them cut |
| FileScrollback: IndexWithinData | the same | the index thread can be ahead of the data thread (file.rs:171); `open` trims it |
| FileScrollback: CrashKeepsWholeLines | the same | a crash between the renames at write.rs:76 and 77 makes the next open discard the hot tier |
| FileScrollback: ReflowOnce | FileScrollback itself, with its four constants from there and SPECIFICATION ReflowSpec | a reflow after a rotation keeps the cold pair and pushes its lines again (open.rs:344) |
| HistorySearch: SearchSeesColdTier | MCHistorySearch | snapshot.rs:9 calls it a frozen view of the scrollback; after a rotation the search indexes the hot files with numbers that count the cold tier (snapshot.rs:63) |
| HistorySearch: SearchIsFrozen | MCHistorySearch | the same line; a clear cuts the files that were opened (file/read.rs:317-318), so a search that goes on finds the lines pushed after the clear at the rows of earlier ones |
| ScrollbackRestore: NoGapAfterKill | MCScrollbackRestore | after a kill, lines between the index on disk and the snapshot's tail are in neither (main.rs:2155) |
| ScrollbackRestore: HandOverKeepsAll | MCScrollbackRestore | the consequence of RingMissIsFileHit: unreadable lines are handed over as empty ones (write.rs:290, terminal.rs:1575) |
| ScrollbackRestore: DedupCorrect | MCScrollbackRestore | after a second rotation the snapshot counts evicted lines and the successor does not (terminal.rs:2030) |
| ScrollbackRestore: LastSnapshotApplied | MCScrollbackRestore | the snapshot thread can rename an older one over the last (main.rs:419, 2306) |
| ScrollbackRestore: ClearedNeverRestored | MCScrollbackRestore | a kill after a clear restores the tail of the snapshot taken before it (file/read.rs:296) |
| FramePath: MidPaintOverdue | MCFramePath, MaxOut 3, MaxQueued 2, MaxClients 1 | main.rs:707-708 says the closing `l` resets the gate; a read that ends inside the next update never shows the gate the state between: after 150 ms frames go out in mid-paint |
| FramePath: WakeInFlight | MCFramePath, MaxHolds 0 | main.rs:1930-1937 republishes for an adopted client, `publish_if_changed` finds the hash unchanged and sends no poke: a frame published while nobody was connected waits for the one-second poll |
| FramePath: BlankSettled | MCFramePath, MaxHolds 0, MaxOut 3, MaxQueued 2, MaxClients 1 | while the sync gate holds, the blank gate is not asked (main.rs:829) and keeps the time of an earlier wipe: the next wipe is shown at once |
| FramePath: ReleaseShown | MCFramePath, MaxClients 1 | the end of a grid hold parses the held output outside the part of the turn that publishes (main.rs:1578, 2035-2046) |
| FrameWriter: NeverTorn | MCFrameWriter, MaxFrames 4 | `into_raw_fd` (control_writer.rs:89) hands on a socket that has taken part of a frame |
| L3Handoff: LogComplete | MCL3Handoff | execv ends the log's thread with output it was handed (local_session.rs:634) |
| L3Handoff: ExecStarts | MCL3Handoff | what is executed is read after the probe answered (main.rs:450, 2276) |
| L3Handoff: CloseWins | MCL3Handoff, Worlds <- MCSignals | a SIGHUP after the loop has decided is dropped (main.rs:2270) |
| L3Handoff: SizeInFlight | MCL3Handoff | a resize taken in the last batch is not applied (main.rs:1960) |
| CoreSupervisor: CrashIsReal | MCCoreSupervisor, SPECIFICATION Spec, Latency 1, PongDeadline 3 | a pong counts only if it answers the newest ping (main.rs:3215): a core always one interval late is killed as hung |
| CoreSupervisor: CooldownSparesHealthy | MCCoreSupervisor, SPECIFICATION Spec | a core an update started during the pause is retired when the pause ends (main.rs:2613) |
| CoreSupervisor: NoneRecovers | MCCoreSupervisor | after a spawn that failed no pass has a core to judge (main.rs:2635) |
| SessionOwner: DroppedIsKilled | MCSessionOwner, SPECIFICATION Spec, MaxStarts 1, MaxMishaps 0 | marspot-core.rs:11038-11041 says the child of a spawn whose pane was closed "is dropped with the L3Spawn, which kills it"; dropping it kills nothing, and the session lives on |
| SessionOwner: OnePane | MCSessionOwner, SPECIFICATION Spec | a placeholder dragged out of a window that is being restored comes back there when the window's worker is done: two panes are one session |
| SessionOwner: WiredRight | MCSessionOwner, SPECIFICATION Spec | a process forked by a core that died binds the socket after the next core's probe found nobody: the next core's pane talks to it over the socket and reads the region of the process it forked itself |
| SessionOwner: RetiredIdle | MCSessionOwner, SPECIFICATION Spec | the sweep goes by the entries: a process that has the lock and has not written its entry yet is retired with its directory (its deadman ends it) |
| SessionOwner: ClearedIdle | MCSessionOwner, SPECIFICATION Spec | between the probe that found nobody and the unlinking of entry and socket a process may take the directory |
| ViewSync: LockStep | MCViewSync | pane.rs:1952-1958 and main.rs:1251-1253 say L2 makes the same bump, so that no request is needed; its mirror is filled cell by cell (pane/mirror.rs:36-41) and its count of pushed lines stays 0: L3's offset moves away from L2's, and the next tick of the wheel jumps by what was pushed |
| ViewSync: LiveIsLive | MCViewSync | pane.rs:1658-1661: the forward of 0 "is free when already live"; the next core starts at 0 with an L3 that is still scrolled, and neither a key (`snap_to_live` returns at 0) nor `forward_scroll` (it was last asked for 0) sends anything: typing does not bring the live tail back |
| ViewSync: LeavingMovesNothing | MCViewSync | main.rs:1995-1998: the offset moves by what was pushed; on leaving the alternate screen the count of the main screen is compared with that of the other (main.rs:2001), and the whole history counts as pushed: the view goes to the oldest line |

Where a passing property excepts a case, the case is one in which TLC found the
code not to do what a comment says.  Without the exception:

| module: property | without | what TLC shows |
|---|---|---|
| FileScrollback: NeverAnotherLine | lines that fill the ring after a clear | as NeverGuesses |
| FileScrollback: HistoryRecovered | `~BetweenRenames` | as CrashKeepsWholeLines |
| HistorySearch: SearchReadsItsHistory | `oneTier`, `~cut` | as SearchSeesColdTier, SearchIsFrozen |
| ScrollbackRestore: HandOverKeepsHistory | readable lines, no older snapshot in the writer's hands | as HandOverKeepsAll, LastSnapshotApplied |
| ScrollbackRestore: RestoredInOrder | `last.shifted` without what a restore that was killed hands on | a kill leaves a gap between the files and the snapshot (as NoGapAfterKill); the second process pushes the snapshot's lines at the end of its files, at lower indexes than the snapshot gives them, and is killed before state.bin is removed; the third finds some of them in the files, counts too few as there, and replays them again |
| ScrollbackRestore: RestoredInOrder | `cleared`, `last.ordered` | as ClearedNeverRestored; what one process has twice the next one has twice |
| FramePath: DebtIsExact | `late`, the end of a hold | as ReleaseShown |
| CoreSupervisor: CoreComesBack | a shell that has a core or a pause to end | as NoneRecovers |
| PaneReclaim: ParkedIsRecorded | `run.op.id = 1` | a reclaim that waits behind another run outlives KILL_GRACE: its record is dropped while it is queued, and the pane is parked with none. The end of an older run does the same: mod.rs:2066 runs the policy before 2074 settles the ends, which go by the pane's number alone (wake.rs:28-64) |
| PaneReclaim: ParkedIsRecorded, MCPaneReclaim with Slices <- MCThree, MaxMishaps 3 | `born = 1` | the core is lost, the person starts an agent in the parked pane by hand, a scan sees it and judges the record over, and it ends: the run is still parked and has no record any more |
| PaneReclaim: ParkedIsRecorded, MCPaneReclaim with MaxRuns 3, MaxQueued 1 and one slice of 3 runs and no mishap | a queue with room | while run 1 sleeps, a further reclaim of the same agent finds the queue full and is reported as failed; a failure drops every record of the pane (as above, the ends go by its number alone).  The code's queue holds 8 (pty_op.rs:1883) |
| SessionOwner: NoneLost, MCSessionOwner with SPECIFICATION Spec, Sids {1}, 3 starts, 3 mishaps, 2 gestures | `region[s] # 0` | a boot that reaches a slot whose process does not answer removes the region of its grid, or a Close of the pane deletes it, while the process lives on; the next boot asks for the region when it adopts (marspot-core.rs:10157-10177), finds none, and shows the live session in no pane |
| PaneReclaim: OneWakePath, MCPaneReclaim with Slices <- MCMixed | `mishaps = 0` | a cancelled run un-arms the pane by its number alone, while another reclaim of it is queued: the sweep submits a second wake |
| PaneReclaim: SleeperWakes | `born = 1` | a resumed claude that dies before any scan leaves the record and the mark of a run there is no more, contrary to wake.rs:7-11 |
| PeerBus: NoticeEarned, SubscriberTold | `followed` | a bind records the session as idle even in mid-turn, and a lost connection clears `subscribed` and nothing else: a turn that ended meanwhile is held for running, and subscribers are not told until another one ends |
| PeerBus: NoticeEarned | `evs = <<>>` | a peer that subscribed and sent a message while a turn ran is told "idle" before its message is taken: the end of a turn asks nothing of `last_delivered` (idle.rs:31-34 is about this pair) |
| PeerBus: NoStraySubscription | `sure` | an unsubscribing call that was lost is not made again (lifecycle.rs:251-262) |
| ViewSync: ReadingStays | `main < W` | the depth is cast to u16 (main.rs:546, 2004): past 65 535 lines it begins at 0 again, and the window is shown nearer the live tail than it was asked for |

By reading, while the modules were written, and in no property:

- uds_server.rs:81-86: the lock is taken "BEFORE touching anything" in the
  directory, but L3's main has by then opened scrollback and byte log there and
  applied and removed `state.bin`.  The cap on session processes is counted
  before a spawn and not with it.  An L3 that leaves unlinks the socket it finds
  by path, whoever's it is.
- pty_op.rs: three of the scripts (profile switch and refresh of Codex, the
  hand-over) begin to type without `StopIfProcess`; the keyboard is taken once,
  when a session begins (marspot-shell/main.rs:3391), and a core started
  later does not know of it; without a core `Input` and `HoldGrid` go nowhere and
  are not reported.  The steps of receipts and `StopIfWaiting` are used by no
  script.
- claudecode/mod.rs: nothing keeps a pane from being reclaimed twice but the
  state the scan composes (the comment at 719); the evidence that an agent is
  idle is as old as the queue in front of the reclaim is long.
- peerbus: two titles that name one thread give two bindings, of which one is
  told the status, and the end of one unsubscribes both, as does a bind that
  fails for the second; a call that timed out after it was carried out is
  reported as refused, or made again another way; a dead relay is not noticed;
  a new process in a pane without a title is bound to the thread its predecessor
  left loaded, which the bus's own subscription keeps loaded (bind.rs:4-6 says
  to bind only when certain); after an execv the numbers of the inboxes begin at
  1 again while an old relay may still run.


## 6. The proofs

The eight proof modules are for every value of the constants, under the named
assumptions of the modules (sizes, depths and times of a gate positive, a header
among the parts, a blank screen among the screens, a finite set of session
numbers, a cool-down that doubles to a number of ticks).  The bounds on mishaps,
processes and the like are constants as well: whatever they are, the theorem
holds.  Every theorem is one about the runs' specification without its fairness.
Two assume more: `CrashesAreReal` something of the times, `SleeperIsRecorded`
something of the behaviour; both are said below, and section 5 has what happens
without.

Every safety property of the runs is a theorem; what is only model-checked is
named at the end of this section.

**ScrollbackProofs: AsyncWriter.**  `IInv` adds to `TypeOK` and `Contiguous` two things:
`OneCallAtATime` (a caller that waits owns exactly one synchronous message, and
nothing is behind it in the channel or in its buffer) and `RunsInStream` (every
run lies within what was written, and a swap carries no bytes).  `Contiguous`
alone is not inductive: that the file begins anew where a truncate message ends
needs to know that this message is the newest thing in flight.
`Invariance` is the step-by-step proof, over
lemmas that say what appending to and taking from a channel does to the chain
of runs in it.  From it: `TypeCorrect`, `NothingLost` (`Contiguous`),
`FlushWorks` (`FlushIsDurable`), `TruncateWorks` (`NothingOutlivesTruncate`)
and `Refinement` (`ImplementsLog`: initial states map to initial states and
every step to a step of AppendLog or a stutter).  The run does not repeat
`Contiguous` and `NothingOutlivesTruncate`: what it checks of `ImplementsLog`
would fail with them.

**ScrollbackProofs: FileScrollback.**  `FileInv(L)` says at which point a process
is (`Running`, `Rotating`, `Clearing`, `Down`) and, since a crash may come at any
of them, what the two indexes find in the two data files there.  At work, what
the hot index will find once both writers have flushed is the history from
`hotFirst` on, in its order (`Indexes`); the cold tier, if there is one, is the
piece before it (`ColdHolds`); the ring is the end of it (`InMemory`).  `Left` and
`Begins` say what a crash can leave of such a pair: the start of the index, and
the data with one torn record in the place of the last; `FoundPart` is the
lemma that whoever opens that finds an unbroken part of the history, up to some
line (`Unbroken`), and all of it if nothing was lost.  The invariant is told of a set
`L` of lines, outside which nothing is on disk or about to be pushed (`Fresh`);
with the lines behind the last clear for `L` it is what `ClearedStaysCleared`
needs.  Since the ring may give a line's front, which a snapshot or a reflow then
pushes back as the line, such a set has with a line its front as well (`Lined`);
that a line found cut is one of `clipped` and still in the ring is all that
`NeverAnotherLine` excepts.  From it: `NoOtherLineIsRead` (`NeverAnotherLine`),
`WhatIsClearedIsGone` (`ClearedStaysCleared`) and `HistoryIsRecovered`
(`HistoryRecovered`).  A reflow is
covered, and is shown to keep the invariant after a rotation as well, where the
run has none.  Flattening the queue of a writer is a fold; its sums are given by a
function shown to exist by well-foundedness (`SumsExist`).

**ScrollbackProofs: HistorySearch.**  `SearchReadsHistory` (`SearchReadsItsHistory`).
The property alone says nothing of rows not read yet; `Reading` says that every row
of the search is whole in the files it has open, and that an entry it has read is
the one that is there.  It starts from `FileInv`, by which the flushed index finds
the history in the flushed data, and is kept because a step of the files leads
what is open on (`Leads`): a file grows, or is found under its cold name, or is
removed and can be read as it was.  A clear and a reflow do not, which is the
property's exception.

**ScrollbackProofs: ScrollbackRestore.**  `RestoreInv(L)` adds to `FileInv` what the
three records of one history say of each other, from the last snapshot over the
end of the process to the end of the restore.  `Passing` is about a hand-over that
keeps everything: the snapshot is the history, a start of it is in the files, and
what was restored and what is still to be pushed are together the whole; hence
`HandOverIsWhole` (`HandOverKeepsHistory`).  `Ordering` is about every other way to
end: a snapshot agrees with the history by index (`Taken`) until a clear leaves
nothing of it (`Live`); what a crash leaves in the files is in order with it
(`Ordered`); and the lines to be pushed come behind those there (`Queues`), hence
`RestoresInOrder` (`RestoredInOrder`).  A process killed in mid-restore is the
case that needs `Follows`: what is still to be pushed is the snapshot from the
index the history has reached, so the files it leaves are in order with the
snapshot it met.  Where the snapshot begins behind the files this is false, and
the property was too: it now says so (`shifted`, section 5), which no run with two
processes could show.

**RegionProofs: GridShm.**  `IInv` is `TypeOK`, `WriterInv` (while the number is even
every part carries it; inside a publish it is odd, and every part already
stored carries the number to come), and for each reader `ReaderInv` (if the
number is still the one an attempt started from, what the attempt has loaded is
of that number) and `MirrorInv` (what it shows is whole, of an even number, and
not newer than the region).  The heart is `ReaderInv`: once the number has
moved it says nothing, which is what the second look at the number tests.  One
lemma shows that a step of the writer keeps it, one that a step of a reader
keeps its own and leaves the others alone.  From it: `TypeCorrect`, `TearFree`
(`WholeFrames`), `PublishedOnly` (what is shown is a frame whose publish was
completed) and `Refinement` (`ImplementsRegister`).  Any number of readers, of
parts and of attempts.  The run does not repeat `WholeFrames`: a mixture of two
frames is `Shown` as one the register never held.

**RegionProofs: ViewSync.**  `WhatIsReadStays` (`ReadingStays`) rests on `ViewInv`:
what the region shows is the picture its offset gives, and the last turn counted
all that was pushed (`Current`); while a line is kept in place there is no
alternate screen, and the offset points at it (`Anchored`).  Only `Anchored` is what
the property is about, but a turn adds to the offset what was pushed since `last`,
and without `Current` that could be any number.

**FrameProofs: FrameWriter.**  `IInv` is the type invariant and `Counted`: what is
pending is what the thread holds, what is queued and what a call has counted in
and not queued yet, it never passes the cap, and a frame that passed the check
still fits when it is counted in, since the thread in between only counts out.
The sum of a queue is stated by a function that counts it up (`SumIs`), with a
lemma for a frame put behind and one for a frame taken from the front, because a
fold over a queue needs an induction the prover does not have.  From it:
`TypeCorrect`, `NoBacklogMeansDelivered` (`BacklogTruthful`) and, from the types
alone, `DeliveredInOrder` (`AcceptedInOrder`), which is `BacklogTruthful` told of
every moment.  The run checks the latter: a frame lost, doubled or overtaken shows
once the backlog is empty.

**FrameProofs: FramePath.**  `DebtsExact` (`DebtIsExact`) rests on `DebtInv`, which
says between the events what the property says when the loop sleeps: the hash is
the region's, nothing is held back of a grid that is not held, a screen that was
not shown is owed.  `AdoptedIsPoked` (`PokeKept`) rests on `PokeInv`: the clients
not adopted yet wait in the channel, each once and in the order of their numbers
(`Arrivals`), and the end of a socket is queued behind its arrival and only for
a client that is gone (`Departures`).  `PokeKept` alone is not inductive: that the
loop does not take an older client's end for that of the one it has adopted is
what the order of the channel says.

**L3HandoffProofs.**  `CloseBeatsExec` (`NoExecAfterClose`): a verdict stands
until the hand-over ends, and no close stands beside it (`VerdictInv`).
`OutputReachesTerminal` (`OutputInFlight`): the concatenation of terminal, hold,
queue, reader's hand and PTY is kept by every step, and once the reader is joined
all but the PTY are empty (`Drained`).  `InputReachesShell` (`InputInFlight`): the
keys passed on are 1, 2, 3, ... and those on their way run from there to the last
one typed (`KeysFlow`), frames of other kinds between them left out; `HandedOn`
says which of the queues can hold a key in which stage of the hand-over.

**CoreSupervisorProofs.**  `NothingDeadIsCurrent` (`DeadNeverCurrent`): of a layer
whose `pending` was not staged over since the probe looked, what passed the probe
or is about to be put in place starts (`Tested`), whatever step of an update the
shell is in; `Sorted` says which steps there are.

`RespawnsAreRationed` (`RestartRate`) rests on `BudgetInv`, which sets the two
histories of the last window beside each other, newest first: every respawn but
the oldest has a crash in its place that came no later (`Charged`), both are in the order
of time (`Ordered`), and none came since a pause began (`HeldBack`).  A crash that
leaves the window takes its respawn along only because of `Charged`.

`CrashesAreReal` (`CrashIsReal`) assumes `Timely`: a core that runs answers a ping
before the next one is due and says hello within the limit, and the deadline
leaves room for a ping, a stall and an answer.  With the times of the code (a
ping every 5 s, stalls of 5 s, 15 s for a hello and for a pong, main.rs:156-174) all that
is left of it is that a core answers within 5 s; section 5 shows a core that is
always one interval late, killed as hung.  `AnswerInv` says where a core that runs stands:
it owes the hello, has said it, owes a pong, has sent it, or owes nothing
(`Greeting` ... `Resting`), with how long each may have lasted.  That two
pings never wait is what makes these five all there are, and needs that a pass
takes what has arrived before it asks again.

**PeerBusProofs.**  `BusInv` relates the queue of events to the bindings.  Keys
are from a counter and no two bindings share one (`Keys`); a frame on its way
names an inbox that is open for the thread it was sent to, or that will never
open again (`Addressed`), hence `MailGoesWhereSent` (`MailToItsThread`).  The end of
a connection is queued once, behind what was heard on it (`Linked`); while the bus
is sure of its connection it hears only of threads a binding has subscribed
(`Heard`), hence `NothingLeftSubscribed` (`NoStraySubscription`).  Steps that handle an
event take it from the front and put notes behind; `Carried` is the one relation
between the queues before and after that every such step is shown to have.

`EveryPaneIsServed` (`WantsServed`) rests on `ServeInv`: the last set of panes on its
way is the one L1 sent last, and without one on its way it is the worker's
(`Posted`); a process is known by a number no later one has (`Procs`), so an old
binding is never taken for one of a new process; and when a rescan ends with
nothing more to look at, every pane of the set is bound to what it shows, or was
found not to be servable (`AllServed`).

`NobodyWaitsInVain` (`SubscriberTold`) and `NoticesAreEarned` (`NoticeEarned`) rest on
`FollowInv`, about the bindings that were followed from an idle start: nobody
else has the thread (`Alone`); what the worker believes of it, corrected by the
notes that wait, in their order, is what it is (`Knows`, by the function
`Tale` along the queue); whoever subscribed is owed a note that is coming
(`Awaits`); a subscription made while the thread worked has not seen it at rest
(`Rests`, and `Asks` for those still on their way); and a check that is due is not
made over mail the thread has yet to take (`Taken`).  Most of the module's length is the
second of these: every step that puts, takes or answers a note has to be shown
not to change the end of the tale.

**SessionOwnerProofs.**  Three invariants, each used by the next.

`DirectoryHasOneOwner` is `OneServes`.  `IInv` is
`Typed`, `LocksHeld` (a process that runs has a session; a directory some
process took has been made; who has a directory and runs holds its lock) and
`Alone` (two that run in one directory are one).  `Alone` by itself says nothing
of a lock, and a lock is all `Bind` looks at; that a lock's owner and a
directory's holder are the same is `LocksHeld`, and that a directory made anew
is not one somebody still has open needs the middle part of it.  Most of the
module's actions do not touch processes or nodes, or move one process a phase on;
`IdleStep` and `PhaseStep` settle those, `BindStep` is the one with an argument.

`NumbersFresh` (`IdsNotReused`) and `SavedNotRetired` (`SweepSpares`) rest on
`CoreInv`: every number on disk, in a pane, in a process and in a job came from
the counter (`Numbered`), the stage of a window says what the core is doing
(`Staged`), and during a boot a saved session is still to do or claimed, and the
sweep, which takes slots that are to do and not claimed, takes neither
(`Spares`).  Slots are taken in the order of their numbers; that a set of them has
a least one is well-foundedness.

`LiveIsShown` (`NoneLost`) rests on `FoundInv`, which follows what the boot knew
of a session at its scan (`job.seen`) to the end of the boot: a process that has
begun to serve never does so a second time, so a slot found dead stays dead; a
slot done shows the process its entry named, or that process does not hold the
session any more; a session no slot took has no owner, or no region (`Looked`,
`Stopped`).  The last case is the exception of section 5, and was found by this
proof: without it the invariant does not pass the step that adopts.

**PtyOpProofs.**  `OneRunAtATime` is `SlotIsSession`, over whatever plugin
submits whatever operations at any time (`PluginStep`), which is why it holds of
the plugins that are not modelled.  `IInv` adds `QueueInv`
(what waits is an operation with a number), `PollInv` (a run is begun and
registered within one poll, when no report is waiting) and `HolderRuns` (the
slot's holder has not reported).  `SlotIsSession` alone is not inductive: a
report left over from an earlier poll would free a slot another run holds.

`ReclaimerIsAPlugin` says that PaneReclaim implements PtyOp: each of its steps is
one of `PluginStep`, of the host or of the world, or leaves the host alone.  With
it `OneRunThere` is `SlotIsSession` of the composition.

`OneWayBack` (`OneWakePath`) rests on `CalmInv`: while nothing has gone wrong a run
ends done, failed or late; a failed one drops the pane's records; any other
record has its reclaim waiting or ended well.  So the sweep never finds a record
without a way back, and only reclaims bring sessions back, each under a number
of its own.

`SleeperIsRecorded` (`ParkedIsRecorded`) follows the pane's first reclaim from
the scan that submits it (`FirstInv`): its record is made with it; while it waits
only deliveries run (`Ahead`), so nothing that could drop records ends
(`NoWakeEnds`); and its record is old enough to be judged only when the run is
past the kill, so every scan that judges it was taken over a dead agent
(`Judged`).  This is the theorem that assumes something of the behaviour: the
queue has room for what the channel holds (`RoomForAll`), as it has in every
state of the run.  Without room the property is false (section 5).

Only model-checked: all liveness (`CallerReturns`, `ReaderKeepsUp`,
`MirrorCatchesUp`, `HandOverEnds`, `CoreComesBack`, `StrandedLeaves`,
`SleeperWakes`, `WorkDrains`, `TypingShowsLive`), since the prover handles neither
fairness nor ENABLED; and what a recursively defined function computes for
every input, which needs an induction theorem over an operator.  No module
declares a RECURSIVE operator.

What the proofs changed in the model, and so in the runs: `NoneLost` was found to
need the exception of section 5 (the region of a live session is gone); restoring a
snapshot whose process is killed half-way marks the indexes as shifted
(`RestoredInOrder`), and the run was widened to three processes for it.
Some definitions were only rewritten into a form that can be reasoned
about, with the same meaning: the two cases of `Anchor` in ViewSync overlapped;
`Recent` takes the old entries of the crash and respawn windows from the front, as the
code pops them, where a filter stood; `Assign` in PeerBus makes its three passes one
after the other.


## 7. What is not modelled, and why

Inside the modelled parts: I/O errors (the writers ignore them; the renames of
the slots have one outcome for failure), the encoding of frames and records,
sidecars of the scrollback (prompt marks, clusters), the upgrade of old file
headers, the visible grid and the modes of a snapshot, predicted echoes,
selections, receipts and reply guarding in L3's loop, resizes in FramePath and
ViewSync, a history cleared while it is read, the wheel a program gets, creation
and mapping of a region, and in L1 the download and the signature of an update,
windows, and the redirect of a cold start, which is off by default.  In
SessionOwner dormant slots, slots without a number and safe mode; in PtyOp what
a run types and reads, badges, and the scripts of Codex and of the hand-over; in
PaneReclaim which transcript is whose, quotas, the choice of a profile and the
end of background holders; in PeerBus names, permission classes, rates, records
and hooks on disk, the relay process and the limits of channel and stash.

Where the order or the failure of something is simplified: in PeerBus a look at
subscriptions that are due, which the code takes behind the rescan of a retry in
the same pass (worker.rs:176-183), perhaps with events waiting that came during it,
is taken before that rescan, with none waiting; in PaneReclaim dormant.tsv is written in
one step that succeeds, where the code has a plain `fs::write`
(claudecode/mod.rs:1240-1251); in L3Handoff the update that cannot name its slots
(session/main.rs:1718-1726) is left out, since `BinaryTree::default_for` has no way
to fail (binary_tree.rs:161-166).

`CoreSupervisor` fixes which builds speak the protocol, whatever shell is
running; the environment (updater, user, failures) acts between passes and
between the steps of an update, not inside the other steps of a pass.

Whole components: drawing, layout and AppKit have no protocol; link
recognition and terminal emulation are sequential and have oracles and fuzzers
of their own; the queries and the diagnostics keep no state.  The rest is in
the plan.


## 8. The plan

Done: the files of a session and its hand-over, the frames from session to
renderer, the watchdog, who owns a session, the runs that type into a pane and
the reclaiming of idle agents, the peer bus, scrolled views.  Next, in this order:

1. **ByteLog** over AppendLog: rotation, replay; and the structured log, with
   several processes that rotate one file.
2. **PaneStatus**; the sidecars of the scrollback; tab stops and scroll regions
   as pure operators against a reference definition.

Proofs: every safety property of the runs is one.  A theorem about a further
component goes into the module of the component it is nearest to, as ViewSync
went beside GridShm: the definitions of the two must then have different names.
