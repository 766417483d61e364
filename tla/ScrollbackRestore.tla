------------------------- MODULE ScrollbackRestore -------------------------
(***************************************************************************)
(* A pane's history across the processes that own it: the scrollback files *)
(* (FileScrollback) together with state.bin, the snapshot a pane process   *)
(* leaves for the next one.  Terminal::serialize_snapshot_* and            *)
(* apply_snapshot in crates/marspot-term/src/terminal.rs, the resume, cold *)
(* boot, periodic snapshot and shutdown of crates/marspot-session/src/     *)
(* main.rs, and its snapshot_writer.rs.                                    *)
(*                                                                         *)
(* The alternate screen, the visible grid and the modes are left out: only *)
(* the scrollback section of a snapshot is kept.  std::process::exit and   *)
(* execv run no destructor, so a process that leaves loses what its        *)
(* writers hold, as one that is killed does.                               *)
(***************************************************************************)
EXTENDS FileScrollback

CONSTANT SnapCap    \* PERIODIC_SNAPSHOT_TAIL_CAP

ASSUME SnapCapAssumption == SnapCap \in Nat

VARIABLES
    stateBin,   \* state.bin
    job,        \* the snapshot the SnapshotWriter thread has not written yet
    applying,   \* apply_snapshot has begun and state.bin is still there
    leaving,    \* the last snapshot is written, the process is about to go
    last        \* ghost: how the last process ended, what it had, and
                \* whether the next one's snapshot begins after its files end

restoreVars == <<stateBin, job, applying, leaving, last>>
allVars == <<fileVars, restoreVars>>

NoSnapshot == [start |-> 0, lines |-> <<>>]
Snapshots == [start : Nat, lines : Seq(Lines)]

\* serialize_snapshot_impl: the newest `cap` lines and the index of the first.
Serialize(cap) ==
    LET take == Min({cap, total})
        LineOrBlank(i) == IF ReadLine(i) = None THEN Blank ELSE ReadLine(i)
    IN  [start |-> total - take,
         lines |-> [i \in 1 .. take |-> LineOrBlank(total - take + i)]]

\* Mutant: every line of the snapshot is replayed, as before v3.
ReplayAll(snapshot, onDisk) == snapshot.lines

\* apply_snapshot replays the lines whose index the files do not reach.
Replay(snapshot, onDisk) ==
    LET skip == IF onDisk > snapshot.start THEN onDisk - snapshot.start ELSE 0
    IN  SubSeq(snapshot.lines, skip + 1, Len(snapshot.lines))

RestoreInit ==
    /\ FileInit
    /\ stateBin = NoSnapshot
    /\ job = NoSnapshot
    /\ applying = FALSE
    /\ leaving = FALSE
    /\ last = [how |-> "none", view |-> <<>>, shifted |-> FALSE,
               ordered |-> TRUE, readable |-> TRUE, alone |-> TRUE, gap |-> FALSE]
-----------------------------------------------------------------------------
\* The pane's process at work: a line from the shell, or one replayed.
Work == /\ ~leaving
        /\ todo # <<>> \/ ~applying
        /\ \/ PushLine
           \/ Rotate
           \/ ~applying /\ (EnsureFlushed \/ Clear)
        /\ UNCHANGED restoreVars

Writers == (\E f \in Files : Spill(f)) /\ UNCHANGED restoreVars

\* The periodic snapshot of the main loop: generation changed, 30 s passed.
PeriodicSnapshot ==
    /\ ~leaving /\ ~applying
    /\ total > 0
    /\ FlushForHandoff
    /\ job' = Serialize(SnapCap)'
    /\ UNCHANGED <<stateBin, applying, leaving, last>>

\* SnapshotWriter: only the newest job is written, to a temporary file that
\* is renamed over state.bin.
WriteSnapshot ==
    /\ stage # "down"
    /\ job # NoSnapshot
    /\ stateBin' = job
    /\ job' = NoSnapshot
    /\ UNCHANGED <<fileVars, applying, leaving, last>>

Increasing(s) == \A i, j \in DOMAIN s :
    i < j => Blank \in {s[i], s[j]} \/ LineOf(s[i]) < LineOf(s[j])

\* What the process had, for the properties.  A rotation or a clear takes
\* lines out of the files, and a line replayed over a gap moves to another
\* index: `shifted` when the indexes of the files and of the snapshot may
\* differ.  A process that ends while it restores hands on what it met.
Readable == \A i \in coldFirst + 1 .. total : ReadLine(i) = view[i]
Had(how, readable) ==
    [how |-> how,
     view |-> SubSeq(view, coldFirst + 1, total),
     shifted |-> coldFirst > 0 \/ stage # "run"
                    \/ (applying /\ (last.shifted \/ last.gap)),
     ordered |-> Increasing(view) /\ (applying => last.ordered),
     readable |-> readable,
     alone |-> job = NoSnapshot,
     gap |-> FALSE]

\* Mutant: the last snapshot is as short as a periodic one.
LeaveShort ==
    /\ Idle /\ ~leaving /\ ~applying
    /\ stateBin' = Serialize(SnapCap)
    /\ leaving' = TRUE
    /\ last' = Had("left", Readable)
    /\ UNCHANGED fileVars \/ FlushForHandoff
    /\ UNCHANGED <<job, applying>>

\* SIGTERM: a clean exit, or an execv, which flushes as well; both write
\* state.bin on the main thread first, with the whole history (its limit,
\* SNAPSHOT_SCROLLBACK_LINE_CAP, is taken not to be met).
Leave ==
    /\ Idle /\ ~leaving /\ ~applying
    /\ stateBin' = Serialize(total)
    /\ leaving' = TRUE
    /\ last' = Had("left", Readable)
    /\ UNCHANGED fileVars \/ FlushForHandoff
    /\ UNCHANGED <<job, applying>>

\* The process is gone, as it meant to or not.
Die ==
    /\ Crash
    /\ last' = IF leaving THEN last ELSE Had("killed", FALSE)
    /\ leaving' = FALSE
    /\ applying' = FALSE
    /\ job' = NoSnapshot
    /\ UNCHANGED stateBin

\* A new process opens the files and starts to apply state.bin, if any.
Resume ==
    /\ OpenFiles
    /\ todo' = Replay(stateBin, total')
    /\ applying' = TRUE
    /\ last' = [last EXCEPT !.gap = total' < stateBin.start]
    /\ UNCHANGED <<stateBin, job, leaving>>

\* remove_file(state.bin), one shot.
ForgetState ==
    /\ applying /\ Idle
    /\ applying' = FALSE
    /\ stateBin' = NoSnapshot
    /\ UNCHANGED <<fileVars, job, leaving, last>>

RestoreNext == Work \/ Writers \/ PeriodicSnapshot \/ WriteSnapshot \/ Leave
               \/ Die \/ Resume \/ ForgetState

RestoreSpec == RestoreInit /\ [][RestoreNext]_allVars
-----------------------------------------------------------------------------
RestoreTypeOK ==
    /\ FileTypeOK
    /\ {stateBin, job} \subseteq Snapshots
    /\ {applying, leaving, last.shifted, last.ordered, last.readable, last.alone,
        last.gap} \subseteq BOOLEAN
    /\ last.how \in {"none", "left", "killed"}
    /\ last.view \in Seq(Lines)

Restored == applying /\ ~applying' /\ stage' = "run"

\* Leaving and coming back costs nothing: with no line given up, every line
\* readable and no older snapshot still in the writer's hands, the next
\* process has exactly the history of the last one (terminal.rs:2013-2018).
LeftAlone == last.how = "left" /\ last.alone
HandOverKeepsHistory ==
    [][Restored /\ LeftAlone /\ last.readable /\ ~last.shifted
         => view = last.view]_allVars

\* However the last process ended, and whichever snapshot of it the next one
\* found, the lines it restores are in the order they were made and none is
\* there twice: unless the last process had them otherwise itself, lines of
\* the snapshot were cleared since, or the indexes were shifted.
RestoredInOrder ==
    [][Restored /\ ~last.shifted /\ last.ordered
         /\ (\A i \in DOMAIN stateBin.lines : LineOf(stateBin.lines[i]) > cleared)
         => Increasing(view)]_allVars

\* The dedup is right by construction (terminal.rs:2013-2014, 2255-2256): a process
\* that left its whole history has its successor find no line of it twice.
DedupCorrect ==
    [][Restored /\ LeftAlone /\ last.readable => Increasing(view)]_allVars

\* The periodic snapshot's tail covers what its flush left out
\* (terminal.rs:1402-1409): a killed process leaves no gap.
NoGapAfterKill ==
    [][Restored /\ last.how = "killed" /\ ~last.shifted /\ cleared = 0
         => \E b \in 0 .. Len(last.view) : view = SubSeq(last.view, 1, b)]_allVars

\* An exit or an execv hands every line of the history to the next process
\* (scrollback.rs:115-119, "the next L3's reopen sees the full file").
HandOverKeepsAll ==
    [][Restored /\ LeftAlone /\ ~last.shifted => view = last.view]_allVars

\* The state.bin a process leaves is the one its successor applies
\* (main.rs:412-416).
LastSnapshotApplied ==
    [][Restored /\ last.how = "left" /\ last.readable /\ ~last.shifted
         => view = last.view]_allVars

\* What the user has cleared does not come back (file/read.rs:297-303).
ClearedNeverRestored ==
    [][Restored => \A i \in DOMAIN view : LineOf(view[i]) > cleared]_allVars
=============================================================================
