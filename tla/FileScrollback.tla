--------------------------- MODULE FileScrollback ---------------------------
(***************************************************************************)
(* crates/marspot-term/src/scrollback/file{,/open,/write,/read}.rs: the    *)
(* scrollback of one pane, in a data file of records and an index file of  *)
(* record positions.  A data file that reaches its cap becomes the cold    *)
(* tier and replaces the previous one; the newest lines are also in a ring *)
(* in memory.  Both files are written by an AsyncWriter each, used here    *)
(* through its contract (AppendLog): a buffer, a queue of full buffers and *)
(* a thread that puts them on disk in order.                               *)
(*                                                                         *)
(* A line is the number of the push that made it; Blank is an empty line   *)
(* that stands for one that could not be read; CutShort(l) is the front of *)
(* line l.  A position is the ordinal of a record in its file.  How wide a *)
(* line is decides which push fills the 64 KiB buffer and which fills the  *)
(* file, so either may happen at any push; index entries are all 8 bytes,  *)
(* so the index buffer fills at exactly IdxCap of them.                    *)
(***************************************************************************)
EXTENDS Naturals, Sequences, SequencesExt, FiniteSetsExt

CONSTANTS
    RingCap,    \* ram_capacity: lines in the memory ring
    IdxCap,     \* index entries in one buffer
    MaxPush,    \* bound on the lines a behaviour produces
    MaxOpens    \* bound on the processes of a behaviour

ASSUME FileScrollbackAssumption ==
    /\ RingCap \in Nat \ {0}
    /\ IdxCap \in Nat \ {0}
    /\ MaxPush \in Nat
    /\ MaxOpens \in Nat \ {0}

VARIABLES
    disk,       \* contents of the files that exist
    buffer,     \* the writers' buffers
    queued,     \* the buffers handed to the writers' threads
    ring,       \* the newest lines, in memory
    clipped,    \* lines whose ring slot gives a shorter length (ram_lens)
    total,      \* total_lines
    hotFirst,   \* hot_first_line
    coldFirst,  \* cold_first_line
    coldTotal,  \* cold_total_lines
    coldOpen,   \* cold_bin_for_read and cold_idx_for_read are there
    tail,       \* bin_tail_offset
    unflushed,  \* has_unflushed
    stage,      \* the last step done of an operation a crash can interrupt
    todo,       \* lines the process is pushing back (reflow, restore)
    \* What the code does not keep:
    view,       \* the lines of this process's history, first to last
    pushed,     \* lines produced so far
    cleared,    \* lines up to this one have been cleared by the user
    owed,       \* what a crashed or closed process left on disk to be found
    opens       \* processes so far

memory == <<buffer, queued, ring, clipped, total, hotFirst, coldFirst, coldTotal,
            coldOpen, tail, unflushed>>
ghosts == <<view, pushed, cleared, owed, opens>>
fileVars == <<disk, memory, stage, todo, ghosts>>

Files == {"bin", "idx"}
Torn == 0
None == 0
Blank == MaxPush + 1
Lines == 1 .. Blank + MaxPush
CutShort(l) == IF l < Blank THEN Blank + l ELSE l
LineOf(l) == IF l > Blank THEN l - Blank ELSE l

RotationStages == {"flushed", "coldBinGone", "coldGone", "binRenamed",
                   "renamed", "binCreated"}
ClearStages == {"binCut", "hotCut", "coldBinCut"}
Stages == {"run", "down"} \union RotationStages \union ClearStages
-----------------------------------------------------------------------------
(* Files. *)

Exists(d, f) == f \in DOMAIN d
Without(d, f) == [g \in DOMAIN d \ {f} |-> d[g]]
Put(d, f, contents) ==
    [g \in DOMAIN d \union {f} |-> IF g = f THEN contents ELSE d[g]]
Rename(d, from, to) == Put(Without(d, from), to, d[from])

Flushed(f) == disk[f] \o FlattenSeq(queued[f]) \o buffer[f]
FlushedDisk == Put(Put(disk, "bin", Flushed("bin")), "idx", Flushed("idx"))
NoBuffers == [f \in Files |-> <<>>]

\* The record at an index entry: there, whole, or None.
RecordAt(bin, idx, i) ==
    IF i \in DOMAIN idx /\ idx[i] \in DOMAIN bin THEN bin[idx[i]] ELSE None

Tier(bin, idx) == [i \in DOMAIN idx |-> RecordAt(bin, idx, i)]
LastN(s, n) == SubSeq(s, Len(s) - Min({n, Len(s)}) + 1, Len(s))
-----------------------------------------------------------------------------
(* Opening the files of a previous process, or none. *)

\* The index is trimmed from its end to the last entry with a whole record.
Trimmed(bin, idx) ==
    LET good == {i \in DOMAIN idx : RecordAt(bin, idx, i) # None}
    IN  SubSeq(idx, 1, IF good = {} THEN 0 ELSE Max(good))

\* FileScrollback::open on the files of d.  A record behind the last index
\* entry stays in the data file, where nothing refers to it.
OpenFrom(d) ==
    LET bin == IF Exists(d, "bin") THEN d["bin"] ELSE <<>>
        idx == Trimmed(bin, IF Exists(d, "idx") THEN d["idx"] ELSE <<>>)
        hasCold == Exists(d, "cold.bin") /\ Exists(d, "cold.idx")
        cold == IF hasCold THEN Tier(d["cold.bin"], d["cold.idx"]) ELSE <<>>
        hot == Tier(bin, idx)
    IN  /\ disk' = Put(Put(d, "bin", bin), "idx", idx)
        /\ buffer' = NoBuffers
        /\ queued' = NoBuffers
        /\ ring' = LastN(hot, RingCap)
        /\ clipped' = {}
        /\ coldFirst' = 0
        /\ coldTotal' = Len(cold)
        /\ hotFirst' = Len(cold)
        /\ total' = Len(cold) + Len(hot)
        /\ coldOpen' = hasCold
        /\ tail' = Len(bin)
        /\ unflushed' = FALSE
        /\ view' = cold \o hot

FileInit == /\ disk = [f \in Files |-> <<>>]
            /\ buffer = NoBuffers
            /\ queued = NoBuffers
            /\ ring = <<>>
            /\ clipped = {}
            /\ total = 0 /\ hotFirst = 0 /\ coldFirst = 0 /\ coldTotal = 0
            /\ coldOpen = FALSE
            /\ tail = 0
            /\ unflushed = FALSE
            /\ stage = "run"
            /\ todo = <<>>
            /\ view = <<>>
            /\ pushed = 0 /\ cleared = 0 /\ opens = 1
            /\ owed = <<>>
-----------------------------------------------------------------------------
(* push_line and the rotation it may start. *)

\* AsyncWriter::write for one item: a full buffer goes to the thread.
WriteTo(f, item, full) ==
    LET b == Append(buffer[f], item)
    IN  [b |-> IF full THEN <<>> ELSE b,
         q |-> IF full THEN Append(queued[f], b) ELSE queued[f]]

\* Mutant: the offset is taken after the record has been counted.
AppendLineLate(line, eof) ==
    \E binFull \in BOOLEAN :
        LET b == WriteTo("bin", line, binFull)
            i == WriteTo("idx", eof + 2, Len(buffer["idx"]) + 1 >= IdxCap)
        IN  /\ buffer' = [buffer EXCEPT !["bin"] = b.b, !["idx"] = i.b]
            /\ queued' = [queued EXCEPT !["bin"] = b.q, !["idx"] = i.q]
            /\ tail' = eof + 1
            /\ unflushed' = TRUE
            /\ ring' = LastN(Append(ring, line), RingCap)
            /\ total' = total + 1
            /\ view' = Append(view, line)

\* The record to the data file, its position to the index, the line to the
\* ring; eof is the end of the data file as the process counts it.
AppendLine(line, eof) ==
    \E binFull \in BOOLEAN :
        LET b == WriteTo("bin", line, binFull)
            i == WriteTo("idx", eof + 1, Len(buffer["idx"]) + 1 >= IdxCap)
        IN  /\ buffer' = [buffer EXCEPT !["bin"] = b.b, !["idx"] = i.b]
            /\ queued' = [queued EXCEPT !["bin"] = b.q, !["idx"] = i.q]
            /\ tail' = eof + 1
            /\ unflushed' = TRUE
            /\ ring' = LastN(Append(ring, line), RingCap)
            /\ total' = total + 1
            /\ view' = Append(view, line)

\* The line to push: one being pushed back, or a new one.
TakeLine(line) ==
    \/ /\ todo # <<>>
       /\ line = Head(todo)
       /\ todo' = Tail(todo)
       /\ UNCHANGED pushed
    \/ /\ todo = <<>>
       /\ pushed < MaxPush
       /\ line = pushed + 1
       /\ pushed' = line
       /\ UNCHANGED todo

PushLine ==
    /\ stage = "run"
    /\ \E line \in Lines : TakeLine(line) /\ AppendLine(line, tail)
    /\ UNCHANGED <<disk, clipped, hotFirst, coldFirst, coldTotal, coldOpen,
                   stage, cleared, owed, opens>>

\* Mutant: rotation closes the files without flushing the index.
StartRotationUnflushed ==
    /\ stage = "run"
    /\ total > hotFirst
    /\ todo # <<>> \/ pushed < MaxPush
    /\ disk' = Put(disk, "bin", Flushed("bin"))
    /\ buffer' = NoBuffers
    /\ queued' = NoBuffers
    /\ coldOpen' = FALSE
    /\ stage' = "flushed"
    /\ UNCHANGED <<ring, clipped, total, hotFirst, coldFirst, coldTotal, tail,
                   unflushed, todo, ghosts>>

\* The next record would pass the cap: both files are flushed, the cold
\* tier is closed.  The push is finished by FinishRotation.
StartRotation ==
    /\ stage = "run"
    /\ total > hotFirst
    /\ todo # <<>> \/ pushed < MaxPush
    /\ disk' = FlushedDisk
    /\ buffer' = NoBuffers
    /\ queued' = NoBuffers
    /\ coldOpen' = FALSE
    /\ stage' = "flushed"
    /\ UNCHANGED <<ring, clipped, total, hotFirst, coldFirst, coldTotal, tail,
                   unflushed, todo, ghosts>>

RotationStep(from, to, d) ==
    /\ stage = from
    /\ stage' = to
    /\ disk' = d
    /\ UNCHANGED <<memory, todo, ghosts>>

RemoveColdBin == RotationStep("flushed", "coldBinGone", Without(disk, "cold.bin"))
RemoveColdIdx == RotationStep("coldBinGone", "coldGone", Without(disk, "cold.idx"))
RenameBin == RotationStep("coldGone", "binRenamed", Rename(disk, "bin", "cold.bin"))
RenameIdx == RotationStep("binRenamed", "renamed", Rename(disk, "idx", "cold.idx"))
CreateBin == RotationStep("renamed", "binCreated", Put(disk, "bin", <<>>))

\* What was hot is cold, and the hot tier starts at the next line.
Renumber == /\ coldFirst' = hotFirst
            /\ coldTotal' = total - hotFirst
            /\ hotFirst' = total

\* The index is created, the cold tier opened, and the line that did not fit
\* becomes the first of the new hot file.
FinishRotation ==
    /\ stage = "binCreated"
    /\ disk' = Put(disk, "idx", <<>>)
    /\ Renumber
    /\ coldOpen' = TRUE
    /\ stage' = "run"
    /\ \E line \in Lines : TakeLine(line) /\ AppendLine(line, 0)
    /\ UNCHANGED <<clipped, cleared, owed, opens>>

Rotate == \/ StartRotation \/ RemoveColdBin \/ RemoveColdIdx
          \/ RenameBin \/ RenameIdx \/ CreateBin \/ FinishRotation

\* A writer's thread puts the oldest full buffer on disk.
Spill(f) ==
    /\ stage # "down"
    /\ queued[f] # <<>>
    /\ disk' = [disk EXCEPT ![f] = @ \o Head(queued[f])]
    /\ queued' = [queued EXCEPT ![f] = Tail(@)]
    /\ UNCHANGED <<buffer, ring, clipped, total, hotFirst, coldFirst,
                   coldTotal, coldOpen, tail, unflushed, stage, todo, ghosts>>
-----------------------------------------------------------------------------
(* Reads and flushes. *)

Idle == stage = "run" /\ todo = <<>>

\* ensure_flushed(), which a read of an aged-out hot line starts with.
EnsureFlushed ==
    /\ Idle
    /\ unflushed
    /\ total - Len(ring) > hotFirst
    /\ disk' = FlushedDisk
    /\ buffer' = NoBuffers
    /\ queued' = NoBuffers
    /\ unflushed' = FALSE
    /\ UNCHANGED <<ring, clipped, total, hotFirst, coldFirst, coldTotal,
                   coldOpen, tail, stage, todo, ghosts>>

\* flush_for_handoff(): the data file only.
FlushForHandoff ==
    /\ Idle
    /\ disk' = Put(disk, "bin", Flushed("bin"))
    /\ buffer' = [buffer EXCEPT !["bin"] = <<>>]
    /\ queued' = [queued EXCEPT !["bin"] = <<>>]
    /\ unflushed' = FALSE
    /\ UNCHANGED <<ring, clipped, total, hotFirst, coldFirst, coldTotal,
                   coldOpen, tail, stage, todo, ghosts>>

\* A line in the ring, as long as the length its slot was given says.
InRing(i) ==
    LET line == ring[i - (total - Len(ring))]
    IN  IF i \in clipped THEN CutShort(line) ELSE line

\* read_line(i - 1): the ring, the cold tier, or the hot files after
\* ensure_flushed.
ReadLine(i) ==
    LET d == IF unflushed THEN FlushedDisk ELSE disk
        inRing == i > total - Len(ring)
    IN  CASE i \notin 1 .. total -> None
          [] i \in 1 .. total /\ inRing -> InRing(i)
          [] i \in 1 .. coldFirst /\ ~inRing -> None
          [] i \in coldFirst + 1 .. hotFirst /\ ~inRing ->
                IF coldOpen
                THEN RecordAt(disk["cold.bin"], disk["cold.idx"], i - coldFirst)
                ELSE None
          [] OTHER -> RecordAt(d["bin"], d["idx"], i - hotFirst)
-----------------------------------------------------------------------------
(* clear(): CSI 3 J. *)

\* The data file is cut and the counters reset.  The lengths in ram_lens stay:
\* the next ones are put behind them, so until the ring is full once and a slot
\* is written again it gives the length of an earlier line, and any of the
\* lines that fill it may be longer than that.
StartClear ==
    /\ Idle
    /\ disk' = [disk EXCEPT !["bin"] = <<>>]
    /\ buffer' = [buffer EXCEPT !["bin"] = <<>>]
    /\ queued' = [queued EXCEPT !["bin"] = <<>>]
    /\ ring' = <<>>
    /\ clipped' \in IF ring = <<>> THEN {clipped} ELSE SUBSET (1 .. RingCap)
    /\ total' = 0 /\ hotFirst' = 0 /\ tail' = 0
    /\ view' = <<>>
    /\ stage' = "binCut"
    /\ UNCHANGED <<coldFirst, coldTotal, coldOpen, unflushed, todo, pushed,
                   cleared, owed, opens>>

CutIdx ==
    /\ stage = "binCut"
    /\ disk' = [disk EXCEPT !["idx"] = <<>>]
    /\ buffer' = [buffer EXCEPT !["idx"] = <<>>]
    /\ queued' = [queued EXCEPT !["idx"] = <<>>]
    /\ stage' = "hotCut"
    /\ UNCHANGED <<ring, clipped, total, hotFirst, coldFirst, coldTotal,
                   coldOpen, tail, unflushed, todo, ghosts>>

\* Mutant: the cold tier is forgotten, not deleted.
CutColdBinKept ==
    /\ stage = "hotCut"
    /\ coldOpen' = FALSE
    /\ coldFirst' = 0 /\ coldTotal' = 0
    /\ cleared' = pushed
    /\ stage' = "run"
    /\ UNCHANGED <<disk, buffer, queued, ring, clipped, total, hotFirst, tail,
                   unflushed, todo, view, pushed, owed, opens>>

CutColdBin ==
    /\ stage = "hotCut"
    /\ disk' = Without(disk, "cold.bin")
    /\ coldOpen' = FALSE
    /\ coldFirst' = 0 /\ coldTotal' = 0
    /\ stage' = "coldBinCut"
    /\ UNCHANGED <<buffer, queued, ring, clipped, total, hotFirst, tail,
                   unflushed, todo, ghosts>>

FinishClear ==
    /\ stage = "coldBinCut"
    /\ disk' = Without(disk, "cold.idx")
    /\ unflushed' = FALSE
    /\ stage' = "run"
    /\ cleared' = pushed
    /\ UNCHANGED <<buffer, queued, ring, clipped, total, hotFirst, coldFirst,
                   coldTotal, coldOpen, tail, todo, view, pushed, owed,
                   opens>>

Clear == StartClear \/ CutIdx \/ CutColdBin \/ FinishClear
-----------------------------------------------------------------------------
(* The end of a process, and the next one. *)

Gone == /\ buffer' = NoBuffers
        /\ queued' = NoBuffers
        /\ ring' = <<>>
        /\ clipped' = {}
        /\ total' = 0 /\ hotFirst' = 0 /\ coldFirst' = 0 /\ coldTotal' = 0
        /\ coldOpen' = FALSE
        /\ tail' = 0
        /\ unflushed' = FALSE
        /\ todo' = <<>>
        /\ UNCHANGED <<view, pushed, cleared, opens>>

\* Drop: each writer flushes.
Close ==
    /\ Idle
    /\ disk' = FlushedDisk
    /\ stage' = "down"
    /\ owed' = SubSeq(view, coldFirst + 1, total)
    /\ Gone

\* The lines whose index entry and record are both in the files of d.  A
\* rotation has given the old cold tier up, a clear everything.
Durable(d) ==
    CASE stage = "run" ->
            (IF coldOpen THEN Tier(d["cold.bin"], d["cold.idx"]) ELSE <<>>)
            \o Tier(d["bin"], Trimmed(d["bin"], d["idx"]))
      [] stage \in RotationStages -> SubSeq(view, hotFirst + 1, total)
      [] OTHER -> <<>>

\* What a buffer that is being written leaves in the data file when the
\* process dies: some of its records, the last one perhaps not whole.
TornWrites ==
    {disk} \union
    IF queued["bin"] = <<>> THEN {}
    ELSE {[disk EXCEPT !["bin"] = @ \o Append(SubSeq(Head(queued["bin"]), 1, k), Torn)] :
            k \in 0 .. Len(Head(queued["bin"])) - 1}

\* SIGKILL, or an execv without the flush.
Crash ==
    /\ stage # "down"
    /\ \E d \in TornWrites : disk' = d /\ owed' = Durable(d)
    /\ stage' = "down"
    /\ Gone

OpenFiles ==
    /\ stage = "down"
    /\ opens < MaxOpens
    /\ opens' = opens + 1
    /\ OpenFrom(disk)
    /\ stage' = "run"
    /\ UNCHANGED <<pushed, cleared, owed>>

Open == OpenFiles /\ UNCHANGED todo

\* Grid::reflow: every line is read, restart() reopens the hot files empty,
\* and the lines are pushed back.
Reflow ==
    /\ Idle
    /\ total > 0
    /\ todo' = [i \in 1 .. total |-> IF ReadLine(i) = None THEN Blank ELSE ReadLine(i)]
    /\ OpenFrom(Put(Put(FlushedDisk, "bin", <<>>), "idx", <<>>))
    /\ UNCHANGED <<stage, pushed, cleared, owed, opens>>
-----------------------------------------------------------------------------
\* A reflow before the first rotation; after one, see ReflowOnce.
ReflowOneTier == ~coldOpen /\ Reflow

FileNext == \/ PushLine
            \/ Rotate
            \/ \E f \in Files : Spill(f)
            \/ EnsureFlushed
            \/ FlushForHandoff
            \/ Clear
            \/ Close
            \/ Crash
            \/ Open
            \/ ReflowOneTier

FileSpec == FileInit /\ [][FileNext]_fileVars
ReflowSpec == FileInit /\ [][FileNext \/ Reflow]_fileVars
-----------------------------------------------------------------------------
FileNames == Files \union {"cold.bin", "cold.idx"}

FileTypeOK ==
    /\ DOMAIN disk \subseteq FileNames
    /\ \A f \in DOMAIN disk : disk[f] \in Seq(Nat)
    /\ buffer \in [Files -> Seq(Nat)]
    /\ queued \in [Files -> Seq(Seq(Nat))]
    /\ ring \in Seq(Lines) /\ Len(ring) <= RingCap
    /\ clipped \subseteq 1 .. RingCap
    /\ {total, hotFirst, coldFirst, coldTotal, tail} \subseteq Nat
    /\ {coldOpen, unflushed} \subseteq BOOLEAN
    /\ stage \in Stages
    /\ {todo, view, owed} \subseteq Seq(Lines)

\* A read never hands out another line's text: it finds the line that was
\* pushed there, or nothing (file/read.rs:1-5, "a read that finds nothing
\* returns None rather than guessing").  The one exception is a line that has
\* filled the ring after a clear and is still there: it may be cut short.
NeverAnotherLine ==
    stage = "run" =>
        /\ total = Len(view)
        /\ \A i \in 1 .. total :
              \/ ReadLine(i) \in {None, view[i]}
              \/ /\ i \in clipped /\ i > total - Len(ring)
                 /\ ReadLine(i) = CutShort(view[i])

\* The same with no exception.
NeverGuesses ==
    stage = "run" => \A i \in 1 .. total : ReadLine(i) \in {None, view[i]}

\* It never misses a line between two it has, and never has one twice.
UnbrokenRun ==
    view # <<>> => \E a \in 1 .. Len(view) + 1, b \in 0 .. Len(view) :
                       view' = SubSeq(view, a, b)

\* Between the two renames of a rotation the index is there and the data not.
BetweenRenames == "idx" \in DOMAIN disk /\ "bin" \notin DOMAIN disk

\* What a new process finds is an unbroken run of what the last one had,
\* whatever that was doing when it stopped.  A process that closes leaves
\* everything it could still read, and a crash anywhere but between the two
\* renames costs only the lines that were not yet in both files
\* (file.rs:31-33).
HistoryRecovered ==
    [][stage = "down" /\ stage' = "run"
         => /\ UnbrokenRun
            /\ ~BetweenRenames => owed = LastN(view', Len(owed))]_fileVars

\* A crash costs a truncated trailing record (file.rs:31-33), so lines that
\* were whole in both files are there for the next process.
CrashKeepsWholeLines ==
    [][stage = "down" /\ stage' = "run" => owed = LastN(view', Len(owed))]_fileVars

\* Once a clear has finished, no earlier line is ever on disk or in the
\* history again, in this process or a later one (file/read.rs:297-307).
ClearedStaysCleared ==
    /\ stage = "run" => \A i \in DOMAIN view : LineOf(view[i]) > cleared
    /\ \A f \in DOMAIN disk \intersect {"bin", "cold.bin"} :
            stage \in {"run", "down"} =>
                \A i \in DOMAIN disk[f] : disk[f][i] = Torn \/ LineOf(disk[f][i]) > cleared

\* A line that is no longer in the ring is in a file a read can find it in,
\* unless its cold tier has been replaced (file.rs:40-46, "ring miss => file
\* hit").
RingMissIsFileHit ==
    Idle => \A i \in coldFirst + 1 .. total : ReadLine(i) = view[i]

\* Reflow drops all content and pushes it back once (scrollback.rs:352-366).
ReflowOnce ==
    Idle => \A i, j \in DOMAIN view :
        i < j => \/ Blank \in {view[i], view[j]}
                 \/ LineOf(view[i]) < LineOf(view[j])

\* The index never claims lines the data file cannot produce (file.rs:160-175).
IndexWithinData ==
    stage = "down" /\ {"bin", "idx"} \subseteq DOMAIN disk =>
        \A i \in DOMAIN disk["idx"] : RecordAt(disk["bin"], disk["idx"], i) # None
=============================================================================
