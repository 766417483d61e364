----------------------------- MODULE AsyncWriter -----------------------------
(***************************************************************************)
(* crates/marspot-term/src/async_writer.rs: a file written on a thread of  *)
(* its own.  The caller fills a buffer; a full one goes to the thread over *)
(* a bounded channel, and emptied buffers come back over a free list.      *)
(*                                                                         *)
(* Bytes are numbered in the order they are written (see AppendLog), so a  *)
(* buffer, a message and a file are each a run [lo, hi] of the stream.  A  *)
(* truncate message spans the bytes it throws away.  Every caller keeps    *)
(* only a fixed header in front of the truncation point, so "cut to len"   *)
(* is "empty".  I/O errors are ignored by the code and are not modelled.   *)
(***************************************************************************)
EXTENDS Naturals, Sequences

CONSTANTS
    Cap,        \* buffer size in bytes
    Depth,      \* channel depth (every caller passes 4)
    WriteSizes, \* sizes of one write()
    MaxBytes,   \* bound on the bytes written in a behaviour
    MaxFiles    \* bound on the files a behaviour goes through

ASSUME CapAssumption == Cap \in Nat \ {0}
ASSUME DepthAssumption == Depth \in Nat \ {0}
ASSUME WriteSizesAssumption == WriteSizes \subseteq Nat \ {0}
ASSUME BoundsAssumption == MaxBytes \in Nat /\ MaxFiles \in Nat \ {0}

VARIABLES
    next,   \* bytes written by the caller so far
    buf,    \* the caller's buffer
    spare,  \* empty buffers (0 or 1) the caller kept from a refused hand-off
    free,   \* buffers in the free list
    queue,  \* the channel to the thread
    pend,   \* the message a blocked send() is holding
    pc,     \* the caller: "idle", "send", "ack", "joining", "done"
    cont,   \* what the caller does once a flush is acknowledged
    hand,   \* the message the thread is working on
    file,   \* the file the thread holds
    closed  \* the files swapped out, oldest first

vars == <<next, buf, spare, free, queue, pend, pc, cont, hand, file, closed>>

Run(lo, hi) == [lo |-> lo, hi |-> hi]
Msg(kind, run) == [kind |-> kind, lo |-> run.lo, hi |-> run.hi]
NoMsg == Msg("none", Run(0, 0))

Kinds == {"data", "barrier", "truncate", "swap", "none"}
Runs == [lo : Nat, hi : Nat]
Msgs == [kind : Kinds, lo : Nat, hi : Nat]

\* The caller's new, empty buffer starts where the stream stands.
EmptyBuf(at) == Run(at, at)

Init == /\ next = 0
        /\ buf = EmptyBuf(0)
        /\ spare = 0
        /\ free = 2
        /\ queue = <<>>
        /\ pend = NoMsg
        /\ pc = "idle"
        /\ cont = "idle"
        /\ hand = NoMsg
        /\ file = Run(0, 0)
        /\ closed = <<>>
-----------------------------------------------------------------------------
(* The caller's thread. *)

\* take_empty(): the spare, else a returned buffer, else a new allocation.
TakeEmpty == /\ spare' = 0
             /\ free' = IF spare = 0 /\ free > 0 THEN free - 1 ELSE free

\* write(): a buffer that reaches cap is replaced, then sent; the send blocks
\* while the channel is full.
Write(n) ==
    /\ pc = "idle"
    /\ next + n <= MaxBytes
    /\ next' = next + n
    /\ \/ /\ next' - buf.lo < Cap
          /\ buf' = Run(buf.lo, next')
          /\ UNCHANGED <<spare, free, pend, pc>>
       \/ /\ next' - buf.lo >= Cap
          /\ TakeEmpty
          /\ buf' = EmptyBuf(next')
          /\ pend' = Msg("data", Run(buf.lo, next'))
          /\ pc' = "send"
    /\ UNCHANGED <<queue, cont, hand, file, closed>>

\* hand_off() with room in the channel: the buffer goes, an empty one stays.
HandOff ==
    /\ pc = "idle"
    /\ buf.lo # buf.hi
    /\ spare + free > 0
    /\ Len(queue) < Depth
    /\ TakeEmpty
    /\ queue' = Append(queue, Msg("data", buf))
    /\ buf' = EmptyBuf(buf.hi)
    /\ UNCHANGED <<next, pend, pc, cont, hand, file, closed>>

\* hand_off() refused by a full channel: the bytes come back, and the empty
\* buffer is kept for the next try.
HandOffRefused ==
    /\ pc = "idle"
    /\ buf.lo # buf.hi
    /\ spare + free > 0
    /\ Len(queue) >= Depth
    /\ spare' = 1
    /\ free' = IF spare = 1 THEN free ELSE free - 1
    /\ UNCHANGED <<next, buf, queue, pend, pc, cont, hand, file, closed>>

\* Mutant: the barrier goes without the buffered bytes.
StartFlushEmpty(after) ==
    /\ pc = "idle"
    /\ TakeEmpty
    /\ pend' = Msg("barrier", EmptyBuf(buf.lo))
    /\ pc' = "send"
    /\ cont' = after
    /\ UNCHANGED <<next, buf, queue, hand, file, closed>>

\* flush(): a barrier that carries the buffer; the caller waits for its ack.
StartFlush(after) ==
    /\ pc = "idle"
    /\ TakeEmpty
    /\ pend' = Msg("barrier", buf)
    /\ buf' = EmptyBuf(buf.hi)
    /\ pc' = "send"
    /\ cont' = after
    /\ UNCHANGED <<next, queue, hand, file, closed>>

Flush == StartFlush("idle")

\* Mutant: the swap is sent without a flush in front of it.
SwapUnflushed ==
    /\ pc = "idle"
    /\ Len(closed) + 1 < MaxFiles
    /\ pend' = Msg("swap", EmptyBuf(buf.lo))
    /\ pc' = "send"
    /\ UNCHANGED <<next, buf, spare, free, queue, cont, hand, file, closed>>

\* swap_file() flushes first; the swap follows the acknowledgement.
SwapFile == Len(closed) + 1 < MaxFiles /\ StartFlush("swap")

\* Drop flushes, closes the channel and joins the thread.
DropWriter == StartFlush("joining")

\* truncate(): the buffered bytes are dropped here, the queued ones are
\* written by the thread before it cuts the file.
Truncate ==
    /\ pc = "idle"
    /\ pend' = Msg("truncate", buf)
    /\ buf' = EmptyBuf(buf.hi)
    /\ pc' = "send"
    /\ cont' = "idle"
    /\ UNCHANGED <<next, spare, free, queue, hand, file, closed>>

\* The blocking send completes; only a data message has no acknowledgement.
Send ==
    /\ pc = "send"
    /\ Len(queue) < Depth
    /\ queue' = Append(queue, pend)
    /\ pend' = NoMsg
    /\ pc' = IF pend.kind = "data" THEN "idle" ELSE "ack"
    /\ UNCHANGED <<next, buf, spare, free, cont, hand, file, closed>>

\* recv() fails once the channel is closed and drained: the join returns.
Join ==
    /\ pc = "joining"
    /\ queue = <<>>
    /\ hand = NoMsg
    /\ pc' = "done"
    /\ UNCHANGED <<next, buf, spare, free, queue, pend, cont, hand, file, closed>>
-----------------------------------------------------------------------------
(* The writer thread. *)

Receive ==
    /\ hand = NoMsg
    /\ queue # <<>>
    /\ hand' = Head(queue)
    /\ queue' = Tail(queue)
    /\ UNCHANGED <<next, buf, spare, free, pend, pc, cont, file, closed>>

\* free_tx.try_send(): a buffer the free list has no room for is dropped.
ReturnBuffer == free' = IF free < Depth + 2 THEN free + 1 ELSE free

WriteData ==
    /\ hand.kind = "data"
    /\ file' = Run(file.lo, hand.hi)
    /\ ReturnBuffer
    /\ hand' = NoMsg
    /\ UNCHANGED <<next, buf, spare, queue, pend, pc, cont, closed>>

\* Mutant: the barrier is written and never acknowledged.
WriteBarrierSilently ==
    /\ hand.kind = "barrier"
    /\ file' = Run(file.lo, hand.hi)
    /\ ReturnBuffer
    /\ hand' = NoMsg
    /\ UNCHANGED <<next, buf, spare, queue, pend, pc, cont, closed>>

\* The rendezvous acknowledgement wakes the caller, who goes on with `cont`.
WriteBarrier ==
    /\ hand.kind = "barrier"
    /\ file' = Run(file.lo, hand.hi)
    /\ ReturnBuffer
    /\ hand' = NoMsg
    /\ pc' = IF cont = "swap" THEN "send" ELSE cont
    /\ pend' = IF cont = "swap" THEN Msg("swap", buf) ELSE pend
    /\ UNCHANGED <<next, buf, spare, queue, cont, closed>>

CutFile ==
    /\ hand.kind = "truncate"
    /\ file' = Run(hand.hi, hand.hi)
    /\ hand' = NoMsg
    /\ pc' = "idle"
    /\ UNCHANGED <<next, buf, spare, free, queue, pend, cont, closed>>

SwapIn ==
    /\ hand.kind = "swap"
    /\ closed' = Append(closed, file)
    /\ file' = Run(hand.hi, hand.hi)
    /\ hand' = NoMsg
    /\ pc' = "idle"
    /\ UNCHANGED <<next, buf, spare, free, queue, pend, cont>>
-----------------------------------------------------------------------------
Caller == \/ \E n \in WriteSizes : Write(n)
          \/ HandOff
          \/ HandOffRefused
          \/ Flush
          \/ SwapFile
          \/ DropWriter
          \/ Truncate

Thread == Receive \/ WriteData \/ WriteBarrier \/ CutFile \/ SwapIn

Next == Caller \/ Send \/ Join \/ Thread

\* The thread runs whenever it has work, and a caller blocked in the channel
\* is woken when there is room; when to write is the caller's business.
Fairness == WF_vars(Thread) /\ WF_vars(Send) /\ WF_vars(Join)

Spec == Init /\ [][Next]_vars
FairSpec == Spec /\ Fairness
-----------------------------------------------------------------------------
TypeOK ==
    /\ next \in Nat
    /\ buf \in Runs
    /\ spare \in {0, 1}
    /\ free \in 0 .. Depth + 2
    /\ queue \in Seq(Msgs)
    /\ pend \in Msgs
    /\ pc \in {"idle", "send", "ack", "joining", "done"}
    /\ cont \in {"idle", "swap", "joining"}
    /\ hand \in Msgs
    /\ file \in Runs
    /\ closed \in Seq(Runs)

\* Where the stream stands after each stage of the pipeline.
HandEnd == IF hand.kind = "none" THEN file.hi ELSE hand.hi
QueueEnd == IF queue = <<>> THEN HandEnd ELSE queue[Len(queue)].hi
PendEnd == IF pend.kind = "none" THEN QueueEnd ELSE pend.hi

\* Every byte written is in exactly one place, in order: the file, then the
\* thread's hand, the channel, the blocked send and the caller's buffer make
\* one unbroken run of the stream (async_writer.rs:14-40: a refused hand-off
\* loses nothing, a swap does not reorder across files).
Contiguous ==
    /\ hand.kind # "none" => hand.lo = file.hi
    /\ queue # <<>> => queue[1].lo = HandEnd
    /\ \A i \in 1 .. Len(queue) - 1 : queue[i + 1].lo = queue[i].hi
    /\ pend.kind # "none" => pend.lo = QueueEnd
    /\ buf.lo = PendEnd
    /\ buf.hi = next

\* When flush() returns, every byte written before it is in the file
\* (async_writer.rs:186-194; readers pread the file right after it).
FlushIsDurable ==
    [][hand.kind = "barrier" /\ hand'.kind = "none" => file'.hi = next]_vars

\* A truncate leaves nothing of what was written before it, wherever those
\* bytes were when it was called, and none of them turn up later
\* (async_writer.rs:196-205 and scrollback/file/read.rs:312-316).
NothingOutlivesTruncate ==
    [][hand.kind = "truncate" /\ hand'.kind = "none"
         => file'.lo = next /\ PendEnd' = next]_vars

\* The writer implements the append log its callers are written against.
Log == INSTANCE AppendLog
ImplementsLog == Log!Spec

\* A caller that blocks (full channel, flush, truncate, swap, drop) gets out.
CallerReturns == pc \in {"send", "ack", "joining"} ~> pc \in {"idle", "done"}
=============================================================================
