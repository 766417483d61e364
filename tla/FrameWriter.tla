----------------------------- MODULE FrameWriter -----------------------------
(***************************************************************************)
(* crates/marspot-term/src/frame_writer.rs: BoundedWriter, the queue that  *)
(* keeps an event loop from blocking on a peer that does not read.  The    *)
(* caller counts a frame into `pending` and sends it to a thread, which    *)
(* writes it and counts it out again.                                      *)
(*                                                                         *)
(* ControlWriter (marspot-session/src/control_writer.rs) hands the socket  *)
(* to the next image of the process while its thread may still be writing; *)
(* that image starts a writer of its own.  A frame written to a dead peer  *)
(* counts as written, as it does in the code.                              *)
(***************************************************************************)
EXTENDS Naturals, Sequences, SequencesExt

CONSTANTS
    Cap,        \* cap_bytes
    Sizes,      \* sizes of a frame
    MaxFrames,  \* bound on the frames sent
    MaxImages   \* bound on the images the process goes through

ASSUME SizesAssumption == Sizes \subseteq Nat \ {0}
ASSUME BoundsAssumption == Cap \in Nat /\ MaxFrames \in Nat /\ MaxImages \in Nat \ {0}

VARIABLES
    tried,      \* frames the caller has tried to send
    cur,        \* the frame send() is working on
    call,       \* send(): "idle", "add", "put"
    open,       \* tx is Some
    queue,      \* the channel
    hand,       \* the frame the thread is writing, as a sequence of 0 or 1
    left,       \* bytes of it not yet written
    pending,    \* bytes counted in and not yet out
    accepted,   \* frames send() returned true for
    wire,       \* frames written in full
    torn,       \* frames of which the socket holds a beginning and no end
    image       \* the image of the process

callerVars == <<tried, cur, call, open>>
threadVars == <<queue, hand, left>>
writerVars == <<callerVars, threadVars, pending, accepted, wire, torn, image>>

Frame(n, size) == [n |-> n, size |-> size]
NoFrame == Frame(0, 0)

WriterInit ==
    /\ tried = 0 /\ cur = NoFrame /\ call = "idle" /\ open = TRUE
    /\ queue = <<>> /\ hand = <<>> /\ left = 0
    /\ pending = 0
    /\ accepted = <<>> /\ wire = <<>> /\ torn = {}
    /\ image = 1
-----------------------------------------------------------------------------
(* The caller. *)

\* Mutant: a frame that does not fit takes the place of the oldest one.
CheckDroppingOldest(size) ==
    /\ call = "idle" /\ open /\ tried < MaxFrames
    /\ tried' = tried + 1
    /\ IF pending + size > Cap /\ queue # <<>>
       THEN queue' = Tail(queue) /\ pending' = pending - Head(queue).size
       ELSE UNCHANGED <<queue, pending>>
    /\ call' = "add" /\ cur' = Frame(tried', size)
    /\ UNCHANGED <<open, hand, left, accepted, wire, torn, image>>

\* send(): a frame that does not fit is refused whole.
Check(size) ==
    /\ call = "idle" /\ open /\ tried < MaxFrames
    /\ tried' = tried + 1
    /\ IF pending + size > Cap THEN UNCHANGED <<call, cur>>
                               ELSE call' = "add" /\ cur' = Frame(tried', size)
    /\ UNCHANGED <<open, threadVars, pending, accepted, wire, torn, image>>

Add == /\ call = "add"
       /\ pending' = pending + cur.size
       /\ call' = "put"
       /\ UNCHANGED <<tried, cur, open, threadVars, accepted, wire, torn, image>>

Put == /\ call = "put"
       /\ queue' = Append(queue, cur)
       /\ accepted' = Append(accepted, cur.n)
       /\ call' = "idle"
       /\ UNCHANGED <<tried, cur, open, hand, left, pending, wire, torn, image>>

\* close(): no more frames; the thread finishes what is queued.
Close == /\ call = "idle" /\ open
         /\ open' = FALSE
         /\ UNCHANGED <<tried, cur, call, threadVars, pending, accepted, wire, torn, image>>

\* into_raw_fd() and execv: the thread ends wherever it is, and `accepted` is
\* counted afresh, from what is on the wire.
Replace == /\ ~open
           /\ image < MaxImages
           /\ image' = image + 1
           /\ open' = TRUE
           /\ torn' = IF hand # <<>> /\ left < Head(hand).size
                      THEN torn \union {Head(hand).n} ELSE torn
           /\ queue' = <<>> /\ hand' = <<>> /\ left' = 0
           /\ pending' = 0
           /\ accepted' = wire
           /\ UNCHANGED <<tried, cur, call, wire>>
-----------------------------------------------------------------------------
(* The thread. *)

\* Mutant: the frame is counted out when the thread takes it.
TakeCountedOut == /\ hand = <<>> /\ queue # <<>>
                  /\ hand' = <<Head(queue)>>
                  /\ left' = Head(queue).size
                  /\ queue' = Tail(queue)
                  /\ pending' = pending - Head(queue).size
                  /\ UNCHANGED <<callerVars, accepted, wire, torn, image>>

Take == /\ hand = <<>> /\ queue # <<>>
        /\ hand' = <<Head(queue)>>
        /\ left' = Head(queue).size
        /\ queue' = Tail(queue)
        /\ UNCHANGED <<callerVars, pending, accepted, wire, torn, image>>

\* write(2) may take a part of a frame.
WriteSome == /\ hand # <<>> /\ left > 0
             /\ left' \in 0 .. left - 1
             /\ wire' = IF left' = 0 THEN Append(wire, Head(hand).n) ELSE wire
             /\ UNCHANGED <<callerVars, queue, hand, pending, accepted, torn, image>>

CountOut == /\ hand # <<>> /\ left = 0
            /\ pending' = pending - Head(hand).size
            /\ hand' = <<>>
            /\ UNCHANGED <<callerVars, queue, left, accepted, wire, torn, image>>
-----------------------------------------------------------------------------
Caller == (\E size \in Sizes : Check(size)) \/ Add \/ Put \/ Close \/ Replace
Thread == Take \/ WriteSome \/ CountOut

WriterNext == Caller \/ Thread

WriterSpec == WriterInit /\ [][WriterNext]_writerVars

-----------------------------------------------------------------------------
(* Correctness. *)

\* Every variable keeps its type, and what is pending stays under the cap.
WriterTypeOK ==
    /\ tried \in 0 .. MaxFrames
    /\ call \in {"idle", "add", "put"} /\ open \in BOOLEAN
    /\ pending \in 0 .. Cap
    /\ Len(hand) <= 1 /\ left \in 0 .. Cap
    /\ torn \subseteq 1 .. MaxFrames /\ image \in 1 .. MaxImages

Numbers(s) == [i \in DOMAIN s |-> s[i].n]

\* What was accepted is on the wire, in the thread's hands or queued, once and
\* in order, whatever is refused in between.  (The runs check what follows of
\* it for the moments the backlog is empty.)
AcceptedInOrder ==
    accepted = wire \o (IF left > 0 THEN Numbers(hand) ELSE <<>>) \o Numbers(queue)

\* backlog() = 0 means delivered: the execv waits for it before it drops the
\* PTY's queue, the reply guard before it judges the PTY's input.
BacklogTruthful == pending = 0 => accepted = wire

\* frame_writer.rs:23-24: "written by a single owner, so a peer never sees a
\* torn frame".
NeverTorn == torn = {}
=============================================================================
