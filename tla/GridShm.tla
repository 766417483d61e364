------------------------------- MODULE GridShm -------------------------------
(***************************************************************************)
(* crates/marspot-term/src/grid_shm.rs: the region through which a session *)
(* (L3) hands its grid to the renderer (L2).  One writer brackets its copy *)
(* with a sequence number, odd while it is writing; a reader copies the    *)
(* frame out and accepts it only when the number was even and has not      *)
(* moved.  src/pane.rs polls it.                                           *)
(*                                                                         *)
(* A frame is a set of Parts (header, cells, clusters, wrap flags), each   *)
(* holding the number of the publish that wrote it.  The fences order the  *)
(* sequence number against the data and nothing else, so the parts are     *)
(* stored and loaded in any order, except that the reader needs the header *)
(* first: its dims bound the copy.  A load that races the writer may       *)
(* return anything, which is Garbage.                                      *)
(***************************************************************************)
EXTENDS Naturals

CONSTANTS
    Readers,    \* the processes that map the region for reading
    Parts,      \* the pieces of a frame
    Header,     \* the piece read first
    Tries,      \* attempts of one read_frame (1024 in the code)
    MaxSeq      \* bound on the sequence number in a behaviour

ASSUME HeaderAssumption == Header \in Parts
ASSUME TriesAssumption == Tries \in Nat \ {0}
ASSUME MaxSeqAssumption == MaxSeq \in Nat

VARIABLES
    seq,        \* the sequence number in the header
    mem,        \* the region: which publish last wrote each part
    wpc,        \* the writer: "idle", "copy", "dead"
    todo,       \* parts this publish has still to store
    rpc,        \* each reader: "idle", "check", "copy"
    tries,      \* attempts left in this read
    polled,     \* the seq poll() loaded before it read
    s1,         \* the seq this attempt started from
    left,       \* parts this attempt has still to load
    got,        \* the parts loaded so far
    lastSeq,    \* poll(): the seq of the frame in the mirror
    mirror      \* the frame each reader shows

writerVars == <<seq, mem, wpc, todo>>
readerVars == <<rpc, tries, polled, s1, left, got, lastSeq, mirror>>
vars == <<writerVars, readerVars>>

Garbage == MaxSeq + 3
NoFrame == [p \in Parts |-> 0]
Odd(n) == n % 2 = 1

Init == /\ seq = 0
        /\ mem = NoFrame
        /\ wpc = "idle"
        /\ todo = {}
        /\ rpc = [r \in Readers |-> "idle"]
        /\ tries = [r \in Readers |-> 0]
        /\ polled = [r \in Readers |-> 0]
        /\ s1 = [r \in Readers |-> 0]
        /\ left = [r \in Readers |-> {}]
        /\ got = [r \in Readers |-> NoFrame]
        /\ lastSeq = [r \in Readers |-> 0]
        /\ mirror = [r \in Readers |-> NoFrame]
-----------------------------------------------------------------------------
(* The writer. *)

\* publish(): the number goes odd before the first store.
Enter == /\ wpc = "idle"
         /\ seq + 2 <= MaxSeq
         /\ seq' = seq + 1
         /\ wpc' = "copy"
         /\ todo' = Parts
         /\ UNCHANGED <<mem, readerVars>>

\* The number that will be published once the copy is complete.
Publishing == seq + 1

Store(p) == /\ wpc = "copy"
            /\ p \in todo
            /\ mem' = [mem EXCEPT ![p] = Publishing]
            /\ todo' = todo \ {p}
            /\ UNCHANGED <<seq, wpc, readerVars>>

\* The release store that publishes the frame.
Leave == /\ wpc = "copy"
         /\ todo = {}
         /\ seq' = Publishing
         /\ wpc' = "idle"
         /\ UNCHANGED <<mem, todo, readerVars>>

\* The session is killed, between two publishes or in the middle of one.
\* The next session gets a region of its own (create_region_named).
Die == /\ wpc # "dead"
       /\ wpc' = "dead"
       /\ UNCHANGED <<seq, mem, todo, readerVars>>
-----------------------------------------------------------------------------
(* A reader. *)

\* poll(): nothing to do while the number is the one already shown.
StartPoll(r) == /\ rpc[r] = "idle"
                /\ seq # lastSeq[r]
                /\ rpc' = [rpc EXCEPT ![r] = "check"]
                /\ tries' = [tries EXCEPT ![r] = Tries]
                /\ polled' = [polled EXCEPT ![r] = seq]
                /\ UNCHANGED <<writerVars, s1, left, got, lastSeq, mirror>>

\* read_frame(), top of the loop: an even number starts a copy.
Begin(r) == /\ rpc[r] = "check"
            /\ tries[r] > 0
            /\ seq # 0
            /\ ~Odd(seq)
            /\ rpc' = [rpc EXCEPT ![r] = "copy"]
            /\ s1' = [s1 EXCEPT ![r] = seq]
            /\ left' = [left EXCEPT ![r] = Parts]
            /\ got' = [got EXCEPT ![r] = NoFrame]
            /\ UNCHANGED <<writerVars, tries, polled, lastSeq, mirror>>

\* An odd number costs an attempt.
Spin(r) == /\ rpc[r] = "check"
           /\ tries[r] > 0
           /\ Odd(seq)
           /\ tries' = [tries EXCEPT ![r] = @ - 1]
           /\ UNCHANGED <<writerVars, rpc, polled, s1, left, got, lastSeq, mirror>>

\* Out of attempts, or never published: the mirror stays as it is.
GiveUp(r) == /\ rpc[r] = "check"
             /\ tries[r] = 0 \/ seq = 0
             /\ rpc' = [rpc EXCEPT ![r] = "idle"]
             /\ UNCHANGED <<writerVars, tries, polled, s1, left, got, lastSeq, mirror>>

Racing == wpc = "copy" /\ todo # {}

Load(r, p) ==
    /\ rpc[r] = "copy"
    /\ p \in left[r]
    /\ p # Header => Header \notin left[r]
    /\ \E v \in {mem[p]} \union (IF Racing THEN {Garbage} ELSE {}) :
          got' = [got EXCEPT ![r][p] = v]
    /\ left' = [left EXCEPT ![r] = @ \ {p}]
    /\ UNCHANGED <<writerVars, rpc, tries, polled, s1, lastSeq, mirror>>

\* The number moved during the copy, or the dims read were impossible.
Retry(r) == /\ rpc[r] = "copy"
            /\ \/ left[r] = {} /\ seq # s1[r]
               \/ Header \notin left[r] /\ got[r][Header] = Garbage
            /\ rpc' = [rpc EXCEPT ![r] = "check"]
            /\ tries' = [tries EXCEPT ![r] = @ - 1]
            /\ UNCHANGED <<writerVars, polled, s1, left, got, lastSeq, mirror>>

\* Mutant: the number is not looked at again.
AcceptUnchecked(r) == /\ rpc[r] = "copy"
                      /\ left[r] = {}
                      /\ rpc' = [rpc EXCEPT ![r] = "idle"]
                      /\ mirror' = [mirror EXCEPT ![r] = got[r]]
                      /\ lastSeq' = [lastSeq EXCEPT ![r] = polled[r]]
                      /\ UNCHANGED <<writerVars, tries, polled, s1, left, got>>

\* Mutant: poll() loads the number again after the copy has passed its check.
AcceptReloading(r) == /\ rpc[r] = "copy"
                      /\ left[r] = {}
                      /\ \A p \in Parts : got[r][p] = s1[r]
                      /\ rpc' = [rpc EXCEPT ![r] = "idle"]
                      /\ mirror' = [mirror EXCEPT ![r] = got[r]]
                      /\ lastSeq' = [lastSeq EXCEPT ![r] = seq]
                      /\ UNCHANGED <<writerVars, tries, polled, s1, left, got>>

\* The number has not moved: the copy is a frame, and becomes the mirror.
Accept(r) == /\ rpc[r] = "copy"
             /\ left[r] = {}
             /\ seq = s1[r]
             /\ rpc' = [rpc EXCEPT ![r] = "idle"]
             /\ mirror' = [mirror EXCEPT ![r] = got[r]]
             /\ lastSeq' = [lastSeq EXCEPT ![r] = polled[r]]
             /\ UNCHANGED <<writerVars, tries, polled, s1, left, got>>
-----------------------------------------------------------------------------
Write == Enter \/ (\E p \in Parts : Store(p)) \/ Leave

Read(r) == \/ StartPoll(r) \/ Begin(r) \/ Spin(r) \/ GiveUp(r)
           \/ (\E p \in Parts : Load(r, p))
           \/ Retry(r) \/ Accept(r)

Next == Write \/ Die \/ \E r \in Readers : Read(r)

Spec == Init /\ [][Next]_vars

\* A publish that has begun is finished unless the session dies; the renderer
\* polls on every turn of its loop, at least once a second.
FairSpec == /\ Spec
            /\ WF_vars((\E p \in Parts : Store(p)) \/ Leave)
            /\ \A r \in Readers : WF_vars(Read(r))
-----------------------------------------------------------------------------
(* Correctness. *)

Numbers == 0 .. Garbage
Frames == [Parts -> Numbers]

\* Every variable keeps its type.
TypeOK ==
    /\ seq \in 0 .. MaxSeq
    /\ mem \in Frames
    /\ wpc \in {"idle", "copy", "dead"}
    /\ todo \subseteq Parts
    /\ rpc \in [Readers -> {"idle", "check", "copy"}]
    /\ tries \in [Readers -> 0 .. Tries]
    /\ polled \in [Readers -> 0 .. MaxSeq]
    /\ s1 \in [Readers -> 0 .. MaxSeq]
    /\ left \in [Readers -> SUBSET Parts]
    /\ got \in [Readers -> Frames]
    /\ lastSeq \in [Readers -> 0 .. MaxSeq]
    /\ mirror \in [Readers -> Frames]

\* A frame a reader shows was published whole: grid_shm.rs:17-27, "so it never
\* renders a half-written frame".
WholeFrames == \A r \in Readers, p, q \in Parts : mirror[r][p] = mirror[r][q]

\* A frame a reader shows is never garbage, and never one whose publish was
\* not complete when it was accepted.
OnlyPublished == \A r \in Readers, p \in Parts :
                    mirror[r][p] <= seq /\ ~Odd(mirror[r][p])

\* The frame a reader shows, Garbage when its parts are of several.
Shown(r) == IF \A p \in Parts : mirror[r][p] = mirror[r][Header]
            THEN mirror[r][Header] ELSE Garbage

\* What the readers have is a register of whole frames, although frames are
\* stored and loaded part by part: accepting one takes the newest.
Register == INSTANCE FrameRegister WITH
                latest <- IF Odd(seq) THEN seq - 1 ELSE seq,
                shown <- [r \in Readers |-> Shown(r)]
ImplementsRegister == Register!Spec

\* A reader keeps up: poll() returns, whatever the writer does, after 1024
\* attempts even against one that died with the number odd (grid_shm.rs:905-908);
\* and once no publish is under way the mirror shows the last frame, as the number
\* remembered is the one from before the copy (pane.rs:1034-1037).
ReaderKeepsUp == \A r \in Readers :
    /\ rpc[r] # "idle" ~> rpc[r] = "idle"
    /\ <>[](~Odd(seq)) => <>[](mirror[r][Header] = seq)
=============================================================================
