------------------------------ MODULE L3Handoff ------------------------------
(***************************************************************************)
(* crates/marspot-session: a session process (L3) that replaces itself     *)
(* with another build while its shell keeps running.  Its threads are the  *)
(* control reader, the PTY reader, the PTY writer, the control writer, the *)
(* log writer, an occasional probe of the new build, and the main loop;    *)
(* execv ends all of them at once.                                         *)
(*                                                                         *)
(* Keys and pieces of output are numbered in the order they are made, so   *)
(* that what every stage holds can be laid end to end.  Key, Paste and     *)
(* InjectInput are one kind of frame, "key".  Queue caps are not reached   *)
(* here (FrameWriter), and the snapshot gives back the terminal it was     *)
(* made of (ScrollbackRestore).                                            *)
(***************************************************************************)
EXTENDS Naturals, Sequences, SequencesExt

CONSTANTS
    Worlds,     \* bounds: how much the surroundings may do, one of these a behaviour
    HoldCap,    \* pieces of output a held grid collects (4 MiB in the code)
    Staged      \* what current/ can hold: the "same" build, or another, "good" or "bad"

ASSUME StagedAssumption == "same" \in Staged /\ Staged \subseteq {"same", "good", "bad"}
ASSUME HoldCapAssumption == HoldCap \in Nat \ {0}
ASSUME WorldsAssumption == Worlds \subseteq
    [keys : Nat, out : Nat, sizes : Nat, terms : Nat,
     flight : Nat,                     \* frames and events in flight at a send
     kinds : SUBSET {"key", "size", "hold", "update", "term", "close"}]

VARIABLES
    typed,      \* keys L2 has sent
    asked,      \* the size L2 asked for last
    sock,       \* frames in the control socket, L2 to L3
    rpc,        \* the control reader: "poll", "go", "took", "off"
    taken,      \* the frame it has read and not yet queued
    stopped,    \* the readers the main loop has told to stop
    evs,        \* the main loop's event channel
    pc,         \* the main loop
    want,       \* want_shutdown
    verdict,    \* execv_verdict is Some(true)
    closing,    \* a SIGHUP was handled
    probeAt,    \* execv_probe_at is set
    probes,     \* probe threads running
    newSize,    \* pending_resize (0 for none)
    size,       \* the PTY's size
    hold,       \* the grid is held
    inq,        \* the PTY writer's queue
    inhand,     \* what it is writing
    child,      \* what the PTY took for the shell
    made,       \* output the shell has produced
    out,        \* output in the PTY
    ppc,        \* the PTY reader, as rpc
    chunk,      \* the output it has read and not yet queued
    rx,         \* its queue to the main loop
    held,       \* output collected while the grid is held
    term,       \* output parsed into the terminal
    unlogged,   \* pieces of output still with the byte log's writer
    logGap,     \* pieces that writer took with it
    staged,     \* what current/ holds
    gaveUp,     \* the wait for the PTY ran out once
    world,      \* the bounds of this behaviour
    terms,      \* SIGTERMs sent
    hup         \* a SIGHUP was sent

l2 == <<typed, asked, sock>>
reader == <<rpc, taken>>
loop == <<pc, want, verdict, closing, newSize, size, hold>>
input == <<inq, inhand, child>>
output == <<made, out, ppc, chunk>>
screen == <<rx, held, term>>
logs == <<unlogged, logGap>>
probing == <<probeAt, probes>>
signals == <<world, terms, hup>>
vars == <<l2, reader, stopped, evs, loop, input, output, screen, logs, staged, probing,
          gaveUp, signals>>

Frame(kind, n) == [k |-> kind, n |-> n]

Init == /\ typed = 0 /\ asked = 0 /\ sock = <<>>
        /\ rpc = "poll" /\ taken = <<>> /\ stopped = {} /\ evs = <<>>
        /\ pc = "events" /\ want = FALSE /\ verdict = FALSE /\ closing = FALSE
        /\ newSize = 0 /\ size = 0 /\ hold = FALSE
        /\ inq = <<>> /\ inhand = <<>> /\ child = <<>>
        /\ made = 0 /\ out = <<>> /\ ppc = "poll" /\ chunk = <<>>
        /\ rx = <<>> /\ held = <<>> /\ term = <<>>
        /\ unlogged = 0 /\ logGap = 0
        /\ staged = "same"
        /\ probeAt = FALSE /\ probes = 0
        /\ gaveUp = FALSE /\ terms = 0 /\ hup = FALSE
        /\ world \in Worlds

Up == pc \notin {"exited", "lost"}
-----------------------------------------------------------------------------
(* The surroundings: L2, the shell, the updater. *)

L2Sends(f) ==
    /\ Len(sock \o taken \o evs) < world.flight
    /\ f.k = "key" => f.n = typed + 1 /\ f.n <= world.keys
    /\ f.k = "size" => f.n = asked + 1 /\ f.n <= world.sizes
    /\ sock' = Append(sock, f)
    /\ typed' = IF f.k = "key" THEN f.n ELSE typed
    /\ asked' = IF f.k = "size" THEN f.n ELSE asked
    /\ UNCHANGED <<reader, stopped, evs, loop, input, output, screen, logs, staged, probing, gaveUp, signals>>

L2Frames == {f \in {Frame("key", typed + 1), Frame("size", asked + 1),
                    Frame("hold", 0), Frame("hold", 1), Frame("update", 0)} : f.k \in world.kinds}

ShellPrints ==
    /\ Up
    /\ made < world.out
    /\ made' = made + 1
    /\ out' = Append(out, made')
    /\ UNCHANGED <<l2, reader, stopped, evs, loop, input, ppc, chunk, screen, logs, staged, probing, gaveUp, signals>>

\* Another build lands in current/, or the one there is taken back out.
Stage(b) ==
    /\ staged # b
    /\ staged' = b
    /\ UNCHANGED <<l2, reader, stopped, evs, loop, input, output, screen, logs, probing, gaveUp, signals>>

\* SIGTERM asks for an update or an end, SIGHUP for an end.  The watcher
\* thread turns either into an event.
Signal(k) ==
    /\ Up
    /\ IF k = "term" THEN /\ terms < world.terms
                          /\ terms' = terms + 1
                          /\ UNCHANGED hup
                     ELSE /\ ~hup
                          /\ hup' = TRUE
                          /\ UNCHANGED terms
    /\ evs' = Append(evs, Frame(k, 0))
    /\ UNCHANGED <<world, l2, reader, stopped, loop, input, output, screen, logs, staged, probing, gaveUp>>
-----------------------------------------------------------------------------
(* The threads. *)

\* readable_before_stop: the stop comes first, whatever the socket holds.
ControlPoll ==
    /\ Up
    /\ rpc = "poll"
    /\ \/ "control" \in stopped /\ rpc' = "off"
       \/ "control" \notin stopped /\ sock # <<>> /\ rpc' = "go"
    /\ UNCHANGED <<l2, taken, stopped, evs, loop, input, output, screen, logs, staged, probing, gaveUp, signals>>

ControlRead ==
    /\ Up
    /\ rpc = "go"
    /\ taken' = <<Head(sock)>>
    /\ sock' = Tail(sock)
    /\ rpc' = "took"
    /\ UNCHANGED <<typed, asked, stopped, evs, loop, input, output, screen, logs, staged, probing, gaveUp, signals>>

ControlQueue ==
    /\ Up
    /\ rpc = "took"
    /\ evs' = evs \o taken
    /\ taken' = <<>>
    /\ rpc' = "poll"
    /\ UNCHANGED <<l2, stopped, loop, input, output, screen, logs, staged, probing, gaveUp, signals>>

PtyPoll ==
    /\ Up
    /\ ppc = "poll"
    /\ \/ "pty" \in stopped /\ ppc' = "off"
       \/ "pty" \notin stopped /\ out # <<>> /\ ppc' = "go"
    /\ UNCHANGED <<l2, reader, stopped, evs, loop, input, made, out, chunk, screen, logs, staged, probing, gaveUp, signals>>

\* One read gives whatever the PTY holds.
PtyRead ==
    /\ Up
    /\ ppc = "go"
    /\ chunk' = out
    /\ out' = <<>>
    /\ ppc' = "took"
    /\ UNCHANGED <<l2, reader, stopped, evs, loop, input, made, screen, logs, staged, probing, gaveUp, signals>>

PtyQueue ==
    /\ Up
    /\ ppc = "took"
    /\ rx' = rx \o chunk
    /\ chunk' = <<>>
    /\ ppc' = "poll"
    /\ UNCHANGED <<l2, reader, stopped, evs, loop, input, made, out, held, term, logs, staged, probing, gaveUp, signals>>

\* The PTY writer; it stalls while the shell does not read.
InputTake ==
    /\ Up
    /\ inhand = <<>> /\ inq # <<>>
    /\ inhand' = <<Head(inq)>>
    /\ inq' = Tail(inq)
    /\ UNCHANGED <<l2, reader, stopped, evs, loop, child, output, screen, logs, staged, probing, gaveUp, signals>>

InputWrite ==
    /\ Up
    /\ inhand # <<>>
    /\ child' = child \o inhand
    /\ inhand' = <<>>
    /\ UNCHANGED <<l2, reader, stopped, evs, loop, inq, output, screen, logs, staged, probing, gaveUp, signals>>

LogWrite ==
    /\ Up
    /\ unlogged > 0
    /\ unlogged' = 0
    /\ UNCHANGED logGap
    /\ UNCHANGED <<l2, reader, stopped, evs, loop, input, output, screen, staged, probing, gaveUp, signals>>

\* can_start() runs whatever the path holds by then, and posts its answer.
ProbeAnswers ==
    /\ Up
    /\ probes > 0
    /\ probes' = probes - 1
    /\ evs' = Append(evs, Frame("probe", IF staged = "bad" THEN 0 ELSE 1))
    /\ UNCHANGED <<l2, reader, stopped, loop, input, output, screen, logs, staged, probeAt, gaveUp, signals>>
-----------------------------------------------------------------------------
(* The main loop: a batch of events, then one turn. *)

Ev == Head(evs)

Handling(k) == /\ pc = "events"
               /\ evs # <<>>
               /\ Ev.k = k
               /\ evs' = Tail(evs)

Unhold == /\ hold' = FALSE
          /\ term' = term \o held
          /\ held' = <<>>

\* A key lets a held grid go; pasted and injected text do not.
HandleKey ==
    /\ Handling("key")
    /\ inq' = Append(inq, Ev.n)
    /\ \/ Unhold
       \/ UNCHANGED <<hold, held, term>>
    /\ UNCHANGED <<l2, reader, stopped, pc, want, verdict, closing, newSize, size, inhand, child, output, rx, logs, staged, probing, gaveUp, signals>>

HandleSize ==
    /\ Handling("size")
    /\ newSize' = Ev.n
    /\ UNCHANGED <<l2, reader, stopped, pc, want, verdict, closing, size, hold, input, output, screen, logs, staged, probing, gaveUp, signals>>

HandleHold ==
    /\ Handling("hold")
    /\ \/ Ev.n = 1 /\ hold' = TRUE /\ UNCHANGED <<held, term>>
       \/ Ev.n = 0 /\ Unhold
    /\ UNCHANGED <<l2, reader, stopped, pc, want, verdict, closing, newSize, size, input, output, rx, logs, staged, probing, gaveUp, signals>>

\* ShutdownRequested ("term") and UpdateRequested ("update").  A probe that
\* has not answered for long enough is given up on: another one is started, or
\* there is no other build to probe any more.
HandleUpdate(k) ==
    LET stuckOrNone == probeAt => probes = 1 /\ \A i \in DOMAIN evs : evs[i].k # "probe"
    IN  /\ Handling(k)
        /\ \/ /\ closing \/ probeAt
              /\ UNCHANGED <<want, probing>>
           \/ /\ ~closing /\ stuckOrNone
              /\ staged # "same"
              /\ probeAt' = TRUE
              /\ probes' = probes + 1
              /\ UNCHANGED want
           \/ /\ ~closing /\ stuckOrNone
              /\ staged = "same"
              /\ want' = (want \/ k = "term")
              /\ UNCHANGED probing
        /\ UNCHANGED <<l2, reader, stopped, pc, verdict, closing, newSize, size, hold, input, output, screen, logs, staged, gaveUp, signals>>

HandleClose ==
    /\ Handling("close")
    /\ closing' = TRUE
    /\ verdict' = FALSE
    /\ want' = TRUE
    /\ UNCHANGED <<l2, reader, stopped, pc, newSize, size, hold, input, output, screen, logs, staged, probing, gaveUp, signals>>

\* Mutant: the answer is taken without looking for a close in between.
HandleProbeAlways ==
    /\ Handling("probe")
    /\ IF Ev.n = 1 THEN verdict' = TRUE /\ want' = TRUE /\ UNCHANGED probeAt
                   ELSE probeAt' = FALSE /\ UNCHANGED <<verdict, want>>
    /\ UNCHANGED <<l2, reader, stopped, pc, closing, newSize, size, hold, input, output, screen, logs, staged, probes, gaveUp, signals>>

HandleProbe ==
    /\ Handling("probe")
    /\ \/ closing /\ UNCHANGED <<verdict, want, probeAt>>
       \/ ~closing /\ Ev.n = 1 /\ verdict' = TRUE /\ want' = TRUE /\ UNCHANGED probeAt
       \/ ~closing /\ Ev.n = 0 /\ probeAt' = FALSE /\ UNCHANGED <<verdict, want>>
    /\ UNCHANGED <<l2, reader, stopped, pc, closing, newSize, size, hold, input, output, screen, logs, staged, probes, gaveUp, signals>>

EndBatch ==
    /\ pc = "events"
    /\ evs = <<>>
    /\ pc' = "turn"
    /\ UNCHANGED <<l2, reader, stopped, evs, want, verdict, closing, newSize, size, hold, input, output, screen, logs, staged, probing, gaveUp, signals>>

\* drain(): n pieces go to the log, and to the terminal or, while the grid is
\* held, aside; a full hold lets everything go.
Drain(n) ==
    LET new == SubSeq(rx, 1, n)
        aside == hold /\ Len(held) + n < HoldCap
    IN  /\ rx' = SubSeq(rx, n + 1, Len(rx))
        /\ unlogged' = unlogged + n
        /\ held' = IF aside THEN held \o new ELSE <<>>
        /\ term' = IF aside THEN term ELSE term \o held \o new
        /\ hold' = aside
        /\ UNCHANGED logGap

\* The rest of a turn: the resize, a time slice of output, the frame.
Turn ==
    /\ pc = "turn"
    /\ ~want
    /\ size' = IF newSize # 0 THEN newSize ELSE size
    /\ newSize' = 0
    /\ \E n \in 0 .. Len(rx) : (rx # <<>> => n > 0) /\ Drain(n)
    /\ pc' = "events"
    /\ UNCHANGED <<l2, reader, stopped, evs, want, verdict, closing, input, output, staged, probing, gaveUp, signals>>

\* A turn that is the last: the output goes in, a pending resize does not.
LastTurn ==
    /\ pc = "turn"
    /\ want
    /\ Drain(Len(rx))
    /\ pc' = IF verdict THEN "stopControl" ELSE "exited"
    /\ UNCHANGED <<l2, reader, stopped, evs, want, verdict, closing, newSize, size, input, output, staged, probing, gaveUp, signals>>
-----------------------------------------------------------------------------
(* Leaving for another build: nothing in flight may die with this image. *)

Goto(from, to) == pc = from /\ pc' = to

StopControl ==
    /\ Goto("stopControl", "joinControl")
    /\ stopped' = stopped \union {"control"}
    /\ UNCHANGED <<l2, reader, evs, want, verdict, closing, newSize, size, hold, input, output, screen, logs, staged, probing, gaveUp, signals>>

JoinControl ==
    /\ Goto("joinControl", "leftovers")
    /\ rpc = "off"
    /\ UNCHANGED <<l2, reader, stopped, evs, want, verdict, closing, newSize, size, hold, input, output, screen, logs, staged, probing, gaveUp, signals>>

\* Mutant: what the readers queued after the last batch is forgotten.
LeftoverForgotten ==
    /\ pc = "leftovers"
    /\ evs # <<>>
    /\ evs' = Tail(evs)
    /\ UNCHANGED <<l2, reader, stopped, loop, input, output, screen, logs, staged, probing, gaveUp, signals>>

\* Keys queued after the last batch are passed on; every other event is not.
Leftover ==
    /\ pc = "leftovers"
    /\ evs # <<>>
    /\ evs' = Tail(evs)
    /\ inq' = IF Ev.k = "key" THEN Append(inq, Ev.n) ELSE inq
    /\ UNCHANGED <<l2, reader, stopped, loop, inhand, child, output, screen, logs, staged, probing, gaveUp, signals>>

StopPty ==
    /\ Goto("leftovers", "joinPty")
    /\ evs = <<>>
    /\ stopped' = stopped \union {"pty"}
    /\ UNCHANGED <<l2, reader, evs, want, verdict, closing, newSize, size, hold, input, output, screen, logs, staged, probing, gaveUp, signals>>

\* Mutant: the output goes in while the grid stays held.
JoinPtyHeld ==
    /\ Goto("joinPty", "waitInput")
    /\ ppc = "off"
    /\ Drain(Len(rx))
    /\ UNCHANGED <<l2, reader, stopped, evs, want, verdict, closing, newSize, size, input, output, staged, probing, gaveUp, signals>>

\* quiesce_for_handoff: the reader has stopped, the hold ends, and everything
\* it queued is parsed.
JoinPty ==
    /\ Goto("joinPty", "waitInput")
    /\ ppc = "off"
    /\ hold' = FALSE
    /\ held' = <<>>
    /\ term' = term \o held \o rx
    /\ unlogged' = unlogged + Len(rx)
    /\ rx' = <<>>
    /\ UNCHANGED <<l2, reader, stopped, evs, want, verdict, closing, newSize, size, input, output, logGap, staged, probing, gaveUp, signals>>

\* Mutant: the wait has no deadline.
WaitInputForever ==
    /\ Goto("waitInput", "exec")
    /\ inq = <<>> /\ inhand = <<>>
    /\ UNCHANGED <<l2, reader, stopped, evs, want, verdict, closing, newSize, size, hold, input, output, screen, logs, staged, probing, gaveUp, signals>>

\* Queued input is given time to reach the PTY, and no more.
WaitInput ==
    /\ Goto("waitInput", "exec")
    /\ gaveUp' = (gaveUp \/ inq # <<>> \/ inhand # <<>>)
    /\ UNCHANGED <<l2, reader, stopped, evs, want, verdict, closing, newSize, size, hold, input, output, screen, logs, staged, probing, signals>>

\* execv: the threads and everything in memory are gone; the new image starts
\* from the snapshot, the PTY and the sockets.
Exec ==
    /\ pc = "exec"
    /\ pc' = IF staged = "bad" THEN "lost" ELSE "events"
    /\ staged' = IF staged = "bad" THEN staged ELSE "same"
    /\ evs' = <<>> /\ stopped' = {}
    /\ rpc' = "poll" /\ ppc' = "poll" /\ taken' = <<>> /\ chunk' = <<>>
    /\ want' = FALSE /\ verdict' = FALSE /\ closing' = FALSE
    /\ newSize' = 0 /\ hold' = FALSE
    /\ inq' = <<>> /\ inhand' = <<>>
    /\ rx' = <<>> /\ held' = <<>> /\ UNCHANGED term
    /\ unlogged' = 0 /\ logGap' = logGap + unlogged
    /\ probeAt' = FALSE /\ probes' = 0
    /\ UNCHANGED <<l2, size, child, made, out, gaveUp, signals>>

\* A step of the hand-over failed: the process exits and L2 respawns the pane.
ExecFails ==
    /\ Goto("exec", "exited")
    /\ UNCHANGED <<l2, reader, stopped, evs, want, verdict, closing, newSize, size, hold, input, output, screen, logs, staged, probing, gaveUp, signals>>
-----------------------------------------------------------------------------
Loop == \/ HandleKey \/ HandleSize \/ HandleHold \/ HandleUpdate("term") \/ HandleUpdate("update")
        \/ HandleClose \/ HandleProbe \/ EndBatch \/ Turn \/ LastTurn
        \/ StopControl \/ JoinControl \/ Leftover \/ StopPty \/ JoinPty \/ WaitInput \/ Exec \/ ExecFails

Readers == ControlPoll \/ ControlRead \/ ControlQueue \/ PtyPoll \/ PtyRead \/ PtyQueue
Writers == InputTake \/ InputWrite \/ LogWrite

World == \/ \E f \in L2Frames : L2Sends(f)
         \/ ShellPrints
         \/ \E b \in Staged : Stage(b)
         \/ \E k \in {"term", "close"} \intersect world.kinds : Signal(k)

Next == World \/ Readers \/ Writers \/ ProbeAnswers \/ Loop

Spec == Init /\ [][Next]_vars

\* The main loop and the readers run.  The PTY, the log's disk, L2 and the
\* probe may each stall for ever.
FairSpec == /\ Spec
            /\ WF_vars(Loop)
            /\ WF_vars(ControlPoll \/ ControlRead \/ ControlQueue)
            /\ WF_vars(PtyPoll \/ PtyRead \/ PtyQueue)
-----------------------------------------------------------------------------
(* Correctness. *)

Kinds == {"key", "size", "hold", "update", "term", "close", "probe"}
FramesOK(s) == \A i \in DOMAIN s : s[i].k \in Kinds /\ s[i].n \in Nat
Leaving == {"stopControl", "joinControl", "leftovers", "joinPty", "waitInput", "exec"}

\* Every variable keeps its type, and a hold stays under its cap.
TypeOK ==
    /\ world \in Worlds
    /\ typed \in 0 .. world.keys /\ asked \in 0 .. world.sizes
    /\ FramesOK(sock) /\ FramesOK(taken) /\ FramesOK(evs)
    /\ rpc \in {"poll", "go", "took", "off"} /\ ppc \in {"poll", "go", "took", "off"}
    /\ stopped \subseteq {"control", "pty"}
    /\ pc \in {"events", "turn", "exited", "lost"} \union Leaving
    /\ {want, verdict, closing, hold, probeAt, gaveUp, hup} \subseteq BOOLEAN
    /\ probes \in 0 .. 2 /\ terms \in 0 .. world.terms
    /\ newSize \in 0 .. world.sizes /\ size \in 0 .. world.sizes
    /\ staged \in Staged /\ unlogged \in 0 .. world.out /\ logGap \in 0 .. world.out
    /\ Len(held) < HoldCap

UpTo(n) == [i \in 1 .. n |-> i]

\* The keys among the frames s are first, ..., last, each once and in order.
KeysRun(s, first, last) ==
    LET keys == {i \in DOMAIN s : s[i].k = "key"}
    IN  /\ first <= last + 1
        /\ {s[i].n : i \in keys} = first .. last
        /\ \A i, j \in keys : i < j => s[i].n < s[j].n

\* What is typed reaches the shell once and in order: socket, reader, events,
\* queue, writer and PTY always hold the keys end to end, across an execv too
\* (control_reader.rs:50-56, local_session.rs:665-671).
InputInFlight ==
    Up /\ ~gaveUp => LET passed == child \o inhand \o inq
                     IN  /\ passed = UpTo(Len(passed))
                         /\ KeysRun(evs \o taken \o sock, Len(passed) + 1, typed)

\* What the shell prints reaches the terminal once and in order, across an
\* execv and through a hold too.
OutputInFlight ==
    Up => term \o held \o rx \o chunk \o out = UpTo(made)

\* A close that was handled is never followed by an execv, in whatever order
\* it and the probe's answer came in (main.rs:1738-1752).
NoExecAfterClose == pc \in Leaving => ~closing

\* A hand-over that has begun comes to an end: no reader, no unread PTY and no
\* held grid keeps the old image waiting (a frame L2 has begun to write it
\* finishes).
HandOverEnds == pc \in Leaving ~> pc \in {"events", "exited", "lost"}

\* local_session.rs:633-634: "Pre-execv writes already landed on disk".
LogComplete == logGap = 0

\* main.rs:2276: "Only the probe can authorise an execv now": an image that
\* does not start is never handed the shell.
ExecStarts == pc # "lost"

\* main.rs:1750: "a close that came in meanwhile wins".
CloseWins == hup ~> pc \in {"exited", "lost"}

\* control_reader.rs:54-56: "a reader finishes the frame it started", "the rest
\* stays in the socket for the next image": the size L2 asked for last is on
\* its way to the PTY until the PTY has it.
SizeInFlight ==
    Up => LET sizes == SelectSeq(evs \o taken \o sock, LAMBDA f : f.k = "size")
          IN  asked = IF sizes # <<>> THEN Last(sizes).n
                      ELSE IF newSize # 0 THEN newSize ELSE size
=============================================================================
