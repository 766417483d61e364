-------------------------------- MODULE PtyOp --------------------------------
(***************************************************************************)
(* L1 typing at one pane: the queue of scripted operations (`PtyOps`), the  *)
(* runner that takes the pane over for one of them (`OpRunner`), and the    *)
(* part of the main loop that hosts it (plugins/pty_op.rs, marspot-shell's  *)
(* main.rs).  Around them, as much of the rest as a run depends on: L2's    *)
(* record that the keyboard is taken, L3's hold on the picture, and the     *)
(* agent in the pane, which starts, draws and dies when it likes.           *)
(*                                                                          *)
(* One pane: nothing here couples two of them.  L1 is one thread; `pc` says *)
(* how far its supervisor poll has come, and what arrives on its inbox      *)
(* (focus, keys, clicks) is handled between two polls, at "plugins".  The   *)
(* words a run carries are left out: what the person had typed and what the *)
(* command line says; so is the badge.                                      *)
(***************************************************************************)
EXTENDS Naturals, Sequences, FiniteSets

CONSTANTS
    MaxRuns,     \* the last operation a click, the command line or a policy submits
    MaxAgents,   \* agents ever started in the pane
    MaxQueued,   \* MAX_QUEUED_PER_PANE
    MaxMishaps   \* cores and agents lost, panes closed, restarts, forced ends

ASSUME OpsAssumption ==
    /\ MaxRuns \in Nat /\ MaxAgents \in Nat \ {0}
    /\ MaxQueued \in Nat \ {0} /\ MaxMishaps \in Nat

VARIABLES
    pc,       \* the part of the poll that runs next
    asked,    \* submitted by a plugin, on the channel to the main loop
    queue,    \* PtyOps.queued
    slot,     \* PtyOps.active: the run that holds the pane, 0 for none
    sink,     \* PtyOps.sink: runs that have reported their end
    coming,   \* a session handed to `begin` and not yet registered
    run,      \* the registered session: an OpRunner, or NoRun
    ends,     \* outcomes told to the submitters and not read yet: <<op, outcome>>
    next,     \* the next operation's number
    core,     \* is a core connected?
    keys,     \* L2's pane_sessions entry for the pane
    hold,     \* L3's hold_grid
    open,     \* is the pane open?
    agent,    \* the agent running in the pane, 0 for none
    born,     \* agents started so far
    dying,    \* it has been signalled
    drawn,    \* it has drawn its first frame and is quiet
    idle,     \* its transcript is old and it waits for its user
    line,     \* the shell has a command line to read
    mishaps   \* bounds the state space

work == <<asked, queue, slot, sink, coming, run, ends, next>>
pane == <<core, keys, hold, open>>
prog == <<agent, born, dying, drawn, idle, line>>
vars == <<pc, work, pane, prog, mishaps>>

-----------------------------------------------------------------------------
(* The scripts                                                              *)

Script == [
    reclaim |-> <<"capture", "settle", "terminate", "await_user", "stop_if_process", "line",
                  "await_process", "watch_process", "await_quiet", "restore">>,
    rearm   |-> <<"capture", "settle", "await_user", "stop_if_process", "line",
                  "await_process", "watch_process", "await_quiet", "restore">>,
    cycle   |-> <<"capture", "settle", "terminate", "stop_if_process", "line",
                  "await_process", "watch_process", "await_tui", "await_quiet", "restore">>,
    deliver |-> <<"paste", "enter">>]

Kinds == DOMAIN Script
ParkAt == 3                                    \* the rearm script's "await_user"
Takes(kind) == kind # "deliver"                \* hold_screen and lock_keys

\* An operation: its number, its script, and the agent it takes down (for
\* "rearm", the dormant record it is the wake of).
NoOp  == [id |-> 0, kind |-> "none", of |-> 0]
NoRun == [op |-> NoOp, at |-> 0, late |-> 0, out |-> "none", watched |-> 0, new |-> FALSE]

Begun(op) == [op |-> op, at |-> IF op.kind = "rearm" THEN ParkAt ELSE 1,
              late |-> 0, out |-> "none", watched |-> 0, new |-> TRUE]

StepOf(r) == IF r # NoRun /\ r.at <= Len(Script[r.op.kind]) THEN Script[r.op.kind][r.at] ELSE "end"
Parked(r) == StepOf(r) = "await_user"

\* OpRunner::finish keeps the first outcome; advance enters the next step or,
\* past the last one, finishes.
Finish(r, out) == [r EXCEPT !.out = IF @ = "none" THEN out ELSE @]
Advance(r) ==
    LET on == [r EXCEPT !.at = @ + 1, !.late = 0]
    IN  IF StepOf(on) = "end" THEN Finish(on, "done") ELSE on

Pending == {asked[i].id : i \in DOMAIN asked} \cup {queue[i].id : i \in DOMAIN queue}
             \cup ({coming.id, run.op.id} \ {0})

-----------------------------------------------------------------------------
(* Ending a run: OpRunner::on_end within end_pane_session.  The hold is     *)
(* released, the queue gets its report, the submitter its outcome, L2 its   *)
(* keyboard.  With no core the two frames go nowhere.                       *)

EndSession(out) ==
    /\ run' = NoRun
    /\ sink' = sink \cup {run.op.id}
    /\ ends' = ends \cup {<<run.op, IF run.out = "none" THEN out ELSE run.out>>}
    /\ hold' = (hold /\ ~(core /\ Takes(run.op.kind)))
    /\ keys' = IF core THEN "free" ELSE keys

-----------------------------------------------------------------------------
(* The queue                                                                *)

Submitted(ops) == asked' = asked \o ops /\ next' = next + Len(ops)

\* A plugin's tick or click: it reads outcomes, submits, and may ask L3 for the
\* hold or give it back.
Submit(ops) ==
    /\ pc = "plugins"
    /\ Submitted(ops)
    /\ ends' \subseteq ends
    /\ UNCHANGED <<queue, slot, sink, coming, run, core, keys, open, prog, mishaps>>

\* The command socket, drained before the plugins' submissions: refused when
\* the slot is taken, else straight into the queue.
CliSend ==
    /\ pc = "pump" /\ open
    /\ next <= MaxRuns /\ slot = 0 /\ Len(queue) < MaxQueued
    /\ queue' = Append(queue, [id |-> next, kind |-> "deliver", of |-> 0])
    /\ next' = next + 1
    /\ UNCHANGED <<pc, asked, slot, sink, coming, run, ends, pane, prog, mishaps>>

\* submit_at for everything on the channel (past MAX_QUEUED_PER_PANE the
\* submitter is told that it failed), then pump.
Room == IF Len(queue) + Len(asked) <= MaxQueued THEN Len(asked) ELSE MaxQueued - Len(queue)
All  == queue \o SubSeq(asked, 1, Room)

\* A report frees the slot only if it is its holder's.  (Freed: the slot is not
\* looked at when the next run begins.)
Freed == 0
Kept  == IF slot \in sink THEN 0 ELSE slot

Pump ==
    /\ pc = "pump" /\ pc' = "tick"
    /\ asked' = <<>> /\ sink' = {}
    /\ ends' = ends \cup {<<asked[i], "failed">> : i \in {j \in DOMAIN asked : j > Room}}
    /\ IF Kept = 0 /\ All # <<>>
       THEN queue' = Tail(All) /\ coming' = Head(All) /\ slot' = Head(All).id
       ELSE queue' = All /\ coming' = coming /\ slot' = Kept
    /\ UNCHANGED <<run, next, pane, prog, mishaps>>

-----------------------------------------------------------------------------
(* process_pane_sessions: register what begins, then tick what runs.  A     *)
(* begin on a pane that has a session is dropped.                           *)

Registers == coming # NoOp /\ run = NoRun
Current   == IF Registers THEN Begun(coming) ELSE run

\* on_tick's first call takes the hold and enters the first step.
\* (StartedAgain: every call does.)
StartedAgain == [Current EXCEPT !.new = FALSE, !.late = 0]
Started      == [Current EXCEPT !.new = FALSE]

Ticks ==
    /\ pc = "tick" /\ pc' = "plugins"
    /\ coming' = NoOp
    /\ UNCHANGED <<asked, queue, slot, next, core, open, mishaps>>

TickNothing ==
    /\ Ticks /\ Current = NoRun
    /\ UNCHANGED <<sink, run, ends, keys, hold, prog>>

TickFinished ==
    /\ Ticks /\ run # NoRun /\ run.out # "none"
    /\ EndSession(run.out)
    /\ UNCHANGED prog

\* A tick of a run that goes on.
Working ==
    /\ Ticks /\ Current # NoRun /\ Current.out = "none"
    /\ keys' = IF Registers /\ core THEN (IF Takes(coming.kind) THEN "locked" ELSE "session") ELSE keys
    /\ hold' = (hold \/ (Current.new /\ core /\ Takes(Current.op.kind)))
    /\ UNCHANGED <<sink, ends>>

Tied == Current.watched # 0 /\ Current.watched # agent

TickProgramExited ==
    /\ Working /\ Tied
    /\ run' = Finish(Started, "failed")
    /\ UNCHANGED prog

At(step) == Working /\ ~Tied /\ StepOf(Current) = step

\* A step that is not done waits, or is past its deadline.
NotDone == IF Started.late >= 1 THEN Finish(Started, "timed_out") ELSE Started

\* The input box is read, for "restore" to give back.
StepCapture ==
    /\ At("capture")
    /\ run' = Advance(Started)
    /\ UNCHANGED prog

\* A text over MAX_PAYLOAD is refused.
StepPaste ==
    /\ At("paste")
    /\ run' \in {Advance(Started), Advance(Finish(Started, "failed"))}
    /\ UNCHANGED prog

StepSettle ==
    /\ At("settle")
    /\ run' = IF Started.late >= 1 THEN Advance(Started) ELSE Started
    /\ UNCHANGED prog

\* `Gone` when the id names no process any more: nothing is signalled.  A
\* process that may not be signalled fails the run.
StepTerminate ==
    /\ At("terminate")
    /\ \/ /\ agent # Started.op.of
          /\ run' = Advance(Started) /\ UNCHANGED prog
       \/ /\ agent = Started.op.of /\ ~dying
          /\ run' = Advance(Finish(Started, "failed")) /\ UNCHANGED prog
       \/ /\ agent = Started.op.of
          /\ run' = NotDone /\ dying' = TRUE /\ UNCHANGED <<agent, born, drawn, idle, line>>

StepAwaitUser ==
    /\ At("await_user")
    /\ run' = Started
    /\ UNCHANGED prog

StepStopIfProcess ==
    /\ At("stop_if_process")
    /\ run' = Advance(IF agent # 0 THEN Finish(Started, "done") ELSE Started)
    /\ UNCHANGED prog

\* The bytes leave on L1's inject channel, which the same poll drains onto
\* the core's socket, or onto the floor when there is no core.
StepLine ==
    /\ At("line")
    /\ run' = Advance(Started)
    /\ line' = (line \/ (core /\ open /\ agent = 0))
    /\ UNCHANGED <<agent, born, dying, drawn, idle>>

StepAwaitProcess ==
    /\ At("await_process")
    /\ run' = IF agent # 0 THEN Advance(Started) ELSE NotDone
    /\ UNCHANGED prog

\* run_step answers "done" even when it has just failed the run.
StepWatchProcess ==
    /\ At("watch_process")
    /\ run' = Advance(IF agent # 0 THEN [Started EXCEPT !.watched = agent]
                                   ELSE Finish(Started, "failed"))
    /\ UNCHANGED prog

\* or_late: past the deadline it goes on if anything at all was drawn; if not,
\* it waits LATE_EMPTY_GRACE times as long and then fails.
StepAwaitTui ==
    /\ At("await_tui")
    /\ \/ /\ drawn \/ (Started.late >= 1 /\ agent # 0)
          /\ run' = Advance(Started)
       \/ /\ ~drawn
          /\ run' = IF Started.late = 2 THEN Finish(Started, "timed_out") ELSE Started
    /\ UNCHANGED prog

StepAwaitQuiet ==
    /\ At("await_quiet")
    /\ run' = IF drawn THEN Advance(Started) ELSE NotDone
    /\ UNCHANGED prog

\* Last step of the scripts that have it: done either way.
StepRestore ==
    /\ At("restore")
    /\ run' = Advance(Started)
    /\ UNCHANGED prog

\* The return submits what was pasted: the agent has work.
StepEnter ==
    /\ At("enter")
    /\ run' = Advance(Started)
    /\ idle' = (idle /\ ~core)
    /\ UNCHANGED <<agent, born, dying, drawn, line>>

Tick ==
    \/ TickNothing \/ TickFinished \/ TickProgramExited
    \/ StepCapture \/ StepPaste \/ StepSettle \/ StepTerminate \/ StepAwaitUser \/ StepStopIfProcess
    \/ StepLine \/ StepAwaitProcess \/ StepWatchProcess \/ StepAwaitTui \/ StepAwaitQuiet
    \/ StepRestore \/ StepEnter

-----------------------------------------------------------------------------
(* What reaches L1 between two polls                                        *)

\* dispatch_pane_session_focus, from L2 or from the wake queue, and a key that
\* a parked run takes for the same thing.
Wake ==
    /\ pc = "plugins" /\ Parked(run)
    /\ run' = Advance(run)
    /\ UNCHANGED <<pc, asked, queue, slot, sink, coming, ends, next, pane, prog, mishaps>>

\* Escape on a pane whose keys are taken ends a run that has the hatch.  Three
\* of them within five seconds end any run, and L2 frees the keyboard itself;
\* the first woke the run if it was parked.
Escape ==
    /\ pc = "plugins" /\ core /\ keys # "free" /\ ~Parked(run) /\ mishaps < MaxMishaps
    /\ mishaps' = mishaps + 1
    /\ IF run = NoRun
       THEN keys' = "free" /\ UNCHANGED <<run, sink, ends, hold>>
       ELSE EndSession("cancelled")
    /\ UNCHANGED <<pc, asked, queue, slot, coming, next, core, open, prog>>

\* forget_closed_panes, from the status sweep of the poll: end the session,
\* tell the queued ones that never started, free the slot.
Closed == ~open /\ (run # NoRun \/ queue # <<>> \/ slot # 0)
Untold == {<<queue[i], "cancelled">> : i \in DOMAIN queue}

Forget ==
    /\ pc = "plugins" /\ Closed
    /\ IF run = NoRun THEN UNCHANGED <<run, hold, keys>> /\ ends' = ends \cup Untold
       ELSE /\ run' = NoRun /\ hold' = hold /\ keys' = IF core THEN "free" ELSE keys
            /\ ends' = ends \cup Untold
                            \cup {<<run.op, IF run.out = "none" THEN "cancelled" ELSE run.out>>}
    /\ sink' = sink \cup ({run.op.id} \ {0})
    /\ queue' = <<>> /\ slot' = 0
    /\ UNCHANGED <<pc, asked, coming, next, core, open, prog, mishaps>>

\* The sweep is done and the plugins have ticked.
Polled == pc = "plugins" /\ ~Closed /\ pc' = "pump"

-----------------------------------------------------------------------------
(* Time, the core, and the agent in the pane.  L1 learns of its core on its  *)
(* own thread; for the rest, a part of a poll looks at the pane once, so what *)
(* happens during a poll is taken to happen after it.                        *)

Between == pc = "plugins" /\ UNCHANGED pc
Mishap  == Between /\ mishaps < MaxMishaps /\ mishaps' = mishaps + 1

\* The step's limit passes, then LATE_EMPTY_GRACE times it.
Clock ==
    /\ Between /\ run # NoRun /\ run.out = "none" /\ ~Parked(run) /\ run.late < 2
    /\ run' = [run EXCEPT !.late = @ + 1]
    /\ UNCHANGED <<asked, queue, slot, sink, coming, ends, next, pane, prog, mishaps>>

\* A core that dies, or is swapped, takes its pane_sessions with it.
CoreGone ==
    /\ Mishap /\ core
    /\ core' = FALSE /\ keys' = "free"
    /\ UNCHANGED <<work, hold, open, prog>>

CoreBack ==
    /\ Between /\ ~core /\ core' = TRUE
    /\ UNCHANGED <<work, keys, hold, open, prog, mishaps>>

\* The shell reads the resume line and starts the agent.
AgentStarts ==
    /\ Between /\ agent = 0 /\ line /\ born < MaxAgents
    /\ agent' = born + 1 /\ born' = born + 1
    /\ line' = FALSE /\ dying' = FALSE /\ drawn' = FALSE /\ idle' = FALSE
    /\ UNCHANGED <<work, pane, mishaps>>

\* Or the command fails, and the prompt is back.
AgentRefuses ==
    /\ Between /\ agent = 0 /\ line /\ line' = FALSE
    /\ UNCHANGED <<work, pane, mishaps, agent, born, dying, drawn, idle>>

AgentDraws ==
    /\ Between /\ agent # 0 /\ ~dying /\ ~drawn /\ drawn' = TRUE
    /\ UNCHANGED <<work, pane, mishaps, agent, born, dying, idle, line>>

AgentRests ==
    /\ Between /\ agent # 0 /\ ~dying /\ drawn /\ ~idle /\ idle' = TRUE
    /\ UNCHANGED <<work, pane, mishaps, agent, born, dying, drawn, line>>

AgentExits ==
    /\ agent # 0
    /\ (dying /\ Between /\ UNCHANGED mishaps) \/ Mishap
    /\ agent' = 0 /\ dying' = FALSE /\ drawn' = FALSE /\ idle' = FALSE
    /\ UNCHANGED <<work, pane, born, line>>

\* The person, at a pane whose keys nobody took, starts one by hand.  A key that
\* reaches a held pane releases it (L3's failsafe).
PersonStartsAgent ==
    /\ core /\ open /\ keys # "locked" /\ agent = 0 /\ ~line
    /\ Mishap
    /\ line' = TRUE /\ hold' = FALSE
    /\ UNCHANGED <<work, core, keys, open, agent, born, dying, drawn, idle>>

\* The pane is closed: its session goes, and L2's record of it.
PaneCloses ==
    /\ Mishap /\ open /\ core
    /\ open' = FALSE /\ keys' = "free" /\ hold' = FALSE
    /\ agent' = 0 /\ dying' = FALSE /\ drawn' = FALSE /\ idle' = FALSE /\ line' = FALSE
    /\ UNCHANGED <<work, core, born>>

World ==
    \/ CoreGone \/ CoreBack \/ AgentStarts \/ AgentRefuses \/ AgentDraws \/ AgentRests
    \/ AgentExits \/ PersonStartsAgent \/ PaneCloses

\* execv: the process image goes, the pane stays.  Plugins' channels, queue,
\* sessions and outcomes are gone, and the core is started anew.
Restart ==
    /\ Mishap
    /\ asked' = <<>> /\ queue' = <<>> /\ slot' = 0 /\ sink' = {}
    /\ coming' = NoOp /\ run' = NoRun /\ ends' = {}
    /\ core' = FALSE /\ keys' = "free"
    /\ UNCHANGED <<next, hold, open, prog>>

-----------------------------------------------------------------------------
\* A claude has just drawn in a pane of a marspot that has just started.
Init ==
    /\ pc = "plugins"
    /\ asked = <<>> /\ queue = <<>> /\ slot = 0 /\ sink = {}
    /\ coming = NoOp /\ run = NoRun /\ ends = {} /\ next = 1
    /\ core = TRUE /\ keys = "free" /\ hold = FALSE /\ open = TRUE
    /\ agent = 1 /\ born = 1 /\ dying = FALSE /\ drawn = TRUE /\ idle = FALSE
    /\ line = FALSE /\ mishaps = 0

\* For the queue alone, any plugin may submit anything.
Operation == [id : Nat \ {0}, kind : Kinds, of : Nat]
PluginStep ==
    /\ \E ops \in Seq(Operation) : Submit(ops)
    /\ pc' = pc \/ Polled
    /\ hold' \in BOOLEAN

Next == PluginStep \/ CliSend \/ Pump \/ Tick \/ Wake \/ Escape \/ Forget \/ Clock \/ World \/ Restart

Spec == Init /\ [][Next]_vars

-----------------------------------------------------------------------------
(* One run at a time, and the queue knows which: the session registered for *)
(* the pane is the one PtyOps holds the slot for, a begin never meets a     *)
(* session (it would be dropped, and its submitter never told), and a slot  *)
(* that is taken has a run behind it or its report on the way, or the pane  *)
(* would never run anything again.                                          *)
SlotIsSession ==
    /\ coming # NoOp => run = NoRun /\ slot = coming.id
    /\ run # NoRun => slot = run.op.id
    /\ slot # 0 => slot \in sink \cup {coming.id, run.op.id}
=============================================================================
