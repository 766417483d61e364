----------------------------- MODULE PaneReclaim -----------------------------
(***************************************************************************)
(* Idle reclamation: the Claude Code plugin takes an idle agent down, parks *)
(* the pane behind its last picture, and brings the session back when the   *)
(* person does (plugins/claudecode/mod.rs, idle.rs, wake.rs).  The plugin   *)
(* keeps a record of every pane it has put to sleep, in memory and in       *)
(* dormant.tsv, beside a run of PtyOp that waits in the pane; the record is *)
(* what a restarted L1 finds the way back with.                             *)
(*                                                                          *)
(* A worker thread scans the processes; its result is one poll old or more  *)
(* when it is applied.  Composed with the queue and the runner of PtyOp;    *)
(* one pane, which runs Claude Code.                                        *)
(***************************************************************************)
EXTENDS PtyOp, SequencesExt

CONSTANT Slices  \* bounds on what is submitted and on mishaps, one pair a behaviour

ASSUME SlicesAssumption ==
    Slices \subseteq [runs : 0 .. MaxRuns, mishaps : 0 .. MaxMishaps]

VARIABLES
    scan,     \* the worker's result, on its channel, or NoScan
    dormant,  \* the pane's DormantRecords, by the run that made each of them
    disk,     \* dormant.tsv
    armed,    \* is the pane in `armed`?
    frozen,   \* does `held` have the pane's look?
    graced,   \* records older than KILL_GRACE
    slice     \* the bounds of this behaviour

plugin == <<dormant, disk, armed, frozen>>
marks  == <<graced, slice>>
rvars  == <<vars, scan, plugin, marks>>

MaySubmit == next <= slice.runs

NoScan == [agent |-> 0, idle |-> FALSE, open |-> FALSE, judges |-> {0}]

-----------------------------------------------------------------------------
(* The scan                                                                 *)

\* What the worker saw; the records it may judge, by scanned_at.
ScanDone ==
    /\ scan = NoScan /\ Between
    /\ scan' = [agent |-> agent, idle |-> idle, open |-> open, judges |-> graced]
    /\ UNCHANGED <<vars, plugin, marks>>

\* The run has not come past its kill, or was refused it and ends with the next
\* tick.
Refused    == run.out # "none" /\ StepOf(run) \in {"await_user", "stop_if_process"}
Killing(d) == run.op.id = d /\ (StepOf(run) \in {"capture", "settle", "terminate"} \/ Refused)

\* KILL_GRACE (15 s) is longer than the hold's settling and the kill's deadline
\* together; it passes while the run waits behind one that lasts.
GraceEnds(d) ==
    /\ Between /\ d \in dormant \ graced
    /\ ~Killing(d)
    /\ \A i \in DOMAIN asked : asked[i].id # d
    /\ \A e \in dormant : e < d => e \in graced
    /\ (\E i \in DOMAIN queue : queue[i].id = d) => Takes(run.op.kind) /\ run.at > 2
    /\ graced' = graced \cup {d}
    /\ UNCHANGED <<vars, scan, plugin, slice>>

-----------------------------------------------------------------------------
(* One scan applied: run_idle_policy, then rearm_dormant                    *)

\* should_hibernate and the checks behind it: the agent the evidence is about
\* is still running.  Whether the person is in this pane just then is an input:
\* the policy may always pass it by.
Reclaims == scan.idle /\ agent = scan.agent /\ agent # 0 /\ MaySubmit

\* settle_wake_ends: a run that ended without claude back lets go.
\* (StillArmed: the end is not heard.)
\* Only the runs that carry a record report to it (wake_reporter).
WakeEnds == {e[2] : e \in {x \in ends : x[1].kind \in {"reclaim", "rearm"}}}
Failed   == WakeEnds \cap {"failed", "timed_out"} # {}
StillArmed == FALSE
Unarmed  == WakeEnds \ {"done"} # {}

\* The scan judges the records that are old enough.  (OverAtOnce: all of them.)
OverAtOnce(d) == scan.agent # 0 \/ ~scan.open
Over(d) == d \in scan.judges /\ (scan.agent # 0 \/ ~scan.open)

\* A run submitted now is the pane's wake path; one that ended is none.
\* (ArmedLater: only the re-arm sweep arms.)
ArmedLater(fires) == armed /\ ~Unarmed
Armed(fires) == (armed \/ fires) /\ ~Unarmed

\* With no wake path left, every record goes back into the queue, at its park,
\* unless the kernel shows an agent.
Wakes(records, n) ==
    LET order == SetToSeq(IF open /\ agent = 0 THEN records ELSE {})
    IN  [i \in DOMAIN order |-> [id |-> n + i - 1, kind |-> "rearm", of |-> order[i]]]

\* (The file is rewritten in one step that succeeds: L1 does nothing else meanwhile.)
ApplyScan ==
    \E fires \in {FALSE, Reclaims} :
        LET first == IF fires THEN <<[id |-> next, kind |-> "reclaim", of |-> agent]>> ELSE <<>>
            kept  == {d \in IF Failed THEN {} ELSE dormant \cup {op.id : op \in Range(first)} : ~Over(d)}
            wakes == IF Armed(fires) THEN <<>> ELSE Wakes(kept, next + Len(first))
            now   == (Armed(fires) \/ wakes # <<>>) /\ kept # {}
            looks == ((frozen \/ fires) /\ ~Failed /\ scan.open) \/ wakes # <<>>
            back  == looks /\ ~now /\ scan.agent # 0
            lifts == back \/ ((frozen \/ fires) /\ Failed)
        IN  /\ scan # NoScan /\ scan' = NoScan
            /\ ends' = {} /\ Polled /\ Submit(first \o wakes)
            /\ dormant' = kept /\ armed' = now /\ frozen' = (looks /\ ~back)
            /\ disk' = IF fires \/ kept # dormant THEN kept ELSE disk
            /\ hold' = ((hold \/ (core /\ wakes # <<>>)) /\ ~(core /\ lifts))
            /\ UNCHANGED marks

NoResult ==
    /\ scan = NoScan /\ Polled /\ UNCHANGED ends /\ Submit(<<>>)
    /\ UNCHANGED <<hold, scan, plugin, marks>>

-----------------------------------------------------------------------------
(* The rest of the plugin's events                                          *)

\* A click on the badge: profile_cycle_op, for the agent a scan found last,
\* which may have gone.
ClickCycle ==
    /\ core /\ open /\ MaySubmit
    /\ UNCHANGED ends
    /\ Submit(<<[id |-> next, kind |-> "cycle", of |-> born]>>)
    /\ UNCHANGED <<pc, hold, scan, plugin, marks>>

\* The person comes to the pane or a key arrives there, or the prefetch wakes it.
Comes == Wake /\ UNCHANGED <<scan, plugin, marks>>

\* A new L1 knows what dormant.tsv says.
Reexec ==
    /\ Restart /\ mishaps' <= slice.mishaps
    /\ scan' = NoScan
    /\ dormant' = disk /\ armed' = FALSE /\ frozen' = FALSE
    /\ UNCHANGED <<disk, marks>>

Elsewhere ==
    /\ (CliSend /\ MaySubmit) \/ Pump \/ Tick \/ Escape \/ Forget \/ Clock \/ World
    /\ mishaps' <= slice.mishaps
    /\ UNCHANGED <<scan, plugin, marks>>

RInit ==
    /\ Init
    /\ scan = NoScan
    /\ dormant = {} /\ disk = {} /\ armed = FALSE /\ frozen = FALSE
    /\ graced = {} /\ slice \in Slices

RNext ==
    \/ ScanDone \/ (\E d \in dormant : GraceEnds(d)) \/ ApplyScan \/ NoResult
    \/ ClickCycle \/ Comes \/ Reexec \/ Elsewhere

RSpec == RInit /\ [][RNext]_rvars

\* L1 polls at least twice a second and the worker answers; deadlines and
\* KILL_GRACE pass.  Nobody owes the pane a wake, an agent its start or its end,
\* or L1 a core.
Polls == ApplyScan \/ NoResult \/ ((Pump \/ Tick \/ Forget) /\ UNCHANGED <<scan, plugin, marks>>)
FairSpec ==
    /\ RSpec
    /\ WF_rvars(Polls) /\ SF_rvars(ScanDone)
    /\ SF_rvars(Clock /\ UNCHANGED <<scan, plugin, marks>>)

-----------------------------------------------------------------------------
(* Properties                                                               *)

\* A run that has failed on its way to the park waits for nobody.
Waiting == Parked(run) /\ run.out = "none"

\* A pane that sleeps has its record on disk: while the pane's first operation
\* is a reclaim, parked over a bare shell, dormant.tsv names it, so that an L1
\* that starts anew finds the way back.  The scans of the seconds around the
\* kill still show the agent and must not undo the record.  (Of a later one,
\* once the person has started an agent there, or when a full queue refuses a
\* later one, this is not so: see the README.)
ParkedIsRecorded ==
    Parked(run) /\ run.op.id = 1 /\ born = 1 /\ agent = 0 /\ open => disk # {}

\* One wake path for a record: no two of the operations asked for, queued,
\* beginning or running would bring the same session back; the second would
\* type its resume line at what the first one started.
WakeOf(op)  == IF op.kind = "reclaim" THEN op.id ELSE IF op.kind = "rearm" THEN op.of ELSE 0
Ops         == Range(asked) \cup Range(queue) \cup {coming, run.op}
OneWakePath == mishaps = 0 =>
    \A o1, o2 \in Ops : WakeOf(o1) = WakeOf(o2) /\ WakeOf(o1) # 0 => o1 = o2

\* A pane put to sleep can be woken: whatever restarts or is lost, a run waits
\* for its person again, until an agent is back, the pane is closed or the wake
\* has been tried and has failed.
SleeperWakes == (born = 1 /\ disk # {} /\ agent = 0 /\ open)
                    ~> (Waiting \/ agent # 0 \/ ~open \/ disk = {})

\* Every operation comes to its end, or waits behind one that waits for the
\* person: each step has a deadline of its own, and each end frees the pane.
WorkDrains == (Pending # {}) ~> (Pending = {} \/ Waiting)
=============================================================================
