----------------------------- MODULE PtyOpProofs -----------------------------
(***************************************************************************)
(* Proofs about PtyOp, for every length of the queue, any number of         *)
(* operations, of any kind, submitted by any plugin at any time, and        *)
(* whatever is closed, lost or executed anew in between: the pane's slot    *)
(* and the session registered for the pane never part.                      *)
(*                                                                          *)
(* And about PaneReclaim, its composition with the Claude Code plugin: the  *)
(* plugin's steps are a plugin's steps of PtyOp, so that the same holds     *)
(* there; one record has one wake path while nothing is lost; and a pane    *)
(* that sleeps has its record.                                              *)
(***************************************************************************)
EXTENDS PaneReclaim, SequenceTheorems, FiniteSetTheorems, TLAPS

-----------------------------------------------------------------------------
(* The inductive invariant.                                                 *)

\* What waits is an operation, and the queue keeps to its limit.
QueueInv ==
    /\ asked \in Seq(Operation) /\ queue \in Seq(Operation)
    /\ Len(queue) <= MaxQueued
    /\ next \in Nat \ {0}

\* A session is begun and registered within one poll, over no reports; what is
\* registered knows its operation.
IsRun(r) == "op" \in DOMAIN r /\ r.op.id # 0
PollInv ==
    /\ pc = "tick" => sink = {}
    /\ coming # NoOp => pc = "tick" /\ coming.id # 0
    /\ run # NoRun => IsRun(run)

\* The slot's holder has not reported.
HolderRuns == run # NoRun => slot \notin sink

IInv == QueueInv /\ PollInv /\ HolderRuns /\ SlotIsSession

-----------------------------------------------------------------------------
(* Runs keep their operation.                                               *)

LEMMA NothingRuns == NoOp.id = 0 /\ NoRun.op = NoOp /\ NoRun.op.id = 0
BY DEF NoOp, NoRun

LEMMA RunsAreSome == ASSUME NEW r, IsRun(r) PROVE r # NoRun
BY NothingRuns DEF IsRun

LEMMA BegunRuns == ASSUME NEW op, op.id # 0 PROVE IsRun(Begun(op)) /\ Begun(op).op = op
BY DEF IsRun, Begun

LEMMA Changed ==
    ASSUME NEW r, IsRun(r), NEW v
    PROVE  /\ IsRun([r EXCEPT !.out = v]) /\ [r EXCEPT !.out = v].op = r.op
           /\ IsRun([r EXCEPT !.late = v]) /\ [r EXCEPT !.late = v].op = r.op
           /\ IsRun([r EXCEPT !.at = v]) /\ [r EXCEPT !.at = v].op = r.op
           /\ IsRun([r EXCEPT !.new = v]) /\ [r EXCEPT !.new = v].op = r.op
           /\ IsRun([r EXCEPT !.watched = v]) /\ [r EXCEPT !.watched = v].op = r.op
BY DEF IsRun

LEMMA Finishes ==
    ASSUME NEW r, IsRun(r), NEW out
    PROVE  IsRun(Finish(r, out)) /\ Finish(r, out).op = r.op
BY DEF IsRun, Finish

LEMMA Advances ==
    ASSUME NEW r, IsRun(r)
    PROVE  IsRun(Advance(r)) /\ Advance(r).op = r.op
<1> DEFINE on == [r EXCEPT !.at = @ + 1, !.late = 0]
<1>1. IsRun(on) /\ on.op = r.op
  BY DEF IsRun
<1>2. IsRun(Finish(on, "done")) /\ Finish(on, "done").op = on.op
  BY <1>1, Finishes
<1> QED BY <1>1, <1>2 DEF Advance

-----------------------------------------------------------------------------
(* A tick                                                                   *)

\* What is ticked is what was registered, or what begins and had the slot kept.
LEMMA CurrentHolds ==
    ASSUME IInv, Current # NoRun, pc = "tick"
    PROVE  IsRun(Started) /\ Started.op.id = slot /\ slot # 0
<1>1. CASE Registers
  <2>1. coming.id # 0 /\ slot = coming.id
    BY <1>1 DEF IInv, PollInv, SlotIsSession, Registers
  <2>2. IsRun(Current) /\ Current.op = coming
    BY <1>1, <2>1, BegunRuns DEF Current
  <2> QED BY <2>1, <2>2, Changed DEF Started
<1>2. CASE ~Registers
  <2>1. Current = run /\ IsRun(Current) /\ slot = run.op.id
    BY <1>2 DEF IInv, PollInv, SlotIsSession, Current
  <2> QED BY <2>1, Changed DEF Started, IsRun
<1> QED BY <1>1, <1>2

\* A tick that goes on leaves a run of the same operation in the pane.
LEMMA WorkKeeps ==
    ASSUME IInv, Working, IsRun(run'), run'.op = Started.op
    PROVE  IInv'
<1>1. /\ pc = "tick" /\ pc' = "plugins" /\ Current # NoRun /\ coming' = NoOp
      /\ sink = {} /\ sink' = {} /\ slot' = slot
      /\ UNCHANGED <<asked, queue, next>>
  BY DEF Working, Ticks, IInv, PollInv
<1>2. Started.op.id = slot
  BY <1>1, CurrentHolds
<1>3. QueueInv'
  BY <1>1 DEF IInv, QueueInv
<1>4. PollInv' /\ HolderRuns' /\ SlotIsSession'
  BY <1>1, <1>2 DEF PollInv, HolderRuns, SlotIsSession
<1> QED BY <1>3, <1>4 DEF IInv

\* What a tick makes of a run that goes on, short of the step's own advance.
Touched ==
    {Started, [Started EXCEPT !.watched = agent]}
        \cup {Finish(Started, out) : out \in {"done", "failed", "timed_out"}}

\* A tick stays at its step or advances by one; past "terminate", when the agent
\* is gone, or may not be signalled.
LEMMA TickForms ==
    ASSUME Tick
    PROVE  \/ TickNothing \/ TickFinished
           \/ /\ Working
              /\ \E r \in Touched :
                    \/ run' = r
                    \/ /\ run' = Advance(r)
                       /\ StepOf(Current) = "terminate"
                            => agent # Started.op.of \/ r = Finish(Started, "failed")
<1>1. Started \in Touched /\ NotDone \in Touched
      /\ [Started EXCEPT !.watched = agent] \in Touched
      /\ \A out \in {"done", "failed", "timed_out"} : Finish(Started, out) \in Touched
  BY DEF Touched, NotDone
<1>2. CASE TickProgramExited
  BY <1>1, <1>2 DEF TickProgramExited
<1>3. CASE StepCapture \/ StepSettle \/ StepLine \/ StepRestore \/ StepEnter
  BY <1>1, <1>3 DEF StepCapture, StepSettle, StepLine, StepRestore, StepEnter, At
<1>4. CASE StepPaste
  BY <1>1, <1>4 DEF StepPaste, At
<1>5. CASE StepTerminate
  BY <1>1, <1>5 DEF StepTerminate, At
<1>6. CASE StepAwaitUser
  BY <1>1, <1>6 DEF StepAwaitUser, At
<1>7. CASE StepStopIfProcess
  BY <1>1, <1>7 DEF StepStopIfProcess, At
<1>8. CASE StepAwaitProcess \/ StepAwaitQuiet
  BY <1>1, <1>8 DEF StepAwaitProcess, StepAwaitQuiet, At
<1>9. CASE StepWatchProcess
  BY <1>1, <1>9 DEF StepWatchProcess, At
<1>10. CASE StepAwaitTui
  BY <1>1, <1>10 DEF StepAwaitTui, At
<1> QED BY <1>2, <1>3, <1>4, <1>5, <1>6, <1>7, <1>8, <1>9, <1>10 DEF Tick

LEMMA TickKeeps == ASSUME IInv, Tick PROVE IInv'
<1>1. CASE TickNothing
  <2>1. /\ pc = "tick" /\ pc' = "plugins" /\ run = NoRun /\ run' = NoRun /\ coming = NoOp
        /\ coming' = NoOp /\ UNCHANGED <<asked, queue, next, slot, sink>>
    BY <1>1, RunsAreSome, BegunRuns
       DEF TickNothing, Ticks, Current, Registers, IInv, PollInv
  <2> QED BY <2>1 DEF IInv, QueueInv, PollInv, HolderRuns, SlotIsSession
<1>2. CASE TickFinished
  <2>1. /\ pc = "tick" /\ pc' = "plugins" /\ run # NoRun /\ run' = NoRun /\ coming' = NoOp
        /\ sink' = sink \cup {run.op.id} /\ UNCHANGED <<asked, queue, next, slot>>
    BY <1>2 DEF TickFinished, Ticks, EndSession
  <2> QED BY <2>1 DEF IInv, QueueInv, PollInv, HolderRuns, SlotIsSession
<1>3. CASE ~(TickNothing \/ TickFinished)
  <2>1. PICK r \in Touched : run' = r \/ run' = Advance(r)
    BY <1>3, TickForms
  <2>2. Working
    BY <1>3, TickForms
  <2>3. IsRun(Started)
    BY <2>2, CurrentHolds DEF Working, Ticks
  <2>4. IsRun(r) /\ r.op = Started.op
    <3>1. IsRun([Started EXCEPT !.watched = agent]) /\ [Started EXCEPT !.watched = agent].op = Started.op
      BY <2>3, Changed
    <3>2. CASE r \in {Finish(Started, out) : out \in {"done", "failed", "timed_out"}}
      <4>1. PICK out \in {"done", "failed", "timed_out"} : r = Finish(Started, out)
        BY <3>2
      <4> QED BY <2>3, <4>1, Finishes
    <3> QED BY <2>3, <3>1, <3>2 DEF Touched
  <2>5. IsRun(run') /\ run'.op = Started.op
    BY <2>1, <2>4, Advances
  <2> QED BY <2>2, <2>5, WorkKeeps
<1> QED BY <1>1, <1>2, <1>3

-----------------------------------------------------------------------------
(* The queue                                                                *)

\* What the channel brings and the queue has no room for is refused.
LEMMA AllFits ==
    ASSUME QueueInv
    PROVE  All \in Seq(Operation) /\ Len(All) <= MaxQueued
<1>1. Room \in 0 .. Len(asked) /\ Len(queue) + Room <= MaxQueued
  BY OpsAssumption DEF QueueInv, Room
<1>2. SubSeq(asked, 1, Room) \in Seq(Operation) /\ Len(SubSeq(asked, 1, Room)) = Room
  BY <1>1, SubSeqProperties DEF QueueInv
<1> QED BY <1>1, <1>2, ConcatProperties, OpsAssumption DEF QueueInv, All

LEMMA PumpKeeps == ASSUME IInv, Pump PROVE IInv'
<1>1. All \in Seq(Operation) /\ Len(All) <= MaxQueued
  BY AllFits DEF IInv
<1>2. coming = NoOp /\ pc' = "tick" /\ sink' = {} /\ asked' = <<>> /\ next' = next /\ run' = run
  BY DEF Pump, IInv, PollInv
<1>3. asked' \in Seq(Operation) /\ next' \in Nat \ {0}
  BY <1>2, EmptySeq DEF IInv, QueueInv
<1>4. CASE Kept = 0 /\ All # <<>>
  <2>1. Head(All) \in Operation /\ Tail(All) \in Seq(Operation) /\ Len(Tail(All)) <= MaxQueued
    BY <1>1, <1>4, HeadTailProperties, OpsAssumption
  <2>2. Head(All).id # 0
    BY <2>1 DEF Operation
  <2>3. run = NoRun
    BY <1>4, RunsAreSome DEF Kept, IInv, HolderRuns, SlotIsSession, PollInv, IsRun
  <2>4. queue' = Tail(All) /\ coming' = Head(All) /\ slot' = Head(All).id
    BY <1>4 DEF Pump
  <2>5. QueueInv'
    BY <1>3, <2>1, <2>4 DEF QueueInv
  <2> QED
    BY <1>2, <2>2, <2>3, <2>4, <2>5 DEF IInv, PollInv, HolderRuns, SlotIsSession
<1>5. CASE ~(Kept = 0 /\ All # <<>>)
  <2>1. queue' = All /\ coming' = NoOp /\ slot' = Kept
    BY <1>5, <1>2 DEF Pump
  <2>2. QueueInv'
    BY <1>1, <1>3, <2>1 DEF QueueInv
  <2>3. run # NoRun => Kept = slot
    BY DEF Kept, IInv, HolderRuns
  <2>4. Kept # 0 => Kept = slot /\ slot = run.op.id
    BY <1>2, NothingRuns DEF Kept, IInv, SlotIsSession
  <2> QED
    BY <1>2, <2>1, <2>2, <2>3, <2>4 DEF IInv, PollInv, HolderRuns, SlotIsSession
<1> QED BY <1>4, <1>5

-----------------------------------------------------------------------------
(* Every step                                                               *)

\* A step that leaves the queue's and the poll's state alone.
LEMMA Unmoved ==
    ASSUME IInv, UNCHANGED <<pc, asked, queue, slot, sink, coming, run, next>>
    PROVE  IInv'
BY DEF IInv, QueueInv, PollInv, HolderRuns, SlotIsSession

\* A run that moves on in place.
LEMMA MovesOn ==
    ASSUME IInv, run # NoRun, IsRun(run'), run'.op = run.op,
           UNCHANGED <<pc, asked, queue, slot, sink, coming, next>>
    PROVE  IInv'
BY DEF IInv, QueueInv, PollInv, HolderRuns, SlotIsSession

LEMMA StepKeeps == ASSUME IInv, [Next]_vars PROVE IInv'
<1>1. CASE PluginStep
  <2>1. PICK ops \in Seq(Operation) : Submit(ops)
    BY <1>1 DEF PluginStep
  <2>2. /\ asked' = asked \o ops /\ next' = next + Len(ops) /\ pc = "plugins"
        /\ UNCHANGED <<queue, slot, sink, coming, run>>
    BY <2>1 DEF Submit, Submitted
  <2>3. asked' \in Seq(Operation) /\ next' \in Nat \ {0}
    BY <2>2, ConcatProperties, LenProperties DEF IInv, QueueInv
  <2>4. pc' \in {"plugins", "pump"}
    BY <1>1, <2>2 DEF PluginStep, Polled
  <2> QED BY <2>2, <2>3, <2>4 DEF IInv, QueueInv, PollInv, HolderRuns, SlotIsSession
<1>2. CASE CliSend
  <2>1. [id |-> next, kind |-> "deliver", of |-> 0] \in Operation
    BY DEF IInv, QueueInv, Operation, Kinds, Script
  <2>2. queue' \in Seq(Operation) /\ Len(queue') <= MaxQueued
    BY <1>2, <2>1, AppendProperties, OpsAssumption DEF CliSend, IInv, QueueInv
  <2>3. /\ next' \in Nat \ {0} /\ UNCHANGED <<pc, asked, slot, sink, coming, run>>
    BY <1>2 DEF CliSend, IInv, QueueInv
  <2> QED BY <2>2, <2>3 DEF IInv, QueueInv, PollInv, HolderRuns, SlotIsSession
<1>3. CASE Pump
  BY <1>3, PumpKeeps
<1>4. CASE Tick
  BY <1>4, TickKeeps
<1>5. CASE Wake
  <2>1. run # NoRun
    BY <1>5 DEF Wake, Parked, StepOf
  <2>2. IsRun(run)
    BY <2>1 DEF IInv, PollInv
  <2> QED BY <1>5, <2>1, <2>2, Advances, MovesOn DEF Wake
<1>6. CASE Escape
  <2>1. CASE run = NoRun
    BY <1>6, <2>1, Unmoved DEF Escape
  <2>2. CASE run # NoRun
    <3>1. /\ pc = "plugins" /\ run' = NoRun /\ sink' = sink \cup {run.op.id}
          /\ UNCHANGED <<pc, asked, queue, slot, coming, next>>
      BY <1>6, <2>2 DEF Escape, EndSession
    <3> QED BY <2>2, <3>1 DEF IInv, QueueInv, PollInv, HolderRuns, SlotIsSession
  <2> QED BY <2>1, <2>2
<1>7. CASE Forget
  <2>1. /\ pc = "plugins" /\ run' = NoRun /\ queue' = <<>> /\ slot' = 0
        /\ UNCHANGED <<pc, asked, coming, next>>
    BY <1>7 DEF Forget
  <2>2. queue' \in Seq(Operation) /\ Len(queue') <= MaxQueued
    BY <2>1, EmptySeq, OpsAssumption
  <2> QED BY <2>1, <2>2 DEF IInv, QueueInv, PollInv, HolderRuns, SlotIsSession
<1>8. CASE Clock
  <2>1. run # NoRun /\ run' = [run EXCEPT !.late = @ + 1]
        /\ UNCHANGED <<pc, asked, queue, slot, sink, coming, next>>
    BY <1>8 DEF Clock, Between
  <2>2. IsRun(run') /\ run'.op = run.op
    BY <2>1, Changed DEF IInv, PollInv
  <2> QED BY <2>1, <2>2, MovesOn
<1>9. CASE World
  <2>1. UNCHANGED <<pc, asked, queue, slot, sink, coming, run, next>>
    BY <1>9 DEF World, CoreGone, CoreBack, AgentStarts, AgentRefuses, AgentDraws, AgentRests,
       AgentExits, PersonStartsAgent, PaneCloses, Mishap, Between, work
  <2> QED BY <2>1, Unmoved
<1>10. CASE Restart
  <2>1. /\ pc = "plugins" /\ pc' = pc /\ asked' = <<>> /\ queue' = <<>> /\ slot' = 0
        /\ sink' = {} /\ coming' = NoOp /\ run' = NoRun /\ next' = next
    BY <1>10 DEF Restart, Mishap, Between
  <2>2. <<>> \in Seq(Operation) /\ Len(<<>>) <= MaxQueued
    BY EmptySeq, OpsAssumption
  <2> QED BY <2>1, <2>2 DEF IInv, QueueInv, PollInv, HolderRuns, SlotIsSession
<1>11. CASE UNCHANGED vars
  BY <1>11, Unmoved DEF vars, work
<1> QED BY <1>1, <1>2, <1>3, <1>4, <1>5, <1>6, <1>7, <1>8, <1>9, <1>10, <1>11 DEF Next

LEMMA Starts == Init => IInv
<1> SUFFICES ASSUME Init PROVE IInv
  OBVIOUS
<1>1. <<>> \in Seq(Operation) /\ Len(<<>>) <= MaxQueued
  BY EmptySeq, OpsAssumption
<1> QED BY <1>1 DEF Init, IInv, QueueInv, PollInv, HolderRuns, SlotIsSession

\* The session registered for the pane is the one the queue holds the slot
\* for, no begin meets a session, and a taken slot has a run behind it or its
\* report on the way (PtyOps::pump, process_pane_sessions, forget_closed_panes).
THEOREM OneRunAtATime == Spec => []SlotIsSession
<1>1. Init => IInv
  BY Starts
<1>2. IInv /\ [Next]_vars => IInv'
  BY StepKeeps
<1>3. IInv => SlotIsSession
  BY DEF IInv
<1> QED BY <1>1, <1>2, <1>3, PTL DEF Spec

-----------------------------------------------------------------------------
(* Reclamation, composed with the queue: whatever the Claude Code plugin     *)
(* submits and does, the queue sees an ordinary plugin.                      *)

\* What its records say: numbers of runs, as many as there were.
Records(S) == S \subseteq Nat /\ IsFiniteSet(S)

PluginInv ==
    /\ next \in Nat \ {0}
    /\ agent \in Nat /\ born \in Nat
    /\ hold \in BOOLEAN
    /\ Records(dormant) /\ Records(disk)

LEMMA InOrder ==
    ASSUME NEW S, IsFiniteSet(S)
    PROVE  Cardinality(S) \in Nat /\ SetToSeq(S) \in [1 .. Cardinality(S) -> S]
<1>1. Cardinality(S) \in Nat /\ ExistsBijection(1 .. Cardinality(S), S)
  BY FS_CardinalityType
<1>2. \E f \in [1 .. Cardinality(S) -> S] : IsInjective(f)
  BY <1>1 DEF ExistsBijection, Bijection, Injection
<1> QED BY <1>1, <1>2 DEF SetToSeq

\* What goes back into the queue after a restart is a sequence of operations.
LEMMA WakesAreOperations ==
    ASSUME NEW S, Records(S), NEW n \in Nat \ {0}
    PROVE  Wakes(S, n) \in Seq(Operation)
<1> DEFINE T     == IF open /\ agent = 0 THEN S ELSE {}
           op(i) == [id |-> n + i - 1, kind |-> "rearm", of |-> SetToSeq(T)[i]]
<1>1. T \subseteq Nat /\ IsFiniteSet(T)
  BY FS_EmptySet DEF Records
<1> HIDE DEF T
<1>2. Cardinality(T) \in Nat /\ SetToSeq(T) \in [1 .. Cardinality(T) -> T]
  BY <1>1, InOrder
<1>3. ASSUME NEW i \in 1 .. Cardinality(T) PROVE op(i) \in Operation
  <2>1. SetToSeq(T)[i] \in Nat
    BY <1>1, <1>2
  <2>2. n + i - 1 \in Nat \ {0}
    BY <1>2
  <2> QED BY <2>1, <2>2 DEF Operation, Kinds, Script
<1>4. Wakes(S, n) = [i \in 1 .. Cardinality(T) |-> op(i)]
  BY <1>2 DEF Wakes, T
<1> HIDE DEF op
<1> QED BY <1>2, <1>3, <1>4, IsASeq

\* With nothing to wake, nothing is submitted.
LEMMA NobodyWakes == ASSUME NEW n PROVE Wakes({}, n) = <<>>
<1>1. DOMAIN SetToSeq({}) = 1 .. 0
  BY InOrder, FS_EmptySet
<1> QED BY <1>1 DEF Wakes

LEMMA AnOperation ==
    ASSUME NEW i \in Nat \ {0}, NEW kind \in Kinds, NEW of \in Nat
    PROVE  <<[id |-> i, kind |-> kind, of |-> of]>> \in Seq(Operation)
BY DEF Operation

\* A scan applied is a step of a plugin, and the records stay what they are.
LEMMA AppliesAsPlugin ==
    ASSUME PluginInv, ApplyScan
    PROVE  PluginStep /\ Records(dormant') /\ Records(disk')
<1>1. PICK fires \in {FALSE, Reclaims} :
        LET first == IF fires THEN <<[id |-> next, kind |-> "reclaim", of |-> agent]>> ELSE <<>>
            kept  == {d \in IF Failed THEN {} ELSE dormant \cup {op.id : op \in Range(first)} : ~Over(d)}
            wakes == IF Armed(fires) THEN <<>> ELSE Wakes(kept, next + Len(first))
        IN  /\ Polled /\ Submit(first \o wakes)
            /\ dormant' = kept
            /\ disk' = IF fires \/ kept # dormant THEN kept ELSE disk
            /\ hold' \in BOOLEAN
  BY DEF ApplyScan
<1> DEFINE first == IF fires THEN <<[id |-> next, kind |-> "reclaim", of |-> agent]>> ELSE <<>>
           kept  == {d \in IF Failed THEN {} ELSE dormant \cup {op.id : op \in Range(first)} : ~Over(d)}
           wakes == IF Armed(fires) THEN <<>> ELSE Wakes(kept, next + Len(first))
<1>2. first \in Seq(Operation) /\ Len(first) \in Nat
  <2>1. <<[id |-> next, kind |-> "reclaim", of |-> agent]>> \in Seq(Operation)
    BY AnOperation DEF PluginInv, Kinds, Script
  <2> QED BY <2>1, EmptySeq, LenProperties
<1>3. Records(kept)
  <2>1. {op.id : op \in Range(first)} \subseteq {next}
    BY DEF Range
  <2>2. kept \in SUBSET (dormant \cup {next})
    BY <2>1
  <2>3. IsFiniteSet(dormant \cup {next})
    BY FS_AddElement DEF PluginInv, Records
  <2>4. IsFiniteSet(kept)
    BY <2>2, <2>3, FS_Subset
  <2> QED BY <2>2, <2>4 DEF PluginInv, Records
<1>4. Submit(first \o wakes) /\ Polled /\ hold' \in BOOLEAN
      /\ dormant' = kept /\ (disk' = kept \/ disk' = disk)
  BY <1>1
<1> HIDE DEF first, kept
<1>5. wakes \in Seq(Operation)
  BY <1>2, <1>3, WakesAreOperations, EmptySeq DEF PluginInv
<1> HIDE DEF wakes
<1>6. first \o wakes \in Seq(Operation)
  BY <1>2, <1>5, ConcatProperties
<1>7. PluginStep
  BY <1>4, <1>6 DEF PluginStep
<1> QED BY <1>3, <1>4, <1>7 DEF PluginInv

LEMMA ClicksAsPlugin ==
    ASSUME PluginInv, ClickCycle
    PROVE  PluginStep /\ UNCHANGED <<dormant, disk>>
<1>1. <<[id |-> next, kind |-> "cycle", of |-> born]>> \in Seq(Operation)
  BY AnOperation DEF PluginInv, Kinds, Script
<1>2. /\ Submit(<<[id |-> next, kind |-> "cycle", of |-> born]>>)
      /\ pc' = pc /\ hold' = hold /\ UNCHANGED <<dormant, disk>>
  BY DEF ClickCycle, plugin
<1> QED BY <1>1, <1>2 DEF PluginStep, PluginInv

LEMMA TicksAsPlugin ==
    ASSUME PluginInv, NoResult
    PROVE  PluginStep /\ UNCHANGED <<dormant, disk>>
<1>1. Submit(<<>>) /\ Polled /\ hold' = hold /\ UNCHANGED <<dormant, disk>>
  BY DEF NoResult, plugin
<1> QED BY <1>1, EmptySeq DEF PluginStep, PluginInv

\* Every step of the composition is a step of the queue's, or none.
LEMMA RefinesStep == ASSUME PluginInv, [RNext]_rvars PROVE [Next]_vars
<1>1. CASE ScanDone
  BY <1>1 DEF ScanDone
<1>2. CASE \E d \in dormant : GraceEnds(d)
  BY <1>2 DEF GraceEnds
<1>3. CASE ApplyScan
  BY <1>3, AppliesAsPlugin DEF Next
<1>4. CASE NoResult
  BY <1>4, TicksAsPlugin DEF Next
<1>5. CASE ClickCycle
  BY <1>5, ClicksAsPlugin DEF Next
<1>6. CASE Comes
  BY <1>6 DEF Comes, Next
<1>7. CASE Reexec
  BY <1>7 DEF Reexec, Next
<1>8. CASE Elsewhere
  BY <1>8 DEF Elsewhere, Next
<1>9. CASE UNCHANGED rvars
  BY <1>9 DEF rvars
<1> QED BY <1>1, <1>2, <1>3, <1>4, <1>5, <1>6, <1>7, <1>8, <1>9 DEF RNext

LEMMA RecordsStay == ASSUME PluginInv, [RNext]_rvars PROVE Records(dormant') /\ Records(disk')
<1>1. CASE ApplyScan
  BY <1>1, AppliesAsPlugin
<1>2. CASE NoResult \/ ClickCycle
  BY <1>2, TicksAsPlugin, ClicksAsPlugin DEF PluginInv
<1>3. CASE Reexec
  BY <1>3 DEF Reexec, PluginInv
<1>4. CASE ScanDone \/ (\E d \in dormant : GraceEnds(d)) \/ Comes \/ Elsewhere \/ UNCHANGED rvars
  <2>1. UNCHANGED <<dormant, disk>>
    BY <1>4 DEF ScanDone, GraceEnds, Comes, Elsewhere, rvars, plugin
  <2> QED BY <2>1 DEF PluginInv
<1> QED BY <1>1, <1>2, <1>3, <1>4 DEF RNext

LEMMA CountsStay ==
    ASSUME PluginInv, [Next]_vars
    PROVE  next' \in Nat \ {0} /\ agent' \in Nat /\ born' \in Nat
<1>1. CASE PluginStep
  <2>1. PICK ops \in Seq(Operation) : Submit(ops)
    BY <1>1 DEF PluginStep
  <2>2. Len(ops) \in Nat
    BY LenProperties
  <2> QED BY <2>1, <2>2 DEF Submit, Submitted, prog, PluginInv
<1>2. CASE CliSend
  BY <1>2 DEF CliSend, prog, PluginInv
<1>3. CASE Tick
  <2>1. UNCHANGED <<next, agent, born>>
    BY <1>3 DEF Tick, TickNothing, TickFinished, TickProgramExited, StepCapture, StepPaste, StepSettle,
       StepTerminate, StepAwaitUser, StepStopIfProcess, StepLine, StepAwaitProcess, StepWatchProcess,
       StepAwaitTui, StepAwaitQuiet, StepRestore, StepEnter, At, Working, Ticks, prog
  <2> QED BY <2>1 DEF PluginInv
<1>4. CASE World
  BY <1>4 DEF World, CoreGone, CoreBack, AgentStarts, AgentRefuses, AgentDraws, AgentRests, AgentExits,
     PersonStartsAgent, PaneCloses, work, prog, PluginInv
<1>5. CASE Pump \/ Wake \/ Escape \/ Forget \/ Clock \/ Restart \/ UNCHANGED vars
  <2>1. UNCHANGED <<next, agent, born>>
    BY <1>5 DEF Pump, Wake, Escape, Forget, Clock, Restart, vars, work, prog
  <2> QED BY <2>1 DEF PluginInv
<1> QED BY <1>1, <1>2, <1>3, <1>4, <1>5 DEF Next

LEMMA HoldStays == ASSUME PluginInv, [Next]_vars PROVE hold' \in BOOLEAN
<1>1. CASE PluginStep
  BY <1>1 DEF PluginStep
<1>2. CASE Tick
  <2>1. CASE TickNothing
    BY <2>1 DEF TickNothing, PluginInv
  <2>2. CASE TickFinished
    BY <2>2 DEF TickFinished, EndSession
  <2>3. ASSUME Working PROVE hold' \in BOOLEAN
    BY <2>3 DEF Working
  <2> QED
    BY <1>2, <2>1, <2>2, <2>3
       DEF Tick, TickProgramExited, StepCapture, StepPaste, StepSettle, StepTerminate, StepAwaitUser,
       StepStopIfProcess, StepLine, StepAwaitProcess, StepWatchProcess, StepAwaitTui, StepAwaitQuiet,
       StepRestore, StepEnter, At
<1>3. CASE Escape
  BY <1>3 DEF Escape, EndSession, PluginInv
<1>4. CASE World
  BY <1>4 DEF World, CoreGone, CoreBack, AgentStarts, AgentRefuses, AgentDraws, AgentRests, AgentExits,
     PersonStartsAgent, PaneCloses, pane, PluginInv
<1>5. CASE CliSend \/ Pump \/ Wake \/ Forget \/ Clock \/ Restart \/ UNCHANGED vars
  <2>1. hold' = hold
    BY <1>5 DEF CliSend, Pump, Wake, Forget, Clock, Restart, vars, pane
  <2> QED BY <2>1 DEF PluginInv
<1> QED BY <1>1, <1>2, <1>3, <1>4, <1>5 DEF Next

\* Reclamation is a plugin like any other: its scans, records, clicks and
\* restarts are steps of PtyOp, whose queue any plugin may feed, or leave the
\* queue and the pane alone.
THEOREM ReclaimerIsAPlugin == RSpec => Spec /\ []PluginInv
<1>1. RInit => Init /\ PluginInv
  <2> SUFFICES ASSUME RInit PROVE Init /\ PluginInv
    OBVIOUS
  <2>1. Init /\ dormant = {} /\ disk = {}
    BY DEF RInit
  <2>2. next \in Nat \ {0} /\ agent \in Nat /\ born \in Nat
    BY <2>1 DEF Init
  <2>4. hold \in BOOLEAN
    BY <2>1 DEF Init
  <2>3. Records(dormant) /\ Records(disk)
    BY <2>1, FS_EmptySet DEF Records
  <2> QED BY <2>1, <2>2, <2>3, <2>4 DEF PluginInv
<1>2. PluginInv /\ [RNext]_rvars => PluginInv' /\ [Next]_vars
  <2> SUFFICES ASSUME PluginInv, [RNext]_rvars PROVE PluginInv' /\ [Next]_vars
    OBVIOUS
  <2>1. [Next]_vars
    BY RefinesStep
  <2>2. next' \in Nat \ {0} /\ agent' \in Nat /\ born' \in Nat /\ hold' \in BOOLEAN
    BY <2>1, CountsStay, HoldStays
  <2>3. Records(dormant') /\ Records(disk')
    BY RecordsStay
  <2>4. PluginInv'
    BY <2>2, <2>3 DEF PluginInv, Records
  <2> QED BY <2>1, <2>4
<1> QED BY <1>1, <1>2, PTL DEF RSpec, Spec

\* And so the slot and the session never part there either.
THEOREM OneRunThere == RSpec => []SlotIsSession
BY ReclaimerIsAPlugin, OneRunAtATime, PTL

-----------------------------------------------------------------------------
(* One wake path for a record.  While nothing has gone wrong, a run ends     *)
(* well, fails or is late; a failed one drops the pane's records, and any    *)
(* other record has its reclaim waiting or ended well.  So the sweep finds   *)
(* no record without a way back, and the only operations that bring a        *)
(* session back are the reclaims, each with a number of its own.             *)

Outcomes == {"none", "done", "failed", "timed_out"}
Answers(r) == "out" \in DOMAIN r /\ r.out \in Outcomes
Told(E) == \A e \in E : e[2] \in Outcomes \ {"none"}

\* Operations are told apart by their numbers, which are below the next one.
Numbers(S) ==
    /\ \A o \in S : o.id \in Nat /\ o.id < next /\ o.kind # "rearm"
    /\ \A o1, o2 \in S : o1.id = o2.id /\ o1.id # 0 => o1 = o2

Calm ==
    /\ open
    /\ Answers(run) /\ Told(ends)
    /\ dormant # {} => armed
    /\ Numbers(Ops)

CalmInv == mishaps \in Nat /\ (mishaps = 0 => Calm)

-----------------------------------------------------------------------------

LEMMA Answering ==
    ASSUME NEW r, Answers(r), NEW v
    PROVE  /\ Answers([r EXCEPT !.late = v]) /\ Answers([r EXCEPT !.new = v])
           /\ Answers([r EXCEPT !.watched = v])
BY DEF Answers

LEMMA FinishAnswers ==
    ASSUME NEW r, Answers(r), NEW out \in Outcomes
    PROVE  Answers(Finish(r, out))
BY DEF Answers, Finish

LEMMA AdvanceAnswers == ASSUME NEW r, Answers(r) PROVE Answers(Advance(r))
<1> DEFINE on == [r EXCEPT !.at = @ + 1, !.late = 0]
<1>1. Answers(on)
  BY DEF Answers
<1> HIDE DEF on
<1>2. Answers(Finish(on, "done"))
  BY <1>1, FinishAnswers DEF Outcomes
<1>3. Advance(r) = IF StepOf(on) = "end" THEN Finish(on, "done") ELSE on
  BY DEF Advance, on
<1> QED BY <1>1, <1>2, <1>3

\* What is left of a run after a tick: the same operation, an outcome of these.
Follows(r) == IsRun(r) /\ r.op = Current.op /\ Answers(r)

LEMMA Following ==
    ASSUME NEW r, Follows(r)
    PROVE  /\ Follows(Advance(r))
           /\ \A out \in Outcomes : Follows(Finish(r, out))
           /\ \A v : Follows([r EXCEPT !.watched = v])
<1>1. Follows(Advance(r))
  BY Advances, AdvanceAnswers DEF Follows
<1>2. ASSUME NEW out \in Outcomes PROVE Follows(Finish(r, out))
  BY Finishes, FinishAnswers DEF Follows
<1>3. ASSUME NEW v PROVE Follows([r EXCEPT !.watched = v])
  BY Changed, Answering DEF Follows
<1> QED BY <1>1, <1>2, <1>3

LEMMA StartedFollows ==
    ASSUME IInv, Answers(run), Current # NoRun, pc = "tick"
    PROVE  Follows(Started)
<1>1. Answers(Current)
  BY DEF Current, Begun, Answers, Outcomes
<1>2. IsRun(Current)
  <2>1. CASE Registers
    BY <2>1, BegunRuns DEF Current, Registers, IInv, PollInv
  <2>2. CASE ~Registers
    BY <2>2 DEF Current, IInv, PollInv
  <2> QED BY <2>1, <2>2
<1> QED BY <1>1, <1>2, Changed, Answering DEF Started, Follows

LEMMA TouchedFollow ==
    ASSUME Follows(Started), NEW r \in Touched
    PROVE  Follows(r) /\ Follows(Advance(r))
<1>1. "failed" \in Outcomes /\ "done" \in Outcomes /\ "timed_out" \in Outcomes
  BY DEF Outcomes
<1>2. CASE r = Started \/ r = [Started EXCEPT !.watched = agent]
  BY <1>2, Following
<1>3. CASE r \in {Finish(Started, out) : out \in {"done", "failed", "timed_out"}}
  BY <1>1, <1>3, Following
<1>4. Follows(r)
  BY <1>2, <1>3 DEF Touched
<1> QED BY <1>4, Following

\* A tick leaves no run, with its end told, or one that follows.
LEMMA TickShape ==
    ASSUME IInv, Answers(run), Told(ends), Tick
    PROVE  /\ run' = NoRun \/ (Current # NoRun /\ Follows(run'))
           /\ Told(ends')
<1>1. CASE TickNothing
  BY <1>1 DEF TickNothing, Current, Registers
<1>2. CASE TickFinished
  <2>1. run' = NoRun /\ run.out \in Outcomes \ {"none"} /\ ends' = ends \cup {<<run.op, run.out>>}
    BY <1>2 DEF TickFinished, EndSession, Answers
  <2> QED BY <2>1 DEF Told
<1>3. CASE ~(TickNothing \/ TickFinished)
  <2>1. PICK r \in Touched : run' = r \/ run' = Advance(r)
    BY <1>3, TickForms
  <2>2. Working
    BY <1>3, TickForms
  <2>3. Follows(Started) /\ Current # NoRun /\ ends' = ends
    BY <2>2, StartedFollows DEF Working, Ticks
  <2> QED BY <2>1, <2>3, TouchedFollow
<1> QED BY <1>1, <1>2, <1>3

-----------------------------------------------------------------------------
(* The operations                                                           *)

\* No new operation, or one with the next number.
LEMMA StillNumbered ==
    ASSUME Numbers(Ops), next \in Nat \ {0}, next' \in Nat, next' >= next,
           Ops' \subseteq Ops \cup {NoOp}
    PROVE  Numbers(Ops)'
<1>1. \A o \in Ops \cup {NoOp} : o.id \in Nat /\ o.id < next /\ o.kind # "rearm"
  BY DEF Numbers, NoOp
<1>2. \A o1, o2 \in Ops \cup {NoOp} : o1.id = o2.id /\ o1.id # 0 => o1 = o2
  BY DEF Numbers, NoOp
<1>3. \A o \in Ops' : o.id \in Nat /\ o.id < next' /\ o.kind # "rearm"
  BY <1>1
<1>4. \A o1, o2 \in Ops' : o1.id = o2.id /\ o1.id # 0 => o1 = o2
  BY <1>2
<1> QED BY <1>3, <1>4 DEF Numbers

LEMMA OneMore ==
    ASSUME Numbers(Ops), next \in Nat \ {0}, next' = next + 1,
           NEW op, op.id = next, op.kind # "rearm", Ops' \subseteq Ops \cup {op}
    PROVE  Numbers(Ops)'
<1>1. \A o \in Ops \cup {op} : o.id \in Nat /\ o.id < next' /\ o.kind # "rearm"
  BY DEF Numbers
<1>2. \A o \in Ops : o.id # op.id
  BY DEF Numbers
<1>3. \A o1, o2 \in Ops \cup {op} : o1.id = o2.id /\ o1.id # 0 => o1 = o2
  BY <1>2 DEF Numbers
<1>4. \A o \in Ops' : o.id \in Nat /\ o.id < next' /\ o.kind # "rearm"
  BY <1>1
<1>5. \A o1, o2 \in Ops' : o1.id = o2.id /\ o1.id # 0 => o1 = o2
  BY <1>3
<1> QED BY <1>4, <1>5 DEF Numbers

LEMMA RangeJoined ==
    ASSUME NEW s \in Seq(Operation), NEW t \in Seq(Operation)
    PROVE  Range(s \o t) \subseteq Range(s) \cup Range(t)
<1>1. DOMAIN (s \o t) = 1 .. Len(s) + Len(t) /\ DOMAIN s = 1 .. Len(s) /\ DOMAIN t = 1 .. Len(t)
      /\ Len(s) \in Nat /\ Len(t) \in Nat
  BY ConcatProperties, LenProperties
<1>2. \A i \in 1 .. Len(s) + Len(t) : (s \o t)[i] = IF i <= Len(s) THEN s[i] ELSE t[i - Len(s)]
  BY ConcatProperties
<1>3. ASSUME NEW i \in 1 .. Len(s) + Len(t) PROVE (s \o t)[i] \in Range(s) \cup Range(t)
  <2>1. CASE i <= Len(s)
    <3>1. i \in DOMAIN s /\ (s \o t)[i] = s[i]
      BY <1>1, <1>2, <2>1
    <3> QED BY <3>1 DEF Range
  <2>2. CASE i > Len(s)
    <3>1. i - Len(s) \in DOMAIN t /\ (s \o t)[i] = t[i - Len(s)]
      BY <1>1, <1>2, <2>2
    <3> QED BY <3>1 DEF Range
  <2> QED BY <1>1, <2>1, <2>2
<1> QED BY <1>1, <1>3 DEF Range

LEMMA RangeOfOne == ASSUME NEW op PROVE Range(<<op>>) = {op}
BY DEF Range

LEMMA RangeOfTail ==
    ASSUME NEW s \in Seq(Operation), s # <<>>
    PROVE  Range(Tail(s)) \subseteq Range(s) /\ Head(s) \in Range(s)
<1>1. DOMAIN Tail(s) = 1 .. Len(s) - 1 /\ DOMAIN s = 1 .. Len(s) /\ Len(s) \in Nat \ {0}
  BY HeadTailProperties, LenProperties, EmptySeq
<1>2. \A i \in DOMAIN Tail(s) : Tail(s)[i] = s[i + 1] /\ i + 1 \in DOMAIN s
  BY <1>1, HeadTailProperties
<1>3. Head(s) = s[1]
  BY DEF Head
<1> QED BY <1>1, <1>2, <1>3 DEF Range

\* What is pumped was there: nothing is queued that nobody submitted.
LEMMA PumpBrings == ASSUME IInv, Pump PROVE Ops' \subseteq Ops \cup {NoOp}
<1>1. Room \in 0 .. Len(asked) /\ asked \in Seq(Operation) /\ queue \in Seq(Operation)
  BY OpsAssumption DEF IInv, QueueInv, Room
<1>2. /\ SubSeq(asked, 1, Room) \in Seq(Operation)
      /\ DOMAIN SubSeq(asked, 1, Room) = 1 .. Room
      /\ \A i \in 1 .. Room : SubSeq(asked, 1, Room)[i] = asked[i] /\ i \in DOMAIN asked
  BY <1>1, SubSeqProperties, LenProperties
<1>3. Range(SubSeq(asked, 1, Room)) \subseteq Range(asked)
  BY <1>2 DEF Range
<1>4. Range(All) \subseteq Range(asked) \cup Range(queue) /\ All \in Seq(Operation)
  <2>1. Range(All) \subseteq Range(queue) \cup Range(SubSeq(asked, 1, Room))
    BY <1>1, <1>2, RangeJoined DEF All
  <2>2. All \in Seq(Operation)
    BY AllFits DEF IInv
  <2> QED BY <1>3, <2>1, <2>2
<1>5. asked' = <<>> /\ run' = run /\ Range(asked') = {}
  BY DEF Pump, Range
<1>6. CASE Kept = 0 /\ All # <<>>
  <2>1. Range(queue') \subseteq Range(All) /\ coming' \in Range(All)
    BY <1>4, <1>6, RangeOfTail DEF Pump
  <2> QED BY <1>4, <1>5, <2>1 DEF Ops
<1>7. CASE ~(Kept = 0 /\ All # <<>>)
  <2>1. queue' = All /\ coming' = coming
    BY <1>7 DEF Pump
  <2> QED BY <1>4, <1>5, <2>1 DEF Ops
<1> QED BY <1>6, <1>7

\* A plugin that submits nothing, or one operation with the next number.
LEMMA SubmitsOne ==
    ASSUME IInv, Numbers(Ops), NEW op \in Operation, op.id = next, op.kind # "rearm",
           Submit(<<op>>) \/ Submit(<<>>)
    PROVE  Numbers(Ops)'
<1>1. asked \in Seq(Operation) /\ next \in Nat \ {0}
  BY DEF IInv, QueueInv
<1>2. UNCHANGED <<queue, coming, run>>
  BY DEF Submit
<1>3. CASE Submit(<<op>>)
  <2>1. asked' = asked \o <<op>> /\ next' = next + 1
    BY <1>3 DEF Submit, Submitted
  <2>2. <<op>> \in Seq(Operation)
    OBVIOUS
  <2>3. Range(asked') \subseteq Range(asked) \cup {op}
    BY <1>1, <2>1, <2>2, RangeJoined, RangeOfOne
  <2>4. Ops' \subseteq Ops \cup {op}
    BY <1>2, <2>3 DEF Ops
  <2> QED BY <1>1, <2>1, <2>4, OneMore
<1>4. CASE Submit(<<>>)
  <2>1. asked' = asked /\ next' = next
    BY <1>1, <1>4, ConcatEmptySeq, EmptySeq DEF Submit, Submitted
  <2>2. Ops' \subseteq Ops \cup {NoOp}
    BY <1>2, <2>1 DEF Ops
  <2> QED BY <1>1, <2>1, <2>2, StillNumbered
<1> QED BY <1>3, <1>4

-----------------------------------------------------------------------------
(* The steps                                                                *)

\* While every record has its way back, and a run that ended without the agent
\* back takes the records with it, a scan finds nothing to queue again: it
\* submits a reclaim, with its record, or nothing.
LEMMA NothingToRearm ==
    ASSUME PluginInv, ApplyScan, Unarmed => Failed, dormant # {} => armed
    PROVE  \E fires \in {FALSE, Reclaims} :
             /\ Submit(IF fires THEN <<[id |-> next, kind |-> "reclaim", of |-> agent]>> ELSE <<>>)
             /\ dormant' = {d \in IF Failed THEN {} ELSE dormant \cup (IF fires THEN {next} ELSE {}) : ~Over(d)}
             /\ dormant' # {} => armed'
             /\ ends' = {}
<1>1. PICK fires \in {FALSE, Reclaims} :
        LET first == IF fires THEN <<[id |-> next, kind |-> "reclaim", of |-> agent]>> ELSE <<>>
            kept  == {d \in IF Failed THEN {} ELSE dormant \cup {op.id : op \in Range(first)} : ~Over(d)}
            wakes == IF Armed(fires) THEN <<>> ELSE Wakes(kept, next + Len(first))
            now   == (Armed(fires) \/ wakes # <<>>) /\ kept # {}
        IN  /\ ends' = {} /\ Submit(first \o wakes)
            /\ dormant' = kept /\ armed' = now
  BY DEF ApplyScan
<1> DEFINE op    == [id |-> next, kind |-> "reclaim", of |-> agent]
           first == IF fires THEN <<op>> ELSE <<>>
           kept  == {d \in IF Failed THEN {} ELSE dormant \cup {o.id : o \in Range(first)} : ~Over(d)}
           wakes == IF Armed(fires) THEN <<>> ELSE Wakes(kept, next + Len(first))
<1>2. /\ ends' = {} /\ Submit(first \o wakes) /\ dormant' = kept
      /\ armed' = ((Armed(fires) \/ wakes # <<>>) /\ kept # {})
  BY <1>1
<1>3. {o.id : o \in Range(first)} = IF fires THEN {next} ELSE {}
  BY RangeOfOne DEF Range
<1>4. ~Armed(fires) => kept = {}
  <2>1. CASE Unarmed
    BY <2>1
  <2>2. CASE ~Unarmed /\ ~fires /\ ~armed
    BY <1>3, <2>2
  <2> QED BY <2>1, <2>2 DEF Armed
<1>5. dormant' = {d \in IF Failed THEN {} ELSE dormant \cup (IF fires THEN {next} ELSE {}) : ~Over(d)}
  BY <1>2, <1>3
<1> HIDE DEF kept, first
<1>6. wakes = <<>>
  BY <1>4, NobodyWakes
<1>7. first \o wakes = first
  <2> HIDE DEF op
  <2>2. <<op>> \in Seq({op}) /\ <<>> \in Seq({op})
    BY EmptySeq
  <2>1. first \in Seq({op})
    BY <2>2 DEF first
  <2> QED BY <1>6, <2>1, ConcatEmptySeq
<1>8. dormant' # {} => armed'
  BY <1>2, <1>4
<1>9. Submit(first)
  BY <1>2, <1>7
<1> QED BY <1>2, <1>5, <1>8, <1>9 DEF first

LEMMA NoMishap ==
    ASSUME CalmInv, [RNext]_rvars
    PROVE  /\ mishaps' \in Nat
           /\ mishaps' = 0 => mishaps = 0
<1>1. mishaps' = mishaps \/ mishaps' = mishaps + 1
  BY DEF RNext, ScanDone, GraceEnds, ApplyScan, NoResult, ClickCycle, Comes, Reexec, Elsewhere, rvars, vars,
     Submit, CliSend, Pump, Tick, TickNothing, TickFinished, TickProgramExited, StepCapture, StepPaste,
     StepSettle, StepTerminate, StepAwaitUser, StepStopIfProcess, StepLine, StepAwaitProcess,
     StepWatchProcess, StepAwaitTui, StepAwaitQuiet, StepRestore, StepEnter, At, Working, Ticks, Wake,
     Escape, Forget, Clock, World, CoreGone, CoreBack, AgentStarts, AgentRefuses, AgentDraws, AgentRests,
     AgentExits, PersonStartsAgent, PaneCloses, Mishap, Restart
<1> QED BY <1>1 DEF CalmInv

\* A step that leaves the operations, the run and the records alone.
LEMMA StaysAsItWas ==
    ASSUME Calm, UNCHANGED <<asked, queue, coming, run, ends, next, open, dormant, armed>>
    PROVE  Calm'
BY DEF Calm, Answers, Told, Numbers, Ops

LEMMA StaysCalm ==
    ASSUME IInv, PluginInv, CalmInv, [RNext]_rvars, mishaps' = 0
    PROVE  Calm'
<1>1. mishaps = 0 /\ Calm /\ next \in Nat \ {0} /\ NoOp.kind # "rearm"
  BY NoMishap DEF CalmInv, PluginInv, NoOp
<1>2. CASE ScanDone \/ (\E d \in dormant : GraceEnds(d)) \/ UNCHANGED rvars
  BY <1>1, <1>2, StaysAsItWas DEF ScanDone, GraceEnds, rvars, vars, plugin, work, pane
<1>3. CASE ApplyScan
  <2> DEFINE op == [id |-> next, kind |-> "reclaim", of |-> agent]
  <2>5. Unarmed => Failed
    BY <1>1 DEF Unarmed, Failed, WakeEnds, Calm, Told, Outcomes
  <2>6. PICK fires \in {FALSE, Reclaims} :
          Submit(IF fires THEN <<op>> ELSE <<>>) /\ (dormant' # {} => armed') /\ ends' = {}
    BY <1>1, <1>3, <2>5, NothingToRearm DEF Calm
  <2>7. op \in Operation /\ op.id = next /\ op.kind # "rearm"
    BY DEF PluginInv, Operation, Kinds, Script
  <2> HIDE DEF op
  <2>1. Numbers(Ops)'
    BY <1>1, <2>6, <2>7, SubmitsOne DEF Calm
  <2>2. dormant' # {} => armed'
    BY <2>6
  <2>3. Told(ends')
    BY <2>6 DEF Told
  <2>4. open' /\ Answers(run')
    BY <1>1, <1>3 DEF ApplyScan, Submit, Calm
  <2> QED BY <2>1, <2>2, <2>3, <2>4 DEF Calm
<1>4. CASE NoResult \/ ClickCycle
  <2> DEFINE op == [id |-> next, kind |-> "cycle", of |-> born]
  <2>1. op \in Operation /\ op.id = next /\ op.kind # "rearm"
    BY DEF PluginInv, Operation, Kinds, Script
  <2>2. Submit(<<op>>) \/ Submit(<<>>)
    BY <1>4 DEF NoResult, ClickCycle
  <2>3. UNCHANGED <<open, run, ends, dormant, armed>>
    BY <1>4 DEF NoResult, ClickCycle, Submit, plugin
  <2> HIDE DEF op
  <2>4. Numbers(Ops)'
    BY <1>1, <2>1, <2>2, SubmitsOne DEF Calm
  <2> QED BY <1>1, <2>3, <2>4 DEF Calm, Answers, Told
<1>5. CASE Comes
  <2>1. /\ run' = Advance(run)
        /\ UNCHANGED <<asked, queue, coming, ends, next, open, dormant, armed>>
    BY <1>5 DEF Comes, Wake, plugin, pane
  <2>2. Answers(run')
    BY <1>1, <2>1, AdvanceAnswers DEF Calm
  <2>3. run # NoRun /\ IsRun(run)
    BY <1>5 DEF Comes, Wake, Parked, StepOf, IInv, PollInv
  <2>4. run'.op = run.op
    BY <2>1, <2>3, Advances
  <2>5. Ops' = Ops
    BY <2>1, <2>4 DEF Ops
  <2>6. Numbers(Ops)'
    BY <1>1, <2>1, <2>5, StillNumbered DEF Calm
  <2> QED BY <1>1, <2>1, <2>2, <2>6 DEF Calm, Told
<1>6. CASE Reexec
  BY <1>1, <1>6 DEF Reexec, Restart, Mishap
<1>7. ASSUME Elsewhere PROVE UNCHANGED <<dormant, armed>>
  BY <1>7 DEF Elsewhere, plugin
<1>8. CASE Elsewhere /\ CliSend
  <2> DEFINE op == [id |-> next, kind |-> "deliver", of |-> 0]
  <2>1. /\ queue' = Append(queue, op) /\ next' = next + 1
        /\ UNCHANGED <<asked, coming, run, ends, open, dormant, armed>>
    BY <1>7, <1>8 DEF CliSend, pane
  <2>2. op \in Operation /\ op.id = next /\ op.kind # "rearm"
    BY <1>1 DEF Operation, Kinds, Script
  <2> HIDE DEF op
  <2>3. queue' = queue \o <<op>> /\ queue \in Seq(Operation) /\ <<op>> \in Seq(Operation)
    BY <2>1, <2>2, AppendIsConcat DEF IInv, QueueInv
  <2>4. Ops' \subseteq Ops \cup {op}
    BY <2>1, <2>3, RangeJoined, RangeOfOne DEF Ops
  <2>5. Numbers(Ops)'
    BY <1>1, <2>1, <2>2, <2>4, OneMore DEF Calm
  <2> QED BY <1>1, <2>1, <2>5 DEF Calm, Answers, Told
<1>9. CASE Elsewhere /\ Pump
  <2>1. Ops' \subseteq Ops \cup {NoOp} /\ next' = next
    BY <1>9, PumpBrings DEF Pump
  <2>2. UNCHANGED <<open, run, dormant, armed>>
    BY <1>7, <1>9 DEF Pump, pane
  <2>3. Told(ends')
    BY <1>1, <1>9 DEF Pump, Calm, Told, Outcomes
  <2>4. Numbers(Ops)'
    BY <1>1, <2>1, StillNumbered DEF Calm
  <2> QED BY <1>1, <2>2, <2>3, <2>4 DEF Calm, Answers
<1>10. CASE Elsewhere /\ Tick
  <2>1. UNCHANGED <<asked, queue, next, open, dormant, armed>> /\ coming' = NoOp
    BY <1>7, <1>10
       DEF Tick, TickNothing, TickFinished, TickProgramExited, StepCapture, StepPaste,
       StepSettle, StepTerminate, StepAwaitUser, StepStopIfProcess, StepLine, StepAwaitProcess,
       StepWatchProcess, StepAwaitTui, StepAwaitQuiet, StepRestore, StepEnter, At, Working, Ticks
  <2>2. (run' = NoRun \/ (Current # NoRun /\ Follows(run'))) /\ Told(ends')
    BY <1>1, <1>10, TickShape DEF Calm
  <2>3. run'.op \in {coming, run.op, NoOp}
    BY <2>2, NothingRuns, BegunRuns DEF Follows, Current, Begun
  <2>4. Answers(run')
    BY <2>2 DEF Follows, Answers, NoRun, Outcomes
  <2>5. Ops' \subseteq Ops \cup {NoOp}
    BY <2>1, <2>3 DEF Ops
  <2>6. Numbers(Ops)'
    BY <1>1, <2>1, <2>5, StillNumbered DEF Calm
  <2> QED BY <1>1, <2>1, <2>2, <2>4, <2>6 DEF Calm
<1>11. CASE Elsewhere /\ Clock
  <2>1. /\ run # NoRun /\ run' = [run EXCEPT !.late = @ + 1]
        /\ UNCHANGED <<asked, queue, coming, ends, next, open, dormant, armed>>
    BY <1>7, <1>11 DEF Clock, pane
  <2>2. IsRun(run) /\ run'.op = run.op /\ Answers(run')
    BY <1>1, <2>1, Changed, Answering DEF IInv, PollInv, Calm
  <2>3. Ops' = Ops
    BY <2>1, <2>2 DEF Ops
  <2>4. Numbers(Ops)'
    BY <1>1, <2>1, <2>3, StillNumbered DEF Calm
  <2> QED BY <1>1, <2>1, <2>2, <2>4 DEF Calm, Told
<1>12. CASE Elsewhere /\ (Escape \/ Forget)
  BY <1>1, <1>12 DEF Escape, Forget, Closed, Calm
<1>13. CASE Elsewhere /\ World
  <2>1. UNCHANGED <<asked, queue, coming, run, ends, next>>
    BY <1>13 DEF World, CoreGone, CoreBack, AgentStarts, AgentRefuses, AgentDraws, AgentRests,
       AgentExits, PersonStartsAgent, PaneCloses, work
  <2>2. open' = open
    BY <1>1, <1>13 DEF World, CoreGone, CoreBack, AgentStarts, AgentRefuses, AgentDraws, AgentRests,
       AgentExits, PersonStartsAgent, PaneCloses, pane, Mishap
  <2> QED BY <1>1, <1>7, <1>13, <2>1, <2>2, StaysAsItWas
<1> QED
  BY <1>2, <1>3, <1>4, <1>5, <1>6, <1>8, <1>9, <1>10, <1>11, <1>12, <1>13 DEF RNext, Elsewhere

\* No two of the operations asked for, queued, beginning or running would bring
\* the same session back (run_idle_policy_at, settle_wake_ends, rearm_dormant),
\* however many are submitted and however long the queue is.
THEOREM OneWayBack == RSpec => []OneWakePath
<1>1. RInit => CalmInv
  <2> SUFFICES ASSUME RInit PROVE CalmInv
    OBVIOUS
  <2>1. Init /\ dormant = {}
    BY DEF RInit
  <2>2. mishaps = 0 /\ open /\ run = NoRun /\ ends = {} /\ next = 1 /\ coming = NoOp
        /\ asked = <<>> /\ queue = <<>>
    BY <2>1 DEF Init
  <2>3. Ops = {NoOp}
    BY <2>2, NothingRuns DEF Ops, Range
  <2>4. Numbers(Ops)
    BY <2>2, <2>3 DEF Numbers, NoOp
  <2>5. Answers(run) /\ Told(ends)
    BY <2>2 DEF Answers, NoRun, Outcomes, Told
  <2> QED BY <2>1, <2>2, <2>4, <2>5 DEF CalmInv, Calm
<1>2. IInv /\ PluginInv /\ CalmInv /\ [RNext]_rvars => CalmInv'
  BY NoMishap, StaysCalm DEF CalmInv
<1>3. CalmInv => OneWakePath
  BY DEF CalmInv, Calm, Numbers, OneWakePath, WakeOf
<1>4. Spec => []IInv
  BY Starts, StepKeeps, PTL DEF Spec
<1> QED BY <1>1, <1>2, <1>3, <1>4, ReclaimerIsAPlugin, PTL DEF RSpec

-----------------------------------------------------------------------------
(* A pane that sleeps has its record.  Followed from the scan that submits   *)
(* the pane's first reclaim to the end of its run: the record is made with   *)
(* the submission; nothing that could fail or let go ends before it, for     *)
(* what is ahead of it in the queue only delivers messages; and it is old    *)
(* enough to be judged only when the run is past the kill, so every scan     *)
(* that judges it was taken over a dead agent.                               *)

\* What waits, and what runs, are operations; a run is somewhere in its script.
Progress(r) == {"op", "at", "out"} \subseteq DOMAIN r /\ r.op \in Operation /\ r.at \in Nat \ {0}
Typed ==
    /\ coming # NoOp => coming \in Operation
    /\ run # NoRun => Progress(run)

\* The file says what the memory says, and whatever is numbered has been.
OldRecords == dormant \cup graced \cup scan.judges \subseteq 0 .. next - 1 /\ 0 \notin dormant
OldIn(S, n) == \A o \in S : o.id \in Nat /\ o.id < n /\ (o.kind = "rearm" => o.id # 1)
OldOps  == OldIn(Ops, next)
OldEnds == \A e \in ends : e[1].id \in Nat \ {0} /\ e[1].id < next
Books ==
    /\ disk = dormant /\ born # 0 /\ agent <= born /\ slice \in Slices
    /\ OldRecords /\ OldOps /\ OldEnds

\* The first reclaim, while it waits or runs in a pane that is open and has had
\* one agent.
Alive == \E o \in Ops : o.id = 1 /\ o.kind = "reclaim"
Waits == \E o \in Range(queue) \cup Range(asked) : o.id = 1
Light(op) == op.kind \in {"none", "deliver"}
Past  == run.op.id = 1 /\ run.at > 3
Kills == Past /\ agent = 0
Turned == run.out # "none" /\ run.at \in {4, 5}
Behind(s) == \A i, j \in DOMAIN s : i < j /\ s[j].id = 1 => s[i].kind = "deliver"

Recorded   == 1 \in dormant /\ armed
NoWakeEnds == \A e \in ends : e[1].kind \notin {"reclaim", "rearm"}
Ahead      == Behind(queue \o asked) /\ (Waits => Light(coming) /\ Light(run.op))
TheFirst   == \A o \in Ops : o.id = 1 => o.of = 1 /\ o.kind = "reclaim"
Judged ==
    /\ 1 \in graced \cup scan.judges => Kills
    /\ Past => agent = 0 \/ Turned
    /\ 1 \in scan.judges => scan.agent = 0 /\ scan.open
First == Recorded /\ NoWakeEnds /\ Ahead /\ TheFirst /\ Judged

FirstInv == Typed /\ Books /\ (Alive /\ open /\ born = 1 => First)

\* The queue has room for what the channel holds, so nothing is refused.
RoomForAll == Len(queue) + Len(asked) <= MaxQueued

-----------------------------------------------------------------------------
(* Ticks                                                                    *)

LEMMA TouchedProgress ==
    ASSUME Progress(Started), NEW r \in Touched
    PROVE  /\ Progress(r) /\ r.op = Started.op /\ r.at = Started.at
           /\ Progress(Advance(r)) /\ Advance(r).op = Started.op /\ Advance(r).at = Started.at + 1
           /\ r.out # "none" => Advance(r).out # "none"
<1>1. Progress(r) /\ r.op = Started.op /\ r.at = Started.at
  <2>1. CASE r = Started \/ r = [Started EXCEPT !.watched = agent]
    BY <2>1 DEF Progress
  <2>2. CASE r \in {Finish(Started, out) : out \in {"done", "failed", "timed_out"}}
    BY <2>2 DEF Progress, Finish
  <2> QED BY <2>1, <2>2 DEF Touched
<1> DEFINE on == [r EXCEPT !.at = @ + 1, !.late = 0]
<1>2. Progress(on) /\ on.op = r.op /\ on.at = r.at + 1 /\ on.out = r.out
  BY <1>1 DEF Progress
<1> HIDE DEF on
<1>3. /\ Progress(Finish(on, "done")) /\ Finish(on, "done").op = on.op /\ Finish(on, "done").at = on.at
      /\ Finish(on, "done").out # "none"
  BY <1>2 DEF Progress, Finish
<1>4. Advance(r) = Finish(on, "done") \/ Advance(r) = on
  BY DEF Advance, on
<1> QED BY <1>1, <1>2, <1>3, <1>4

LEMMA FailedFinish == ASSUME Progress(Started) PROVE Finish(Started, "failed").out # "none"
BY DEF Progress, Finish

LEMMA StartedProgress ==
    ASSUME Typed, Current # NoRun
    PROVE  /\ Progress(Started) /\ Started.op = Current.op /\ Started.at = Current.at
           /\ \/ Registers /\ Started.op = coming /\ (coming.kind # "rearm" => Started.at = 1)
              \/ ~Registers /\ run # NoRun /\ Started.op = run.op /\ Started.at = run.at
<1>1. CASE Registers
  <2>1. Current = Begun(coming) /\ coming \in Operation
    BY <1>1 DEF Current, Registers, Typed
  <2>2. Progress(Begun(coming)) /\ Begun(coming).op = coming
        /\ (coming.kind # "rearm" => Begun(coming).at = 1)
    BY <2>1 DEF Progress, Begun, ParkAt
  <2> QED BY <1>1, <2>1, <2>2 DEF Started, Progress
<1>2. CASE ~Registers
  BY <1>2 DEF Started, Current, Typed, Progress
<1> QED BY <1>1, <1>2

\* A tick leaves no run, or the same operation at its step or the next; past a
\* reclaim's kill, when its agent is gone.
Onto(r) ==
    /\ Progress(r) /\ r.op = Started.op /\ r.at \in {Started.at, Started.at + 1}
    /\ Started.op.kind = "reclaim" /\ Started.at = 3 /\ r.at = 4 => agent # Started.op.of \/ r.out # "none"

LEMMA TickMoves ==
    ASSUME Typed, Tick
    PROVE  /\ run' = NoRun \/ (Current # NoRun /\ Current.out = "none" /\ Onto(run'))
           /\ ends' = ends \/ (run # NoRun /\ run' = NoRun /\ \E out : ends' = ends \cup {<<run.op, out>>})
<1>1. CASE TickNothing
  BY <1>1 DEF TickNothing, Current, Registers
<1>2. CASE TickFinished
  BY <1>2 DEF TickFinished, EndSession
<1>3. CASE ~(TickNothing \/ TickFinished)
  <2>1. Working /\ Current # NoRun /\ Current.out = "none" /\ ends' = ends
    BY <1>3, TickForms DEF Working
  <2>2. PICK r \in Touched :
          \/ run' = r
          \/ /\ run' = Advance(r)
             /\ StepOf(Current) = "terminate" => agent # Started.op.of \/ r = Finish(Started, "failed")
    BY <1>3, TickForms
  <2>3. Progress(Started) /\ Started.op = Current.op /\ Started.at = Current.at
    BY <2>1, StartedProgress
  <2>4. Started.op.kind = "reclaim" /\ Started.at = 3 => StepOf(Current) = "terminate"
    BY <2>1, <2>3 DEF StepOf, Script
  <2>5. /\ Progress(r) /\ r.op = Started.op /\ r.at = Started.at
        /\ Progress(Advance(r)) /\ Advance(r).op = Started.op /\ Advance(r).at = Started.at + 1
        /\ r.out # "none" => Advance(r).out # "none"
    BY <2>3, TouchedProgress
  <2>6. Onto(run')
    <3>1. Started.at \in Nat
      BY <2>3 DEF Progress
    <3>2. CASE run' = r
      BY <2>5, <3>1, <3>2 DEF Onto
    <3>3. CASE /\ run' = Advance(r)
               /\ StepOf(Current) = "terminate" => agent # Started.op.of \/ r = Finish(Started, "failed")
      BY <2>3, <2>4, <2>5, <3>1, <3>3, FailedFinish DEF Onto
    <3> QED BY <2>2, <3>2, <3>3
  <2> QED BY <2>1, <2>6
<1> QED BY <1>1, <1>2, <1>3

\* What a tick leaves alone.
LEMMA TickLeaves ==
    ASSUME Tick
    PROVE  /\ UNCHANGED <<asked, queue, next, open, agent, born>>
           /\ coming' = NoOp /\ pc = "tick"
BY DEF Tick, TickNothing, TickFinished, TickProgramExited, StepCapture, StepPaste,
       StepSettle, StepTerminate, StepAwaitUser, StepStopIfProcess, StepLine, StepAwaitProcess,
       StepWatchProcess, StepAwaitTui, StepAwaitQuiet, StepRestore, StepEnter, At, Working, Ticks, prog

\* The person's coming and the clock leave the operation where it is, or one
\* step on.
LEMMA MovesAlong ==
    ASSUME Typed, Wake \/ Clock
    PROVE  /\ run # NoRun /\ run' # NoRun /\ Progress(run') /\ run'.op = run.op
           /\ run'.at = run.at \/ (run'.at = run.at + 1 /\ Parked(run))
           /\ run.out # "none" => run'.out # "none"
           /\ UNCHANGED <<asked, queue, coming, ends, next, open, agent, born>>
<1>1. CASE Clock
  <2>1. /\ run # NoRun /\ run' = [run EXCEPT !.late = @ + 1]
        /\ UNCHANGED <<asked, queue, coming, ends, next, open, agent, born>>
    BY <1>1 DEF Clock, pane, prog
  <2> QED BY <2>1 DEF Typed, Progress, NoRun, NoOp, Operation
<1>2. CASE Wake
  <2>1. /\ run # NoRun /\ Parked(run) /\ run' = Advance(run)
        /\ UNCHANGED <<asked, queue, coming, ends, next, open, agent, born>>
    BY <1>2 DEF Wake, Parked, StepOf, pane, prog
  <2> DEFINE on == [run EXCEPT !.at = @ + 1, !.late = 0]
  <2>2. Progress(on) /\ on.op = run.op /\ on.at = run.at + 1 /\ on.out = run.out
    BY <2>1 DEF Typed, Progress
  <2> HIDE DEF on
  <2>3. /\ Progress(Finish(on, "done")) /\ Finish(on, "done").op = on.op
        /\ Finish(on, "done").at = on.at /\ Finish(on, "done").out # "none"
    BY <2>2 DEF Progress, Finish
  <2>4. Advance(run) = Finish(on, "done") \/ Advance(run) = on
    BY DEF Advance, on
  <2> QED BY <2>1, <2>2, <2>3, <2>4 DEF Progress, NoRun, NoOp, Operation
<1> QED BY <1>1, <1>2

-----------------------------------------------------------------------------
(* The types and the books                                                  *)

LEMMA TypedStays == ASSUME IInv, Typed, [RNext]_rvars PROVE Typed'
<1>2. CASE Tick
  BY <1>2, TickMoves, TickLeaves DEF Typed, Onto
<1>3. CASE Wake \/ Clock
  BY <1>3, MovesAlong DEF Typed
<1>4. CASE Pump
  <2>1. run' = run /\ (coming' = coming \/ (All # <<>> /\ coming' = Head(All)))
    BY <1>4 DEF Pump
  <2>2. All \in Seq(Operation)
    BY AllFits DEF IInv
  <2> QED BY <2>1, <2>2, HeadTailProperties DEF Typed
<1>5. CASE Restart \/ Escape \/ Forget
  BY <1>5 DEF Restart, Escape, Forget, EndSession, Typed
<1>6. CASE ScanDone \/ (\E d \in dormant : GraceEnds(d)) \/ ApplyScan \/ NoResult \/ ClickCycle
           \/ CliSend \/ World \/ UNCHANGED rvars
  <2>1. UNCHANGED <<coming, run>>
    BY <1>6 DEF ScanDone, GraceEnds, ApplyScan, NoResult, ClickCycle, Submit, CliSend, World, CoreGone,
       CoreBack, AgentStarts, AgentRefuses, AgentDraws, AgentRests, AgentExits, PersonStartsAgent,
       PaneCloses, rvars, vars, work
  <2> QED BY <2>1 DEF Typed
<1> QED BY <1>2, <1>3, <1>4, <1>5, <1>6 DEF RNext, Comes, Reexec, Elsewhere

\* The pane is opened once, and its agents are numbered as they come.
LEMMA PaneMoves ==
    ASSUME PluginInv, [Next]_vars
    PROVE  /\ open' => open
           /\ \/ agent' \in {agent, 0} /\ born' = born
              \/ agent' = born + 1 /\ born' = born + 1
<1>1. CASE World
  BY <1>1 DEF World, CoreGone, CoreBack, AgentStarts, AgentRefuses, AgentDraws, AgentRests, AgentExits,
     PersonStartsAgent, PaneCloses, pane, prog
<1>2. CASE Tick
  BY <1>2, TickLeaves
<1>3. CASE PluginStep \/ CliSend \/ Pump \/ Wake \/ Escape \/ Forget \/ Clock \/ Restart \/ UNCHANGED vars
  BY <1>3 DEF PluginStep, Submit, CliSend, Pump, Wake, Escape, Forget, Clock, Restart, vars, pane, prog
<1> QED BY <1>1, <1>2, <1>3 DEF Next

LEMMA BornStays ==
    ASSUME PluginInv, born # 0, agent <= born, [Next]_vars
    PROVE  born' # 0 /\ agent' <= born'
BY PaneMoves DEF PluginInv

\* No operation comes up but those submitted, and an end is told of an operation
\* that was there.
Brings(op) == Ops' \subseteq Ops \cup {NoOp, op}
Ended == \A e \in ends' : e \in ends \/ (e[1] \in Ops /\ e[1].id # 0)

LEMMA WaitingIsThere ==
    ASSUME asked \in Seq(Operation), queue \in Seq(Operation)
    PROVE  /\ \A i \in DOMAIN asked : asked[i] \in Ops /\ asked[i].id # 0
           /\ \A i \in DOMAIN queue : queue[i] \in Ops /\ queue[i].id # 0
<1>1. \A s \in Seq(Operation) : \A i \in DOMAIN s : s[i] \in Operation /\ s[i] \in Range(s)
  BY LenProperties DEF Range
<1>2. \A op \in Operation : op.id # 0
  BY DEF Operation
<1> QED BY <1>1, <1>2 DEF Ops

LEMMA QueueSteps ==
    ASSUME IInv, Typed, Tick \/ Wake \/ Clock \/ Pump \/ Escape \/ Forget \/ Restart \/ World
    PROVE  Brings(NoOp) /\ Ended /\ next' = next
<1>1. asked \in Seq(Operation) /\ queue \in Seq(Operation) /\ Range(<<>>) = {}
  BY EmptySeq DEF IInv, QueueInv, Range
<1>2. run # NoRun => run.op \in Ops /\ run.op.id # 0
  BY DEF Ops, IInv, PollInv, IsRun
<1>3. CASE Tick
  <2>1. UNCHANGED <<asked, queue, next>> /\ coming' = NoOp
    BY <1>3, TickLeaves
  <2>2. run'.op \in {coming, run.op, NoOp}
    BY <1>3, TickMoves, StartedProgress, NothingRuns DEF Onto
  <2>3. Brings(NoOp)
    BY <2>1, <2>2 DEF Brings, Ops
  <2>4. Ended
    BY <1>2, <1>3, TickMoves DEF Ended
  <2> QED BY <1>1, <2>1, <2>3, <2>4
<1>4. CASE Wake \/ Clock
  <2>1. UNCHANGED <<asked, queue, coming, ends, next>> /\ run'.op = run.op
    BY <1>4, MovesAlong
  <2> QED BY <1>1, <2>1 DEF Brings, Ops, Ended
<1>5. CASE Pump
  <2>1. Brings(NoOp)
    BY <1>5, PumpBrings DEF Brings
  <2>2. Ended
    <3>1. ASSUME NEW i \in DOMAIN asked PROVE asked[i] \in Ops /\ asked[i].id # 0
      BY <1>1, WaitingIsThere
    <3> QED BY <1>5, <3>1 DEF Pump, Ended
  <2>5. next' = next
    BY <1>5 DEF Pump
  <2> QED BY <2>1, <2>2, <2>5
<1>6. CASE Escape
  <2>1. UNCHANGED <<asked, queue, coming, next>> /\ (run' = run \/ run' = NoRun)
    BY <1>6 DEF Escape, EndSession
  <2>2. ends' = ends \/ (run # NoRun /\ \E out : ends' = ends \cup {<<run.op, out>>})
    BY <1>6 DEF Escape, EndSession
  <2>3. Brings(NoOp)
    BY <2>1, NothingRuns DEF Brings, Ops
  <2>4. Ended
    BY <1>2, <2>2 DEF Ended
  <2> QED BY <1>1, <2>1, <2>3, <2>4
<1>7. CASE Forget
  <2>1. UNCHANGED <<asked, coming, next>> /\ queue' = <<>> /\ (run' = run \/ run' = NoRun)
    BY <1>7 DEF Forget
  <2>2. \A i \in DOMAIN queue : queue[i] \in Ops /\ queue[i].id # 0
    BY <1>1, WaitingIsThere
  <2>3. ends' = ends \cup Untold
          \/ (run # NoRun /\ \E out : ends' = ends \cup Untold \cup {<<run.op, out>>})
    BY <1>7 DEF Forget
  <2>4. Brings(NoOp)
    BY <1>1, <2>1, NothingRuns DEF Brings, Ops
  <2>5. Ended
    BY <1>2, <2>2, <2>3 DEF Ended, Untold
  <2> QED BY <1>1, <2>1, <2>4, <2>5
<1>8. CASE Restart
  <2>1. asked' = <<>> /\ queue' = <<>> /\ coming' = NoOp /\ run' = NoRun /\ ends' = {} /\ next' = next
    BY <1>8 DEF Restart
  <2>2. Brings(NoOp)
    BY <1>1, <2>1, NothingRuns DEF Brings, Ops
  <2> QED BY <1>1, <2>1, <2>2 DEF Ended
<1>9. CASE World
  <2>1. UNCHANGED <<asked, queue, coming, run, ends, next>>
    BY <1>9 DEF World, CoreGone, CoreBack, AgentStarts, AgentRefuses, AgentDraws, AgentRests,
       AgentExits, PersonStartsAgent, PaneCloses, work
  <2> QED BY <1>1, <2>1 DEF Brings, Ops, Ended
<1> QED BY <1>3, <1>4, <1>5, <1>6, <1>7, <1>8, <1>9

\* What a plugin submits joins the channel, and outcomes are only read.
LEMMA SubmitSteps ==
    ASSUME IInv, NEW ops \in Seq(Operation), Submit(ops)
    PROVE  /\ next' = next + Len(ops) /\ Len(ops) \in Nat
           /\ Ops' \subseteq Ops \cup Range(ops) /\ Ended
           /\ UNCHANGED <<queue, coming, run, open, agent, born>> /\ asked' = asked \o ops
<1>1. /\ asked' = asked \o ops /\ next' = next + Len(ops) /\ ends' \subseteq ends
      /\ UNCHANGED <<queue, coming, run, open, agent, born>>
  BY DEF Submit, Submitted, prog
<1>2. asked \in Seq(Operation) /\ queue \in Seq(Operation)
  BY DEF IInv, QueueInv
<1>3. Range(asked \o ops) \subseteq Range(asked) \cup Range(ops)
  BY <1>2, ConcatProperties, RangeJoined
<1>4. Len(ops) \in Nat
  BY LenProperties
<1> QED BY <1>1, <1>3, <1>4 DEF Ops, Ended

LEMMA CliSteps ==
    ASSUME IInv, CliSend
    PROVE  LET op == [id |-> next, kind |-> "deliver", of |-> 0]
           IN  /\ op \in Operation /\ queue' = queue \o <<op>> /\ next' = next + 1
               /\ Brings(op) /\ Ended
               /\ UNCHANGED <<asked, coming, run, ends, open, agent, born>>
<1> DEFINE op == [id |-> next, kind |-> "deliver", of |-> 0]
<1>1. /\ queue' = Append(queue, op) /\ next' = next + 1
      /\ UNCHANGED <<asked, coming, run, ends, open, agent, born>>
  BY DEF CliSend, pane, prog
<1>2. op \in Operation /\ queue \in Seq(Operation) /\ asked \in Seq(Operation)
  BY DEF IInv, QueueInv, Operation, Kinds, Script
<1> HIDE DEF op
<1>3. queue' = queue \o <<op>> /\ <<op>> \in Seq(Operation)
  BY <1>1, <1>2, AppendIsConcat
<1>5. Range(queue') \subseteq Range(queue) \cup {op}
  BY <1>2, <1>3, RangeJoined, RangeOfOne
<1>6. Brings(op)
  BY <1>1, <1>5 DEF Brings, Ops
<1>8. Ended
  BY <1>1 DEF Ended
<1> QED BY <1>1, <1>2, <1>3, <1>6, <1>8 DEF op

\* A scan submits, under new numbers, a reclaim with its record, and what goes
\* back into the queue for records that were there.
LEMMA AppliesNumbered ==
    ASSUME PluginInv, Books, ApplyScan
    PROVE  /\ \E ops \in Seq(Operation) :
                /\ Submit(ops)
                /\ \A op \in Range(ops) : op.id \in next .. next + Len(ops) - 1 /\ (op.kind = "rearm" => op.id # 1)
                /\ dormant' \subseteq dormant \cup {next}
                /\ next \in dormant' => Len(ops) # 0 \/ next \in dormant
           /\ disk' = dormant' /\ graced' = graced /\ slice' = slice
           /\ scan' = NoScan /\ ends' = {}
<1>1. PICK fires \in {FALSE, Reclaims} :
        LET first == IF fires THEN <<[id |-> next, kind |-> "reclaim", of |-> agent]>> ELSE <<>>
            kept  == {d \in IF Failed THEN {} ELSE dormant \cup {op.id : op \in Range(first)} : ~Over(d)}
            wakes == IF Armed(fires) THEN <<>> ELSE Wakes(kept, next + Len(first))
        IN  /\ Submit(first \o wakes) /\ dormant' = kept
            /\ disk' = IF fires \/ kept # dormant THEN kept ELSE disk
            /\ scan' = NoScan /\ ends' = {} /\ UNCHANGED <<graced, slice>>
  BY DEF ApplyScan, marks
<1> DEFINE one   == [id |-> next, kind |-> "reclaim", of |-> agent]
           first == IF fires THEN <<one>> ELSE <<>>
           kept  == {d \in IF Failed THEN {} ELSE dormant \cup {op.id : op \in Range(first)} : ~Over(d)}
           wakes == IF Armed(fires) THEN <<>> ELSE Wakes(kept, next + Len(first))
<1>2. /\ Submit(first \o wakes) /\ dormant' = kept /\ disk' = dormant'
      /\ scan' = NoScan /\ ends' = {} /\ UNCHANGED <<graced, slice>>
  BY <1>1 DEF Books
<1>3. one \in Operation /\ one.id = next /\ one.kind = "reclaim"
  BY DEF PluginInv, Operation, Kinds, Script
<1>4. {op.id : op \in Range(first)} = IF fires THEN {next} ELSE {}
  BY RangeOfOne DEF Range
<1>5. kept \subseteq dormant \cup {next} /\ (next \in kept => fires \/ next \in dormant)
      /\ (kept # {} => fires \/ dormant # {})
  BY <1>4
<1>6. Records(kept)
  <2>1. kept \in SUBSET (dormant \cup {next})
    BY <1>5
  <2>2. IsFiniteSet(dormant \cup {next})
    BY FS_AddElement DEF PluginInv, Records
  <2>3. IsFiniteSet(kept)
    BY <2>1, <2>2, FS_Subset
  <2> QED BY <2>1, <2>3 DEF PluginInv, Records
<1> HIDE DEF one
<1>7. first \in Seq(Operation) /\ Len(first) = (IF fires THEN 1 ELSE 0)
      /\ Range(first) = (IF fires THEN {one} ELSE {})
  BY <1>3, EmptySeq, RangeOfOne DEF Range
<1> HIDE DEF kept
<1>13. wakes = <<>> \/ wakes = Wakes(kept, next + Len(first))
  OBVIOUS
<1> HIDE DEF wakes
<1>8. /\ wakes \in Seq(Operation)
      /\ \A op \in Range(wakes) : op.id \in next + Len(first) .. next + Len(first) + Len(wakes) - 1
      /\ wakes # <<>> => kept # {}
  <2>1. next + Len(first) \in Nat \ {0}
    BY <1>7 DEF PluginInv
  <2>2. CASE wakes = <<>>
    BY <2>2, EmptySeq DEF Range
  <2>3. CASE wakes # <<>>
    <3>1. wakes = Wakes(kept, next + Len(first))
      BY <1>13, <2>3
    <3>2. wakes \in Seq(Operation)
      BY <1>6, <2>1, <3>1, WakesAreOperations
    <3>3. kept # {}
      BY <2>3, <3>1, NobodyWakes
    <3>4. \A i \in DOMAIN wakes : wakes[i].id = next + Len(first) + i - 1
      BY <3>1 DEF Wakes
    <3>5. DOMAIN wakes = 1 .. Len(wakes) /\ Len(wakes) \in Nat
      BY <3>2, LenProperties
    <3> QED BY <2>1, <3>2, <3>3, <3>4, <3>5 DEF Range
  <2> QED BY <2>2, <2>3
<1> HIDE DEF first
<1>9. /\ first \o wakes \in Seq(Operation) /\ Len(first \o wakes) = Len(first) + Len(wakes)
      /\ Range(first \o wakes) \subseteq Range(first) \cup Range(wakes)
      /\ Len(wakes) \in Nat
  BY <1>7, <1>8, ConcatProperties, RangeJoined, LenProperties
<1>10. wakes # <<>> => next + Len(first) > 1
  <2>1. dormant # {} => next > 1
    BY DEF Books, OldRecords, PluginInv
  <2> QED BY <1>5, <1>7, <1>8, <2>1 DEF PluginInv
<1>11. ASSUME NEW op \in Range(first \o wakes)
       PROVE  op.id \in next .. next + Len(first \o wakes) - 1 /\ (op.kind = "rearm" => op.id # 1)
  <2>1. CASE op \in Range(first)
    BY <1>3, <1>7, <1>9, <2>1 DEF PluginInv
  <2>2. CASE op \in Range(wakes)
    <3>1. wakes # <<>>
      BY <2>2 DEF Range
    <3> QED BY <1>7, <1>8, <1>9, <1>10, <2>2, <3>1 DEF PluginInv
  <2> QED BY <1>9, <2>1, <2>2
<1>12. next \in dormant' => Len(first \o wakes) # 0 \/ next \in dormant
  BY <1>2, <1>5, <1>7, <1>9
<1> QED BY <1>2, <1>5, <1>9, <1>11, <1>12

LEMMA OldTogether ==
    ASSUME NEW n \in Nat, NEW m \in Nat, n <= m, NEW S, NEW T, NEW U,
           OldIn(S, n), OldIn(T, m), U \subseteq S \cup T
    PROVE  OldIn(U, m)
BY DEF OldIn

LEMMA BooksStay == ASSUME IInv, PluginInv, Typed, Books, [RNext]_rvars PROVE Books'
<1>1. born' # 0 /\ agent' <= born' /\ [Next]_vars
  BY RefinesStep, BornStays DEF Books
<1>2. next \in Nat \ {0} /\ dormant \subseteq Nat
  BY DEF PluginInv, Records
<1>3. ASSUME next' \in Nat, next' >= next, Ended PROVE OldEnds'
  <2>1. \A e \in ends' : e[1].id \in Nat \ {0} /\ e[1].id < next
    BY <1>3 DEF Ended, Books, OldEnds, OldOps, OldIn
  <2> QED BY <1>2, <1>3, <2>1 DEF OldEnds
<1>4. ASSUME next' \in Nat, next' >= next, UNCHANGED <<dormant, graced, scan>> PROVE OldRecords'
  BY <1>2, <1>4 DEF Books, OldRecords
<1>5. ASSUME next' \in Nat, next' >= next PROVE \A T : OldIn(T, next') /\ Ops' \subseteq Ops \cup T => OldOps'
  <2>1. OldIn(Ops, next)
    BY DEF Books, OldOps
  <2> QED BY <1>2, <1>5, <2>1, OldTogether DEF OldOps
<1>6. CASE (Tick \/ Wake \/ Clock \/ Pump \/ Escape \/ Forget \/ World) /\ UNCHANGED <<scan, plugin, marks>>
  <2>1. Brings(NoOp) /\ Ended /\ next' = next
    BY <1>6, QueueSteps
  <2>2. OldOps'
    <3>1. Ops' \subseteq Ops \cup {NoOp}
      BY <2>1 DEF Brings
    <3>2. OldIn({NoOp}, next')
      BY <1>2, <2>1 DEF OldIn, NoOp
    <3> QED BY <1>2, <1>5, <2>1, <3>1, <3>2
  <2>3. OldEnds' /\ OldRecords'
    BY <1>2, <1>3, <1>4, <1>6, <2>1 DEF plugin, marks
  <2> QED BY <1>1, <1>6, <2>2, <2>3 DEF Books, plugin, marks
<1>7. CASE Reexec
  <2>1. Brings(NoOp) /\ Ended /\ next' = next
    BY <1>7, QueueSteps DEF Reexec
  <2>2. OldOps'
    <3>1. Ops' \subseteq Ops \cup {NoOp}
      BY <2>1 DEF Brings
    <3>2. OldIn({NoOp}, next')
      BY <1>2, <2>1 DEF OldIn, NoOp
    <3> QED BY <1>2, <1>5, <2>1, <3>1, <3>2
  <2>3. OldEnds'
    BY <1>2, <1>3, <2>1
  <2>4. OldRecords'
    BY <1>2, <1>7, <2>1 DEF Reexec, Books, OldRecords, NoScan, marks
  <2> QED BY <1>1, <1>7, <2>2, <2>3, <2>4 DEF Books, Reexec, marks
<1>8. CASE CliSend /\ UNCHANGED <<scan, plugin, marks>>
  <2> DEFINE op == [id |-> next, kind |-> "deliver", of |-> 0]
  <2>1. next' = next + 1 /\ Ops' \subseteq Ops \cup {NoOp, op} /\ Ended
    BY <1>8, CliSteps DEF Brings
  <2>2. OldOps'
    <3>1. OldIn({NoOp, op}, next')
      BY <1>2, <2>1 DEF NoOp, OldIn
    <3> HIDE DEF op
    <3> QED BY <1>2, <1>5, <2>1, <3>1
  <2>3. OldEnds' /\ OldRecords'
    BY <1>2, <1>3, <1>4, <1>8, <2>1 DEF plugin, marks
  <2> HIDE DEF op
  <2> QED BY <1>1, <1>8, <2>2, <2>3 DEF Books, plugin, marks
<1>9. CASE NoResult \/ ClickCycle
  <2> DEFINE op == [id |-> next, kind |-> "cycle", of |-> born]
  <2>1. <<op>> \in Seq(Operation) /\ <<>> \in Seq(Operation) /\ Len(<<op>>) = 1 /\ Len(<<>>) = 0
    BY AnOperation, EmptySeq DEF PluginInv, Kinds, Script
  <2>2. op.id = next /\ op.kind # "rearm"
    OBVIOUS
  <2>3. (Submit(<<op>>) \/ Submit(<<>>)) /\ UNCHANGED <<scan, plugin, marks>>
    BY <1>9 DEF NoResult, ClickCycle
  <2> HIDE DEF op
  <2>4. PICK ops \in {<<op>>, <<>>} : Submit(ops)
    BY <2>3
  <2>5. /\ next' = next + Len(ops) /\ Ops' \subseteq Ops \cup Range(ops) /\ Ended /\ Len(ops) \in Nat
    BY <2>1, <2>4, SubmitSteps
  <2>6. \A o \in Range(ops) : o = op /\ Len(ops) = 1
    BY <2>1, <2>4, RangeOfOne DEF Range
  <2>7. OldOps'
    <3>2. ASSUME NEW o \in Range(ops) PROVE o.id \in Nat /\ o.id < next' /\ (o.kind = "rearm" => o.id # 1)
      <4>1. o.id = next /\ o.kind # "rearm" /\ next' = next + 1
        BY <2>2, <2>5, <2>6
      <4> QED BY <1>2, <4>1
    <3>1. OldIn(Range(ops), next')
      BY <3>2 DEF OldIn
    <3> QED BY <1>2, <1>5, <2>5, <3>1
  <2>8. OldEnds' /\ OldRecords'
    BY <1>2, <1>3, <1>4, <2>3, <2>5 DEF plugin, marks
  <2> QED BY <1>1, <2>3, <2>7, <2>8 DEF Books, plugin, marks
<1>10. CASE ApplyScan
  <2>1. PICK ops \in Seq(Operation) :
          /\ Submit(ops)
          /\ \A op \in Range(ops) : op.id \in next .. next + Len(ops) - 1 /\ (op.kind = "rearm" => op.id # 1)
          /\ dormant' \subseteq dormant \cup {next}
          /\ next \in dormant' => Len(ops) # 0 \/ next \in dormant
    BY <1>10, AppliesNumbered
  <2>2. disk' = dormant' /\ graced' = graced /\ slice' = slice /\ scan' = NoScan /\ ends' = {}
    BY <1>10, AppliesNumbered
  <2>3. /\ next' = next + Len(ops) /\ Ops' \subseteq Ops \cup Range(ops) /\ Ended /\ Len(ops) \in Nat
    BY <2>1, SubmitSteps
  <2>4. OldOps'
    <3>1. ASSUME NEW o \in Range(ops) PROVE o.id \in Nat
      <4>1. o \in Operation
        BY LenProperties DEF Range
      <4> QED BY <4>1 DEF Operation
    <3>2. ASSUME NEW o \in Range(ops) PROVE o.id < next' /\ (o.kind = "rearm" => o.id # 1)
      BY <1>2, <2>1, <2>3
    <3>4. ASSUME NEW o \in Range(ops) PROVE o.id \in Nat /\ o.id < next' /\ (o.kind = "rearm" => o.id # 1)
      BY <3>1, <3>2
    <3>3. OldIn(Range(ops), next')
      BY <3>4 DEF OldIn
    <3> QED BY <1>2, <1>5, <2>3, <3>3
  <2>5. OldEnds'
    BY <1>2, <1>3, <2>3
  <2>6. OldRecords'
    <3>1. graced' \cup scan'.judges \subseteq 0 .. next' - 1
      BY <1>2, <2>2, <2>3 DEF Books, OldRecords, NoScan
    <3>2. dormant' \subseteq 0 .. next' - 1 /\ 0 \notin dormant'
      BY <1>2, <2>1, <2>3 DEF Books, OldRecords
    <3> QED BY <3>1, <3>2 DEF OldRecords
  <2> QED BY <1>1, <2>2, <2>4, <2>5, <2>6 DEF Books
<1>11. CASE ScanDone \/ (\E d \in dormant : GraceEnds(d)) \/ UNCHANGED rvars
  <2>1. UNCHANGED <<asked, queue, coming, run, ends, next, dormant, disk, slice>>
    BY <1>11 DEF ScanDone, GraceEnds, rvars, vars, work, plugin, marks
  <2>2. OldOps' /\ OldEnds'
    BY <2>1 DEF Books, OldOps, OldIn, OldEnds, Ops
  <2>3. graced' \subseteq graced \cup dormant /\ scan'.judges \subseteq graced \cup scan.judges
    BY <1>11 DEF ScanDone, GraceEnds, rvars, plugin, marks
  <2>4. OldRecords'
    BY <2>1, <2>3 DEF Books, OldRecords
  <2> QED BY <1>1, <2>1, <2>2, <2>4 DEF Books
<1> QED BY <1>6, <1>7, <1>8, <1>9, <1>10, <1>11 DEF RNext, Comes, Elsewhere

-----------------------------------------------------------------------------
(* The first reclaim                                                        *)

\* Nothing that joins the queue gets in front of it but a message.
LEMMA BehindMore ==
    ASSUME NEW s \in Seq(Operation), NEW t \in Seq(Operation),
           Behind(s), \A op \in Range(t) : op.id # 1
    PROVE  Behind(s \o t)
<1>1. DOMAIN (s \o t) = 1 .. Len(s) + Len(t) /\ DOMAIN s = 1 .. Len(s) /\ DOMAIN t = 1 .. Len(t)
      /\ Len(s) \in Nat /\ Len(t) \in Nat
  BY ConcatProperties, LenProperties
<1>2. ASSUME NEW i \in DOMAIN (s \o t), NEW j \in DOMAIN (s \o t), i < j, (s \o t)[j].id = 1
      PROVE  (s \o t)[i].kind = "deliver"
  <2>1. j <= Len(s)
    <3> SUFFICES ASSUME j > Len(s) PROVE FALSE
      BY <1>1
    <3>1. j - Len(s) \in DOMAIN t /\ (s \o t)[j] = t[j - Len(s)]
      BY <1>1, ConcatProperties
    <3> QED BY <1>2, <3>1 DEF Range
  <2>2. i \in DOMAIN s /\ j \in DOMAIN s /\ (s \o t)[i] = s[i] /\ (s \o t)[j] = s[j]
    BY <1>1, <1>2, <2>1, ConcatProperties
  <2> QED BY <1>2, <2>2 DEF Behind
<1> QED BY <1>2 DEF Behind

LEMMA BehindBetween ==
    ASSUME NEW s \in Seq(Operation), NEW t \in Seq(Operation), NEW op \in Operation,
           Behind(s \o t), op.id # 1, op.kind = "deliver"
    PROVE  Behind((s \o <<op>>) \o t)
<1> DEFINE u == (s \o <<op>>) \o t
<1>1. /\ s \o <<op>> \in Seq(Operation) /\ Len(s \o <<op>>) = Len(s) + 1
      /\ Len(s) \in Nat /\ Len(t) \in Nat
      /\ \A i \in 1 .. Len(s) + 1 : (s \o <<op>>)[i] = IF i <= Len(s) THEN s[i] ELSE op
  BY ConcatProperties, LenProperties
<1>2. /\ DOMAIN u = 1 .. Len(s) + 1 + Len(t)
      /\ \A i \in DOMAIN u : u[i] = IF i <= Len(s) THEN s[i] ELSE IF i = Len(s) + 1 THEN op ELSE t[i - Len(s) - 1]
  <2>1. u \in Seq(Operation) /\ Len(u) = Len(s) + 1 + Len(t)
        /\ \A i \in 1 .. Len(s) + 1 + Len(t) :
              u[i] = IF i <= Len(s) + 1 THEN (s \o <<op>>)[i] ELSE t[i - (Len(s) + 1)]
    BY <1>1, ConcatProperties
  <2>2. DOMAIN u = 1 .. Len(s) + 1 + Len(t)
    BY <2>1, LenProperties
  <2> QED BY <1>1, <2>1, <2>2
<1>3. /\ DOMAIN (s \o t) = 1 .. Len(s) + Len(t)
      /\ \A i \in 1 .. Len(s) + Len(t) : (s \o t)[i] = IF i <= Len(s) THEN s[i] ELSE t[i - Len(s)]
  BY <1>1, ConcatProperties, LenProperties
<1> HIDE DEF u
<1> DEFINE at(i) == IF i <= Len(s) THEN i ELSE i - 1
<1>4. ASSUME NEW i \in DOMAIN u, i # Len(s) + 1
      PROVE  at(i) \in DOMAIN (s \o t) /\ u[i] = (s \o t)[at(i)]
  BY <1>1, <1>2, <1>3, <1>4
<1>5. ASSUME NEW i \in DOMAIN u, NEW j \in DOMAIN u, i < j, u[j].id = 1
      PROVE  u[i].kind = "deliver"
  <2>1. j # Len(s) + 1
    BY <1>1, <1>2, <1>5
  <2>2. CASE i = Len(s) + 1
    BY <1>1, <1>2, <2>2
  <2>3. CASE i # Len(s) + 1
    <3>1. at(i) < at(j)
      BY <1>1, <1>2, <1>5, <2>1, <2>3
    <3>2. /\ at(i) \in DOMAIN (s \o t) /\ u[i] = (s \o t)[at(i)]
          /\ at(j) \in DOMAIN (s \o t) /\ u[j] = (s \o t)[at(j)]
      BY <1>4, <2>1, <2>3
    <3> HIDE DEF at
    <3> QED BY <1>5, <3>1, <3>2 DEF Behind
  <2> QED BY <2>2, <2>3
<1> QED BY <1>5 DEF Behind, u

LEMMA BehindTail ==
    ASSUME NEW s \in Seq(Operation), s # <<>>, Behind(s)
    PROVE  /\ Behind(Tail(s))
           /\ (\E op \in Range(Tail(s)) : op.id = 1) => Head(s).kind = "deliver"
<1>1. /\ DOMAIN Tail(s) = 1 .. Len(s) - 1 /\ DOMAIN s = 1 .. Len(s) /\ Len(s) \in Nat \ {0}
      /\ \A i \in DOMAIN Tail(s) : Tail(s)[i] = s[i + 1] /\ i + 1 \in DOMAIN s
  BY HeadTailProperties, LenProperties, EmptySeq
<1>2. Behind(Tail(s))
  BY <1>1 DEF Behind
<1>3. Head(s) = s[1] /\ 1 \in DOMAIN s
  BY <1>1 DEF Head
<1>4. ASSUME NEW i \in DOMAIN Tail(s), Tail(s)[i].id = 1 PROVE Head(s).kind = "deliver"
  <2>1. i + 1 \in DOMAIN s /\ 1 < i + 1 /\ s[i + 1].id = 1
    BY <1>1, <1>4
  <2> QED BY <1>3, <2>1 DEF Behind
<1> QED BY <1>2, <1>4 DEF Range

LEMMA PumpWhole ==
    ASSUME RoomForAll, IInv, Pump
    PROVE  All = queue \o asked /\ ends' = ends
<1>1. Len(asked) \in Nat /\ asked \in Seq(Operation)
  BY LenProperties DEF IInv, QueueInv
<1>3. Room = Len(asked)
  BY DEF RoomForAll, Room
<1>4. SubSeq(asked, 1, Len(asked)) = asked
  BY <1>1, SubSeqFull
<1>5. {<<asked[i], "failed">> : i \in {j \in DOMAIN asked : j > Room}} = {}
  BY <1>1, <1>3, LenProperties
<1> QED BY <1>3, <1>4, <1>5 DEF All, Pump

\* A step that leaves the records and the scan alone, and goes on past the kill.
LEMMA FirstGoesOn ==
    ASSUME First, next' = next, Brings(NoOp), UNCHANGED <<scan, plugin, marks>>,
           NoWakeEnds', Ahead', Kills => Kills', Past' => agent' = 0 \/ Turned'
    PROVE  First'
<1>1. Recorded'
  BY DEF First, Recorded, plugin
<1>2. TheFirst'
  BY DEF First, TheFirst, Brings, NoOp
<1>3. Judged'
  BY DEF First, Judged, marks
<1> QED BY <1>1, <1>2, <1>3 DEF First

\* While it waits, what ends is not a wake; when it runs, nothing else ends.
LEMMA OthersEnd ==
    ASSUME First, Alive', run' = NoRun, coming' = NoOp, UNCHANGED <<asked, queue>>
    PROVE  Waits /\ Light(run.op) /\ ~Past /\ ~Kills
<1>1. Waits
  BY DEF Alive, Ops, Waits, NoRun, NoOp
<1>2. Light(coming) /\ Light(run.op)
  BY <1>1 DEF First, Ahead
<1>3. run.op.id = 1 => run.op.kind = "reclaim"
  BY DEF First, TheFirst, Ops
<1> QED BY <1>1, <1>2, <1>3 DEF Light, Kills, Past

\* A plugin's submission, under numbers of its own.
LEMMA FirstAndSubmit ==
    ASSUME IInv, First, NEW ops \in Seq(Operation), Submit(ops), \A op \in Range(ops) : op.id # 1
    PROVE  Ahead' /\ TheFirst'
<1>1. /\ asked' = asked \o ops /\ UNCHANGED <<queue, coming, run>>
      /\ Ops' \subseteq Ops \cup Range(ops)
  BY SubmitSteps
<1>2. asked \in Seq(Operation) /\ queue \in Seq(Operation)
  BY DEF IInv, QueueInv
<1>3. queue \o (asked \o ops) = (queue \o asked) \o ops /\ queue \o asked \in Seq(Operation)
  <2>1. queue \o (asked \o ops) = (queue \o asked) \o ops
    BY <1>2, ConcatAssociative
  <2>2. queue \o asked \in Seq(Operation)
    BY <1>2, ConcatProperties
  <2> QED BY <2>1, <2>2, Zenon
<1>4. Behind(queue' \o asked')
  BY <1>1, <1>3, BehindMore DEF First, Ahead
<1>5. Range(asked') \subseteq Range(asked) \cup Range(ops)
  BY <1>1, <1>2, RangeJoined
<1>6. Waits' => Waits
  BY <1>1, <1>5 DEF Waits
<1>7. TheFirst'
  BY <1>1 DEF First, TheFirst
<1> QED BY <1>1, <1>4, <1>6, <1>7 DEF First, Ahead

LEMMA FirstTicks ==
    ASSUME IInv, PluginInv, Typed, Books, First, Tick, UNCHANGED <<scan, plugin, marks>>, Alive', born = 1
    PROVE  First'
<1>1. /\ UNCHANGED <<asked, queue, next, open, agent, born>> /\ coming' = NoOp
      /\ run' = NoRun \/ (Current # NoRun /\ Current.out = "none" /\ Onto(run'))
      /\ ends' = ends \/ (run # NoRun /\ run' = NoRun /\ \E out : ends' = ends \cup {<<run.op, out>>})
  BY TickLeaves, TickMoves
<1>2. Brings(NoOp)
  BY QueueSteps
<1>3. CASE run' = NoRun
  <2>1. Waits /\ Light(run.op) /\ ~Past /\ ~Kills
    BY <1>1, <1>3, OthersEnd
  <2>2. NoWakeEnds'
    BY <1>1, <2>1 DEF First, NoWakeEnds, Light
  <2>3. Ahead'
    BY <1>1, <1>3 DEF First, Ahead, Waits, Light, NoRun, NoOp
  <2>4. ~Past' /\ ~Kills'
    BY <1>3 DEF Kills, Past, NoRun, NoOp
  <2> QED BY <1>1, <1>2, <2>1, <2>2, <2>3, <2>4, FirstGoesOn
<1>4. CASE run' # NoRun
  <2>1. Current # NoRun /\ Current.out = "none" /\ Onto(run') /\ ends' = ends
    BY <1>1, <1>4
  <2>2. /\ Progress(Started)
        /\ \/ Registers /\ Started.op = coming /\ (coming.kind # "rearm" => Started.at = 1)
           \/ ~Registers /\ run # NoRun /\ Started.op = run.op /\ Started.at = run.at
    BY <2>1, StartedProgress
  <2>3. run'.op \in {coming, run.op} /\ run'.op = Started.op /\ run'.at \in {Started.at, Started.at + 1}
        /\ Started.at \in Nat
    BY <2>1, <2>2 DEF Onto, Progress
  <2>4. NoWakeEnds'
    BY <2>1 DEF First, NoWakeEnds
  <2>5. Ahead'
    BY <1>1, <2>3 DEF First, Ahead, Waits, Light, NoOp
  <2>6. Kills => Kills'
    <3>1. ASSUME Kills PROVE ~Registers
      BY <3>1 DEF Kills, Past, Registers, NoRun, NoOp
    <3>2. ASSUME Kills PROVE run'.op = run.op /\ run'.at >= run.at /\ run.at \in Nat /\ run'.at \in Nat
      BY <2>2, <2>3, <3>1, <3>2
    <3> QED BY <1>1, <3>2 DEF Kills, Past
  <2>7. ASSUME Past' PROVE agent' = 0 \/ Turned'
    <3>1. Started.op.id = 1 /\ run'.at > 3
      BY <2>3, <2>7 DEF Past
    <3>2. Started.op.kind = "reclaim" /\ Started.op.of = 1
      BY <2>2, <3>1 DEF First, TheFirst, Ops
    <3>3. ~Registers
      BY <2>2, <2>3, <3>1, <3>2
    <3>4. Started.op = run.op /\ Started.at = run.at /\ run.out = "none"
      BY <2>1, <2>2, <3>3 DEF Current
    <3>5. CASE run.at > 3
      BY <1>1, <3>1, <3>4, <3>5 DEF First, Judged, Past, Turned
    <3>6. CASE ~(run.at > 3)
      <4>1. Started.at = 3 /\ run'.at = 4
        BY <2>3, <3>1, <3>4, <3>6
      <4>2. agent # 1 \/ run'.out # "none"
        BY <2>1, <3>2, <4>1 DEF Onto
      <4> QED BY <1>1, <4>1, <4>2 DEF Books, PluginInv, Turned
    <3> QED BY <3>5, <3>6
  <2> QED BY <1>1, <1>2, <2>4, <2>5, <2>6, <2>7, FirstGoesOn
<1> QED BY <1>3, <1>4

LEMMA FirstPumped ==
    ASSUME RoomForAll, IInv, PluginInv, Typed, Books, First, Pump,
           UNCHANGED <<scan, plugin, marks>>
    PROVE  First'
<1>1. All = queue \o asked /\ ends' = ends /\ All \in Seq(Operation)
  BY PumpWhole, AllFits DEF IInv
<1>2. Brings(NoOp) /\ next' = next /\ run' = run /\ agent' = agent /\ asked' = <<>>
  BY QueueSteps DEF Pump, prog
<1>3. coming = NoOp /\ Range(asked') = {}
  BY <1>2 DEF Pump, IInv, PollInv, Range
<1>4. queue' \in Seq(Operation) => queue' \o asked' = queue'
  BY <1>2, ConcatEmptySeq
<1>5. Ahead'
  <2>1. CASE Kept = 0 /\ All # <<>>
    <3>1. queue' = Tail(All) /\ coming' = Head(All) /\ run' = NoRun
      <4>1. queue' = Tail(All) /\ coming' = Head(All)
        BY <2>1 DEF Pump
      <4>2. Head(All) \in Operation
        BY <1>1, <2>1, HeadTailProperties
      <4>3. coming' # NoOp
        BY <4>1, <4>2 DEF NoOp, Operation
      <4>4. IInv'
        BY PumpKeeps
      <4> QED BY <4>1, <4>3, <4>4 DEF IInv, SlotIsSession
    <3>2. Behind(Tail(All)) /\ ((\E op \in Range(Tail(All)) : op.id = 1) => Head(All).kind = "deliver")
      BY <1>1, <2>1, BehindTail DEF First, Ahead
    <3>3. Tail(All) \in Seq(Operation)
      BY <1>1, <2>1, HeadTailProperties
    <3>4. Waits' => Light(coming')
      BY <1>3, <3>1, <3>2 DEF Waits, Light
    <3>5. Light(run'.op)
      BY <3>1 DEF Light, NoRun, NoOp
    <3>6. Behind(queue' \o asked')
      BY <1>4, <3>1, <3>2, <3>3
    <3> QED BY <3>4, <3>5, <3>6 DEF Ahead
  <2>2. CASE ~(Kept = 0 /\ All # <<>>)
    <3>1. queue' = All /\ coming' = coming
      BY <2>2 DEF Pump
    <3>2. Behind(queue' \o asked')
      BY <1>1, <1>4, <3>1 DEF First, Ahead
    <3>3. Range(queue') \subseteq Range(queue) \cup Range(asked)
      BY <1>1, <3>1, RangeJoined DEF IInv, QueueInv
    <3>4. Waits' => Waits
      BY <1>3, <3>3 DEF Waits
    <3> QED BY <1>2, <3>1, <3>2, <3>4 DEF First, Ahead
  <2> QED BY <2>1, <2>2
<1>6. Kills' = Kills /\ Past' = Past /\ Turned' = Turned /\ NoWakeEnds'
  BY <1>1, <1>2 DEF Kills, Past, Turned, First, NoWakeEnds
<1>7. Past' => agent' = 0 \/ Turned'
  BY <1>2, <1>6 DEF First, Judged
<1> QED BY <1>2, <1>5, <1>6, <1>7, FirstGoesOn

\* The scan that goes on while the first reclaim waits or runs.
LEMMA FirstSeesScan ==
    ASSUME IInv, PluginInv, Books, First, 1 < next, ApplyScan
    PROVE  First'
<1> DEFINE one == [id |-> next, kind |-> "reclaim", of |-> agent]
<1>1. WakeEnds = {} /\ ~Failed /\ ~Unarmed
  <2>1. WakeEnds = {}
    BY DEF First, NoWakeEnds, WakeEnds
  <2> QED BY <2>1 DEF Failed, Unarmed
<1>2. PICK fires \in {FALSE, Reclaims} :
        /\ Submit(IF fires THEN <<one>> ELSE <<>>)
        /\ dormant' = {d \in dormant \cup (IF fires THEN {next} ELSE {}) : ~Over(d)}
        /\ (dormant' # {} => armed') /\ ends' = {}
  BY <1>1, NothingToRearm DEF First, Recorded
<1>3. scan' = NoScan /\ UNCHANGED <<graced, run, agent>>
  BY DEF ApplyScan, Submit, marks, prog
<1>4. one \in Operation /\ one.id = next
  BY DEF PluginInv, Operation, Kinds, Script
<1> HIDE DEF one
<1>5. PICK ops \in {<<one>>, <<>>} : Submit(ops) /\ ops = IF fires THEN <<one>> ELSE <<>>
  BY <1>2
<1>6. ops \in Seq(Operation) /\ Len(ops) = (IF fires THEN 1 ELSE 0)
  BY <1>4, <1>5, EmptySeq
<1>7. \A op \in Range(ops) : op.id # 1
  BY <1>4, <1>5, RangeOfOne DEF Range
<1>8. Ahead' /\ TheFirst'
  BY <1>5, <1>6, <1>7, FirstAndSubmit
<1>9. Recorded'
  <2>1. 1 \in dormant /\ ~Over(1)
    BY DEF First, Recorded, Judged, Over
  <2>2. 1 \in dormant' /\ armed'
    BY <1>2, <2>1
  <2> QED BY <2>2 DEF Recorded
<1>10. NoWakeEnds'
  BY <1>2 DEF NoWakeEnds
<1>11. Judged'
  BY <1>3 DEF First, Judged, Kills, Past, Turned, NoScan
<1> QED BY <1>8, <1>9, <1>10, <1>11 DEF First

\* The scan that submits it.
LEMMA FirstIsMade ==
    ASSUME IInv, PluginInv, Typed, Books, ApplyScan, ~Alive, Alive', born = 1
    PROVE  First'
<1> DEFINE one == [id |-> next, kind |-> "reclaim", of |-> agent]
<1>1. next = 1
  <2>1. PICK ops \in Seq(Operation) :
          /\ Submit(ops)
          /\ \A op \in Range(ops) : op.id \in next .. next + Len(ops) - 1 /\ (op.kind = "rearm" => op.id # 1)
          /\ dormant' \subseteq dormant \cup {next}
          /\ next \in dormant' => Len(ops) # 0 \/ next \in dormant
    BY AppliesNumbered
  <2>2. Ops' \subseteq Ops \cup Range(ops)
    BY <2>1, SubmitSteps
  <2> QED BY <2>1, <2>2 DEF Alive, PluginInv
<1>2. dormant = {} /\ ends = {} /\ 1 \notin graced \cup scan.judges
  BY <1>1 DEF Books, OldRecords, OldEnds
<1>3. WakeEnds = {} /\ ~Failed /\ ~Unarmed
  <2>1. WakeEnds = {}
    BY <1>2 DEF WakeEnds
  <2> QED BY <2>1 DEF Failed, Unarmed
<1>4. PICK fires \in {FALSE, Reclaims} :
        /\ Submit(IF fires THEN <<one>> ELSE <<>>)
        /\ dormant' = {d \in IF fires THEN {next} ELSE {} : ~Over(d)}
        /\ (dormant' # {} => armed') /\ ends' = {}
  BY <1>2, <1>3, NothingToRearm
<1>5. one \in Operation /\ one.id = 1 /\ one.kind = "reclaim" /\ one.of = agent
  BY <1>1 DEF PluginInv, Operation, Kinds, Script
<1>6. scan' = NoScan /\ UNCHANGED <<graced, run, agent>>
  BY DEF ApplyScan, Submit, marks, prog
<1> HIDE DEF one
<1>7. fires
  <2> SUFFICES ASSUME ~fires PROVE FALSE
    OBVIOUS
  <2>1. <<>> \in Seq(Operation) /\ Submit(<<>>) /\ Range(<<>>) = {}
    BY <1>4, EmptySeq DEF Range
  <2>2. Ops' \subseteq Ops
    BY <2>1, SubmitSteps
  <2> QED BY <2>2 DEF Alive
<1>18. Reclaims
  BY <1>7, Zenon
<1>8. /\ <<one>> \in Seq(Operation) /\ Submit(<<one>>) /\ Len(<<one>>) = 1
  BY <1>4, <1>5, <1>7
<1>9. /\ asked' = asked \o <<one>> /\ next' = 2 /\ UNCHANGED <<queue, coming, run>>
      /\ Ops' \subseteq Ops \cup {one}
  <2>1. /\ asked' = asked \o <<one>> /\ next' = next + Len(<<one>>) /\ UNCHANGED <<queue, coming, run>>
        /\ Ops' \subseteq Ops \cup Range(<<one>>)
    BY <1>8, SubmitSteps
  <2> QED BY <1>1, <1>8, <2>1, RangeOfOne
<1>10. \A o \in Ops : o.id = 0
  BY <1>1 DEF Books, OldOps, OldIn
<1>11. asked = <<>> /\ queue = <<>>
  <2>1. asked \in Seq(Operation) /\ queue \in Seq(Operation)
    BY DEF IInv, QueueInv
  <2>2. DOMAIN asked = {} /\ DOMAIN queue = {}
    BY <1>10, <2>1, WaitingIsThere
  <2>3. \A s \in Seq(Operation) : DOMAIN s = {} => s = <<>>
    BY EmptySeq, LenProperties
  <2> QED BY <2>1, <2>2, <2>3
<1>12. coming = NoOp /\ run = NoRun
  <2>1. coming \in Ops /\ run.op \in Ops
    BY DEF Ops
  <2> QED BY <1>10, <2>1 DEF IInv, PollInv, IsRun
<1>13. Recorded'
  <2>1. ~Over(1)
    BY <1>2 DEF Over
  <2>2. 1 \in dormant' /\ armed'
    BY <1>1, <1>4, <1>7, <2>1
  <2> QED BY <2>2 DEF Recorded
<1>14. NoWakeEnds'
  BY <1>4 DEF NoWakeEnds
<1>15. Ahead'
  <2>1. queue' \o asked' = <<one>>
    BY <1>8, <1>9, <1>11, EmptySeq, ConcatEmptySeq
  <2>2. Behind(<<one>>)
    BY DEF Behind
  <2>3. Light(coming') /\ Light(run'.op)
    BY <1>9, <1>12 DEF Light, NoRun, NoOp
  <2> QED BY <2>1, <2>2, <2>3 DEF Ahead
<1>16. TheFirst'
  <2>1. agent = 1
    BY <1>18 DEF Reclaims, Books, PluginInv
  <2> QED BY <1>5, <1>9, <1>10, <2>1 DEF TheFirst
<1>17. Judged'
  BY <1>2, <1>6, <1>12 DEF Judged, Kills, Past, Turned, NoScan, NoRun, NoOp
<1> QED BY <1>13, <1>14, <1>15, <1>16, <1>17 DEF First

LEMMA FirstStays ==
    ASSUME RoomForAll, IInv, PluginInv, Typed, Books, Alive /\ open /\ born = 1 => First,
           [RNext]_rvars, Alive', open', born' = 1
    PROVE  First'
<1>1. [Next]_vars
  BY RefinesStep
<1>2. open /\ born = 1 /\ agent' \in {agent, 0}
  BY <1>1, PaneMoves DEF PluginInv, Books
<1>3. ASSUME Alive PROVE First /\ next \in Nat /\ 1 < next
  BY <1>2, <1>3 DEF Alive, Books, OldOps, OldIn, PluginInv
<1>4. ASSUME NEW op, Brings(op), op.kind # "reclaim" PROVE Alive
  BY <1>4 DEF Brings, Alive, NoOp
<1>5. ASSUME Tick \/ Wake \/ Clock \/ Pump \/ Escape \/ Forget \/ Restart \/ World
      PROVE  Brings(NoOp) /\ next' = next /\ First
  BY <1>3, <1>4, <1>5, QueueSteps DEF NoOp
<1>6. CASE ScanDone
  <2>1. UNCHANGED <<asked, queue, coming, run, ends, next, agent, dormant, armed, graced>>
        /\ scan' = [agent |-> agent, idle |-> idle, open |-> open, judges |-> graced]
    BY <1>6 DEF ScanDone, vars, work, prog, plugin, marks
  <2>2. First
    BY <1>3, <2>1 DEF Alive, Ops
  <2>3. Recorded' /\ NoWakeEnds' /\ Ahead' /\ TheFirst'
    BY <2>1, <2>2 DEF First, Recorded, NoWakeEnds, Ahead, Behind, Waits, Light, TheFirst, Ops
  <2>4. Judged'
    BY <1>2, <2>1, <2>2 DEF First, Judged, Kills, Past, Turned
  <2> QED BY <2>3, <2>4 DEF First
<1>7. CASE \E d \in dormant : GraceEnds(d)
  <2>1. PICK d \in dormant : GraceEnds(d)
    BY <1>7
  <2>2. UNCHANGED <<asked, queue, coming, run, ends, next, agent, dormant, armed, scan>>
        /\ graced' = graced \cup {d} /\ pc = "plugins"
    BY <2>1 DEF GraceEnds, Between, vars, work, prog, plugin
  <2>3. First /\ Alive
    <3>1. Alive
      BY <2>2 DEF Alive, Ops
    <3> QED BY <1>3, <3>1
  <2>4. Recorded' /\ NoWakeEnds' /\ Ahead' /\ TheFirst'
    BY <2>2, <2>3 DEF First, Recorded, NoWakeEnds, Ahead, Behind, Waits, Light, TheFirst, Ops
  <2>5. d = 1 => Kills
    <3> SUFFICES ASSUME d = 1 PROVE Kills
      OBVIOUS
    <3>1. coming = NoOp
      BY <2>2 DEF IInv, PollInv
    <3>2. ~Waits
      <4>1. ASSUME NEW i \in DOMAIN asked, asked[i].id = 1 PROVE FALSE
        BY <2>1, <4>1 DEF GraceEnds
      <4>2. ASSUME NEW i \in DOMAIN queue, queue[i].id = 1 PROVE FALSE
        <5>1. Takes(run.op.kind) /\ run.at > 2
          BY <2>1, <4>2 DEF GraceEnds
        <5>2. Light(run.op)
          BY <2>3, <4>2 DEF First, Ahead, Waits, Range
        <5>3. run.op.kind = "none"
          BY <5>1, <5>2 DEF Light, Takes
        <5>4. run = NoRun
          BY <5>3 DEF Typed, Progress, Operation, Kinds, Script
        <5> QED BY <5>1, <5>4 DEF NoRun
      <4> QED BY <4>1, <4>2 DEF Waits, Range
    <3>3. run.op.id = 1 /\ run.op.kind = "reclaim"
      BY <2>3, <3>1, <3>2 DEF Alive, Waits, Ops, NoOp
    <3>4. run # NoRun /\ run.at \in Nat \ {0}
      BY <3>3 DEF Typed, Progress, NoRun, NoOp
    <3>5. StepOf(run) \notin {"capture", "settle", "terminate"}
      BY <2>1, <3>3 DEF GraceEnds, Killing
    <3>6. ~(run.at \in 1 .. 3)
      BY <3>3, <3>4, <3>5 DEF StepOf, Script
    <3>7. Past
      BY <3>3, <3>4, <3>6 DEF Past
    <3>8. ~Turned
      <4>1. StepOf(run) \notin {"await_user", "stop_if_process"} \/ run.out = "none"
        BY <2>1, <3>3 DEF GraceEnds, Killing, Refused
      <4> QED BY <3>3, <3>4, <4>1 DEF StepOf, Script, Turned
    <3> QED BY <2>3, <3>7, <3>8 DEF Kills, First, Judged
  <2>6. Judged'
    BY <2>2, <2>3, <2>5 DEF First, Judged, Kills, Past, Turned
  <2> QED BY <2>4, <2>6 DEF First
<1>8. CASE ApplyScan
  <2>1. CASE Alive
    BY <1>3, <1>8, <2>1, FirstSeesScan
  <2>2. CASE ~Alive
    BY <1>2, <1>8, <2>2, FirstIsMade
  <2> QED BY <2>1, <2>2
<1>9. CASE NoResult \/ ClickCycle
  <2> DEFINE op == [id |-> next, kind |-> "cycle", of |-> born]
  <2>1. <<op>> \in Seq(Operation) /\ <<>> \in Seq(Operation) /\ Len(<<op>>) = 1 /\ Len(<<>>) = 0
    BY AnOperation, EmptySeq DEF PluginInv, Kinds, Script
  <2>2. op.id = next /\ op.kind = "cycle"
    OBVIOUS
  <2>3. (Submit(<<op>>) \/ Submit(<<>>)) /\ UNCHANGED <<scan, plugin, marks>>
    BY <1>9 DEF NoResult, ClickCycle
  <2> HIDE DEF op
  <2>4. PICK ops \in {<<op>>, <<>>} : Submit(ops)
    BY <2>3
  <2>5. /\ next' = next + Len(ops) /\ Ops' \subseteq Ops \cup Range(ops) /\ ops \in Seq(Operation)
        /\ UNCHANGED <<run, agent>>
    BY <2>1, <2>4, SubmitSteps
  <2>6. \A o \in Range(ops) : o = op
    BY <2>4, RangeOfOne DEF Range
  <2>7. Alive
    BY <2>2, <2>5, <2>6 DEF Alive
  <2>8. Ahead' /\ TheFirst'
    BY <1>3, <2>2, <2>4, <2>5, <2>6, <2>7, FirstAndSubmit
  <2>10. ends' \subseteq ends
    BY <2>4 DEF Submit
  <2>11. Recorded' /\ NoWakeEnds' /\ Judged'
    BY <1>3, <2>3, <2>5, <2>7, <2>10 DEF First, Recorded, NoWakeEnds, Judged, Kills, Past, Turned, plugin, marks
  <2> QED BY <2>8, <2>11 DEF First
<1>10. CASE Comes \/ (Clock /\ UNCHANGED <<scan, plugin, marks>>)
  <2>1. /\ run # NoRun /\ run' # NoRun /\ Progress(run') /\ run'.op = run.op
        /\ run'.at = run.at \/ (run'.at = run.at + 1 /\ Parked(run))
        /\ run.out # "none" => run'.out # "none"
        /\ UNCHANGED <<asked, queue, coming, ends, next, agent>>
    BY <1>10, MovesAlong DEF Comes
  <2>2. First /\ Brings(NoOp) /\ UNCHANGED <<scan, plugin, marks>>
    BY <1>5, <1>10 DEF Comes
  <2>3. Ahead' /\ NoWakeEnds'
    BY <2>1, <2>2 DEF First, Ahead, Waits, Light, NoWakeEnds
  <2>4. run.at \in Nat
    BY <2>1 DEF Typed, Progress
  <2>5. Kills => Kills'
    BY <2>1, <2>4 DEF Kills, Past
  <2>7. Past' => agent' = 0 \/ Turned'
    <3> SUFFICES ASSUME Past' PROVE agent' = 0 \/ Turned'
      OBVIOUS
    <3>1. run.op.id = 1 /\ run.op.kind = "reclaim"
      BY <2>1, <2>2 DEF Past, First, TheFirst, Ops
    <3>2. run.at \in {3, 5} => ~Parked(run)
      BY <2>1, <3>1 DEF Parked, StepOf, Script
    <3>3. run.at > 3
      BY <2>1, <2>4, <3>2 DEF Past
    <3>4. agent = 0 \/ Turned
      BY <2>2, <3>1, <3>3 DEF First, Judged, Past
    <3> QED BY <2>1, <2>4, <3>2, <3>4 DEF Turned
  <2> QED BY <2>1, <2>2, <2>3, <2>5, <2>7, FirstGoesOn
<1>11. CASE Reexec
  <2>1. asked' = <<>> /\ queue' = <<>> /\ coming' = NoOp /\ run' = NoRun
    BY <1>11 DEF Reexec, Restart
  <2> QED BY <2>1 DEF Alive, Ops, Range, NoRun, NoOp
<1>12. CASE CliSend /\ MaySubmit /\ UNCHANGED <<scan, plugin, marks>>
  <2> DEFINE op == [id |-> next, kind |-> "deliver", of |-> 0]
  <2>1. /\ op \in Operation /\ queue' = queue \o <<op>> /\ next' = next + 1 /\ Brings(op)
        /\ UNCHANGED <<asked, coming, run, ends, agent>>
    BY <1>12, CliSteps
  <2>2. op.id = next /\ op.kind = "deliver"
    OBVIOUS
  <2> HIDE DEF op
  <2>3. Alive
    BY <1>4, <2>1, <2>2
  <2>4. First /\ next \in Nat /\ 1 < next
    BY <1>3, <2>3
  <2>5. asked \in Seq(Operation) /\ queue \in Seq(Operation) /\ <<op>> \in Seq(Operation)
    BY <2>1 DEF IInv, QueueInv
  <2>6. Behind(queue' \o asked')
    BY <2>1, <2>2, <2>4, <2>5, BehindBetween DEF First, Ahead
  <2>7. Range(queue') \subseteq Range(queue) \cup {op}
    BY <2>1, <2>5, RangeJoined, RangeOfOne
  <2>8. Waits' => Waits
    BY <2>1, <2>2, <2>4, <2>7 DEF Waits
  <2>9. Ahead'
    BY <2>1, <2>4, <2>6, <2>8 DEF First, Ahead
  <2>10. TheFirst'
    BY <2>1, <2>2, <2>4 DEF First, TheFirst, Brings, NoOp
  <2>12. Recorded' /\ NoWakeEnds' /\ Judged'
    BY <1>12, <2>1, <2>4 DEF First, Recorded, NoWakeEnds, Judged, Kills, Past, Turned, plugin, marks
  <2> QED BY <2>9, <2>10, <2>12 DEF First
<1>13. CASE Tick /\ UNCHANGED <<scan, plugin, marks>>
  BY <1>2, <1>5, <1>13, FirstTicks
<1>14. CASE Pump /\ UNCHANGED <<scan, plugin, marks>>
  BY <1>5, <1>14, FirstPumped
<1>15. CASE Escape /\ UNCHANGED <<scan, plugin, marks>>
  <2>1. First /\ Brings(NoOp) /\ next' = next
    BY <1>5, <1>15
  <2>2. /\ UNCHANGED <<asked, queue, coming, agent>> /\ coming = NoOp
    BY <1>15 DEF Escape, IInv, PollInv, prog
  <2>3. CASE run = NoRun
    <3>1. UNCHANGED <<run, ends>>
      BY <1>15, <2>3 DEF Escape
    <3>2. Ahead' /\ NoWakeEnds' /\ Kills' = Kills /\ Past' = Past /\ Turned' = Turned
      BY <2>1, <2>2, <3>1 DEF First, Ahead, Waits, Light, NoWakeEnds, Kills, Past, Turned
    <3>3. Past' => agent' = 0 \/ Turned'
      BY <2>1, <2>2, <3>2 DEF First, Judged
    <3> QED BY <1>15, <2>1, <3>2, <3>3, FirstGoesOn
  <2>4. CASE run # NoRun
    <3>1. run' = NoRun /\ \E out : ends' = ends \cup {<<run.op, out>>}
      BY <1>15, <2>4 DEF Escape, EndSession
    <3>2. Waits /\ Light(run.op) /\ ~Past /\ ~Kills
      BY <2>1, <2>2, <3>1, OthersEnd
    <3>3. NoWakeEnds'
      BY <2>1, <3>1, <3>2 DEF First, NoWakeEnds, Light
    <3>4. Ahead' /\ ~Past' /\ ~Kills'
      BY <2>1, <2>2, <3>1 DEF First, Ahead, Waits, Light, Kills, Past, NoRun, NoOp
    <3> QED BY <1>15, <2>1, <3>2, <3>3, <3>4, FirstGoesOn
  <2> QED BY <2>3, <2>4
<1>16. CASE Forget
  BY <1>2, <1>16 DEF Forget, Closed
<1>17. CASE World /\ UNCHANGED <<scan, plugin, marks>>
  <2>1. First /\ Brings(NoOp) /\ next' = next
    BY <1>5, <1>17
  <2>2. UNCHANGED <<asked, queue, coming, run, ends>>
    BY <1>17 DEF World, CoreGone, CoreBack, AgentStarts, AgentRefuses, AgentDraws, AgentRests,
       AgentExits, PersonStartsAgent, PaneCloses, work
  <2>3. Ahead' /\ NoWakeEnds' /\ (Kills => Kills') /\ Past' = Past /\ Turned' = Turned
    BY <1>2, <2>1, <2>2 DEF First, Ahead, Waits, Light, NoWakeEnds, Kills, Past, Turned
  <2>4. Past' => agent' = 0 \/ Turned'
    BY <1>2, <2>1, <2>3 DEF First, Judged
  <2> QED BY <1>17, <2>1, <2>3, <2>4, FirstGoesOn
<1>18. CASE UNCHANGED rvars
  <2>1. UNCHANGED <<asked, queue, coming, run, ends, next, agent, dormant, armed, graced, scan>>
    BY <1>18 DEF rvars, vars, work, prog, plugin, marks
  <2>2. First
    BY <1>3, <2>1 DEF Alive, Ops
  <2>3. Recorded' /\ NoWakeEnds' /\ Ahead' /\ TheFirst' /\ Judged'
    BY <2>1, <2>2 DEF First, Recorded, NoWakeEnds, Ahead, Waits, Light, TheFirst, Ops, Judged, Kills, Past, Turned
  <2> QED BY <2>3 DEF First
<1> QED
  BY <1>6, <1>7, <1>8, <1>9, <1>10, <1>11, <1>12, <1>13, <1>14, <1>15, <1>16, <1>17, <1>18
     DEF RNext, Elsewhere

\* While the pane's queue refuses nothing, a pane asleep behind its
\* first reclaim is in dormant.tsv, whatever the scans around the kill still
\* showed, and whatever else was submitted, ended or lost in the meantime
\* (run_idle_policy_at, rearm_dormant, KILL_GRACE).
THEOREM SleeperIsRecorded == RSpec /\ []RoomForAll => []ParkedIsRecorded
<1>1. RInit => FirstInv
  <2> SUFFICES ASSUME RInit PROVE FirstInv
    OBVIOUS
  <2>1. /\ coming = NoOp /\ run = NoRun /\ asked = <<>> /\ queue = <<>> /\ ends = {} /\ next = 1
        /\ agent = 1 /\ born = 1
        /\ dormant = {} /\ disk = {} /\ graced = {} /\ scan = NoScan /\ slice \in Slices
    BY DEF RInit, Init
  <2>2. Ops = {NoOp}
    BY <2>1, NothingRuns DEF Ops, Range
  <2>3. ~Alive
    BY <2>2 DEF Alive, NoOp
  <2>4. OldRecords /\ OldOps /\ OldEnds
    BY <2>1, <2>2 DEF OldRecords, OldOps, OldIn, OldEnds, NoScan, NoOp
  <2>5. Books
    BY <2>1, <2>4, EmptySeq DEF Books
  <2> QED BY <2>1, <2>3, <2>5 DEF FirstInv, Typed
<1>2. RoomForAll /\ IInv /\ PluginInv /\ FirstInv /\ [RNext]_rvars => FirstInv'
  BY TypedStays, BooksStay, FirstStays DEF FirstInv
<1>3. FirstInv => ParkedIsRecorded
  <2> SUFFICES ASSUME FirstInv, Parked(run), run.op.id = 1, born = 1, open PROVE disk # {}
    BY DEF ParkedIsRecorded
  <2>1. run # NoRun /\ run.op \in Operation /\ run.at \in Nat \ {0} /\ run.op \in Ops
    BY DEF FirstInv, Typed, Progress, NoRun, NoOp, Ops
  <2>2. run.op.kind # "rearm"
    BY <2>1 DEF FirstInv, Books, OldOps, OldIn
  <2>3. run.op.kind = "reclaim"
    <3>1. run.op.kind \in {"reclaim", "rearm", "cycle", "deliver"}
      BY <2>1 DEF Operation, Kinds, Script
    <3>2. CASE run.op.kind = "cycle"
      <4>1. run.at \in 1 .. 10
        BY <2>1, <3>2 DEF Parked, StepOf, Script
      <4> QED BY <2>1, <3>2, <4>1 DEF Parked, StepOf, Script
    <3>3. CASE run.op.kind = "deliver"
      <4>1. run.at \in 1 .. 2
        BY <2>1, <3>3 DEF Parked, StepOf, Script
      <4> QED BY <2>1, <3>3, <4>1 DEF Parked, StepOf, Script
    <3> QED BY <2>2, <3>1, <3>2, <3>3
  <2>4. Alive
    BY <2>1, <2>3 DEF Alive
  <2> QED BY <2>4 DEF FirstInv, First, Recorded, Books
<1>4. Spec => []IInv
  BY Starts, StepKeeps, PTL DEF Spec
<1> QED BY <1>1, <1>2, <1>3, <1>4, ReclaimerIsAPlugin, PTL DEF RSpec
=============================================================================
