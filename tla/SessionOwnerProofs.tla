------------------------- MODULE SessionOwnerProofs -------------------------
(***************************************************************************)
(* For every number of sessions, processes, directories, cores, gestures   *)
(* and mishaps: no two processes are in charge of one session directory, a *)
(* new session has a number of its own, the sweep at a boot retires no     *)
(* directory of a session that the saved layout names, and a boot shows    *)
(* every session that it found served and that is served when it ends.     *)
(***************************************************************************)
EXTENDS SessionOwner, TLAPS, WellFoundedInduction

Phases == {"unborn", "forked", "opened", "bound", "serving", "leaving", "gone"}
Procs == [pc : Phases, sid : Sids \cup {0}, home : 0 .. MaxNodes, lock : {0, 1}]
NodeStates == [made : {0, 1}, entry : 0 .. MaxPids, sock : 0 .. MaxPids]

Typed == /\ proc \in [Pids -> Procs]
         /\ node \in [Nodes -> NodeStates]
         /\ dir \in [Sids -> 0 .. MaxNodes]

Running(p) == proc[p].pc \notin {"unborn", "gone"}

\* A process that was started has a session, one with a directory made it or
\* found it made, and holds its lock for as long as it runs.
LocksHeld ==
    /\ \A p \in Pids : Running(p) => proc[p].sid \in Sids
    /\ \A p \in Pids : proc[p].home # 0 => node[proc[p].home].made = 1
    /\ \A p \in Pids : proc[p].home # 0 /\ Running(p) => proc[p].lock = 1

\* OneServes, process by process
Alone == \A p, q \in Pids :
    Running(p) /\ Running(q) /\ proc[p].home = proc[q].home /\ proc[p].home # 0 => p = q

IInv == Typed /\ LocksHeld /\ Alone

\* Directories are made and never unmade.
MadeKept == /\ node' \in [Nodes -> NodeStates]
            /\ \A n \in Nodes : node[n].made = 1 => node'[n].made = 1

\* A process stays where it is, is started, or moves on with what it holds.
Quiet(p) ==
    \/ proc'[p] = proc[p]
    \/ /\ proc[p].pc = "unborn"
       /\ \E s \in Sids : proc'[p] = [pc |-> "forked", sid |-> s, home |-> 0, lock |-> 0]
    \/ /\ Running(p) \/ proc'[p].pc = "gone"
       /\ \E c \in Phases \ {"unborn"} : proc'[p] = [proc[p] EXCEPT !.pc = c]

LEMMA Bounded == MaxPids \in Nat /\ MaxNodes \in Nat
BY BoundsAssumption

LEMMA PidsPositive == \A p \in Pids : p # 0
BY Bounded DEF Pids

LEMMA NodesPositive == \A n \in Nodes : n # 0 /\ n \in 0 .. MaxNodes
BY Bounded DEF Nodes

LEMMA ProcParts == \A r \in Procs : /\ r.pc \in Phases /\ r.sid \in Sids \cup {0}
                                    /\ r.home \in 0 .. MaxNodes /\ r.lock \in {0, 1}
BY DEF Procs

\* What is put at a path is a directory, and a new one is nobody's yet.
LEMMA NodePut ==
    ASSUME Typed, NEW s \in Sids, NEW n \in NodeAt(s)
    PROVE  n \in Nodes /\ (dir[s] = 0 => node[n].made = 0) /\ (dir[s] # 0 => n = dir[s])
BY Bounded DEF Typed, NodeAt, Nodes

\* Steps that only move processes on keep the invariant.
LEMMA QuietStep ==
    ASSUME IInv, MadeKept, proc' \in [Pids -> Procs], dir' \in [Sids -> 0 .. MaxNodes],
           \A p \in Pids : Quiet(p)
    PROVE  IInv'
<1>1. \A p \in Pids : /\ proc[p] \in Procs /\ proc'[p] \in Procs
                      /\ proc'[p].home \in {0, proc[p].home}
  BY ProcParts DEF IInv, Typed, Quiet, Procs
<1>2. \A p \in Pids : proc'[p].home # 0 =>
        /\ proc'[p].home = proc[p].home
        /\ proc'[p].lock = proc[p].lock
        /\ Running(p)' => Running(p)
  BY <1>1 DEF Quiet, Running, Procs
<1>3. \A p \in Pids : Running(p)' => proc'[p].sid \in Sids
  BY <1>1 DEF IInv, LocksHeld, Quiet, Running, Procs
<1>4. \A p \in Pids : proc'[p].home # 0 => node'[proc'[p].home].made = 1
  BY <1>1, <1>2 DEF IInv, LocksHeld, MadeKept, Nodes, Procs
<1>5. LocksHeld'
  BY <1>2, <1>3, <1>4 DEF IInv, LocksHeld
<1>6. Alone'
  BY <1>2 DEF IInv, Alone
<1> QED BY <1>5, <1>6 DEF IInv, Typed, MadeKept

LEMMA MadeSame == Typed /\ UNCHANGED node => MadeKept
BY DEF Typed, MadeKept

\* Nothing of the registry or of the processes changes.
LEMMA IdleStep == IInv /\ UNCHANGED <<dir, node, proc>> => IInv'
BY DEF IInv, Typed, LocksHeld, Alone, Running

\* A process moves to another phase, and directories stay.
LEMMA PhaseStep ==
    ASSUME IInv, UNCHANGED node, dir' \in [Sids -> 0 .. MaxNodes],
           NEW x, NEW c \in Phases \ {"unborn"}, Running(x) \/ c = "gone",
           proc' = [proc EXCEPT ![x].pc = c]
    PROVE  IInv'
<1>1. proc' \in [Pids -> Procs]
  BY DEF IInv, Typed, Procs
<1>2. \A p \in Pids : Quiet(p)
  BY DEF IInv, Typed, Quiet, Running, Procs
<1> QED BY <1>1, <1>2, MadeSame, QuietStep DEF IInv

\* A process is started.
LEMMA ForkStep ==
    ASSUME IInv, UNCHANGED <<dir, node>>, NEW s \in Sids, NEW p \in Pids, Forked(s, p)
    PROVE  IInv'
<1>1. proc' = [proc EXCEPT ![p] = [pc |-> "forked", sid |-> s, home |-> 0, lock |-> 0]]
  BY DEF Forked
<1>2. [pc |-> "forked", sid |-> s, home |-> 0, lock |-> 0] \in Procs
  BY Bounded DEF Procs, Phases
<1>3. proc' \in [Pids -> Procs]
  BY <1>1, <1>2 DEF IInv, Typed
<1>4. \A q \in Pids : Quiet(q)
  BY <1>1 DEF IInv, Typed, Quiet, Forked
<1>5. dir' \in [Sids -> 0 .. MaxNodes]
  BY DEF IInv, Typed
<1> QED BY <1>3, <1>4, <1>5, MadeSame, QuietStep DEF IInv

\* A process moves on, and its directory is made or found.
LEMMA PutStep ==
    ASSUME IInv, NEW s \in Sids, NEW n \in NodeAt(s), Put(s, n),
           node' \in [Nodes -> NodeStates], node'[n].made = 1,
           \A m \in Nodes : node[m].made = 1 => node'[m].made = 1
    PROVE  MadeKept /\ dir' \in [Sids -> 0 .. MaxNodes] /\ n \in Nodes /\ n # 0
<1>1. n \in Nodes /\ n # 0 /\ n \in 0 .. MaxNodes
  BY NodePut, NodesPositive DEF IInv
<1> QED BY <1>1 DEF IInv, Typed, Put, MadeKept

LEMMA OpenStep == ASSUME IInv, NEW p \in Pids, Open(p) PROVE IInv'
<1>1. Running(p) /\ proc[p].sid \in Sids
  BY DEF IInv, LocksHeld, Running, Open
<1>2. PICK n \in NodeAt(proc[p].sid) :
        Put(proc[p].sid, n) /\ node' = [node EXCEPT ![n].made = 1]
  BY DEF Open
<1>3. n \in Nodes
  BY <1>1, NodePut DEF IInv
<1>4. /\ node' \in [Nodes -> NodeStates] /\ node'[n].made = 1
      /\ \A m \in Nodes : node[m].made = 1 => node'[m].made = 1
  BY <1>2, <1>3 DEF IInv, Typed, NodeStates
<1>5. MadeKept /\ dir' \in [Sids -> 0 .. MaxNodes]
  BY <1>1, <1>2, <1>4, PutStep
<1>6. proc' = [proc EXCEPT ![p].pc = "opened"]
  BY DEF Open
<1>7. proc' \in [Pids -> Procs]
  BY <1>6 DEF IInv, Typed, Procs, Phases
<1>8. \A q \in Pids : Quiet(q)
  BY <1>1, <1>6 DEF IInv, Typed, Quiet, Procs, Phases
<1> QED BY <1>5, <1>7, <1>8, QuietStep

\* The step that gives a directory away: nobody else is in charge of it, for
\* whoever is holds its lock, and a new directory is nobody's.
LEMMA BindStep == ASSUME IInv, NEW p \in Pids, Bind(p) PROVE IInv'
<1> DEFINE s == proc[p].sid
<1>1. Running(p) /\ s \in Sids
  BY DEF IInv, LocksHeld, Running, Bind
<1>2. CASE Gone(p) /\ UNCHANGED <<dir, node>>
  <2>1. proc' = [proc EXCEPT ![p].pc = "gone"] /\ UNCHANGED <<dir, node>>
    BY <1>2 DEF Gone
  <2>2. dir' \in [Sids -> 0 .. MaxNodes]
    BY <2>1 DEF IInv, Typed
  <2> QED BY <2>1, <2>2, <1>1, PhaseStep DEF Phases
<1>3. CASE /\ Owner(dir[s]) = {}
        /\ \E n \in NodeAt(s) :
             /\ Put(s, n)
             /\ node' = [node EXCEPT ![n].made = 1, ![n].sock = p]
             /\ proc' = [proc EXCEPT ![p].pc = "bound", ![p].home = n, ![p].lock = 1]
  <2>1. PICK n \in NodeAt(s) :
          /\ Put(s, n)
          /\ node' = [node EXCEPT ![n].made = 1, ![n].sock = p]
          /\ proc' = [proc EXCEPT ![p].pc = "bound", ![p].home = n, ![p].lock = 1]
    BY <1>3
  <2>2. n \in Nodes /\ n # 0 /\ n \in 0 .. MaxNodes
    BY <1>1, NodePut, NodesPositive DEF IInv
  <2>3. p \in 0 .. MaxPids
    BY Bounded DEF Pids
  <2>4. /\ node' \in [Nodes -> NodeStates] /\ node'[n].made = 1
        /\ \A m \in Nodes : node[m].made = 1 => node'[m].made = 1
    BY <2>1, <2>2, <2>3 DEF IInv, Typed, NodeStates
  <2>5. MadeKept /\ dir' \in [Sids -> 0 .. MaxNodes]
    BY <1>1, <2>1, <2>4, PutStep
  <2>6. proc' \in [Pids -> Procs]
    <3>1. ASSUME NEW r \in Procs, NEW q, q = [r EXCEPT !.pc = "bound", !.home = n, !.lock = 1]
          PROVE  q \in Procs
      BY <2>2, <3>1 DEF Procs, Phases
    <3> QED BY <2>1, <3>1 DEF IInv, Typed
  <2>7. /\ proc'[p].pc = "bound" /\ proc'[p].home = n /\ proc'[p].lock = 1
        /\ proc'[p].sid = s
        /\ \A q \in Pids \ {p} : proc'[q] = proc[q]
    BY <2>1 DEF IInv, Typed, Procs
  <2>8. \A q \in Pids : Running(q) => proc[q].home # n
    <3>1. SUFFICES ASSUME NEW q \in Pids, Running(q), proc[q].home = n PROVE FALSE
      OBVIOUS
    <3>2. proc[q].lock = 1 /\ node[n].made = 1
      BY <3>1, <2>2 DEF IInv, LocksHeld
    <3>3. dir[s] # 0 /\ n = dir[s]
      BY <3>2, <1>1, NodePut DEF IInv
    <3>4. q \in Owner(dir[s])
      BY <3>1, <3>2, <3>3, PidsPositive DEF Owner, Alive, Running
    <3> QED BY <3>4, <1>3
  <2>9. LocksHeld'
    <3>1. \A q \in Pids : Running(q)' => proc'[q].sid \in Sids
      BY <1>1, <2>7 DEF IInv, LocksHeld, Running
    <3>2. \A q \in Pids : proc[q].home \in 0 .. MaxNodes
      BY ProcParts DEF IInv, Typed
    <3>3. \A q \in Pids : proc'[q].home # 0 => node'[proc'[q].home].made = 1
      <4>1. SUFFICES ASSUME NEW q \in Pids, proc'[q].home # 0
                     PROVE  node'[proc'[q].home].made = 1
        OBVIOUS
      <4>2. CASE q = p
        BY <4>2, <2>4, <2>7
      <4>3. CASE q # p
        <5>1. proc'[q] = proc[q]
          BY <4>3, <2>7
        <5>2. proc[q].home \in Nodes /\ node[proc[q].home].made = 1
          BY <4>1, <5>1, <3>2, Bounded DEF IInv, LocksHeld, Nodes
        <5> QED BY <5>1, <5>2, <2>5 DEF MadeKept
      <4> QED BY <4>2, <4>3
    <3>4. \A q \in Pids : proc'[q].home # 0 /\ Running(q)' => proc'[q].lock = 1
      BY <2>7 DEF IInv, LocksHeld, Running
    <3> QED BY <3>1, <3>3, <3>4 DEF LocksHeld
  <2>10. Alone'
    BY <2>2, <2>7, <2>8 DEF IInv, Alone, Running
  <2> QED BY <2>5, <2>6, <2>9, <2>10 DEF IInv, Typed, MadeKept
<1> QED BY <1>2, <1>3 DEF Bind

LEMMA EntryStep ==
    ASSUME IInv, NEW p \in Pids, Running(p), WriteEntry(p), proc' \in [Pids -> Procs],
           \A q \in Pids : Quiet(q)
    PROVE  IInv'
<1>1. proc[p].sid \in Sids
  BY DEF IInv, LocksHeld
<1>2. PICK n \in NodeAt(proc[p].sid) :
        Put(proc[p].sid, n) /\ node' = [node EXCEPT ![n].made = 1, ![n].entry = p]
  BY DEF WriteEntry
<1>3. n \in Nodes /\ p \in 0 .. MaxPids
  BY <1>1, NodePut, Bounded DEF IInv, Pids
<1>4. /\ node' \in [Nodes -> NodeStates] /\ node'[n].made = 1
      /\ \A m \in Nodes : node[m].made = 1 => node'[m].made = 1
  BY <1>2, <1>3 DEF IInv, Typed, NodeStates
<1>5. MadeKept /\ dir' \in [Sids -> 0 .. MaxNodes]
  BY <1>1, <1>2, <1>4, PutStep
<1> QED BY <1>5, QuietStep

LEMMA RegisterStep == ASSUME IInv, NEW p \in Pids, Register(p) PROVE IInv'
<1>1. Running(p) /\ WriteEntry(p) /\ proc' = [proc EXCEPT ![p].pc = "serving"]
  BY DEF Register, Running
<1>2. proc' \in [Pids -> Procs]
  BY <1>1 DEF IInv, Typed, Procs, Phases
<1>3. \A q \in Pids : Quiet(q)
  BY <1>1 DEF IInv, Typed, Quiet, Procs, Phases
<1> QED BY <1>1, <1>2, <1>3, EntryStep

LEMMA ReexecStep == ASSUME IInv, NEW p \in Pids, Reexec(p) PROVE IInv'
<1>1. Running(p) /\ WriteEntry(p) /\ proc' = proc
  BY DEF Reexec, Running, KeptLock
<1>2. proc' \in [Pids -> Procs] /\ \A q \in Pids : Quiet(q)
  BY <1>1 DEF IInv, Typed, Quiet
<1> QED BY <1>1, <1>2, EntryStep

LEMMA LeaveStep == ASSUME IInv, NEW p \in Pids, Running(p), Leave(p) PROVE IInv'
<1>1. proc' = [proc EXCEPT ![p].pc = "gone"] /\ UNCHANGED dir
  BY DEF Leave, Gone
<1>2. node' = [m \in Nodes |-> IF m = dir[proc[p].sid] THEN [node[m] EXCEPT !.sock = 0] ELSE node[m]]
  BY DEF Leave, NoSocket
<1>3. MadeKept
  BY <1>2, Bounded DEF IInv, Typed, MadeKept, NodeStates
<1>4. proc' \in [Pids -> Procs] /\ dir' \in [Sids -> 0 .. MaxNodes]
  BY <1>1 DEF IInv, Typed, Procs, Phases
<1>5. \A q \in Pids : Quiet(q)
  BY <1>1 DEF IInv, Typed, Quiet, Procs, Phases
<1> QED BY <1>3, <1>4, <1>5, QuietStep

LEMMA GoneStep == ASSUME IInv, UNCHANGED <<dir, node>>, NEW x, Gone(x) PROVE IInv'
BY PhaseStep DEF Gone, Phases, IInv, Typed

LEMMA SignalStep ==
    ASSUME IInv, UNCHANGED node, dir' \in [Sids -> 0 .. MaxNodes], NEW x, proc' = Signalled(x)
    PROVE  IInv'
<1>1. CASE Alive(x)
  BY <1>1, PhaseStep DEF Signalled, Alive, Running, Phases
<1>2. CASE ~Alive(x)
  <2>1. proc' = proc
    BY <1>2 DEF Signalled
  <2>2. proc' \in [Pids -> Procs] /\ \A q \in Pids : Quiet(q)
    BY <2>1 DEF IInv, Typed, Quiet
  <2> QED BY <2>2, MadeSame, QuietStep DEF IInv
<1> QED BY <1>1, <1>2

\* The directory of a session is renamed or deleted.
LEMMA UnputStep ==
    ASSUME IInv, UNCHANGED <<node, proc>>, NEW s \in Sids, dir' = [dir EXCEPT ![s] = 0]
    PROVE  IInv'
<1>1. dir' \in [Sids -> 0 .. MaxNodes]
  BY Bounded DEF IInv, Typed
<1>2. proc' \in [Pids -> Procs] /\ \A q \in Pids : Quiet(q)
  BY DEF IInv, Typed, Quiet
<1> QED BY <1>1, <1>2, MadeSame, QuietStep DEF IInv

LEMMA InitIInv == Init => IInv
<1> SUFFICES ASSUME Init PROVE IInv
  OBVIOUS
<1>1. \A p \in Pids : /\ proc[p] \in Procs /\ proc[p].pc = "unborn" /\ proc[p].home = 0
  BY Bounded DEF Init, Unborn, Procs, Phases
<1>2. proc \in [Pids -> Procs]
  BY <1>1 DEF Init
<1>3. node \in [Nodes -> NodeStates]
  BY Bounded DEF Init, NodeStates
<1>4. dir \in [Sids -> 0 .. MaxNodes]
  <2>1. \A s \in Saved["boot"] \cup Saved["other"] : s \in 0 .. MaxNodes
    BY BoundsAssumption, Bounded
  <2>2. 0 \in 0 .. MaxNodes
    BY Bounded
  <2>3. dir = [s \in Sids |-> IF s \in Saved["boot"] \cup Saved["other"] THEN s ELSE 0]
    BY DEF Init
  <2> QED BY <2>1, <2>2, <2>3
<1> QED BY <1>1, <1>2, <1>3, <1>4 DEF IInv, Typed, LocksHeld, Alone, Running

\* Every step of the session processes
LEMMA ProcessStep ==
    ASSUME IInv, NEW p \in Pids, L3Step(p) \/ Reexec(p) \/ ShellExits(p) \/ Killed(p)
    PROVE  IInv'
<1>1. CASE Open(p)
  BY <1>1, OpenStep
<1>2. CASE Bind(p)
  BY <1>2, BindStep
<1>3. CASE Register(p)
  BY <1>3, RegisterStep
<1>4. CASE Deadman(p) \/ ShellExits(p)
  BY <1>4, LeaveStep DEF Deadman, ShellExits, Running
<1>5. CASE Ends(p) \/ Killed(p)
  BY <1>5, GoneStep DEF Ends, Killed, disk
<1>6. CASE Reexec(p)
  BY <1>6, ReexecStep
<1> QED BY <1>1, <1>2, <1>3, <1>4, <1>5, <1>6 DEF L3Step

\* A directory without entry and socket is still made.
LEMMA Unlinked ==
    ASSUME NEW r \in NodeStates
    PROVE  /\ [r EXCEPT !.entry = 0, !.sock = 0] \in NodeStates
           /\ [r EXCEPT !.entry = 0, !.sock = 0].made = r.made
<1>1. 0 \in 0 .. MaxPids
  BY Bounded
<1>2. [r EXCEPT !.entry = 0] \in NodeStates /\ [r EXCEPT !.entry = 0].made = r.made
  BY <1>1 DEF NodeStates
<1>3. \A q \in NodeStates : [q EXCEPT !.sock = 0] \in NodeStates /\ [q EXCEPT !.sock = 0].made = q.made
  BY <1>1 DEF NodeStates
<1>4. [r EXCEPT !.entry = 0, !.sock = 0] = [[r EXCEPT !.entry = 0] EXCEPT !.sock = 0]
  BY DEF NodeStates
<1> QED BY <1>2, <1>3, <1>4

\* Every step of a window's assembly
LEMMA AssemblyStep == ASSUME IInv, NEW w \in Windows, Assembly(w) PROVE IInv'
<1>1. CASE Scan(w) \/ Reattach(w) \/ SlotsDone(w) \/ Adopt(w) \/ List(w)
  BY <1>1, IdleStep DEF Scan, Reattach, SlotsDone, Adopt, List, disk
<1>2. CASE ReattachFails(w)
  <2>1. UNCHANGED <<dir, node>> /\ dir' \in [Sids -> 0 .. MaxNodes]
    BY <1>2 DEF ReattachFails, disk, IInv, Typed
  <2>2. \/ UNCHANGED proc
        \/ \E s \in Sids : proc' = Signalled(job[w].seen[s])
    BY <1>2 DEF ReattachFails
  <2> QED BY <2>1, <2>2, IdleStep, SignalStep
<1>3. CASE Probe(w)
  <2>0. PICK s \in Sids : \E n \in NodeAt(s) :
          Put(s, n) /\ node' = [node EXCEPT ![n].made = 1] /\ UNCHANGED proc
    BY <1>3 DEF Probe
  <2>1. PICK n \in NodeAt(s) :
          Put(s, n) /\ node' = [node EXCEPT ![n].made = 1] /\ UNCHANGED proc
    BY <2>0
  <2>2. n \in Nodes
    BY <2>1, NodePut DEF IInv
  <2>3. /\ node' \in [Nodes -> NodeStates] /\ node'[n].made = 1
        /\ \A m \in Nodes : node[m].made = 1 => node'[m].made = 1
    BY <2>1, <2>2 DEF IInv, Typed, NodeStates
  <2>4. MadeKept /\ dir' \in [Sids -> 0 .. MaxNodes]
    BY <2>1, <2>3, PutStep
  <2>5. proc' \in [Pids -> Procs] /\ \A q \in Pids : Quiet(q)
    BY <2>1 DEF IInv, Typed, Quiet
  <2> QED BY <2>4, <2>5, QuietStep
<1>4. CASE Clear(w)
  <2>1. PICK s \in Sids :
          /\ UNCHANGED <<dir, proc>>
          /\ node' = [m \in Nodes |-> IF m = dir[s] THEN [node[m] EXCEPT !.entry = 0, !.sock = 0]
                                       ELSE node[m]]
    BY <1>4 DEF Clear
  <2>2. MadeKept
    <3>1. \A m \in Nodes : node[m] \in NodeStates
      BY DEF IInv, Typed
    <3>2. \A m \in Nodes : /\ [node[m] EXCEPT !.entry = 0, !.sock = 0] \in NodeStates
                            /\ [node[m] EXCEPT !.entry = 0, !.sock = 0].made = node[m].made
      BY <3>1, Unlinked
    <3> QED BY <2>1, <3>1, <3>2 DEF MadeKept
  <2>3. /\ proc' \in [Pids -> Procs] /\ dir' \in [Sids -> 0 .. MaxNodes]
        /\ \A q \in Pids : Quiet(q)
    BY <2>1 DEF IInv, Typed, Quiet
  <2> QED BY <2>2, <2>3, QuietStep
<1>5. CASE Fork(w)
  BY <1>5, IdleStep, ForkStep DEF Fork
<1>6. CASE Connect(w)
  BY <1>6, IdleStep, GoneStep DEF Connect, disk
<1>7. CASE Retire(w)
  BY <1>7, UnputStep DEF Retire
<1> QED BY <1>1, <1>2, <1>3, <1>4, <1>5, <1>6, <1>7 DEF Assembly

\* Every step of the workers, and what the person does
LEMMA CoreStep ==
    ASSUME IInv, NEW w \in Windows, NEW s \in Sids,
           Worker(s) \/ NewPane(w) \/ Revive(w, s) \/ Close(w, s) \/ \E v \in Windows : Move(v, w, s)
    PROVE  IInv'
<1>1. CASE WorkerForks(s)
  BY <1>1, IdleStep, ForkStep DEF WorkerForks
<1>2. CASE WorkerConnects(s)
  BY <1>2, IdleStep, GoneStep DEF WorkerConnects, disk
<1>3. CASE SpawnFinished(s) \/ NewPane(w) \/ Revive(w, s) \/ \E v \in Windows : Move(v, w, s)
  BY <1>3, IdleStep DEF SpawnFinished, NewPane, Revive, Move, disk
<1>4. CASE Close(w, s)
  <2>1. CASE panes[w][s].kind = "live"
    <3>1. UNCHANGED node /\ proc' = Signalled(Entry(s)) /\ dir' \in [Sids -> 0 .. MaxNodes]
      BY <1>4, <2>1, Bounded DEF Close, IInv, Typed
    <3> QED BY <3>1, SignalStep
  <2>2. CASE panes[w][s].kind # "live"
    BY <1>4, <2>2, IdleStep DEF Close
  <2> QED BY <2>1, <2>2
<1> QED BY <1>1, <1>2, <1>3, <1>4 DEF Worker

LEMMA StepIInv == IInv /\ [Next]_vars => IInv'
<1> SUFFICES ASSUME IInv, [Next]_vars PROVE IInv'
  OBVIOUS
<1>1. CASE UNCHANGED vars
  BY <1>1, IdleStep DEF vars, disk
<1>2. CASE Start \/ Booted \/ OpenWindow \/ WindowRestored \/ CoreDies
  BY <1>2, IdleStep DEF Start, Booted, OpenWindow, WindowRestored, CoreDies, disk
<1>3. CASE \E p \in Pids : L3Step(p) \/ Reexec(p) \/ ShellExits(p) \/ Killed(p)
  BY <1>3, ProcessStep
<1>4. CASE \E w \in Windows : Assembly(w)
  BY <1>4, AssemblyStep
<1>5. CASE \E s \in Sids : Worker(s)
  BY <1>5, CoreStep DEF Windows
<1>6. CASE Person
  <2>1. CASE \E w \in Windows : NewPane(w)
    BY <2>1, IdleStep DEF NewPane
  <2>2. CASE \E w \in Windows, s \in Sids : Revive(w, s) \/ Close(w, s)
    BY <2>2, CoreStep
  <2>3. CASE \E v, w \in Windows, s \in Sids : Move(v, w, s)
    BY <2>3, CoreStep
  <2> QED BY <1>6, <2>1, <2>2, <2>3 DEF Person
<1> QED BY <1>1, <1>2, <1>3, <1>4, <1>5, <1>6 DEF Next

LEMMA IInvServes == IInv => OneServes
BY NodesPositive DEF IInv, Alone, OneServes, InCharge, Running

\* Whatever is started, killed, renamed, deleted or executed anew, at most one
\* process is in charge of a session directory (session_registry.rs:129-137).
THEOREM DirectoryHasOneOwner == Spec => []OneServes
BY InitIInv, StepIInv, IInvServes, PTL DEF Spec
-----------------------------------------------------------------------------
(* The boot and the numbers *)

Working == {"slot", "probe", "clear", "fork", "connect"}
Stages == Working \cup {"none", "scan", "adopt", "sweep", "done", "over"}
PaneStates == [kind : {"none", "live", "vacant", "pending"},
               ctl : 0 .. MaxPids, child : 0 .. MaxPids, reads : 0 .. MaxPids]
Jobs == [at : Stages, todo : SUBSET Sids, seen : [Sids -> 0 .. MaxPids], alive : SUBSET Sids,
         claimed : SUBSET Sids, born : 0 .. MaxPids, got : [Sids -> PaneStates]]
Works == [at : {"none", "fork", "connect", "sent"}, born : 0 .. MaxPids, pane : PaneStates]

CoreTyped ==
    /\ nextId \in Nat /\ region \in [Sids -> 0 .. MaxPids]
    /\ core \in {"down", "boot", "up"}
    /\ record \in [Windows -> SUBSET Sids] /\ layout \in [Windows -> SUBSET Sids]
    /\ panes \in [Windows -> [Sids -> PaneStates]]
    /\ job \in [Windows -> Jobs] /\ work \in [Sids -> Works]

Shows(ps) == {s \in Sids : ps[s].kind # "none"}
KnownJob(j, n) == j.todo \cup j.alive \cup Shows(j.got) \subseteq 0 .. n

\* Whoever knows a session has its number from the counter: what is on disk,
\* what runs, what a window shows or is about to show.
Numbered ==
    /\ \A s \in Sids : dir[s] # 0 \/ work[s].at # "none" => s \in 0 .. nextId
    /\ \A p \in Pids : proc[p].sid \in 0 .. nextId
    /\ \A w \in Windows : /\ record[w] \cup layout[w] \cup Shows(panes[w]) \subseteq 0 .. nextId
                          /\ KnownJob(job[w], nextId)

\* The stage of a window's assembly says what the core is doing: only a boot
\* sweeps, nothing is saved while it does, and what it read is the layout.
Staged ==
    /\ core = "boot" => record = layout
    /\ core # "up" => job["other"].at = "none"
    /\ core # "boot" => job["boot"].at \in {"none", "over"}
    /\ job["other"].at \notin {"adopt", "sweep"}

\* A saved session is to do or is claimed, and the sweep takes neither.
Spares(j) ==
    /\ j.at \in Working => record["boot"] \subseteq j.todo \cup j.claimed
    /\ j.at \in {"adopt", "sweep"} => record["boot"] \subseteq j.claimed
    /\ j.at = "sweep" => j.todo \cap (j.claimed \cup record["other"]) = {}

CoreInv == CoreTyped /\ Numbered /\ Staged /\ Spares(job["boot"])

LEMMA LeastOf == ASSUME NEW S, S \subseteq Nat, S # {} PROVE \E x \in S : \A y \in S : x <= y
<1> DEFINE R == {ss \in Nat \X Nat : ss[1] < ss[2]}
<1>0. IsWellFoundedOn(R, Nat)
  BY NatLessThanWellFounded DEF OpToRel
<1> HIDE DEF R
<1>1. PICK x \in S : \A y \in S : ~(<<y, x>> \in R)
  BY <1>0, WFMin
<1>2. \A y \in S : ~ (y < x)
  BY <1>1 DEF R
<1> QED BY <1>2

LEMMA MinIn == ASSUME NEW S, S \subseteq Nat, S # {} PROVE Min(S) \in S
BY LeastOf DEF Min

LEMMA MaxIn ==
    ASSUME NEW S, NEW n \in Nat, S \subseteq 0 .. n, S # {}
    PROVE  Max(S) \in S /\ \A y \in S : Max(S) >= y
<1> DEFINE T == {n - x : x \in S}
<1>1. T \subseteq Nat /\ T # {}
  <2>1. \A x \in S : x \in 0 .. n /\ n - x \in Nat
    OBVIOUS
  <2>2. T \subseteq Nat
    BY <2>1
  <2>3. T # {}
    OBVIOUS
  <2> QED BY <2>2, <2>3
<1>2. PICK m \in T : \A y \in T : m <= y
  <2> HIDE DEF T
  <2> QED BY <1>1, LeastOf
<1>3. PICK x \in S : m = n - x
  BY <1>2
<1>4. \A y \in S : x >= y
  <2>1. \A y \in S : n - y \in T
    OBVIOUS
  <2> QED BY <2>1, <1>2, <1>3
<1> QED BY <1>4 DEF Max

LEMMA SidsNat == Sids \subseteq Nat
BY SidsAssumption

LEMMA Numbers == 0 \in 0 .. MaxPids /\ Pids \subseteq 0 .. MaxPids
BY Bounded DEF Pids

LEMMA EntrySock ==
    ASSUME Typed, NEW s \in Sids
    PROVE  /\ Entry(s) \in 0 .. MaxPids /\ Sock(s) \in 0 .. MaxPids
           /\ Entry(s) # 0 => dir[s] # 0
<1>1. CASE dir[s] = 0
  BY <1>1, Numbers DEF Entry, Sock
<1>2. CASE dir[s] # 0
  <2>1. dir[s] \in Nodes
    BY <1>2, Bounded DEF Typed, Nodes
  <2>2. node[dir[s]] \in NodeStates
    BY <2>1 DEF Typed
  <2> QED BY <1>2, <2>2 DEF Entry, Sock, NodeStates
<1> QED BY <1>1, <1>2

LEMMA PaneTypes ==
    /\ \A kind \in {"none", "live", "vacant", "pending"}, a, b, c \in 0 .. MaxPids :
         Pane(kind, a, b, c) \in PaneStates
    /\ Plain("vacant") \in PaneStates /\ Plain("pending") \in PaneStates
    /\ NoPane \in PaneStates /\ NoPane.kind = "none"
<1>1. \A kind \in {"none", "live", "vacant", "pending"}, a, b, c \in 0 .. MaxPids :
        Pane(kind, a, b, c) \in PaneStates
  BY DEF Pane, PaneStates
<1>2. Plain("vacant") \in PaneStates /\ Plain("pending") \in PaneStates
  BY <1>1, Numbers DEF Plain
<1>3. NoPane \in PaneStates /\ NoPane.kind = "none"
  BY Numbers DEF NoPane, PaneStates
<1> QED BY <1>1, <1>2, <1>3

LEMMA NoJobTyped ==
    ASSUME NEW at \in Stages
    PROVE  /\ NoJob \in Jobs /\ [NoJob EXCEPT !.at = at] \in Jobs
           /\ [NoJob EXCEPT !.at = at].at = at /\ NoJob.at = "none"
           /\ \A n \in Nat : KnownJob(NoJob, n) /\ KnownJob([NoJob EXCEPT !.at = at], n)
<1>1. NoPanes \in [Sids -> PaneStates] /\ Shows(NoPanes) = {}
  BY PaneTypes DEF NoPanes, Shows
<1>2. NoJob \in Jobs /\ [NoJob EXCEPT !.at = at] \in Jobs
  BY <1>1, Numbers DEF NoJob, Jobs, Stages
<1>3. \A n \in Nat : KnownJob(NoJob, n) /\ KnownJob([NoJob EXCEPT !.at = at], n)
  BY <1>1 DEF KnownJob, NoJob
<1>4. [NoJob EXCEPT !.at = at].at = at /\ NoJob.at = "none"
  BY DEF NoJob
<1> QED BY <1>2, <1>3, <1>4

LEMMA NoWorkTyped == NoWork \in Works /\ NoWork.at = "none"
BY PaneTypes, Numbers DEF NoWork, Works

-----------------------------------------------------------------------------
\* What a step does to the disk and the processes.
Settled == /\ region' \in [Sids -> 0 .. MaxPids]
           /\ \A s \in Sids : dir'[s] # 0 => s \in 0 .. nextId
           /\ \A p \in Pids : proc'[p].sid \in 0 .. nextId

LEMMA FrameStep ==
    ASSUME CoreInv, Settled, UNCHANGED <<nextId, l2>>
    PROVE  CoreInv'
BY DEF CoreInv, CoreTyped, Numbered, Staged, Spares, Settled, l2, Shows, KnownJob

\* A step of the assembly of w
LEMMA JobStep ==
    ASSUME CoreInv, Settled, NEW w \in Windows, NEW j \in Jobs,
           job' = [job EXCEPT ![w] = j], UNCHANGED <<nextId, core, record, layout, panes, work>>,
           KnownJob(j, nextId), job[w].at \notin {"none", "over"},
           w = "other" => j.at \notin {"adopt", "sweep"},
           w = "boot" => Spares(j)
    PROVE  CoreInv'
<1>1. /\ job' \in [Windows -> Jobs] /\ job'[w] = j
      /\ \A v \in Windows \ {w} : job'[v] = job[v]
  BY DEF CoreInv, CoreTyped
<1>2. CoreTyped'
  BY <1>1 DEF CoreInv, CoreTyped, Settled
<1>3. Numbered'
  BY <1>1 DEF CoreInv, Numbered, Settled, Shows, KnownJob
<1>4. Staged'
  BY <1>1 DEF CoreInv, CoreTyped, Staged, Windows
<1>5. Spares(job["boot"])'
  BY <1>1 DEF CoreInv, Spares, Windows
<1> QED BY <1>2, <1>3, <1>4, <1>5 DEF CoreInv
\* A slot that is done
LEMMA YieldJob ==
    ASSUME CoreInv, NEW w \in Windows, NEW s \in job[w].todo, NEW pane \in PaneStates,
           job[w].at \in Working \cup {"adopt"}
    PROVE  LET j == Yield(w, s, pane)
               a == [j EXCEPT !.at = "adopt"]
           IN  /\ j \in Jobs /\ KnownJob(j, nextId) /\ j.at = "slot"
               /\ w = "boot" /\ job[w].at \in Working => Spares(j)
               /\ a \in Jobs /\ KnownJob(a, nextId) /\ a.at = "adopt"
               /\ w = "boot" /\ job[w].at = "adopt" => Spares(a)
<1> DEFINE j == Yield(w, s, pane)
           a == [j EXCEPT !.at = "adopt"]
           g == [job[w].got EXCEPT ![s] = pane]
<1>1. job[w] \in Jobs /\ s \in Sids /\ KnownJob(job[w], nextId)
  BY DEF CoreInv, CoreTyped, Numbered, Jobs
<1>2. g \in [Sids -> PaneStates] /\ Shows(g) \subseteq Shows(job[w].got) \cup {s}
  BY <1>1 DEF Jobs, Shows
<1>3. j = [job[w] EXCEPT !.at = "slot", !.todo = job[w].todo \ {s}, !.claimed = job[w].claimed \cup {s},
                         !.got = g, !.born = 0]
  BY DEF Yield
<1> HIDE DEF g
<1>4. j = [at |-> "slot", todo |-> job[w].todo \ {s}, seen |-> job[w].seen, alive |-> job[w].alive,
           claimed |-> job[w].claimed \cup {s}, born |-> 0, got |-> g]
  BY <1>1, <1>3 DEF Jobs
<1>5. /\ j \in Jobs /\ j.at = "slot" /\ j.todo = job[w].todo \ {s} /\ j.alive = job[w].alive
      /\ j.claimed = job[w].claimed \cup {s} /\ j.got = g
  <2>1. job[w].todo \ {s} \in SUBSET Sids /\ job[w].claimed \cup {s} \in SUBSET Sids
    BY <1>1 DEF Jobs
  <2> QED BY <1>1, <1>2, <1>4, <2>1, Numbers DEF Jobs, Stages, Working
<1> HIDE DEF j
<1>6. /\ a \in Jobs /\ a.at = "adopt" /\ a.todo = j.todo /\ a.alive = j.alive
      /\ a.claimed = j.claimed /\ a.got = g
  BY <1>5 DEF Jobs, Stages
<1> HIDE DEF a
<1>7. KnownJob(j, nextId) /\ KnownJob(a, nextId)
  BY <1>1, <1>2, <1>5, <1>6 DEF KnownJob
<1>8. w = "boot" => Spares(job[w])
  BY DEF CoreInv
<1>9. w = "boot" /\ job[w].at \in Working => Spares(j)
  BY <1>5, <1>8 DEF Spares, Working
<1>10. w = "boot" /\ job[w].at = "adopt" => Spares(a)
  BY <1>5, <1>6, <1>8 DEF Spares, Working
<1> QED BY <1>5, <1>6, <1>7, <1>9, <1>10 DEF j, a

LEMMA TurnIn ==
    ASSUME CoreInv, NEW w \in Windows, NEW s \in Sids, NEW at, Turn(w, at, s)
    PROVE  s \in job[w].todo /\ job[w].at = at /\ s \in 0 .. nextId
<1>1. job[w].todo \subseteq Nat /\ job[w].todo # {}
  BY SidsNat DEF CoreInv, CoreTyped, Jobs, Turn
<1>2. s \in job[w].todo
  BY <1>1, MinIn DEF Turn
<1> QED BY <1>2 DEF CoreInv, Numbered, KnownJob, Turn

\* The disk and the processes of a step that leaves them alone, or moves one on
LEMMA StaySettled ==
    ASSUME CoreInv, UNCHANGED <<region, dir, proc>>
    PROVE  Settled
BY DEF CoreInv, CoreTyped, Numbered, Settled

LEMMA SameSid ==
    ASSUME CoreInv, IInv, UNCHANGED <<region, dir>>, NEW x, NEW c, proc' = [proc EXCEPT ![x].pc = c]
    PROVE  Settled
<1>1. \A p \in Pids : proc'[p].sid = proc[p].sid
  BY DEF IInv, Typed, Procs
<1> QED BY <1>1 DEF CoreInv, CoreTyped, Numbered, Settled

LEMMA SignalSettled ==
    ASSUME CoreInv, IInv, UNCHANGED <<region, dir>>, NEW x, proc' = Signalled(x)
    PROVE  Settled
BY SameSid, StaySettled DEF Signalled

LEMMA ForkSettled ==
    ASSUME CoreInv, IInv, UNCHANGED dir, NEW s \in Sids, s \in 0 .. nextId, NEW p \in Pids, Forked(s, p)
    PROVE  Settled
<1>1. \A q \in Pids : proc'[q].sid \in {proc[q].sid, s}
  BY DEF IInv, Typed, Forked
<1>2. region' \in [Sids -> 0 .. MaxPids]
  BY Numbers DEF CoreInv, CoreTyped, Forked
<1> QED BY <1>1, <1>2 DEF CoreInv, Numbered, Settled

LEMMA LiveKnown == ASSUME CoreInv, IInv PROVE Live \subseteq Sids \cap 0 .. nextId
<1>1. \A s \in Live : s \in Sids /\ Entry(s) # 0
  BY DEF Live, Alive
<1> QED BY <1>1, EntrySock DEF IInv, CoreInv, Numbered

LEMMA AttachedTyped == ASSUME CoreInv, IInv, NEW s \in Sids PROVE Attached(s) \in PaneStates
<1>1. Entry(s) \in 0 .. MaxPids /\ Sock(s) \in 0 .. MaxPids /\ region[s] \in 0 .. MaxPids
  BY EntrySock DEF IInv, CoreInv, CoreTyped
<1> QED BY <1>1, PaneTypes DEF Attached

LEMMA ConnectedTyped ==
    ASSUME CoreInv, IInv, NEW s \in Sids, NEW p \in 0 .. MaxPids PROVE Connected(s, p) \in PaneStates
<1>1. Sock(s) \in 0 .. MaxPids
  BY EntrySock DEF IInv
<1> QED BY <1>1, PaneTypes DEF Connected

\* The next thing to do for a slot
LEMMA StageJob ==
    ASSUME CoreInv, NEW w \in Windows, job[w].at \in Working, NEW at \in Working, NEW p \in 0 .. MaxPids,
           NEW j, \/ j = [job[w] EXCEPT !.at = at]
                  \/ j = [job[w] EXCEPT !.at = at, !.born = p]
    PROVE  j \in Jobs /\ KnownJob(j, nextId) /\ j.at = at /\ (w = "boot" => Spares(j))
<1>1. job[w] \in Jobs /\ KnownJob(job[w], nextId) /\ (w = "boot" => Spares(job[w]))
  BY DEF CoreInv, CoreTyped, Numbered
<1>2. /\ j \in Jobs /\ j.at = at /\ j.todo = job[w].todo /\ j.claimed = job[w].claimed
      /\ j.alive = job[w].alive /\ j.got = job[w].got
  <2>1. CASE j = [job[w] EXCEPT !.at = at]
    BY <1>1, <2>1 DEF Jobs, Stages
  <2>2. CASE j = [job[w] EXCEPT !.at = at, !.born = p]
    BY <1>1, <2>2 DEF Jobs, Stages
  <2> QED BY <2>1, <2>2
<1>3. KnownJob(j, nextId)
  BY <1>1, <1>2 DEF KnownJob
<1>4. w = "boot" => Spares(j)
  BY <1>1, <1>2 DEF Spares, Working
<1> QED BY <1>2, <1>3, <1>4

-----------------------------------------------------------------------------
(* Every step of a window's assembly *)

LEMMA ScanCore == ASSUME CoreInv, IInv, NEW w \in Windows, Scan(w) PROVE CoreInv'
<1> DEFINE seen == [s \in Sids |-> Entry(s)]
           j == [job[w] EXCEPT !.at = "slot", !.todo = record[w], !.alive = Live, !.seen = seen]
<1>1. job[w] \in Jobs /\ KnownJob(job[w], nextId) /\ record[w] \in SUBSET Sids
      /\ record[w] \subseteq 0 .. nextId
  BY DEF CoreInv, CoreTyped, Numbered
<1>2. seen \in [Sids -> 0 .. MaxPids]
  BY EntrySock DEF IInv
<1>3. job' = [job EXCEPT ![w] = j] /\ job[w].at = "scan"
  BY DEF Scan, Step
<1> HIDE DEF seen
<1>4. "slot" \in Stages /\ Live \in SUBSET Sids
  BY LiveKnown DEF Stages, Working
<1>5. /\ j \in Jobs /\ j.at = "slot" /\ j.todo = record[w] /\ j.alive = Live /\ j.got = job[w].got
  BY <1>1, <1>2, <1>4 DEF Jobs
<1> HIDE DEF j
<1>6. KnownJob(j, nextId)
  BY <1>1, <1>5, LiveKnown DEF KnownJob
<1>7. w = "boot" => Spares(j)
  BY <1>5 DEF Spares
<1>8. Settled /\ UNCHANGED <<nextId, core, record, layout, panes, work>>
  BY StaySettled DEF Scan, disk
<1>9. job[w].at \notin {"none", "over"} /\ j.at \notin {"adopt", "sweep"}
  BY <1>3, <1>5
<1> QED BY <1>3, <1>5, <1>6, <1>7, <1>8, <1>9, JobStep

\* The job of w yields a pane for s, or goes to its next stage.
LEMMA YieldStep ==
    ASSUME CoreInv, Settled, NEW w \in Windows, NEW s \in job[w].todo, NEW pane \in PaneStates,
           job[w].at \in Working, Step(w, Yield(w, s, pane)),
           UNCHANGED <<nextId, core, record, layout, panes, work>>
    PROVE  CoreInv'
<1> DEFINE j == Yield(w, s, pane)
<1>1. j \in Jobs /\ KnownJob(j, nextId) /\ j.at = "slot" /\ (w = "boot" => Spares(j))
  BY YieldJob
<1>2. job' = [job EXCEPT ![w] = j]
  BY DEF Step
<1>3. job[w].at \notin {"none", "over"}
  BY DEF Working
<1> HIDE DEF j
<1> QED BY <1>1, <1>2, <1>3, JobStep

LEMMA StageStep ==
    ASSUME CoreInv, Settled, NEW w \in Windows, job[w].at \in Working, NEW at \in Working,
           NEW p \in 0 .. MaxPids,
           \/ Step(w, [job[w] EXCEPT !.at = at])
           \/ Step(w, [job[w] EXCEPT !.at = at, !.born = p]),
           UNCHANGED <<nextId, core, record, layout, panes, work>>
    PROVE  CoreInv'
<1>1. PICK j : /\ job' = [job EXCEPT ![w] = j]
               /\ \/ j = [job[w] EXCEPT !.at = at]
                  \/ j = [job[w] EXCEPT !.at = at, !.born = p]
  BY DEF Step
<1>2. j \in Jobs /\ KnownJob(j, nextId) /\ j.at = at /\ (w = "boot" => Spares(j))
  BY <1>1, StageJob
<1>3. job[w].at \notin {"none", "over"} /\ j.at \notin {"adopt", "sweep"}
  BY <1>2 DEF Working
<1> QED BY <1>1, <1>2, <1>3, JobStep

LEMMA ReattachCore ==
    ASSUME CoreInv, IInv, NEW w \in Windows, Reattach(w) \/ ReattachFails(w)
    PROVE  CoreInv'
<1>1. CASE Reattach(w)
  <2>1. PICK s \in Sids : /\ Turn(w, "slot", s) /\ Step(w, Yield(w, s, Attached(s)))
                          /\ UNCHANGED <<disk, proc, core, record, layout, panes, work, used>>
    BY <1>1 DEF Reattach
  <2>2. s \in job[w].todo /\ job[w].at \in Working /\ Attached(s) \in PaneStates
    BY <2>1, TurnIn, AttachedTyped DEF Working
  <2>3. Settled
    BY <2>1, StaySettled DEF disk
  <2> QED BY <2>1, <2>2, <2>3, YieldStep DEF disk
<1>2. CASE ReattachFails(w)
  <2>1. PICK s \in Sids : /\ Turn(w, "slot", s)
                          /\ proc' = IF Entry(s) # 0 THEN Signalled(job[w].seen[s]) ELSE proc
                          /\ Step(w, [job[w] EXCEPT !.at = "probe"])
                          /\ UNCHANGED <<disk, core, record, layout, panes, work, used>>
    BY <1>2 DEF ReattachFails
  <2>2. Settled
    BY <2>1, StaySettled, SignalSettled DEF disk
  <2>3. job[w].at \in Working /\ "probe" \in Working
    BY <2>1 DEF Turn, Working
  <2> QED BY <2>1, <2>2, <2>3, StageStep, Numbers DEF disk
<1> QED BY <1>1, <1>2

LEMMA ProbeCore == ASSUME CoreInv, IInv, NEW w \in Windows, Probe(w) PROVE CoreInv'
<1>1. PICK s \in Sids :
        /\ Turn(w, "slot", s) \/ Turn(w, "probe", s)
        /\ region' = IF job[w].seen[s] = 0 THEN region ELSE [region EXCEPT ![s] = 0]
        /\ \E n \in NodeAt(s) : Put(s, n)
        /\ Step(w, IF Occupied(s) THEN Yield(w, s, Plain("vacant"))
                   ELSE [job[w] EXCEPT !.at = "clear"])
        /\ UNCHANGED <<nextId, proc, core, record, layout, panes, work>>
  BY DEF Probe
<1>2. s \in job[w].todo /\ job[w].at \in Working /\ s \in 0 .. nextId /\ "clear" \in Working
  BY <1>1, TurnIn DEF Working
<1>3. Settled
  BY <1>1, <1>2, Numbers DEF CoreInv, CoreTyped, Numbered, Settled, Put
<1>4. CASE Occupied(s)
  BY <1>1, <1>2, <1>3, <1>4, PaneTypes, YieldStep
<1>5. CASE ~Occupied(s)
  BY <1>1, <1>2, <1>3, <1>5, Numbers, StageStep
<1> QED BY <1>4, <1>5

LEMMA ClearCore == ASSUME CoreInv, NEW w \in Windows, Clear(w) PROVE CoreInv'
<1>1. PICK s \in Sids : /\ Turn(w, "clear", s) /\ Step(w, [job[w] EXCEPT !.at = "fork"])
                        /\ UNCHANGED <<dir, region, nextId, proc, core, record, layout, panes, work>>
  BY DEF Clear
<1>2. job[w].at \in Working /\ "fork" \in Working
  BY <1>1 DEF Turn, Working
<1> QED BY <1>1, <1>2, StaySettled, StageStep, Numbers

LEMMA ForkCore == ASSUME CoreInv, IInv, NEW w \in Windows, Fork(w) PROVE CoreInv'
<1>1. PICK s \in Sids :
        /\ Turn(w, "fork", s)
        /\ \/ Step(w, Yield(w, s, Plain("vacant"))) /\ UNCHANGED <<region, proc>>
           \/ \E p \in Pids : Forked(s, p) /\ Step(w, [job[w] EXCEPT !.at = "connect", !.born = p])
        /\ UNCHANGED <<dir, nextId, core, record, layout, panes, work>>
  BY DEF Fork
<1>2. s \in job[w].todo /\ job[w].at \in Working /\ s \in 0 .. nextId /\ "connect" \in Working
  BY <1>1, TurnIn DEF Working
<1>3. CASE Step(w, Yield(w, s, Plain("vacant"))) /\ UNCHANGED <<region, proc>>
  BY <1>1, <1>2, <1>3, PaneTypes, StaySettled, YieldStep
<1>4. CASE \E p \in Pids : Forked(s, p) /\ Step(w, [job[w] EXCEPT !.at = "connect", !.born = p])
  <2>1. PICK p \in Pids : Forked(s, p) /\ Step(w, [job[w] EXCEPT !.at = "connect", !.born = p])
    BY <1>4
  <2>2. Settled /\ p \in 0 .. MaxPids
    BY <1>1, <1>2, <2>1, ForkSettled, Numbers
  <2> QED BY <1>1, <1>2, <2>1, <2>2, StageStep
<1> QED BY <1>1, <1>3, <1>4

LEMMA ConnectCore == ASSUME CoreInv, IInv, NEW w \in Windows, Connect(w) PROVE CoreInv'
<1>1. PICK s \in Sids :
        /\ Turn(w, "connect", s)
        /\ \/ Step(w, Yield(w, s, Connected(s, job[w].born))) /\ UNCHANGED proc
           \/ Step(w, Yield(w, s, Plain("vacant"))) /\ Gone(job[w].born)
        /\ UNCHANGED <<disk, core, record, layout, panes, work>>
  BY DEF Connect
<1>2. /\ s \in job[w].todo /\ job[w].at \in Working /\ job[w].born \in 0 .. MaxPids
      /\ UNCHANGED <<region, dir, nextId>>
  BY <1>1, TurnIn DEF Working, CoreInv, CoreTyped, Jobs, disk
<1>3. CASE Step(w, Yield(w, s, Connected(s, job[w].born))) /\ UNCHANGED proc
  BY <1>1, <1>2, <1>3, ConnectedTyped, StaySettled, YieldStep
<1>4. CASE Step(w, Yield(w, s, Plain("vacant"))) /\ Gone(job[w].born)
  <2>1. Settled
    BY <1>2, <1>4, SameSid DEF Gone
  <2> QED BY <1>1, <1>2, <1>4, <2>1, PaneTypes, YieldStep
<1> QED BY <1>1, <1>3, <1>4

\* Only what is left to do changes.
LEMMA TodoKnown ==
    ASSUME CoreInv, NEW w \in Windows, NEW j, j.alive = job[w].alive, j.got = job[w].got,
           j.todo \subseteq 0 .. nextId
    PROVE  KnownJob(j, nextId)
BY DEF CoreInv, Numbered, KnownJob

\* The boot goes on to the sessions no slot named, or the window is done.
LEMMA SlotsDoneCore == ASSUME CoreInv, NEW w \in Windows, SlotsDone(w) PROVE CoreInv'
<1>1. /\ job[w].at = "slot" /\ job[w].todo = {} /\ Settled
      /\ UNCHANGED <<nextId, core, record, layout, panes, work>>
  BY StaySettled DEF SlotsDone, disk
<1>2. CASE w = "boot"
  <2>1. PICK j : j = [job[w] EXCEPT !.at = "adopt", !.todo = job[w].alive \cap Unclaimed(w)]
                  /\ job' = [job EXCEPT ![w] = j]
    BY <1>2 DEF SlotsDone, Step, Sweeps
  <2>2. /\ job[w].alive \cap Unclaimed(w) \in SUBSET Sids
        /\ job[w].alive \cap Unclaimed(w) \subseteq 0 .. nextId /\ "adopt" \in Stages
    BY DEF CoreInv, CoreTyped, Jobs, Numbered, KnownJob, Stages
  <2>3. j \in Jobs /\ KnownJob(j, nextId) /\ j.at = "adopt" /\ j.claimed = job[w].claimed
    <3>1. job[w] \in Jobs
      BY DEF CoreInv, CoreTyped
    <3>2. /\ j \in Jobs /\ j.at = "adopt" /\ j.claimed = job[w].claimed
          /\ j.alive = job[w].alive /\ j.got = job[w].got
          /\ j.todo = job[w].alive \cap Unclaimed(w)
      BY <2>1, <2>2, <3>1 DEF Jobs
    <3> QED BY <2>2, <3>2, TodoKnown
  <2>4. Spares(j)
    BY <1>1, <1>2, <2>3 DEF CoreInv, Spares, Working
  <2> QED BY <1>1, <1>2, <2>1, <2>3, <2>4, JobStep
<1>3. CASE w = "other"
  <2> DEFINE j == [job[w] EXCEPT !.at = "done"]
  <2>1. job' = [job EXCEPT ![w] = j]
    BY <1>3 DEF SlotsDone, Step, Sweeps
  <2>2. job[w] \in Jobs /\ KnownJob(job[w], nextId)
    BY DEF CoreInv, CoreTyped, Numbered
  <2>3. /\ j \in Jobs /\ j.at = "done" /\ j.todo = job[w].todo
        /\ j.alive = job[w].alive /\ j.got = job[w].got
    BY <2>2 DEF Jobs, Stages
  <2> HIDE DEF j
  <2>4. KnownJob(j, nextId)
    BY <2>2, <2>3 DEF KnownJob
  <2> QED BY <1>1, <1>3, <2>1, <2>3, <2>4, JobStep
<1> QED BY <1>2, <1>3 DEF Windows
LEMMA AdoptCore == ASSUME CoreInv, IInv, NEW w \in Windows, Adopt(w) PROVE CoreInv'
<1>1. PICK s \in Sids :
        /\ Turn(w, "adopt", s)
        /\ \/ Step(w, [Yield(w, s, Attached(s)) EXCEPT !.at = "adopt"])
           \/ Step(w, [job[w] EXCEPT !.todo = @ \ {s}])
        /\ UNCHANGED <<disk, proc, core, record, layout, panes, work, used>>
  BY DEF Adopt
<1>2. /\ s \in job[w].todo /\ job[w].at = "adopt" /\ Settled /\ Attached(s) \in PaneStates
      /\ UNCHANGED <<nextId, core, record, layout, panes, work>>
  BY <1>1, TurnIn, AttachedTyped, StaySettled DEF disk
<1>3. w = "boot"
  BY <1>2 DEF CoreInv, Staged, Windows
<1>4. CASE Step(w, [Yield(w, s, Attached(s)) EXCEPT !.at = "adopt"])
  <2> DEFINE j == [Yield(w, s, Attached(s)) EXCEPT !.at = "adopt"]
  <2>1. j \in Jobs /\ KnownJob(j, nextId) /\ Spares(j)
    BY <1>2, <1>3, YieldJob
  <2>2. job' = [job EXCEPT ![w] = j]
    BY <1>4 DEF Step
  <2> HIDE DEF j
  <2> QED BY <1>2, <1>3, <2>1, <2>2, JobStep
<1>5. CASE Step(w, [job[w] EXCEPT !.todo = @ \ {s}])
  <2>1. PICK j : j = [job[w] EXCEPT !.todo = @ \ {s}] /\ job' = [job EXCEPT ![w] = j]
    BY <1>5 DEF Step
  <2>2. job[w] \in Jobs /\ KnownJob(job[w], nextId) /\ Spares(job[w])
    BY <1>3 DEF CoreInv, CoreTyped, Numbered
  <2>3. /\ j \in Jobs /\ j.at = job[w].at /\ j.claimed = job[w].claimed /\ j.alive = job[w].alive
        /\ j.got = job[w].got /\ j.todo = job[w].todo \ {s}
    BY <2>1, <2>2 DEF Jobs
  <2>4. KnownJob(j, nextId) /\ Spares(j)
    BY <1>2, <2>2, <2>3 DEF KnownJob, Spares, Working
  <2> QED BY <1>2, <1>3, <2>1, <2>3, <2>4, JobStep
<1> QED BY <1>1, <1>4, <1>5

LEMMA ListCore == ASSUME CoreInv, NEW w \in Windows, List(w) PROVE CoreInv'
<1>1. /\ job[w].at = "adopt" /\ Settled
      /\ UNCHANGED <<nextId, core, record, layout, panes, work>>
  BY StaySettled DEF List, disk
<1>2. w = "boot"
  BY <1>1 DEF CoreInv, Staged, Windows
<1>3. PICK j : j = [job[w] EXCEPT !.at = "sweep", !.todo = Junk(w)] /\ job' = [job EXCEPT ![w] = j]
  BY DEF List, Step
<1>4. /\ Junk(w) \in SUBSET Sids /\ Junk(w) \subseteq 0 .. nextId
      /\ Junk(w) \cap (job[w].claimed \cup record["other"]) = {}
  BY DEF CoreInv, Numbered, Junk, Unclaimed, Reserved
<1>5. job[w] \in Jobs /\ Spares(job[w]) /\ "sweep" \in Stages
  BY <1>2 DEF CoreInv, CoreTyped, Stages
<1>6. /\ j \in Jobs /\ j.at = "sweep" /\ j.todo = Junk(w) /\ j.claimed = job[w].claimed
      /\ j.alive = job[w].alive /\ j.got = job[w].got
  BY <1>3, <1>4, <1>5 DEF Jobs
<1>7. KnownJob(j, nextId)
  BY <1>4, <1>6, TodoKnown
<1>8. Spares(j)
  BY <1>1, <1>4, <1>5, <1>6 DEF Spares, Working
<1> QED BY <1>1, <1>2, <1>3, <1>6, <1>7, <1>8, JobStep

LEMMA RetireCore == ASSUME CoreInv, NEW w \in Windows, Retire(w) PROVE CoreInv'
<1>1. PICK s \in Sids :
        /\ Turn(w, "sweep", s)
        /\ region' = IF job[w].seen[s] = 0 THEN region ELSE [region EXCEPT ![s] = 0]
        /\ dir' = [dir EXCEPT ![s] = 0]
        /\ Step(w, [job[w] EXCEPT !.todo = @ \ {s}])
        /\ UNCHANGED <<nextId, proc, core, record, layout, panes, work>>
  BY DEF Retire
<1>2. job[w].at = "sweep" /\ w = "boot"
  BY <1>1 DEF Turn, CoreInv, Staged, Windows
<1>3. Settled
  BY <1>1, Numbers DEF CoreInv, CoreTyped, Numbered, Settled
<1>4. PICK j : j = [job[w] EXCEPT !.todo = @ \ {s}] /\ job' = [job EXCEPT ![w] = j]
  BY <1>1 DEF Step
<1>5. job[w] \in Jobs /\ KnownJob(job[w], nextId) /\ Spares(job[w])
  BY <1>2 DEF CoreInv, CoreTyped, Numbered
<1>6. /\ j \in Jobs /\ j.at = job[w].at /\ j.claimed = job[w].claimed /\ j.alive = job[w].alive
      /\ j.got = job[w].got /\ j.todo = job[w].todo \ {s}
  BY <1>4, <1>5 DEF Jobs
<1>7. KnownJob(j, nextId) /\ Spares(j)
  BY <1>2, <1>5, <1>6 DEF KnownJob, Spares, Working
<1> QED BY <1>1, <1>2, <1>3, <1>4, <1>6, <1>7, JobStep

LEMMA AssemblyCore == ASSUME CoreInv, IInv, NEW w \in Windows, Assembly(w) PROVE CoreInv'
BY ScanCore, ReattachCore, ProbeCore, ClearCore, ForkCore, ConnectCore, SlotsDoneCore, AdoptCore,
   ListCore, RetireCore DEF Assembly

-----------------------------------------------------------------------------
(* Every step of the session processes *)

LEMMA PutSettled ==
    ASSUME CoreInv, IInv, NEW s \in Sids, s \in 0 .. nextId, NEW n, Put(s, n), UNCHANGED region,
           \A p \in Pids : proc'[p].sid = proc[p].sid
    PROVE  Settled
BY DEF CoreInv, CoreTyped, Numbered, Settled, Put

LEMMA ProcessCore ==
    ASSUME CoreInv, IInv, NEW p \in Pids, L3Step(p) \/ Reexec(p) \/ ShellExits(p) \/ Killed(p)
    PROVE  CoreInv'
<1>1. proc \in [Pids -> Procs] /\ proc[p].sid \in 0 .. nextId
  BY DEF IInv, Typed, CoreInv, Numbered
<1>2. CASE Deadman(p) \/ ShellExits(p) \/ Ends(p) \/ Killed(p)
  <2>1. UNCHANGED <<region, dir, nextId, l2>> /\ proc' = [proc EXCEPT ![p].pc = "gone"]
    BY <1>2 DEF Deadman, ShellExits, Leave, Ends, Killed, Gone, disk
  <2> QED BY <2>1, SameSid, FrameStep
<1>3. CASE Open(p) \/ Bind(p) \/ Register(p) \/ Reexec(p)
  <2>1. proc[p].sid \in Sids
    BY <1>3 DEF IInv, LocksHeld, Running, Open, Bind, Register, Reexec
  <2>2. UNCHANGED <<region, nextId, l2>>
    BY <1>3 DEF Open, Bind, Register, Reexec
  <2>3. \A q \in Pids : proc'[q].sid = proc[q].sid
    <3>1. CASE Open(p) \/ Register(p) \/ Reexec(p)
      <4>1. proc' = proc \/ \E c : proc' = [proc EXCEPT ![p].pc = c]
        BY <3>1 DEF Open, Register, Reexec, KeptLock
      <4> QED BY <1>1, <4>1 DEF Procs
    <3>2. CASE Bind(p)
      <4>1. \/ proc' = [proc EXCEPT ![p].pc = "gone"]
            \/ \E n : proc' = [proc EXCEPT ![p].pc = "bound", ![p].home = n, ![p].lock = 1]
        BY <3>2 DEF Bind, Gone
      <4>2. CASE proc' = [proc EXCEPT ![p].pc = "gone"]
        BY <1>1, <4>2 DEF Procs
      <4>3. ASSUME NEW n, proc' = [proc EXCEPT ![p].pc = "bound", ![p].home = n, ![p].lock = 1]
            PROVE  \A q \in Pids : proc'[q].sid = proc[q].sid
        BY <1>1, <4>3 DEF Procs
      <4> QED BY <4>1, <4>2, <4>3
    <3> QED BY <1>3, <3>1, <3>2
  <2>4. UNCHANGED dir \/ \E n : Put(proc[p].sid, n)
    BY <1>3 DEF Open, Bind, Register, Reexec, WriteEntry
  <2>5. CASE UNCHANGED dir
    BY <2>2, <2>3, <2>5, FrameStep DEF CoreInv, CoreTyped, Numbered, Settled
  <2>6. CASE \E n : Put(proc[p].sid, n)
    BY <1>1, <2>1, <2>2, <2>3, <2>6, PutSettled, FrameStep
  <2> QED BY <2>4, <2>5, <2>6
<1> QED BY <1>2, <1>3 DEF L3Step
-----------------------------------------------------------------------------
(* The core, its workers and the person *)

LEMMA LayoutKnown ==
    ASSUME CoreInv, NEW ps, NEW j, NEW n \in Nat, nextId <= n, \A w \in Windows : Shows(ps[w]) \subseteq 0 .. n
    PROVE  Layout(ps, j) \in [Windows -> SUBSET Sids] /\ \A w \in Windows : Layout(ps, j)[w] \subseteq 0 .. n
<1>1. \A w \in Windows : record[w] \in SUBSET Sids /\ record[w] \subseteq 0 .. n
  BY DEF CoreInv, CoreTyped, Numbered
<1> QED BY <1>1 DEF Layout, Shows

\* A step after which the core is up
LEMMA UpStep ==
    ASSUME CoreInv, Settled, nextId' \in Nat, nextId <= nextId', core' = "up", UNCHANGED record,
           panes' \in [Windows -> [Sids -> PaneStates]],
           \A w \in Windows : Shows(panes'[w]) \subseteq 0 .. nextId',
           layout' = layout \/ \E j : layout' = Layout(panes', j),
           job' \in [Windows -> Jobs], \A w \in Windows : KnownJob(job'[w], nextId'),
           job'["boot"].at \in {"none", "over"}, job'["other"].at \notin {"adopt", "sweep"},
           work' \in [Sids -> Works], \A s \in Sids : work'[s].at # "none" => s \in 0 .. nextId'
    PROVE  CoreInv'
<1>1. 0 .. nextId \subseteq 0 .. nextId'
  BY DEF CoreInv, CoreTyped
<1>2. layout' \in [Windows -> SUBSET Sids] /\ \A w \in Windows : layout'[w] \subseteq 0 .. nextId'
  BY <1>1, LayoutKnown DEF CoreInv, CoreTyped, Numbered
<1>3. CoreTyped'
  BY <1>2 DEF CoreInv, CoreTyped, Settled
<1>4. \A w \in Windows : record'[w] \subseteq 0 .. nextId'
  BY <1>1 DEF CoreInv, Numbered
<1>5. (\A s \in Sids : dir'[s] # 0 => s \in 0 .. nextId') /\ \A p \in Pids : proc'[p].sid \in 0 .. nextId'
  BY <1>1 DEF Settled
<1>6. Numbered'
  BY <1>2, <1>4, <1>5 DEF Numbered, Shows, KnownJob
<1>7. Staged'
  BY DEF Staged
<1>8. Spares(job["boot"])'
  BY DEF Spares, Working
<1> QED BY <1>3, <1>6, <1>7, <1>8 DEF CoreInv

LEMMA StartCore == ASSUME CoreInv, IInv, Start PROVE CoreInv'
<1> DEFINE j == [NoJob EXCEPT !.at = "scan"]
<1>1. /\ core = "down" /\ core' = "boot" /\ record' = layout /\ job' = [job EXCEPT !["boot"] = j]
      /\ Settled /\ UNCHANGED <<nextId, layout, panes, work>>
  BY StaySettled DEF Start, disk
<1>2. j \in Jobs /\ j.at = "scan" /\ KnownJob(j, nextId)
  BY NoJobTyped DEF Stages, CoreInv, CoreTyped
<1> HIDE DEF j
<1>3. job' \in [Windows -> Jobs] /\ job'["boot"] = j /\ job'["other"] = job["other"]
  BY <1>1, <1>2 DEF CoreInv, CoreTyped, Windows
<1>4. CoreTyped'
  BY <1>1, <1>3 DEF CoreInv, CoreTyped, Settled
<1>5. \A w \in Windows : KnownJob(job'[w], nextId')
  BY <1>1, <1>2, <1>3 DEF CoreInv, Numbered, Windows
<1>6. Numbered'
  BY <1>1, <1>5 DEF CoreInv, Numbered, Settled, Shows, KnownJob
<1>7. Staged'
  BY <1>1, <1>3 DEF CoreInv, Staged
<1>8. Spares(job["boot"])'
  BY <1>2, <1>3 DEF Spares, Working
<1> QED BY <1>4, <1>6, <1>7, <1>8 DEF CoreInv

LEMMA DiesCore == ASSUME CoreInv, CoreDies PROVE CoreInv'
<1>1. /\ core' = "down" /\ panes' = [w \in Windows |-> NoPanes] /\ job' = [w \in Windows |-> NoJob]
      /\ work' = [s \in Sids |-> NoWork] /\ Settled /\ UNCHANGED <<nextId, record, layout>>
  BY StaySettled DEF CoreDies, disk
<1>2. NoPanes \in [Sids -> PaneStates] /\ Shows(NoPanes) = {}
  BY PaneTypes DEF NoPanes, Shows
<1>3. NoJob \in Jobs /\ NoJob.at = "none" /\ KnownJob(NoJob, nextId)
  BY NoJobTyped DEF Stages, CoreInv, CoreTyped
<1>4. CoreTyped'
  BY <1>1, <1>2, <1>3, NoWorkTyped DEF CoreInv, CoreTyped, Settled
<1>5. \A w \in Windows : Shows(panes'[w]) = {} /\ KnownJob(job'[w], nextId')
  BY <1>1, <1>2, <1>3
<1>6. Numbered'
  BY <1>1, <1>5, NoWorkTyped DEF CoreInv, Numbered, Settled, Shows, KnownJob
<1>7. Staged' /\ Spares(job["boot"])'
  BY <1>1, <1>3 DEF Staged, Spares, Working, Windows
<1> QED BY <1>4, <1>6, <1>7 DEF CoreInv

\* What holds of the panes, the assemblies and the workers anyhow
LEMMA CoreParts ==
    ASSUME CoreInv
    PROVE  /\ panes \in [Windows -> [Sids -> PaneStates]] /\ job \in [Windows -> Jobs]
           /\ work \in [Sids -> Works] /\ nextId \in Nat /\ nextId <= nextId
           /\ \A w \in Windows : Shows(panes[w]) \subseteq 0 .. nextId /\ KnownJob(job[w], nextId)
           /\ \A w \in Windows : Shows(job[w].got) \subseteq 0 .. nextId /\ job[w].got \in [Sids -> PaneStates]
           /\ \A s \in Sids : work[s].at # "none" => s \in 0 .. nextId
           /\ job["other"].at \notin {"adopt", "sweep"}
           /\ core = "up" => job["boot"].at \in {"none", "over"}
BY DEF CoreInv, CoreTyped, Numbered, KnownJob, Staged, Jobs

\* The boot's panes or a restored window's are put in place.
LEMMA PlacedCore ==
    ASSUME CoreInv, NEW w \in Windows, NEW ps \in [Sids -> PaneStates], Shows(ps) \subseteq 0 .. nextId,
           NEW at \in {"scan", "over"}, w = "boot" => at = "over",
           core' = "up", w = "other" => core = "up",
           panes' = [panes EXCEPT ![w] = ps],
           job' = [job EXCEPT ![w] = [NoJob EXCEPT !.at = at]],
           layout' = layout \/ \E j : layout' = Layout(panes', j),
           UNCHANGED <<disk, proc, record, work>>
    PROVE  CoreInv'
<1> DEFINE j == [NoJob EXCEPT !.at = at]
<1>1. j \in Jobs /\ j.at = at /\ KnownJob(j, nextId)
  BY NoJobTyped DEF Stages, CoreInv, CoreTyped
<1> HIDE DEF j
<1>2. job' = [job EXCEPT ![w] = j]
  BY DEF j
<1>3. /\ job' \in [Windows -> Jobs] /\ \A v \in Windows : KnownJob(job'[v], nextId)
      /\ job'["boot"].at \in {"none", "over"} /\ job'["other"].at \notin {"adopt", "sweep"}
  BY <1>1, <1>2, CoreParts DEF Windows
<1>4. /\ panes' \in [Windows -> [Sids -> PaneStates]]
      /\ \A v \in Windows : Shows(panes'[v]) \subseteq 0 .. nextId
  BY CoreParts
<1>5. Settled /\ nextId' = nextId /\ nextId' \in Nat /\ nextId <= nextId'
  BY StaySettled, CoreParts DEF disk
<1> QED BY <1>3, <1>4, <1>5, CoreParts, UpStep

LEMMA WindowCore ==
    ASSUME CoreInv, Booted \/ OpenWindow \/ WindowRestored
    PROVE  CoreInv'
<1>1. CASE Booted
  <2>1. /\ core' = "up" /\ panes' = [panes EXCEPT !["boot"] = job["boot"].got]
        /\ job' = [job EXCEPT !["boot"] = [NoJob EXCEPT !.at = "over"]]
        /\ layout' = Layout(panes', job') /\ UNCHANGED <<disk, proc, record, work>>
    BY <1>1 DEF Booted, Save
  <2> QED BY <2>1, CoreParts, PlacedCore DEF Windows
<1>2. CASE WindowRestored
  <2>1. /\ core = "up" /\ core' = "up" /\ panes' = [panes EXCEPT !["other"] = job["other"].got]
        /\ job' = [job EXCEPT !["other"] = [NoJob EXCEPT !.at = "over"]]
        /\ layout' = Layout(panes', job') /\ UNCHANGED <<disk, proc, record, work>>
    BY <1>2 DEF WindowRestored, Save
  <2> QED BY <2>1, CoreParts, PlacedCore DEF Windows
<1>3. CASE OpenWindow
  <2> DEFINE ps == [s \in Sids |-> IF s \in record["other"] THEN Plain("pending") ELSE NoPane]
  <2>1. /\ core = "up" /\ core' = "up" /\ panes' = [panes EXCEPT !["other"] = ps]
        /\ job' = [job EXCEPT !["other"] = [NoJob EXCEPT !.at = "scan"]]
        /\ UNCHANGED <<disk, proc, record, work, layout>>
    BY <1>3 DEF OpenWindow
  <2>2. ps \in [Sids -> PaneStates]
    BY PaneTypes
  <2>3. Shows(ps) \subseteq record["other"]
    BY PaneTypes DEF Shows
  <2> HIDE DEF ps
  <2>4. Shows(ps) \subseteq 0 .. nextId
    BY <2>3 DEF CoreInv, Numbered, Windows
  <2> QED BY <2>1, <2>2, <2>4, PlacedCore DEF Windows
<1> QED BY <1>1, <1>2, <1>3
\* What the person and a finished spawn do, with the core up: panes, and a worker
LEMMA PanesCore ==
    ASSUME CoreInv, Settled, core = "up", core' = "up", nextId' \in Nat, nextId <= nextId',
           UNCHANGED <<record, job>>,
           panes' \in [Windows -> [Sids -> PaneStates]],
           \A w \in Windows : Shows(panes'[w]) \subseteq 0 .. nextId',
           layout' = layout \/ \E j : layout' = Layout(panes', j),
           work' \in [Sids -> Works], \A s \in Sids : work'[s].at # "none" => s \in 0 .. nextId'
    PROVE  CoreInv'
<1>1. \A w \in Windows : KnownJob(job'[w], nextId')
  BY CoreParts DEF KnownJob
<1> QED BY <1>1, CoreParts, UpStep

\* A pane that is put somewhere, or taken away
LEMMA OnePut ==
    ASSUME CoreInv, NEW w \in Windows, NEW s \in Sids, NEW pane \in PaneStates, NEW n \in Nat, nextId <= n,
           pane.kind = "none" \/ s \in 0 .. n
    PROVE  LET ps == [panes EXCEPT ![w][s] = pane] IN
           /\ ps \in [Windows -> [Sids -> PaneStates]]
           /\ \A v \in Windows : Shows(ps[v]) \subseteq 0 .. n
<1> DEFINE ps == [panes EXCEPT ![w][s] = pane]
<1>1. ps \in [Windows -> [Sids -> PaneStates]]
  BY CoreParts
<1>2. \A v \in Windows, t \in Sids : ps[v][t] = IF v = w /\ t = s THEN pane ELSE panes[v][t]
  BY CoreParts
<1> HIDE DEF ps
<1>3. \A v \in Windows : Shows(ps[v]) \subseteq 0 .. n
  <2>1. SUFFICES ASSUME NEW v \in Windows, NEW t \in Sids, ps[v][t].kind # "none" PROVE t \in 0 .. n
    BY DEF Shows
  <2>2. CASE v = w /\ t = s
    BY <1>2, <2>1, <2>2
  <2>3. CASE ~(v = w /\ t = s)
    <3>1. t \in Shows(panes[v])
      BY <1>2, <2>1, <2>3 DEF Shows
    <3> QED BY <3>1, CoreParts
  <2> QED BY <2>2, <2>3
<1> QED BY <1>1, <1>3 DEF ps

LEMMA OneWork ==
    ASSUME CoreInv, NEW s \in Sids, NEW k \in Works, NEW n \in Nat, nextId <= n,
           k.at = "none" \/ s \in 0 .. n, work' = [work EXCEPT ![s] = k]
    PROVE  work' \in [Sids -> Works] /\ \A t \in Sids : work'[t].at # "none" => t \in 0 .. n
BY CoreParts

LEMMA ForkWork == LET k == [NoWork EXCEPT !.at = "fork"] IN k \in Works
BY PaneTypes, Numbers DEF NoWork, Works

\* The number given is one above the counter: no directory goes beyond it.
LEMMA FreshNumber == ASSUME CoreInv PROVE NextFree = nextId + 1
<1> DEFINE S == {nextId} \cup {s \in Sids : dir[s] # 0}
<1>1. nextId \in Nat /\ nextId \in 0 .. nextId /\ nextId \in S
  BY CoreParts
<1>2. S \subseteq 0 .. nextId
  <2>1. \A s \in Sids : dir[s] # 0 => s \in 0 .. nextId
    BY DEF CoreInv, Numbered
  <2> QED BY <1>1, <2>1
<1> HIDE DEF S
<1>3. Max(S) \in S /\ Max(S) >= nextId
  BY <1>1, <1>2, MaxIn
<1>4. Max(S) = nextId
  <2>1. Max(S) \in 0 .. nextId
    BY <1>2, <1>3
  <2> QED BY <1>1, <1>3, <2>1
<1> QED BY <1>1, <1>4 DEF NextFree, S

LEMMA NewPaneCore == ASSUME CoreInv, NEW w \in Windows, NewPane(w) PROVE CoreInv'
<1>1. /\ nextId \in Nat /\ nextId' = nextId + 1 /\ nextId' \in Sids /\ nextId' \in Nat /\ nextId <= nextId'
      /\ nextId' \in 0 .. nextId'
  BY FreshNumber, CoreParts DEF NewPane
<1>2. /\ core = "up" /\ core' = "up" /\ UNCHANGED <<record, job, region, dir, proc>>
      /\ work' = [work EXCEPT ![nextId'] = [NoWork EXCEPT !.at = "fork"]]
      /\ panes' = [panes EXCEPT ![w][nextId'] = Plain("pending")]
      /\ layout' = Layout(panes', job)
  BY DEF NewPane, Save
<1>3. /\ panes' \in [Windows -> [Sids -> PaneStates]]
      /\ \A v \in Windows : Shows(panes'[v]) \subseteq 0 .. nextId'
  BY <1>1, <1>2, PaneTypes, OnePut
<1>4. work' \in [Sids -> Works] /\ \A t \in Sids : work'[t].at # "none" => t \in 0 .. nextId'
  BY <1>1, <1>2, ForkWork, OneWork
<1>5. Settled
  BY <1>2, StaySettled
<1> QED BY <1>1, <1>2, <1>3, <1>4, <1>5, PanesCore

\* A pane that is there, or is vacant, has a known number.
LEMMA ShownKnown ==
    ASSUME CoreInv, NEW w \in Windows, NEW s \in Sids, panes[w][s].kind # "none"
    PROVE  s \in 0 .. nextId
BY CoreParts DEF Shows

LEMMA ReviveCore == ASSUME CoreInv, NEW w \in Windows, NEW s \in Sids, Revive(w, s) PROVE CoreInv'
<1>1. /\ core = "up" /\ core' = "up" /\ UNCHANGED <<nextId, record, layout, job, region, dir, proc>>
      /\ work' = [work EXCEPT ![s] = [NoWork EXCEPT !.at = "fork"]]
      /\ panes' = [panes EXCEPT ![w][s] = Plain("pending")]
      /\ panes[w][s].kind # "none"
  BY DEF Revive, disk, Exited
<1>2. s \in 0 .. nextId /\ nextId \in Nat /\ nextId <= nextId
  BY <1>1, ShownKnown, CoreParts
<1>3. /\ panes' \in [Windows -> [Sids -> PaneStates]]
      /\ \A v \in Windows : Shows(panes'[v]) \subseteq 0 .. nextId
  BY <1>1, <1>2, PaneTypes, OnePut
<1>4. work' \in [Sids -> Works] /\ \A t \in Sids : work'[t].at # "none" => t \in 0 .. nextId
  BY <1>1, <1>2, ForkWork, OneWork
<1> QED BY <1>1, <1>2, <1>3, <1>4, StaySettled, PanesCore

LEMMA CloseCore == ASSUME CoreInv, IInv, NEW w \in Windows, NEW s \in Sids, Close(w, s) PROVE CoreInv'
<1>1. /\ core = "up" /\ core' = "up" /\ UNCHANGED <<nextId, record, job, work>>
      /\ panes' = [panes EXCEPT ![w][s] = NoPane] /\ layout' = Layout(panes', job)
  BY DEF Close, Save
<1>2. nextId \in Nat /\ nextId <= nextId
  BY CoreParts
<1>3. /\ panes' \in [Windows -> [Sids -> PaneStates]]
      /\ \A v \in Windows : Shows(panes'[v]) \subseteq 0 .. nextId
  BY <1>1, <1>2, PaneTypes, OnePut
<1>4. Settled
  <2>1. CASE panes[w][s].kind = "live"
    <3>1. /\ proc' = Signalled(Entry(s)) /\ dir' = [dir EXCEPT ![s] = 0]
          /\ region' = [region EXCEPT ![s] = 0]
      BY <2>1 DEF Close
    <3>2. \A p \in Pids : proc'[p].sid = proc[p].sid
      BY <3>1 DEF Signalled, IInv, Typed, Procs
    <3> QED BY <3>1, <3>2, Numbers DEF CoreInv, CoreTyped, Numbered, Settled
  <2>2. CASE panes[w][s].kind # "live"
    BY <2>2, StaySettled DEF Close
  <2> QED BY <2>1, <2>2
<1>5. work' \in [Sids -> Works] /\ \A t \in Sids : work'[t].at # "none" => t \in 0 .. nextId
  BY <1>1, CoreParts
<1> QED BY <1>1, <1>2, <1>3, <1>4, <1>5, PanesCore

LEMMA MoveCore ==
    ASSUME CoreInv, NEW v \in Windows, NEW w \in Windows, NEW s \in Sids, Move(v, w, s)
    PROVE  CoreInv'
<1>1. /\ core = "up" /\ core' = "up" /\ UNCHANGED <<nextId, record, job, work, region, dir, proc>>
      /\ panes' = [panes EXCEPT ![v][s] = NoPane, ![w][s] = panes[v][s]]
      /\ layout' = Layout(panes', job) /\ panes[v][s].kind # "none"
  BY DEF Move, Save, disk
<1>2. s \in 0 .. nextId
  BY <1>1, ShownKnown
<1>3. panes' \in [Windows -> [Sids -> PaneStates]]
  <2>1. panes[v][s] \in PaneStates /\ NoPane \in PaneStates
    BY CoreParts, PaneTypes
  <2>2. [panes EXCEPT ![v][s] = NoPane] \in [Windows -> [Sids -> PaneStates]]
    BY <2>1, CoreParts
  <2>3. [[panes EXCEPT ![v][s] = NoPane] EXCEPT ![w][s] = panes[v][s]] \in [Windows -> [Sids -> PaneStates]]
    BY <2>1, <2>2
  <2> QED BY <1>1, <2>3
<1>4. \A u \in Windows, t \in Sids : t # s => panes'[u][t] = panes[u][t]
  BY <1>1, CoreParts
<1>5. \A u \in Windows : Shows(panes'[u]) \subseteq Shows(panes[u]) \cup {s}
  BY <1>4 DEF Shows
<1>6. \A u \in Windows : Shows(panes'[u]) \subseteq 0 .. nextId
  BY <1>2, <1>5, CoreParts
<1>7. work' \in [Sids -> Works] /\ \A t \in Sids : work'[t].at # "none" => t \in 0 .. nextId
  BY <1>1, CoreParts
<1>8. nextId' = nextId /\ nextId \in Nat /\ nextId <= nextId' /\ Settled
  BY <1>1, CoreParts, StaySettled
<1> QED BY <1>1, <1>3, <1>6, <1>7, <1>8, PanesCore

\* A worker's own steps, which may come while the core boots
LEMMA WorkStep ==
    ASSUME CoreInv, Settled, UNCHANGED <<nextId, core, record, layout, panes, job>>,
           work' \in [Sids -> Works], \A s \in Sids : work'[s].at # "none" => s \in 0 .. nextId
    PROVE  CoreInv'
<1>1. CoreTyped'
  BY DEF CoreInv, CoreTyped, Settled
<1>2. Numbered'
  BY DEF CoreInv, Numbered, Settled, Shows, KnownJob
<1> QED BY <1>1, <1>2 DEF CoreInv, Staged, Spares

LEMMA WorkerCore == ASSUME CoreInv, IInv, NEW s \in Sids, Worker(s) PROVE CoreInv'
<1>0. work[s] \in Works /\ nextId \in Nat /\ nextId <= nextId
  BY CoreParts
<1>1. CASE WorkerForks(s)
  <2>0. s \in 0 .. nextId /\ UNCHANGED <<dir, nextId, core, record, layout, panes, job>>
    BY <1>1, CoreParts DEF WorkerForks
  <2>1. CASE Capped
    <3> DEFINE k == [at |-> "sent", born |-> 0, pane |-> Plain("vacant")]
    <3>1. work' = [work EXCEPT ![s] = k] /\ UNCHANGED <<region, proc>>
      BY <1>1, <2>1 DEF WorkerForks
    <3>2. k \in Works
      BY PaneTypes, Numbers DEF Works
    <3> HIDE DEF k
    <3> QED BY <1>0, <2>0, <3>1, <3>2, StaySettled, OneWork, WorkStep
  <2>2. CASE ~Capped
    <3>1. PICK p \in Pids : Forked(s, p) /\ work' = [work EXCEPT ![s].at = "connect", ![s].born = p]
      BY <1>1, <2>2 DEF WorkerForks
    <3>2. /\ work' \in [Sids -> Works]
          /\ \A t \in Sids \ {s} : work'[t] = work[t]
      BY <1>0, <3>1, CoreParts, Numbers DEF Works
    <3>3. Settled
      BY <2>0, <3>1, ForkSettled
    <3> QED BY <2>0, <3>2, <3>3, CoreParts, WorkStep
  <2> QED BY <2>1, <2>2
<1>2. CASE WorkerConnects(s)
  <2>0. /\ s \in 0 .. nextId /\ UNCHANGED <<dir, region, nextId, core, record, layout, panes, job>>
        /\ work[s].born \in 0 .. MaxPids
    BY <1>0, <1>2, CoreParts DEF WorkerConnects, disk, Works
  <2>1. PICK pane \in PaneStates : work' = [work EXCEPT ![s].at = "sent", ![s].pane = pane]
    BY <1>2, <2>0, ConnectedTyped, PaneTypes DEF WorkerConnects
  <2>2. /\ work' \in [Sids -> Works]
        /\ \A t \in Sids \ {s} : work'[t] = work[t]
    BY <1>0, <2>1, CoreParts DEF Works
  <2>3. Settled
    BY <1>2, <2>0, StaySettled, SameSid DEF WorkerConnects, Gone
  <2> QED BY <2>0, <2>2, <2>3, CoreParts, WorkStep
<1>3. CASE SpawnFinished(s)
  <2>1. /\ core = "up" /\ core' = "up" /\ UNCHANGED <<nextId, region, dir, proc, record, layout, job>>
        /\ work' = [work EXCEPT ![s] = NoWork] /\ work[s].at # "none"
        /\ UNCHANGED panes \/ \E w \in Windows : panes' = [panes EXCEPT ![w][s] = work[s].pane]
    BY <1>3 DEF SpawnFinished, disk
  <2>2. work' \in [Sids -> Works] /\ \A t \in Sids : work'[t].at # "none" => t \in 0 .. nextId
    BY <1>0, <2>1, NoWorkTyped, OneWork
  <2>3. work[s].pane \in PaneStates /\ s \in 0 .. nextId
    BY <1>0, <2>1, CoreParts DEF Works
  <2>4. /\ panes' \in [Windows -> [Sids -> PaneStates]]
        /\ \A v \in Windows : Shows(panes'[v]) \subseteq 0 .. nextId
    <3>1. CASE UNCHANGED panes
      BY <3>1, CoreParts
    <3>2. CASE \E w \in Windows : panes' = [panes EXCEPT ![w][s] = work[s].pane]
      BY <1>0, <2>3, <3>2, OnePut
    <3> QED BY <2>1, <3>1, <3>2
  <2> QED BY <1>0, <2>1, <2>2, <2>4, StaySettled, PanesCore
<1> QED BY <1>1, <1>2, <1>3 DEF Worker
-----------------------------------------------------------------------------
LEMMA InitCore == Init => CoreInv
<1> SUFFICES ASSUME Init PROVE CoreInv
  OBVIOUS
<1> DEFINE old == Saved["boot"] \cup Saved["other"]
<1>1. PICK n \in Nat : Sids = 1 .. n
  BY SidsAssumption
<1>2. old \subseteq Sids /\ old \cup {0} \subseteq 0 .. n
  BY <1>1, SidsAssumption DEF Windows
<1>3. nextId = Max(old \cup {0})
  BY DEF Init
<1>4. nextId \in 0 .. n /\ \A s \in old : s \in 0 .. nextId
  <2> DEFINE S == old \cup {0}
  <2>1. S \subseteq 0 .. n /\ S # {}
    BY <1>2
  <2> HIDE DEF S
  <2>2. Max(S) \in S /\ \A y \in S : Max(S) >= y
    BY <2>1, MaxIn
  <2>3. nextId \in 0 .. n /\ \A y \in S : nextId >= y /\ y \in 0 .. n
    BY <1>3, <2>1, <2>2 DEF S
  <2>4. \A y \in S : y \in 0 .. nextId
    BY <2>3
  <2> QED BY <2>3, <2>4 DEF S
<1>5. NoPanes \in [Sids -> PaneStates] /\ Shows(NoPanes) = {}
  BY PaneTypes DEF NoPanes, Shows
<1>6. NoJob \in Jobs /\ NoJob.at = "none" /\ KnownJob(NoJob, nextId)
  <2>1. nextId \in Nat /\ "scan" \in Stages
    BY <1>4 DEF Stages
  <2> QED BY <2>1, NoJobTyped
<1>7. /\ core = "down" /\ record = Saved /\ layout = Saved /\ region = [s \in Sids |-> 0]
      /\ panes = [w \in Windows |-> NoPanes] /\ job = [w \in Windows |-> NoJob]
      /\ work = [s \in Sids |-> NoWork]
  BY DEF Init
<1>8. CoreTyped
  BY <1>4, <1>5, <1>6, <1>7, NoWorkTyped, Numbers, SidsAssumption DEF CoreTyped
<1>9. Numbered
  <2>1. \A s \in Sids : dir[s] # 0 => s \in old
    BY DEF Init
  <2>2. \A p \in Pids : proc[p].sid = 0
    BY DEF Init, Unborn
  <2>3. \A w \in Windows : record[w] \subseteq old /\ layout[w] \subseteq old
    BY <1>7 DEF Windows
  <2>4. 0 \in 0 .. nextId
    BY <1>4
  <2>5. \A s \in Sids : work[s].at = "none"
    BY <1>7, NoWorkTyped
  <2>6. \A w \in Windows : Shows(panes[w]) = {} /\ job[w] = NoJob
    BY <1>5, <1>7
  <2> HIDE DEF old
  <2> QED BY <1>4, <1>6, <2>1, <2>2, <2>3, <2>4, <2>5, <2>6 DEF Numbered
<1>10. Staged /\ Spares(job["boot"])
  BY <1>6, <1>7 DEF Staged, Spares, Working, Windows
<1> QED BY <1>8, <1>9, <1>10 DEF CoreInv

LEMMA StepCore == IInv /\ CoreInv /\ [Next]_vars => CoreInv'
<1> SUFFICES ASSUME IInv, CoreInv, [Next]_vars PROVE CoreInv'
  OBVIOUS
<1>1. CASE UNCHANGED vars
  BY <1>1, StaySettled, FrameStep DEF vars, disk
<1>2. CASE \E p \in Pids : L3Step(p) \/ Reexec(p) \/ ShellExits(p) \/ Killed(p)
  BY <1>2, ProcessCore
<1>3. CASE \E w \in Windows : Assembly(w)
  BY <1>3, AssemblyCore
<1>4. CASE \E s \in Sids : Worker(s)
  BY <1>4, WorkerCore
<1>5. CASE Start \/ Booted \/ OpenWindow \/ WindowRestored \/ CoreDies
  BY <1>5, StartCore, WindowCore, DiesCore
<1>6. CASE Person
  BY <1>6, NewPaneCore, ReviveCore, CloseCore, MoveCore DEF Person
<1> QED BY <1>1, <1>2, <1>3, <1>4, <1>5, <1>6 DEF Next

LEMMA FreshId ==
    ASSUME CoreInv, NEW v \in Windows, NewPane(v)
    PROVE  /\ \A p \in Pids : proc[p].sid # nextId'
           /\ \A w \in Windows : panes[w][nextId'].kind = "none" /\ nextId' \notin layout[w]
<1>1. nextId \in Nat /\ nextId' = nextId + 1 /\ nextId' \in Sids
  BY FreshNumber, CoreParts DEF NewPane
<1>2. nextId' \notin 0 .. nextId
  BY <1>1
<1>3. \A w \in Windows : nextId' \notin Shows(panes[w]) /\ nextId' \notin layout[w]
  BY <1>2 DEF CoreInv, Numbered
<1> QED BY <1>1, <1>2, <1>3 DEF CoreInv, Numbered, Shows

\* A new session's number is nobody's: it is above the counter, and whatever
\* knows a session has its number from there (session_registry.rs:60-118).
THEOREM NumbersFresh == Spec => IdsNotReused
<1>1. CoreInv => [\A v \in Windows : NewPane(v)
         => /\ \A p \in Pids : proc[p].sid # nextId'
            /\ \A w \in Windows : panes[w][nextId'].kind = "none" /\ nextId' \notin layout[w]]_vars
  BY FreshId
<1> QED BY <1>1, InitIInv, InitCore, StepIInv, StepCore, PTL DEF Spec, IdsNotReused

\* Only the boot's sweep retires a directory.
LEMMA OnlySweep ==
    ASSUME [Next]_vars, retired' # retired
    PROVE  \E w \in Windows : Retire(w)
<1>1. ~UNCHANGED vars
  BY DEF vars, disk
<1>2. ASSUME NEW p \in Pids, L3Step(p) \/ Reexec(p) \/ ShellExits(p) \/ Killed(p) PROVE FALSE
  BY <1>2 DEF L3Step, Open, Bind, Register, Deadman, Ends, Reexec, ShellExits, Killed, Leave, disk
<1>3. ASSUME NEW s \in Sids, Worker(s) PROVE FALSE
  BY <1>3 DEF Worker, WorkerForks, WorkerConnects, SpawnFinished, disk
<1>4. ~(Start \/ Booted \/ OpenWindow \/ WindowRestored \/ CoreDies)
  BY DEF Start, Booted, OpenWindow, WindowRestored, CoreDies, disk
<1>5. ~Person
  BY DEF Person, NewPane, Revive, Close, Move, disk
<1>6. \E w \in Windows : Assembly(w)
  BY <1>1, <1>2, <1>3, <1>4, <1>5 DEF Next
<1> QED BY <1>6 DEF Assembly, Scan, Reattach, ReattachFails, Probe, Clear, Fork, Connect, SlotsDone,
                    Adopt, List, disk

LEMMA SparesSaved ==
    ASSUME CoreInv, [Next]_vars, retired' # retired, NEW s \in Sids, dir'[s] # dir[s]
    PROVE  s \notin layout["boot"] \cup layout["other"]
<1>1. PICK w \in Windows, t \in Sids : Turn(w, "sweep", t) /\ dir' = [dir EXCEPT ![t] = 0]
  BY OnlySweep DEF Retire
<1>2. t \in job[w].todo /\ job[w].at = "sweep"
  BY <1>1, TurnIn
<1>3. w = "boot" /\ record = layout
  BY <1>2 DEF CoreInv, CoreTyped, Staged, Windows
<1>4. s = t
  BY <1>1
<1> QED BY <1>2, <1>3, <1>4 DEF CoreInv, Spares

\* The boot's sweep retires no directory of a session the layout names, in
\* whichever window and however the core before it ended
\* (marspot-core.rs:10185-10204).
THEOREM SavedNotRetired == Spec => SweepSpares
<1>1. CoreInv /\ [Next]_vars =>
        [\A s \in Sids : retired' # retired /\ dir'[s] # dir[s]
           => s \notin layout["boot"] \cup layout["other"]]_vars
  BY SparesSaved
<1> QED BY <1>1, InitIInv, InitCore, StepIInv, StepCore, PTL DEF Spec, SweepSpares
-----------------------------------------------------------------------------
(* What the boot has found *)

\* The processes that have come to serve, and those that hold their session
Begun == {p \in Pids : proc[p].pc \in {"serving", "leaving", "gone"}}
Held(s, p) == proc[p].pc = "serving" /\ Sock(s) = p

\* A directory has one path; one that was never made has nothing in it, and an
\* entry was written by a process that had come to serve.
NodesSound ==
    /\ \A n \in Nodes : node[n].made = 0 => node[n].entry = 0 /\ node[n].sock = 0
    /\ \A n \in Nodes : node[n].entry # 0 => node[n].entry \in Begun
    /\ \A s \in Sids : dir[s] # 0 => node[dir[s]].made = 1
    /\ \A s, t \in Sids : dir[s] = dir[t] /\ dir[s] # 0 => s = t

\* No process comes to serve twice, or binds after it did: a session it does
\* not hold by then it never will.
OnProcs == \A p \in Begun : /\ p \in Begun'
                            /\ proc[p].pc # "serving" => proc'[p].pc # "serving"
                            /\ proc[p].pc = "gone" => proc'[p].pc = "gone"
OnSocks == \A s \in Sids : Sock(s)' # Sock(s) /\ Sock(s)' # 0 => Sock(s)' \in Pids \ Begun
Onward == NodesSound' /\ OnProcs /\ OnSocks
Stands == \A s \in Sids : Entry(s) # 0 => Entry(s)' # 0

LEMMA HeldOn ==
    ASSUME OnProcs, OnSocks, NEW s \in Sids, NEW p \in Begun, ~Held(s, p)
    PROVE  ~Held(s, p)'
BY PidsPositive DEF OnProcs, OnSocks, Held, Begun

\* The core is idle before it is up.
Idle == core # "up" => \A s \in Sids : work[s].at = "none"

\* What the boot, in its stage j, has in hand
Now(j, s) == j.at \in {"probe", "clear", "fork", "connect"} /\ s = Min(j.todo)

\* What it knows of the process the entry of s named when it looked: one that
\* it found dead is gone; while a slot waits its entry stands; a slot that is
\* done shows that process, or the process does not hold the session; and a
\* session no slot took is not held, or has no region.
Looked(j, s) == LET p == j.seen[s] IN
    /\ p \in Begun
    /\ s \notin j.alive => proc[p].pc = "gone"
    /\ ~Now(j, s) /\ s \notin j.claimed /\ j.at # "sweep" => Entry(s) # 0
    /\ s \in j.claimed => j.got[s].ctl = p \/ ~Held(s, p)
    /\ j.at \in {"adopt", "sweep"} /\ s \notin j.claimed \cup record["other"]
         /\ (j.at = "adopt" => s \notin j.todo) => ~Held(s, p) \/ region[s] = 0

\* The process of the slot in hand has stopped serving, once the slot was found
\* dead or out of reach.
Stopped(j, s) == Now(j, s) => proc[j.seen[s]].pc # "serving"

Sorted(j) == j.todo \cap j.claimed = {} /\ (j.at = "scan" => j.claimed = {})
Boots(j) == j.at \notin {"none", "scan", "over"}
Found(j) == Boots(j) => \A s \in Sids : j.seen[s] # 0 => Looked(j, s) /\ Stopped(j, s)

FoundInv == NodesSound /\ Idle /\ Sorted(job["boot"]) /\ Found(job["boot"])

-----------------------------------------------------------------------------
\* What a step does to the processes
LEMMA PhaseOn ==
    ASSUME IInv, NEW x, NEW c, proc' = [proc EXCEPT ![x].pc = c],
           \/ c = "gone"
           \/ c = "leaving" /\ proc[x].pc # "gone"
           \/ x \notin Begun /\ c \in Phases
    PROVE  OnProcs
<1>1. \A p \in Pids : proc'[p].pc = IF p = x THEN c ELSE proc[p].pc
  BY DEF IInv, Typed, Procs
<1> QED BY <1>1 DEF OnProcs, Begun

LEMMA SignalOn == ASSUME IInv, NEW x, proc' = Signalled(x) PROVE OnProcs
<1>1. CASE Alive(x)
  BY <1>1, PhaseOn DEF Signalled, Alive
<1>2. CASE ~Alive(x)
  BY <1>2 DEF Signalled, OnProcs, Begun
<1> QED BY <1>1, <1>2

LEMMA ForkOn == ASSUME IInv, NEW s, NEW p, Forked(s, p) PROVE OnProcs
<1>1. \A q \in Pids : q # p => proc'[q] = proc[q]
  BY DEF IInv, Typed, Forked
<1>2. p \notin Begun
  BY DEF Forked, Begun
<1> QED BY <1>1, <1>2 DEF OnProcs, Begun

\* What a step does to the directories
LEMMA SameSound ==
    ASSUME NodesSound, OnProcs, UNCHANGED <<dir, node>>
    PROVE  Onward /\ Stands
BY DEF Onward, NodesSound, OnProcs, OnSocks, Stands, Sock, Entry

LEMMA PutSound ==
    ASSUME IInv, NodesSound, OnProcs, NEW s \in Sids, NEW n \in NodeAt(s), Put(s, n),
           node' \in [Nodes -> NodeStates], \A m \in Nodes \ {n} : node'[m] = node[m],
           node'[n].made = 1,
           node'[n].entry = node[n].entry \/ node'[n].entry \in Begun',
           node'[n].sock = node[n].sock \/ node'[n].sock \in Pids \ Begun
    PROVE  Onward /\ Stands
<1>1. /\ n \in Nodes /\ n # 0 /\ (dir[s] = 0 => node[n].made = 0) /\ (dir[s] # 0 => n = dir[s])
  BY NodePut, NodesPositive DEF IInv
<1>2. dir'[s] = n /\ \A t \in Sids \ {s} : dir'[t] = dir[t] /\ dir[t] # n
  <2>1. \A t \in Sids \ {s} : dir[t] # n
    BY <1>1 DEF NodesSound
  <2> QED BY <2>1 DEF IInv, Typed, Put
<1>3. \A t \in Sids : dir[t] # 0 => dir[t] \in Nodes
  BY Bounded DEF IInv, Typed, Nodes
<1>4. \A t \in Sids \ {s} : Entry(t)' = Entry(t) /\ Sock(t)' = Sock(t)
  BY <1>2, <1>3 DEF Entry, Sock
<1>5. Entry(s)' = node'[n].entry /\ Sock(s)' = node'[n].sock
  BY <1>1, <1>2 DEF Entry, Sock
<1>6. Entry(s) = node[n].entry /\ Sock(s) = node[n].sock
  BY <1>1 DEF Entry, Sock, NodesSound
<1>7. OnSocks
  BY <1>4, <1>5, <1>6 DEF OnSocks
<1>8. Stands
  BY <1>4, <1>5, <1>6, PidsPositive DEF Stands, Begun
<1>9. NodesSound'
  <2>1. \A m \in Nodes : node'[m].made = 0 => node'[m].entry = 0 /\ node'[m].sock = 0
    BY DEF NodesSound
  <2>2. \A m \in Nodes : node'[m].entry # 0 => node'[m].entry \in Begun'
    BY <1>1 DEF NodesSound, OnProcs
  <2>3. \A t \in Sids : dir'[t] # 0 => node'[dir'[t]].made = 1
    BY <1>2, <1>3 DEF NodesSound
  <2>4. \A t, u \in Sids : dir'[t] = dir'[u] /\ dir'[t] # 0 => t = u
    BY <1>2 DEF NodesSound
  <2> QED BY <2>1, <2>2, <2>3, <2>4 DEF NodesSound
<1> QED BY <1>7, <1>8, <1>9 DEF Onward

\* Entries and sockets are unlinked in one directory.
Unlinks(s) == dir' = dir /\ \A m \in Nodes :
    /\ m # dir[s] => node'[m] = node[m]
    /\ node'[m].made = node[m].made
    /\ node'[m].entry \in {node[m].entry, 0} /\ node'[m].sock \in {node[m].sock, 0}

LEMMA UnlinkSound ==
    ASSUME IInv, NodesSound, OnProcs, NEW s \in Sids, Unlinks(s)
    PROVE  Onward /\ \A t \in Sids \ {s} : Entry(t)' = Entry(t)
<1>1. \A t \in Sids : dir[t] # 0 => dir[t] \in Nodes
  BY Bounded DEF IInv, Typed, Nodes
<1>2. \A t \in Sids : Sock(t)' \in {Sock(t), 0}
  BY <1>1 DEF Sock, Unlinks
<1>3. \A t \in Sids \ {s} : Entry(t)' = Entry(t)
  BY <1>1 DEF Entry, NodesSound, Unlinks
<1>4. NodesSound'
  BY <1>1 DEF NodesSound, OnProcs, Unlinks
<1> QED BY <1>2, <1>3, <1>4 DEF Onward, OnSocks

LEMMA UnputSound ==
    ASSUME IInv, NodesSound, OnProcs, UNCHANGED node, NEW s \in Sids, dir' = [dir EXCEPT ![s] = 0]
    PROVE  Onward
<1>1. \A t \in Sids : dir'[t] = IF t = s THEN 0 ELSE dir[t]
  BY DEF IInv, Typed
<1>2. \A t \in Sids : Sock(t)' \in {Sock(t), 0}
  BY <1>1 DEF Sock
<1>3. NodesSound'
  BY <1>1 DEF NodesSound, OnProcs
<1> QED BY <1>2, <1>3 DEF Onward, OnSocks


LEMMA EntryOn ==
    ASSUME IInv, NodesSound, NEW p \in Pids, Running(p), WriteEntry(p), OnProcs, p \in Begun'
    PROVE  Onward /\ Stands
<1>1. proc[p].sid \in Sids
  BY DEF IInv, LocksHeld
<1>2. PICK n \in NodeAt(proc[p].sid) :
        Put(proc[p].sid, n) /\ node' = [node EXCEPT ![n].made = 1, ![n].entry = p]
  BY DEF WriteEntry
<1>3. n \in Nodes /\ p \in 0 .. MaxPids
  BY <1>1, NodePut, Bounded DEF IInv, Pids
<1>4. /\ node' \in [Nodes -> NodeStates] /\ node'[n].made = 1 /\ node'[n].entry = p
      /\ node'[n].sock = node[n].sock /\ \A m \in Nodes \ {n} : node'[m] = node[m]
  BY <1>2, <1>3 DEF IInv, Typed, NodeStates
<1> QED BY <1>1, <1>2, <1>4, PutSound

\* Every step of the session processes
LEMMA ProcessOn ==
    ASSUME IInv, NodesSound, NEW p \in Pids, L3Step(p) \/ Reexec(p) \/ ShellExits(p) \/ Killed(p)
    PROVE  Onward /\ Stands /\ UNCHANGED <<region, l2>>
<1>1. CASE Open(p)
  <2>1. proc[p].sid \in Sids /\ OnProcs
    <3>1. Running(p) /\ p \notin Begun
      BY <1>1 DEF Open, Running, Begun
    <3>2. proc' = [proc EXCEPT ![p].pc = "opened"]
      BY <1>1 DEF Open
    <3> QED BY <3>1, <3>2, PhaseOn DEF IInv, LocksHeld, Phases
  <2>2. PICK n \in NodeAt(proc[p].sid) :
          Put(proc[p].sid, n) /\ node' = [node EXCEPT ![n].made = 1]
    BY <1>1 DEF Open
  <2>3. n \in Nodes
    BY <2>1, NodePut DEF IInv
  <2>4. /\ node' \in [Nodes -> NodeStates] /\ node'[n].made = 1
        /\ node'[n].entry = node[n].entry /\ node'[n].sock = node[n].sock
        /\ \A m \in Nodes \ {n} : node'[m] = node[m]
    BY <2>2, <2>3 DEF IInv, Typed, NodeStates
  <2> QED BY <1>1, <2>1, <2>2, <2>4, PutSound DEF Open
<1>2. CASE Bind(p)
  <2> DEFINE s == proc[p].sid
  <2>1. s \in Sids /\ p \notin Begun /\ UNCHANGED <<region, l2>>
    BY <1>2 DEF Bind, Running, Begun, IInv, LocksHeld
  <2>2. CASE Gone(p) /\ UNCHANGED <<dir, node>>
    BY <2>1, <2>2, PhaseOn, SameSound DEF Gone
  <2>3. CASE /\ Owner(dir[s]) = {}
          /\ \E n \in NodeAt(s) :
               /\ Put(s, n)
               /\ node' = [node EXCEPT ![n].made = 1, ![n].sock = p]
               /\ proc' = [proc EXCEPT ![p].pc = "bound", ![p].home = n, ![p].lock = 1]
    <3>1. PICK n \in NodeAt(s) :
            /\ Put(s, n)
            /\ node' = [node EXCEPT ![n].made = 1, ![n].sock = p]
            /\ proc' = [proc EXCEPT ![p].pc = "bound", ![p].home = n, ![p].lock = 1]
      BY <2>3
    <3>2. n \in Nodes /\ p \in 0 .. MaxPids
      BY <2>1, NodePut, Bounded DEF IInv, Pids
    <3>3. /\ node' \in [Nodes -> NodeStates] /\ node'[n].made = 1
          /\ node'[n].entry = node[n].entry /\ node'[n].sock = p
          /\ \A m \in Nodes \ {n} : node'[m] = node[m]
      BY <3>1, <3>2 DEF IInv, Typed, NodeStates
    <3>4. OnProcs
      <4>1. \A q \in Pids : q # p => proc'[q] = proc[q]
        BY <3>1 DEF IInv, Typed
      <4> QED BY <2>1, <4>1 DEF OnProcs, Begun
    <3> QED BY <2>1, <3>1, <3>3, <3>4, PutSound
  <2> QED BY <1>2, <2>2, <2>3 DEF Bind
<1>3. CASE Register(p)
  <2>1. Running(p) /\ WriteEntry(p) /\ p \notin Begun /\ UNCHANGED <<region, l2>>
    BY <1>3 DEF Register, Running, Begun
  <2>2. proc' = [proc EXCEPT ![p].pc = "serving"]
    BY <1>3 DEF Register
  <2>3. OnProcs /\ p \in Begun'
    <3>1. proc'[p].pc = "serving"
      BY <2>2 DEF IInv, Typed, Procs
    <3> QED BY <2>1, <2>2, <3>1, PhaseOn DEF Begun, Phases
  <2> QED BY <2>1, <2>3, EntryOn
<1>4. CASE Deadman(p) \/ ShellExits(p)
  <2>1. Leave(p) /\ Running(p) /\ UNCHANGED <<dir, region, l2>>
    BY <1>4 DEF Deadman, ShellExits, Leave, Running
  <2>2. OnProcs /\ proc[p].sid \in Sids
    BY <2>1, PhaseOn DEF Leave, Gone, IInv, LocksHeld
  <2>3. Unlinks(proc[p].sid) /\ \A m \in Nodes : node'[m].entry = node[m].entry
    BY <2>1 DEF Leave, NoSocket, IInv, Typed, NodeStates, Unlinks
  <2>4. Onward
    BY <2>2, <2>3, UnlinkSound
  <2>5. \A t \in Sids : dir[t] # 0 => dir[t] \in Nodes
    BY Bounded DEF IInv, Typed, Nodes
  <2>6. Stands
    BY <2>3, <2>5 DEF Stands, Entry, Unlinks
  <2> QED BY <2>1, <2>4, <2>6
<1>5. CASE Ends(p) \/ Killed(p)
  <2>1. Gone(p) /\ UNCHANGED <<dir, node, region, l2>>
    BY <1>5 DEF Ends, Killed, disk
  <2> QED BY <2>1, PhaseOn, SameSound DEF Gone
<1>6. CASE Reexec(p)
  <2>1. Running(p) /\ WriteEntry(p) /\ proc' = proc /\ p \in Begun /\ UNCHANGED <<region, l2>>
    BY <1>6 DEF Reexec, Running, KeptLock, Begun
  <2> QED BY <2>1, EntryOn DEF OnProcs, Begun
<1> QED BY <1>1, <1>2, <1>3, <1>4, <1>5, <1>6 DEF L3Step

\* Every step of a window's assembly
LEMMA AssemblyOn ==
    ASSUME IInv, NodesSound, NEW w \in Windows, Assembly(w)
    PROVE  Onward
<1>1. CASE Scan(w) \/ Reattach(w) \/ SlotsDone(w) \/ Adopt(w) \/ List(w)
  <2>1. UNCHANGED <<dir, node, proc>>
    BY <1>1 DEF Scan, Reattach, SlotsDone, Adopt, List, disk
  <2> QED BY <2>1, SameSound DEF OnProcs, Begun
<1>2. CASE ReattachFails(w)
  <2>1. UNCHANGED <<dir, node>> /\ (proc' = proc \/ \E s \in Sids : proc' = Signalled(job[w].seen[s]))
    BY <1>2 DEF ReattachFails, disk
  <2>2. OnProcs
    BY <2>1, SignalOn DEF OnProcs, Begun
  <2> QED BY <2>1, <2>2, SameSound
<1>3. CASE Probe(w)
  <2>1. PICK s \in Sids : \E n \in NodeAt(s) :
          Put(s, n) /\ node' = [node EXCEPT ![n].made = 1] /\ UNCHANGED proc
    BY <1>3 DEF Probe
  <2>2. PICK n \in NodeAt(s) :
          Put(s, n) /\ node' = [node EXCEPT ![n].made = 1] /\ UNCHANGED proc
    BY <2>1
  <2>3. n \in Nodes
    BY <2>2, NodePut DEF IInv
  <2>4. /\ node' \in [Nodes -> NodeStates] /\ node'[n].made = 1
        /\ node'[n].entry = node[n].entry /\ node'[n].sock = node[n].sock
        /\ \A m \in Nodes \ {n} : node'[m] = node[m]
    BY <2>2, <2>3 DEF IInv, Typed, NodeStates
  <2>5. OnProcs
    BY <2>2 DEF OnProcs, Begun
  <2> QED BY <2>2, <2>4, <2>5, PutSound
<1>4. CASE Clear(w)
  <2>1. PICK s \in Sids :
          /\ UNCHANGED <<dir, proc>>
          /\ node' = [m \in Nodes |-> IF m = dir[s] THEN [node[m] EXCEPT !.entry = 0, !.sock = 0]
                                       ELSE node[m]]
    BY <1>4 DEF Clear
  <2>2. OnProcs
    BY <2>1 DEF OnProcs, Begun
  <2>3. Unlinks(s)
    <3>1. \A m \in Nodes : node[m] \in NodeStates
      BY DEF IInv, Typed
    <3>2. ASSUME NEW r \in NodeStates, NEW q, q = [r EXCEPT !.entry = 0, !.sock = 0]
          PROVE  q.made = r.made /\ q.entry = 0 /\ q.sock = 0
      BY <3>2 DEF NodeStates
    <3> QED BY <2>1, <3>1, <3>2 DEF Unlinks
  <2> QED BY <2>1, <2>2, <2>3, UnlinkSound
<1>5. CASE Fork(w)
  <2>1. UNCHANGED <<dir, node>> /\ (proc' = proc \/ \E s \in Sids, p \in Pids : Forked(s, p))
    BY <1>5 DEF Fork
  <2>2. OnProcs
    BY <2>1, ForkOn DEF OnProcs, Begun
  <2> QED BY <2>1, <2>2, SameSound
<1>6. CASE Connect(w)
  <2>1. UNCHANGED <<dir, node>> /\ (proc' = proc \/ Gone(job[w].born))
    BY <1>6 DEF Connect, disk
  <2>2. OnProcs
    BY <2>1, PhaseOn DEF OnProcs, Begun, Gone
  <2> QED BY <2>1, <2>2, SameSound
<1>7. CASE Retire(w)
  <2>1. PICK s \in Sids : dir' = [dir EXCEPT ![s] = 0] /\ UNCHANGED <<node, proc>>
    BY <1>7 DEF Retire
  <2>2. OnProcs
    BY <2>1 DEF OnProcs, Begun
  <2> QED BY <2>1, <2>2, UnputSound
<1> QED BY <1>1, <1>2, <1>3, <1>4, <1>5, <1>6, <1>7 DEF Assembly

\* Every step
LEMMA StepOn == ASSUME IInv, NodesSound, [Next]_vars PROVE Onward
<1>1. CASE UNCHANGED <<dir, node, proc>>
  BY <1>1, SameSound DEF OnProcs, Begun
<1>2. CASE UNCHANGED vars \/ Start \/ Booted \/ OpenWindow \/ WindowRestored \/ CoreDies
  BY <1>1, <1>2 DEF Start, Booted, OpenWindow, WindowRestored, CoreDies, vars, disk
<1>3. CASE \E p \in Pids : L3Step(p) \/ Reexec(p) \/ ShellExits(p) \/ Killed(p)
  BY <1>3, ProcessOn
<1>4. CASE \E w \in Windows : Assembly(w)
  BY <1>4, AssemblyOn
<1>5. CASE \E s \in Sids : Worker(s)
  <2>1. PICK s \in Sids : Worker(s)
    BY <1>5
  <2>2. UNCHANGED <<dir, node>> /\ (proc' = proc \/ (\E p \in Pids : Forked(s, p)) \/ Gone(work[s].born))
    BY <2>1 DEF Worker, WorkerForks, WorkerConnects, SpawnFinished, disk
  <2>3. OnProcs
    BY <2>2, ForkOn, PhaseOn DEF OnProcs, Begun, Gone
  <2> QED BY <2>2, <2>3, SameSound
<1>6. CASE Person
  <2>1. CASE \E w \in Windows, s \in Sids : Close(w, s)
    <3>1. PICK w \in Windows, s \in Sids : Close(w, s)
      BY <2>1
    <3>2. CASE panes[w][s].kind = "live"
      <4>1. proc' = Signalled(Entry(s)) /\ dir' = [dir EXCEPT ![s] = 0] /\ UNCHANGED node
        BY <3>1, <3>2 DEF Close
      <4> QED BY <4>1, SignalOn, UnputSound
    <3>3. CASE panes[w][s].kind # "live"
      BY <1>1, <3>1, <3>3 DEF Close
    <3> QED BY <3>2, <3>3
  <2>2. CASE \/ \E w \in Windows : NewPane(w)
             \/ \E w \in Windows, s \in Sids : Revive(w, s)
             \/ \E v, w \in Windows, s \in Sids : Move(v, w, s)
    BY <1>1, <2>2 DEF NewPane, Revive, Move, disk
  <2> QED BY <1>6, <2>1, <2>2 DEF Person
<1> QED BY <1>2, <1>3, <1>4, <1>5, <1>6 DEF Next

-----------------------------------------------------------------------------
\* What the boot knows, in the stage k it goes to, outlives the step.
Lasting(k) ==
    \A s \in Sids :
      /\ ~Now(k, s) /\ s \notin k.claimed /\ k.at # "sweep" => (Entry(s) # 0 => Entry(s)' # 0)
      /\ k.at \in {"adopt", "sweep"} /\ region[s] = 0 => region'[s] = 0

LEMMA FoundOn ==
    ASSUME Onward, UNCHANGED record, NEW k, job'["boot"] = k, Lasting(k),
           \A s \in Sids : k.seen[s] # 0 =>
             Looked(k, s) /\ (Now(k, s) => proc'[k.seen[s]].pc # "serving")
    PROVE  Found(job["boot"])'
<1>1. \A s \in Sids : k.seen[s] # 0 => Looked(k, s)'
  <2>1. SUFFICES ASSUME NEW s \in Sids, k.seen[s] # 0 PROVE Looked(k, s)'
    OBVIOUS
  <2>2. PICK p : p = k.seen[s]
    OBVIOUS
  <2>3. p \in Begun /\ p \in Begun' /\ OnProcs /\ OnSocks
    BY <2>1, <2>2 DEF Looked, Onward, OnProcs
  <2>4. s \notin k.alive => proc'[p].pc = "gone"
    BY <2>1, <2>2, <2>3 DEF Looked, OnProcs
  <2>5. ~Now(k, s) /\ s \notin k.claimed /\ k.at # "sweep" => Entry(s)' # 0
    BY <2>1 DEF Looked, Lasting
  <2>6. ~Held(s, p) => ~Held(s, p)'
    BY <2>3, HeldOn
  <2>7. s \in k.claimed => k.got[s].ctl = p \/ ~Held(s, p)'
    BY <2>1, <2>2, <2>6 DEF Looked
  <2>8. k.at \in {"adopt", "sweep"} /\ s \notin k.claimed \cup record'["other"]
          /\ (k.at = "adopt" => s \notin k.todo) => ~Held(s, p)' \/ region'[s] = 0
    BY <2>1, <2>2, <2>6 DEF Looked, Lasting
  <2> QED BY <2>2, <2>3, <2>4, <2>5, <2>7, <2>8 DEF Looked, Now
<1> QED BY <1>1 DEF Found, Looked, Stopped, Now, Boots, Held, Begun, Entry, Sock

\* The boot stays in its stage.
LEMMA StayFound ==
    ASSUME FoundInv, Onward, Stands, UNCHANGED <<region, l2>>
    PROVE  FoundInv'
<1>1. Idle' /\ Sorted(job["boot"])'
  BY DEF FoundInv, Idle, Sorted, l2
<1>2. Found(job["boot"])'
  <2>1. CASE ~Boots(job["boot"])
    BY <2>1 DEF Found, Boots, l2
  <2>2. CASE Boots(job["boot"])
    <3>1. PICK k : k = job["boot"]
      OBVIOUS
    <3>2. Lasting(k) /\ job'["boot"] = k /\ record' = record
      BY <3>1 DEF Lasting, Stands, l2
    <3>3. \A s \in Sids : k.seen[s] # 0 => Looked(k, s) /\ Stopped(k, s)
      BY <2>2, <3>1 DEF FoundInv, Found
    <3>4. \A s \in Sids : k.seen[s] # 0 => (Now(k, s) => proc'[k.seen[s]].pc # "serving")
      BY <3>3 DEF Looked, Stopped, Onward, OnProcs
    <3> QED BY <3>2, <3>3, <3>4, FoundOn
  <2> QED BY <2>1, <2>2
<1> QED BY <1>1, <1>2 DEF FoundInv, Onward

\* The boot is over, has not begun or begins.
LEMMA NotBooting ==
    ASSUME FoundInv, Onward, Idle',
           \/ job'["boot"] = job["boot"] /\ job["boot"].at \in {"none", "over"}
           \/ \E at \in {"none", "scan", "over"} : job'["boot"] = [NoJob EXCEPT !.at = at]
    PROVE  FoundInv'
<1>1. /\ job'["boot"].todo \cap job'["boot"].claimed = {}
      /\ job'["boot"].at = "scan" => job'["boot"].claimed = {}
      /\ job'["boot"].at \in {"none", "scan", "over"}
  <2>1. CASE job'["boot"] = job["boot"] /\ job["boot"].at \in {"none", "over"}
    BY <2>1 DEF FoundInv, Sorted
  <2>2. CASE \E at \in {"none", "scan", "over"} : job'["boot"] = [NoJob EXCEPT !.at = at]
    BY <2>2 DEF NoJob
  <2> QED BY <2>1, <2>2
<1> QED BY <1>1 DEF FoundInv, Onward, Sorted, Found, Boots

\* A slot that is done
Yielded(y, at, w, s, pane) ==
    /\ y.at = at /\ y.todo = job[w].todo \ {s} /\ y.claimed = job[w].claimed \cup {s}
    /\ y.seen = job[w].seen /\ y.alive = job[w].alive
    /\ y.got[s] = pane /\ \A t \in Sids \ {s} : y.got[t] = job[w].got[t]

LEMMA YieldParts ==
    ASSUME CoreInv, NEW w \in Windows, NEW s \in Sids, NEW pane
    PROVE  /\ Yielded(Yield(w, s, pane), "slot", w, s, pane)
           /\ Yielded([Yield(w, s, pane) EXCEPT !.at = "adopt"], "adopt", w, s, pane)
<1> DEFINE g == [job[w].got EXCEPT ![s] = pane]
<1>1. job[w] \in Jobs /\ g[s] = pane /\ \A t \in Sids \ {s} : g[t] = job[w].got[t]
  BY DEF CoreInv, CoreTyped, Jobs
<1>2. Yield(w, s, pane) = [job[w] EXCEPT !.at = "slot", !.todo = job[w].todo \ {s},
                             !.claimed = job[w].claimed \cup {s}, !.got = g, !.born = 0]
  BY DEF Yield
<1> HIDE DEF g
<1>3. Yield(w, s, pane) = [at |-> "slot", todo |-> job[w].todo \ {s}, seen |-> job[w].seen,
          alive |-> job[w].alive, claimed |-> job[w].claimed \cup {s}, born |-> 0, got |-> g]
  BY <1>1, <1>2 DEF Jobs
<1>4. ASSUME NEW y, NEW at, y = [Yield(w, s, pane) EXCEPT !.at = at]
      PROVE  Yielded(y, at, w, s, pane)
  BY <1>1, <1>3, <1>4 DEF Yielded
<1> QED BY <1>1, <1>3, <1>4 DEF Yielded

\* The boot works on a slot: what the step must show
LEMMA BootStep ==
    ASSUME FoundInv, CoreInv, Onward, NEW k, job' = [job EXCEPT !["boot"] = k], Lasting(k),
           UNCHANGED <<core, record, work>>,
           k.todo \cap k.claimed = {}, k.at # "scan",
           \A s \in Sids : k.seen[s] # 0 =>
             Looked(k, s) /\ (Now(k, s) => proc'[k.seen[s]].pc # "serving")
    PROVE  FoundInv'
<1>1. job'["boot"] = k
  BY DEF CoreInv, CoreTyped, Windows
<1>2. Found(job["boot"])'
  BY <1>1, FoundOn
<1>3. Sorted(job["boot"])' /\ Idle'
  BY <1>1 DEF Sorted, FoundInv, Idle
<1> QED BY <1>2, <1>3 DEF FoundInv, Onward

\* The slot in hand yields a pane.
LEMMA YieldFound ==
    ASSUME FoundInv, CoreInv, Onward, Stands, NEW s \in Sids, s = Min(job["boot"].todo),
           s \in job["boot"].todo, job["boot"].at \in Working, NEW pane,
           Step("boot", Yield("boot", s, pane)), UNCHANGED <<core, record, work>>,
           job["boot"].seen[s] # 0 =>
             pane.ctl = job["boot"].seen[s] \/ ~Held(s, job["boot"].seen[s])
    PROVE  FoundInv'
<1>1. PICK k : k = Yield("boot", s, pane) /\ job' = [job EXCEPT !["boot"] = k]
  BY DEF Step
<1>2. PICK j : j = job["boot"]
  OBVIOUS
<1>3. /\ k.at = "slot" /\ k.todo = j.todo \ {s} /\ k.claimed = j.claimed \cup {s}
      /\ k.seen = j.seen /\ k.alive = j.alive
      /\ k.got[s] = pane /\ \A t \in Sids \ {s} : k.got[t] = j.got[t]
  BY <1>1, <1>2, YieldParts DEF Windows, Yielded
<1>4. j.todo \cap j.claimed = {} /\ \A t \in Sids : j.seen[t] # 0 => Looked(j, t)
  BY <1>2 DEF FoundInv, Sorted, Found, Boots, Working
<1>5. Lasting(k)
  BY <1>3 DEF Lasting, Stands
<1>6. \A t \in Sids : ~Now(k, t) /\ (t # s => ~Now(j, t))
  BY <1>2, <1>3 DEF Now
<1>7. \A t \in Sids : k.seen[t] # 0 => Looked(k, t)
  <2>1. SUFFICES ASSUME NEW t \in Sids, k.seen[t] # 0 PROVE Looked(k, t)
    OBVIOUS
  <2>2. Looked(j, t)
    BY <1>3, <1>4, <2>1
  <2>3. CASE t = s
    BY <1>2, <1>3, <2>1, <2>2, <2>3 DEF Looked
  <2>4. CASE t # s
    BY <1>2, <1>3, <1>6, <2>2, <2>4 DEF Looked, Working
  <2> QED BY <2>3, <2>4
<1> QED BY <1>1, <1>3, <1>4, <1>5, <1>6, <1>7, BootStep

\* The slot in hand goes to its next stage.
LEMMA StageFound ==
    ASSUME FoundInv, CoreInv, Onward, NEW s \in Sids, s = Min(job["boot"].todo),
           \A t \in Sids \ {s} : Entry(t) # 0 => Entry(t)' # 0,
           job["boot"].at \in Working, NEW at \in {"probe", "clear", "fork", "connect"}, NEW p,
           \/ Step("boot", [job["boot"] EXCEPT !.at = at])
           \/ Step("boot", [job["boot"] EXCEPT !.at = at, !.born = p]),
           UNCHANGED <<core, record, work>>,
           job["boot"].seen[s] # 0 => proc'[job["boot"].seen[s]].pc # "serving"
    PROVE  FoundInv'
<1>1. PICK k : /\ k = [job["boot"] EXCEPT !.at = at] \/ k = [job["boot"] EXCEPT !.at = at, !.born = p]
               /\ job' = [job EXCEPT !["boot"] = k]
  BY DEF Step
<1>2. PICK j : j = job["boot"]
  OBVIOUS
<1>3. /\ k.at = at /\ k.todo = j.todo /\ k.claimed = j.claimed
      /\ k.seen = j.seen /\ k.alive = j.alive /\ k.got = j.got
  <2>1. j \in Jobs
    BY <1>2 DEF CoreInv, CoreTyped, Windows
  <2> QED BY <1>1, <1>2, <2>1 DEF Jobs
<1>4. j.todo \cap j.claimed = {} /\ \A t \in Sids : j.seen[t] # 0 => Looked(j, t)
  BY <1>2 DEF FoundInv, Sorted, Found, Boots, Working
<1>5. \A t \in Sids : Now(k, t) <=> t = s
  BY <1>2, <1>3 DEF Now
<1>6. Lasting(k)
  BY <1>3, <1>5 DEF Lasting
<1>7. \A t \in Sids : k.seen[t] # 0 => Looked(k, t)
  <2>1. SUFFICES ASSUME NEW t \in Sids, k.seen[t] # 0 PROVE Looked(k, t)
    OBVIOUS
  <2>2. Looked(j, t) /\ (t # s => ~Now(j, t))
    BY <1>2, <1>3, <1>4, <2>1 DEF Now
  <2> QED BY <1>2, <1>3, <1>5, <2>2 DEF Looked, Working
<1> QED BY <1>1, <1>2, <1>3, <1>4, <1>5, <1>6, <1>7, BootStep

\* What the boot knows of the slots while it works on them
LEMMA KnownSlots ==
    ASSUME FoundInv, Boots(job["boot"])
    PROVE  /\ \A s \in Sids : job["boot"].seen[s] # 0 =>
                Looked(job["boot"], s) /\ Stopped(job["boot"], s) /\ job["boot"].seen[s] \in Begun
           /\ job["boot"].todo \cap job["boot"].claimed = {}
BY DEF FoundInv, Found, Sorted, Looked

LEMMA BootTurn ==
    ASSUME CoreInv, NEW s \in Sids, NEW at, Turn("boot", at, s)
    PROVE  s = Min(job["boot"].todo) /\ s \in job["boot"].todo /\ job["boot"].at = at
BY TurnIn DEF Turn, Windows

LEMMA ScanFound == ASSUME IInv, FoundInv, CoreInv, Onward, Scan("boot") PROVE FoundInv'
<1> DEFINE seen == [s \in Sids |-> Entry(s)]
<1>1. PICK j : j = job["boot"]
  OBVIOUS
<1>2. PICK k : k = [j EXCEPT !.at = "slot", !.todo = record["boot"], !.alive = Live, !.seen = seen]
               /\ job' = [job EXCEPT !["boot"] = k]
  BY <1>1 DEF Scan, Step
<1>3. j \in Jobs /\ j.at = "scan" /\ j.claimed = {} /\ UNCHANGED <<dir, node, core, record, work>>
  BY <1>1 DEF CoreInv, CoreTyped, Windows, Scan, FoundInv, Sorted, disk
<1>4. k.at = "slot" /\ k.claimed = {} /\ k.alive = Live /\ k.seen = seen
  <2> HIDE DEF seen
  <2> QED BY <1>2, <1>3 DEF Jobs
<1>5. Lasting(k)
  BY <1>3, <1>4 DEF Lasting, Entry
<1>6. \A s \in Sids : ~Now(k, s)
  BY <1>4 DEF Now
<1>7. \A s \in Sids : k.seen[s] = Entry(s)
  BY <1>4
<1>8. \A s \in Sids : k.seen[s] # 0 => Looked(k, s)
  <2>1. SUFFICES ASSUME NEW s \in Sids, k.seen[s] # 0 PROVE Looked(k, s)
    OBVIOUS
  <2>2. k.seen[s] = Entry(s) /\ Entry(s) # 0 /\ dir[s] \in Nodes
    BY <1>7, <2>1, Bounded DEF Entry, IInv, Typed, Nodes
  <2>3. Entry(s) \in Begun
    BY <2>2 DEF Entry, FoundInv, NodesSound
  <2>4. s \notin Live => proc[Entry(s)].pc = "gone"
    BY <2>2, <2>3 DEF Live, Alive, Begun
  <2> QED BY <1>4, <2>2, <2>3, <2>4 DEF Looked
<1> QED BY <1>2, <1>3, <1>4, <1>5, <1>6, <1>8, BootStep

LEMMA ReattachFound == ASSUME IInv, FoundInv, CoreInv, Onward, Reattach("boot") PROVE FoundInv'
<1>1. PICK s \in Sids : /\ Turn("boot", "slot", s) /\ Step("boot", Yield("boot", s, Attached(s)))
                        /\ UNCHANGED <<disk, proc, core, record, work>>
  BY DEF Reattach
<1>2. s = Min(job["boot"].todo) /\ s \in job["boot"].todo /\ job["boot"].at \in Working
  BY <1>1, BootTurn DEF Working
<1>3. Stands
  BY <1>1, SameSound DEF disk, FoundInv, Onward
<1>4. Attached(s).ctl = job["boot"].seen[s] \/ ~Held(s, job["boot"].seen[s])
  BY DEF Attached, Pane, Held
<1> QED BY <1>1, <1>2, <1>3, <1>4, YieldFound

LEMMA ReattachFailsFound ==
    ASSUME IInv, FoundInv, CoreInv, Onward, ReattachFails("boot") PROVE FoundInv'
<1>1. PICK s \in Sids : /\ Turn("boot", "slot", s)
                        /\ proc' = IF Entry(s) # 0 THEN Signalled(job["boot"].seen[s]) ELSE proc
                        /\ Step("boot", [job["boot"] EXCEPT !.at = "probe"])
                        /\ UNCHANGED <<disk, core, record, work>>
  BY DEF ReattachFails
<1>2. s = Min(job["boot"].todo) /\ s \in job["boot"].todo /\ job["boot"].at = "slot"
  BY <1>1, BootTurn
<1>3. Stands
  BY <1>1, SameSound DEF disk, FoundInv, Onward
<1>4. ASSUME job["boot"].seen[s] # 0 PROVE proc'[job["boot"].seen[s]].pc # "serving"
  <2>1. PICK p : p = job["boot"].seen[s]
    OBVIOUS
  <2>2. Looked(job["boot"], s) /\ s \notin job["boot"].claimed /\ p \in Begun
    BY <1>2, <1>4, <2>1, KnownSlots DEF Boots
  <2>3. Entry(s) # 0
    BY <1>2, <2>2 DEF Looked, Now
  <2>4. proc' = Signalled(p)
    BY <1>1, <2>1, <2>3
  <2>5. CASE Alive(p)
    <3>1. proc' = [proc EXCEPT ![p].pc = "leaving"]
      BY <2>4, <2>5 DEF Signalled
    <3>2. proc'[p].pc = "leaving"
      BY <2>2, <3>1 DEF IInv, Typed, Procs, Begun
    <3> QED BY <2>1, <3>2
  <2>6. CASE ~Alive(p)
    BY <2>1, <2>2, <2>4, <2>6, PidsPositive DEF Signalled, Alive, Begun
  <2> QED BY <2>5, <2>6
<1> QED BY <1>1, <1>2, <1>3, <1>4, StageFound DEF Stands, Working

LEMMA ProbeFound == ASSUME IInv, FoundInv, CoreInv, Onward, Probe("boot") PROVE FoundInv'
<1>1. PICK s \in Sids :
        /\ (Turn("boot", "slot", s) /\ s \notin job["boot"].alive) \/ Turn("boot", "probe", s)
        /\ \E n \in NodeAt(s) : Put(s, n) /\ node' = [node EXCEPT ![n].made = 1]
        /\ Step("boot", IF Occupied(s) THEN Yield("boot", s, Plain("vacant"))
                        ELSE [job["boot"] EXCEPT !.at = "clear"])
        /\ UNCHANGED <<proc, core, record, work>>
  BY DEF Probe
<1>2. /\ s = Min(job["boot"].todo) /\ s \in job["boot"].todo
      /\ (job["boot"].at = "slot" /\ s \notin job["boot"].alive) \/ job["boot"].at = "probe"
  BY <1>1, BootTurn
<1>3. job["boot"].at \in Working
  BY <1>2 DEF Working
<1>4. Stands
  <2>1. PICK n \in NodeAt(s) : Put(s, n) /\ node' = [node EXCEPT ![n].made = 1]
    BY <1>1
  <2>2. n \in Nodes
    BY <2>1, NodePut DEF IInv
  <2>3. /\ node' \in [Nodes -> NodeStates] /\ node'[n].made = 1
        /\ node'[n].entry = node[n].entry /\ node'[n].sock = node[n].sock
        /\ \A m \in Nodes \ {n} : node'[m] = node[m]
    BY <2>1, <2>2 DEF IInv, Typed, NodeStates
  <2> QED BY <2>1, <2>3, PutSound DEF FoundInv, Onward
<1>5. job["boot"].seen[s] # 0 => proc[job["boot"].seen[s]].pc # "serving"
  BY <1>2, <1>3, KnownSlots DEF Boots, Working, Looked, Stopped, Now
<1>6. CASE Occupied(s)
  BY <1>1, <1>2, <1>3, <1>4, <1>5, <1>6, YieldFound DEF Held
<1>7. CASE ~Occupied(s)
  BY <1>1, <1>2, <1>3, <1>4, <1>5, <1>7, StageFound DEF Stands
<1> QED BY <1>6, <1>7

LEMMA ClearFound == ASSUME IInv, FoundInv, CoreInv, Onward, Clear("boot") PROVE FoundInv'
<1>1. PICK s \in Sids :
        /\ Turn("boot", "clear", s)
        /\ node' = [m \in Nodes |-> IF m = dir[s] THEN [node[m] EXCEPT !.entry = 0, !.sock = 0]
                                    ELSE node[m]]
        /\ Step("boot", [job["boot"] EXCEPT !.at = "fork"])
        /\ UNCHANGED <<dir, proc, core, record, work>>
  BY DEF Clear
<1>2. s = Min(job["boot"].todo) /\ s \in job["boot"].todo /\ job["boot"].at = "clear"
  BY <1>1, BootTurn
<1>3. \A t \in Sids \ {s} : Entry(t)' = Entry(t)
  <2>1. \A t \in Sids : dir[t] # 0 => dir[t] \in Nodes
    BY Bounded DEF IInv, Typed, Nodes
  <2> QED BY <1>1, <2>1 DEF Entry, FoundInv, NodesSound
<1>4. job["boot"].seen[s] # 0 => proc[job["boot"].seen[s]].pc # "serving"
  BY <1>2, KnownSlots DEF Boots, Stopped, Now
<1> QED BY <1>1, <1>2, <1>3, <1>4, StageFound DEF Working

LEMMA ForkFound == ASSUME IInv, FoundInv, CoreInv, Onward, Fork("boot") PROVE FoundInv'
<1>1. PICK s \in Sids :
        /\ Turn("boot", "fork", s)
        /\ \/ Step("boot", Yield("boot", s, Plain("vacant"))) /\ UNCHANGED <<region, proc>>
           \/ \E p \in Pids : Forked(s, p) /\ Step("boot", [job["boot"] EXCEPT !.at = "connect", !.born = p])
        /\ UNCHANGED <<dir, node, core, record, work>>
  BY DEF Fork
<1>2. s = Min(job["boot"].todo) /\ s \in job["boot"].todo /\ job["boot"].at = "fork"
  BY <1>1, BootTurn
<1>3. Stands
  BY <1>1, SameSound DEF FoundInv, Onward
<1>4. ASSUME job["boot"].seen[s] # 0
      PROVE  /\ proc[job["boot"].seen[s]].pc # "serving"
             /\ proc'[job["boot"].seen[s]].pc # "serving"
  BY <1>2, <1>4, KnownSlots DEF Boots, Stopped, Now, Onward, OnProcs
<1>5. CASE Step("boot", Yield("boot", s, Plain("vacant")))
  BY <1>1, <1>2, <1>3, <1>4, <1>5, YieldFound DEF Working, Held
<1>6. CASE \E p \in Pids : Step("boot", [job["boot"] EXCEPT !.at = "connect", !.born = p])
  BY <1>1, <1>2, <1>3, <1>4, <1>6, StageFound DEF Working, Stands
<1> QED BY <1>1, <1>5, <1>6

LEMMA ConnectFound == ASSUME IInv, FoundInv, CoreInv, Onward, Connect("boot") PROVE FoundInv'
<1>0. PICK s \in Sids : /\ Turn("boot", "connect", s)
                        /\ \E pane : Step("boot", Yield("boot", s, pane))
                        /\ UNCHANGED <<disk, core, record, work>>
  BY DEF Connect
<1>1. PICK pane : /\ Turn("boot", "connect", s) /\ Step("boot", Yield("boot", s, pane))
                  /\ UNCHANGED <<disk, core, record, work>>
  BY <1>0
<1>2. s = Min(job["boot"].todo) /\ s \in job["boot"].todo /\ job["boot"].at = "connect"
  BY <1>1, BootTurn
<1>3. Stands
  BY <1>1, SameSound DEF disk, FoundInv, Onward
<1>4. job["boot"].seen[s] # 0 => proc[job["boot"].seen[s]].pc # "serving"
  BY <1>2, KnownSlots DEF Boots, Stopped, Now
<1> QED BY <1>1, <1>2, <1>3, <1>4, YieldFound DEF Working, Held

\* After the slots: what is to do next, and what is claimed, changes.
LEMMA AfterFound ==
    ASSUME FoundInv, CoreInv, Onward, Boots(job["boot"]), NEW k, job' = [job EXCEPT !["boot"] = k],
           k.at \in {"adopt", "sweep"}, k.seen = job["boot"].seen, k.alive = job["boot"].alive,
           UNCHANGED <<core, record, work>>, k.todo \cap k.claimed = {}, Lasting(k),
           \A s \in Sids : job["boot"].seen[s] # 0 => Looked(k, s)
    PROVE  FoundInv'
<1>1. \A s \in Sids : ~Now(k, s)
  BY DEF Now
<1> QED BY <1>1, BootStep

LEMMA SlotsDoneFound == ASSUME FoundInv, CoreInv, Onward, SlotsDone("boot") PROVE FoundInv'
<1>1. PICK j : j = job["boot"]
  OBVIOUS
<1>2. PICK k : k = [j EXCEPT !.at = "adopt", !.todo = j.alive \cap Unclaimed("boot")]
               /\ job' = [job EXCEPT !["boot"] = k]
  BY <1>1 DEF SlotsDone, Step, Sweeps
<1>3. /\ j \in Jobs /\ j.at = "slot" /\ Boots(j)
      /\ UNCHANGED <<dir, node, region, proc, core, record, work>>
  BY <1>1 DEF CoreInv, CoreTyped, Windows, SlotsDone, Boots, disk
<1>4. /\ k.at = "adopt" /\ k.claimed = j.claimed /\ k.alive = j.alive /\ k.seen = j.seen
      /\ k.got = j.got /\ k.todo = j.alive \cap Unclaimed("boot")
  BY <1>2, <1>3 DEF Jobs
<1>5. k.todo \cap k.claimed = {}
  BY <1>1, <1>4 DEF Unclaimed
<1>6. Lasting(k)
  BY <1>3 DEF Lasting, Entry
<1>7. ASSUME NEW s \in Sids, j.seen[s] # 0 PROVE Looked(k, s)
  <2>1. Looked(j, s) /\ ~Now(j, s)
    BY <1>1, <1>3, <1>7, KnownSlots DEF Now
  <2>2. s \notin j.claimed \cup record["other"] /\ s \notin k.todo => ~Held(s, j.seen[s])
    BY <1>1, <1>4, <2>1 DEF Looked, Unclaimed, Reserved, Held
  <2> QED BY <1>3, <1>4, <2>1, <2>2 DEF Looked
<1> QED BY <1>1, <1>2, <1>3, <1>4, <1>5, <1>6, <1>7, AfterFound

LEMMA AdoptFound == ASSUME IInv, FoundInv, CoreInv, Onward, Adopt("boot") PROVE FoundInv'
<1>1. PICK j : j = job["boot"]
  OBVIOUS
<1>2. PICK s \in Sids :
        /\ Turn("boot", "adopt", s)
        /\ Step("boot", IF Reachable(s) /\ region[s] # 0
                        THEN [Yield("boot", s, Attached(s)) EXCEPT !.at = "adopt"]
                        ELSE [job["boot"] EXCEPT !.todo = @ \ {s}])
        /\ UNCHANGED <<disk, proc, core, record, work>>
  BY DEF Adopt
<1>3. /\ j \in Jobs /\ s \in j.todo /\ j.at = "adopt" /\ Boots(j) /\ j.todo \cap j.claimed = {}
      /\ UNCHANGED <<dir, node, region, proc, core, record, work>>
  BY <1>1, <1>2, BootTurn DEF CoreInv, CoreTyped, Windows, Boots, disk, FoundInv, Sorted
<1>4. \A t \in Sids : j.seen[t] # 0 => Looked(j, t) /\ ~Now(j, t)
  BY <1>1, <1>3, KnownSlots DEF Now
<1>5. CASE Reachable(s) /\ region[s] # 0
  <2>1. PICK k : k = [Yield("boot", s, Attached(s)) EXCEPT !.at = "adopt"]
                 /\ job' = [job EXCEPT !["boot"] = k]
    BY <1>2, <1>5 DEF Step
  <2>2. /\ k.at = "adopt" /\ k.todo = j.todo \ {s} /\ k.claimed = j.claimed \cup {s}
        /\ k.seen = j.seen /\ k.alive = j.alive
        /\ k.got[s] = Attached(s) /\ \A t \in Sids \ {s} : k.got[t] = j.got[t]
    BY <1>1, <2>1, YieldParts DEF Windows, Yielded
  <2>3. Lasting(k) /\ k.todo \cap k.claimed = {}
    BY <1>3, <2>2 DEF Lasting, Entry
  <2>4. ASSUME NEW t \in Sids, j.seen[t] # 0 PROVE Looked(k, t)
    <3>1. Looked(j, t) /\ ~Now(j, t)
      BY <1>4, <2>4
    <3>2. t = s => k.got[t].ctl = j.seen[t] \/ ~Held(t, j.seen[t])
      BY <2>2 DEF Attached, Pane, Held
    <3> QED BY <1>3, <2>2, <3>1, <3>2 DEF Looked
  <2> QED BY <1>1, <1>3, <2>1, <2>2, <2>3, <2>4, AfterFound
<1>6. CASE ~(Reachable(s) /\ region[s] # 0)
  <2>1. PICK k : k = [j EXCEPT !.todo = j.todo \ {s}] /\ job' = [job EXCEPT !["boot"] = k]
    BY <1>1, <1>2, <1>6 DEF Step
  <2>2. /\ k.at = "adopt" /\ k.todo = j.todo \ {s} /\ k.claimed = j.claimed
        /\ k.seen = j.seen /\ k.alive = j.alive /\ k.got = j.got
    BY <1>3, <2>1 DEF Jobs
  <2>3. Lasting(k) /\ k.todo \cap k.claimed = {}
    BY <1>3, <2>2 DEF Lasting, Entry
  <2>4. ASSUME NEW t \in Sids, j.seen[t] # 0 PROVE Looked(k, t)
    <3>1. Looked(j, t) /\ ~Now(j, t) /\ j.seen[t] \in Begun
      BY <1>4, <2>4 DEF Looked
    <3>2. t = s => ~Held(t, j.seen[t]) \/ region[t] = 0
      <4>1. t = s => Entry(t) # 0
        BY <1>3, <3>1 DEF Looked
      <4> QED BY <1>6, <3>1, <4>1, PidsPositive DEF Reachable, Accepts, Held, Begun
    <3> QED BY <1>3, <2>2, <3>1, <3>2 DEF Looked
  <2> QED BY <1>1, <1>3, <2>1, <2>2, <2>3, <2>4, AfterFound
<1> QED BY <1>5, <1>6

LEMMA ListFound == ASSUME FoundInv, CoreInv, Onward, List("boot") PROVE FoundInv'
<1>1. PICK j : j = job["boot"]
  OBVIOUS
<1>2. PICK k : k = [j EXCEPT !.at = "sweep", !.todo = Junk("boot")]
               /\ job' = [job EXCEPT !["boot"] = k]
  BY <1>1 DEF List, Step
<1>3. /\ j \in Jobs /\ j.at = "adopt" /\ j.todo = {} /\ Boots(j)
      /\ UNCHANGED <<dir, node, region, proc, core, record, work>>
  BY <1>1 DEF CoreInv, CoreTyped, Windows, List, Boots, disk
<1>4. /\ k.at = "sweep" /\ k.claimed = j.claimed /\ k.alive = j.alive /\ k.seen = j.seen
      /\ k.got = j.got /\ k.todo = Junk("boot")
  BY <1>2, <1>3 DEF Jobs
<1>5. k.todo \cap k.claimed = {}
  BY <1>1, <1>4 DEF Junk, Unclaimed
<1>6. Lasting(k)
  BY <1>3 DEF Lasting, Entry
<1>7. ASSUME NEW s \in Sids, j.seen[s] # 0 PROVE Looked(k, s)
  <2>1. Looked(j, s)
    BY <1>1, <1>3, <1>7, KnownSlots
  <2> QED BY <1>3, <1>4, <2>1 DEF Looked
<1> QED BY <1>1, <1>2, <1>3, <1>4, <1>5, <1>6, <1>7, AfterFound

LEMMA RetireFound == ASSUME FoundInv, CoreInv, Onward, Retire("boot") PROVE FoundInv'
<1>1. PICK j : j = job["boot"]
  OBVIOUS
<1>2. PICK s \in Sids :
        /\ Turn("boot", "sweep", s)
        /\ region' = IF job["boot"].seen[s] = 0 THEN region ELSE [region EXCEPT ![s] = 0]
        /\ Step("boot", [job["boot"] EXCEPT !.todo = @ \ {s}])
        /\ UNCHANGED <<core, record, work>>
  BY DEF Retire
<1>3. PICK k : k = [j EXCEPT !.todo = j.todo \ {s}] /\ job' = [job EXCEPT !["boot"] = k]
  BY <1>1, <1>2 DEF Step
<1>4. j \in Jobs /\ j.at = "sweep" /\ Boots(j) /\ j.todo \cap j.claimed = {}
  BY <1>1, <1>2 DEF CoreInv, CoreTyped, Windows, Turn, Boots, FoundInv, Sorted
<1>5. /\ k.at = "sweep" /\ k.claimed = j.claimed /\ k.alive = j.alive /\ k.seen = j.seen
      /\ k.got = j.got /\ k.todo = j.todo \ {s}
  BY <1>3, <1>4 DEF Jobs
<1>6. Lasting(k)
  BY <1>2, <1>5 DEF Lasting, CoreInv, CoreTyped
<1>7. ASSUME NEW t \in Sids, j.seen[t] # 0 PROVE Looked(k, t)
  <2>1. Looked(j, t)
    BY <1>1, <1>4, <1>7, KnownSlots
  <2> QED BY <1>4, <1>5, <2>1 DEF Looked
<1> QED BY <1>1, <1>2, <1>3, <1>4, <1>5, <1>6, <1>7, AfterFound
-----------------------------------------------------------------------------
LEMMA InitFound == Init => FoundInv
<1> SUFFICES ASSUME Init PROVE FoundInv
  OBVIOUS
<1>1. NodesSound
  <2> DEFINE old == Saved["boot"] \cup Saved["other"]
  <2>1. \A s \in Sids : dir[s] = IF s \in old THEN s ELSE 0
    BY DEF Init
  <2>2. \A n \in Nodes : /\ node[n].made = (IF n \in old THEN 1 ELSE 0)
                          /\ node[n].entry = 0 /\ node[n].sock = 0
    BY DEF Init
  <2>3. \A s \in old : s \in Nodes
    BY BoundsAssumption DEF Nodes
  <2> HIDE DEF old
  <2>4. \A s \in Sids : dir[s] # 0 => node[dir[s]].made = 1
    BY <2>1, <2>2, <2>3
  <2> QED BY <2>1, <2>2, <2>4 DEF NodesSound
<1>2. job["boot"] = NoJob /\ \A s \in Sids : work[s] = NoWork
  BY DEF Init, Windows
<1> QED BY <1>1, <1>2 DEF FoundInv, Idle, Sorted, Found, Boots, NoJob, NoWork

LEMMA StepFound == IInv /\ CoreInv /\ FoundInv /\ [Next]_vars => FoundInv'
<1> SUFFICES ASSUME IInv, CoreInv, FoundInv, [Next]_vars PROVE FoundInv'
  OBVIOUS
<1>0. Onward
  BY StepOn DEF FoundInv
<1>1. core = "up" => job["boot"].at \in {"none", "over"}
  BY CoreParts
<1>2. CASE UNCHANGED vars
  <2>1. UNCHANGED <<dir, node, region, l2>>
    BY <1>2 DEF vars, disk
  <2> QED BY <1>0, <2>1, SameSound, StayFound DEF FoundInv, Onward
<1>3. CASE \E p \in Pids : L3Step(p) \/ Reexec(p) \/ ShellExits(p) \/ Killed(p)
  BY <1>3, ProcessOn, StayFound DEF FoundInv
<1>4. CASE \E w \in Windows : Assembly(w)
  <2>1. CASE Assembly("boot")
    BY <1>0, <2>1, ScanFound, ReattachFound, ReattachFailsFound, ProbeFound, ClearFound, ForkFound,
       ConnectFound, SlotsDoneFound, AdoptFound, ListFound, RetireFound DEF Assembly
  <2>2. CASE Assembly("other")
    <3>1. \E k : job' = [job EXCEPT !["other"] = k]
      BY <2>2 DEF Assembly, Scan, Reattach, ReattachFails, Probe, Clear, Fork, Connect, SlotsDone,
                  Adopt, List, Retire, Step
    <3>2. job'["boot"] = job["boot"] /\ UNCHANGED <<core, work>>
      <4>1. job'["boot"] = job["boot"]
        BY <3>1 DEF CoreInv, CoreTyped, Windows
      <4>2. UNCHANGED <<core, work>>
        BY <2>2 DEF Assembly, Scan, Reattach, ReattachFails, Probe, Clear, Fork, Connect, SlotsDone,
                    Adopt, List, Retire
      <4> QED BY <4>1, <4>2
    <3>3. job["other"].at # "none"
      BY <2>2 DEF Assembly, Scan, Reattach, ReattachFails, Probe, Clear, Fork, Connect, SlotsDone,
                  Adopt, List, Retire, Turn
    <3>4. core = "up"
      BY <3>3 DEF CoreInv, Staged
    <3> QED BY <1>0, <1>1, <3>2, <3>4, NotBooting DEF Idle
  <2> QED BY <1>4, <2>1, <2>2 DEF Windows
<1>5. CASE (\E s \in Sids : Worker(s)) \/ Person \/ OpenWindow \/ WindowRestored
  <2>1. core = "up" /\ core' = "up"
    BY <1>5 DEF Worker, WorkerForks, WorkerConnects, SpawnFinished, Person, NewPane, Revive, Close, Move,
                OpenWindow, WindowRestored, FoundInv, Idle
  <2>2. job' = job \/ \E k : job' = [job EXCEPT !["other"] = k]
    BY <1>5 DEF Worker, WorkerForks, WorkerConnects, SpawnFinished, Person, NewPane, Revive, Close, Move,
                OpenWindow, WindowRestored
  <2>3. job'["boot"] = job["boot"]
    BY <2>2 DEF CoreInv, CoreTyped, Windows
  <2> QED BY <1>0, <1>1, <2>1, <2>3, NotBooting DEF Idle
<1>6. CASE Start
  <2>1. job'["boot"] = [NoJob EXCEPT !.at = "scan"] /\ Idle'
    BY <1>6 DEF Start, CoreInv, CoreTyped, Windows, FoundInv, Idle
  <2> QED BY <1>0, <2>1, NotBooting
<1>7. CASE Booted
  <2>1. job'["boot"] = [NoJob EXCEPT !.at = "over"] /\ Idle'
    BY <1>7 DEF Booted, CoreInv, CoreTyped, Windows, Idle
  <2> QED BY <1>0, <2>1, NotBooting
<1>8. CASE CoreDies
  <2>1. job'["boot"] = NoJob /\ \A s \in Sids : work'[s] = NoWork
    BY <1>8 DEF CoreDies, Windows
  <2>2. [NoJob EXCEPT !.at = "none"] = NoJob
    BY DEF NoJob
  <2>3. Idle'
    BY <2>1, NoWorkTyped DEF Idle
  <2> QED BY <1>0, <2>1, <2>2, <2>3, NotBooting
<1> QED BY <1>2, <1>3, <1>4, <1>5, <1>6, <1>7, <1>8 DEF Next

\* Only the end of a boot brings the core up.
LEMMA OnlyBooted == ASSUME Idle, [Next]_vars, core = "boot", core' = "up" PROVE Booted
BY DEF Next, vars, l2, L3Step, Open, Bind, Register, Deadman, Ends, Reexec, ShellExits, Killed, Leave,
       Assembly, Scan, Reattach, ReattachFails, Probe, Clear, Fork, Connect, SlotsDone, Adopt, List,
       Retire, Worker, WorkerForks, WorkerConnects, SpawnFinished, Person, NewPane, Revive, Close,
       Move, Start, OpenWindow, WindowRestored, CoreDies

LEMMA BootedShows ==
    ASSUME CoreInv, FoundInv, Booted, NEW s \in Sids \ Reserved, NEW p \in Pids, Served(s, p),
           job["boot"].seen[s] = p, region[s] # 0
    PROVE  panes'["boot"][s].ctl = p
<1>1. PICK j : j = job["boot"]
  OBVIOUS
<1>2. j.at = "sweep" /\ p # 0 /\ Boots(j)
  BY <1>1, PidsPositive DEF Booted, Boots
<1>3. Looked(j, s) /\ Held(s, p)
  BY <1>1, <1>2, KnownSlots DEF Served, Held
<1>4. j.got[s].ctl = p
  BY <1>1, <1>2, <1>3 DEF Looked, Reserved
<1> QED BY <1>1, <1>4 DEF Booted, CoreInv, CoreTyped, Windows

\* A process that serves its session from the boot's scan to its end, with a
\* region to read, is in a pane when the core is up (marspot-core.rs:10112-10130).
THEOREM LiveIsShown == Spec => NoneLost
<1>1. IInv /\ CoreInv /\ FoundInv /\ [Next]_vars
        => (core = "boot" /\ core' = "up" =>
              \A s \in Sids \ Reserved, p \in Pids :
                Served(s, p) /\ job["boot"].seen[s] = p /\ region[s] # 0
                  => panes'["boot"][s].ctl = p)
  BY OnlyBooted, BootedShows DEF FoundInv
<1> QED BY <1>1, InitIInv, StepIInv, InitCore, StepCore, InitFound, StepFound, PTL DEF Spec, NoneLost
=============================================================================
