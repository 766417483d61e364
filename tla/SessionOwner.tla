---------------------------- MODULE SessionOwner ----------------------------
(***************************************************************************)
(* Who owns a session: the directory sessions/<sid>/ with its entry, its   *)
(* socket and its owner lock, the processes (L3) started for it, and the   *)
(* panes of the core (L2) that are meant to show it.                       *)
(*                                                                         *)
(* A directory that is renamed or deleted and made again is another node:  *)
(* what a process has open stays with the old one, what it looks up by     *)
(* path is in the new one.  A frame region is known by the process it was  *)
(* made for.  A core is one process with a worker per spawn and one per    *)
(* restored window; its death ends them and leaves every L3 running.       *)
(*                                                                         *)
(* An L3 that runs out of its loop unlinks the socket it finds by path;    *)
(* one that is killed, or told to close, does not.  Unlinking entry and    *)
(* socket is one step, and so is closing a pane.  Dormant slots and slots  *)
(* without a sid, the cap on panes and safe mode are left out.             *)
(***************************************************************************)
EXTENDS Naturals, FiniteSets, FiniteSetsExt

CONSTANTS
    Sids,         \* session ids: 1..n
    Saved,        \* the layout on disk at first: sids per window
    Cap,          \* SESSION_PROCESS_HARD_CAP
    MaxPids,      \* bound on the processes started
    MaxNodes,     \* bound on the directories made
    MaxStarts,    \* bound on the cores started
    MaxOpens,     \* bound on the panes the person opens
    MaxGestures,  \* bound on what else the person does: revive, close, move
    MaxMishaps    \* bound on shells that exit, L3s killed, cores killed

Windows == {"boot", "other"}

ASSUME SidsAssumption == /\ Cardinality(Sids) \in Nat /\ Sids = 1 .. Cardinality(Sids)
                         /\ Cap \in Nat
                         /\ Saved \in [Windows -> SUBSET Sids]
                         /\ Saved["boot"] \cap Saved["other"] = {}
ASSUME BoundsAssumption ==
    /\ {MaxPids, MaxNodes, MaxStarts, MaxOpens, MaxGestures, MaxMishaps} \subseteq Nat
    /\ Saved["boot"] \cup Saved["other"] \subseteq 1 .. MaxNodes

VARIABLES
    dir,      \* the node at sessions/<sid>, 0 for none
    node,     \* per node: the pid in entry.toml, and the pid that listens on sock
    retired,  \* the nodes moved to retired/
    region,   \* the process whose frame region bears the name of a sid
    proc,     \* the L3s: where each is, its sid, the node it took and if it holds the lock
    nextId,   \* .next_id
    core,     \* "down", "boot" or "up"
    record,   \* the records of the layout this core has read
    layout,   \* the layout on disk
    panes,    \* per window and sid
    job,      \* the assembly of a window
    work,     \* a spawn on a worker, and its result
    used      \* how much of the bounds has been used

disk == <<dir, node, retired, region, nextId>>
l2 == <<core, record, layout, panes, job, work>>
vars == <<disk, proc, l2, used>>

Pids == 1 .. MaxPids
Nodes == 1 .. MaxNodes
Bound == [open |-> MaxOpens, gesture |-> MaxGestures, start |-> MaxStarts, mishap |-> MaxMishaps]
Use(what) == used[what] < Bound[what] /\ used' = [used EXCEPT ![what] = @ + 1]

Unborn == [pc |-> "unborn", sid |-> 0, home |-> 0, lock |-> 0]
NoPane == [kind |-> "none", ctl |-> 0, child |-> 0, reads |-> 0]
Pane(kind, ctl, child, reads) == [kind |-> kind, ctl |-> ctl, child |-> child, reads |-> reads]
Plain(kind) == Pane(kind, 0, 0, 0)
NoPanes == [s \in Sids |-> NoPane]
NoJob == [at |-> "none", todo |-> {}, seen |-> [s \in Sids |-> 0], alive |-> {},
          claimed |-> {}, born |-> 0, got |-> NoPanes]
NoWork == [at |-> "none", born |-> 0, pane |-> NoPane]

(* The registry *)

Alive(p) == p # 0 /\ proc[p].pc \notin {"unborn", "gone"}
Accepts(p) == p # 0 /\ proc[p].pc \in {"bound", "serving"}
Owner(n) == {p \in Pids : Alive(p) /\ n # 0 /\ proc[p].home = n /\ proc[p].lock = 1}
Entry(s) == IF dir[s] = 0 THEN 0 ELSE node[dir[s]].entry
Sock(s) == IF dir[s] = 0 THEN 0 ELSE node[dir[s]].sock
\* entry_is_live, of every entry
Live == {s \in Sids : Alive(Entry(s))}
\* wait_and_connect gets through: an entry that reads, and a listener behind the path
Reachable(s) == Entry(s) # 0 /\ Accepts(Sock(s))

\* create_dir_all: the node at the path, or a new one that is put there
NodeAt(s) == IF dir[s] # 0 THEN {dir[s]}
             ELSE {n \in Nodes : node[n].made = 0 /\ \A m \in 1 .. n - 1 : node[m].made = 1}
Put(s, n) == dir' = [dir EXCEPT ![s] = n]
NoSocket(s) == [m \in Nodes |-> IF m = dir[s] THEN [node[m] EXCEPT !.sock = 0] ELSE node[m]]

Layout(ps, j) == [w \in Windows |-> IF j[w].at = "none" THEN record[w]
                                    ELSE {s \in Sids : ps[w][s].kind # "none"}]
Save(ps, j) == layout' = Layout(ps, j)

Init ==
    LET old == Saved["boot"] \cup Saved["other"] IN
    /\ dir = [s \in Sids |-> IF s \in old THEN s ELSE 0]
    /\ node = [n \in Nodes |-> [made |-> IF n \in old THEN 1 ELSE 0, entry |-> 0, sock |-> 0]]
    /\ retired = {}
    /\ region = [s \in Sids |-> 0]
    /\ proc = [p \in Pids |-> Unborn]
    /\ nextId = Max(old \cup {0})
    /\ core = "down" /\ record = Saved /\ layout = Saved
    /\ panes = [w \in Windows |-> NoPanes]
    /\ job = [w \in Windows |-> NoJob]
    /\ work = [s \in Sids |-> NoWork]
    /\ used = [b \in DOMAIN Bound |-> 0]

(* The session process *)

Gone(p) == proc' = [proc EXCEPT ![p].pc = "gone"]

\* Terminal::new and ByteLog::open make the directory and open its files.
Open(p) ==
    /\ proc[p].pc = "forked"
    /\ \E n \in NodeAt(proc[p].sid) :
         Put(proc[p].sid, n) /\ node' = [node EXCEPT ![n].made = 1]
    /\ proc' = [proc EXCEPT ![p].pc = "opened"]
    /\ UNCHANGED <<retired, region, nextId, l2, used>>

\* A boot holds the lock for an instant, to see if it can be had.
Tried(s) == \E w \in Windows : job[w].at = "clear" /\ job[w].todo # {} /\ s = Min(job[w].todo)

\* bind: it takes the owner lock and the socket's path, or it ends.
Bind(p) ==
    LET s == proc[p].sid IN
    /\ proc[p].pc = "opened"
    /\ \/ /\ Owner(dir[s]) = {}
          /\ \E n \in NodeAt(s) :
               /\ Put(s, n)
               /\ node' = [node EXCEPT ![n].made = 1, ![n].sock = p]
               /\ proc' = [proc EXCEPT ![p].pc = "bound", ![p].home = n, ![p].lock = 1]
       \/ /\ Owner(dir[s]) # {} \/ Tried(s)
          /\ Gone(p) /\ UNCHANGED <<dir, node>>
    /\ UNCHANGED <<retired, region, nextId, l2, used>>

WriteEntry(p) == \E n \in NodeAt(proc[p].sid) :
    Put(proc[p].sid, n) /\ node' = [node EXCEPT ![n].made = 1, ![n].entry = p]

\* write_session_entry makes the directory again when it is gone.
Register(p) ==
    /\ proc[p].pc = "bound"
    /\ WriteEntry(p)
    /\ proc' = [proc EXCEPT ![p].pc = "serving"]
    /\ UNCHANGED <<retired, region, nextId, l2, used>>

\* Mutant: the lock's descriptor is closed by an execv.
LostLock(p) == [proc EXCEPT ![p].lock = 0]

\* The lock's descriptor crosses an execv, and the new image writes the entry again.
KeptLock(p) == proc
Reexec(p) ==
    /\ proc[p].pc = "serving"
    /\ WriteEntry(p)
    /\ proc' = KeptLock(p)
    /\ UNCHANGED <<retired, region, nextId, l2, used>>

\* Mutant: only the entry is looked at.
EntryTaken(p) == Entry(proc[p].sid) # p

\* What the deadman looks at: nobody can reach this process.
Unreachable(p) ==
    LET s == proc[p].sid IN Entry(s) # p \/ Sock(s) = 0
Leave(p) ==
    /\ node' = NoSocket(proc[p].sid)
    /\ Gone(p)
    /\ UNCHANGED <<dir, retired, region, nextId, l2>>
Deadman(p) == proc[p].pc = "serving" /\ Unreachable(p) /\ Leave(p) /\ UNCHANGED used
ShellExits(p) == proc[p].pc = "serving" /\ Use("mishap") /\ Leave(p)

\* A signal has been sent (SIGHUP, SIGKILL) and takes it.
Signalled(p) == IF Alive(p) THEN [proc EXCEPT ![p].pc = "leaving"] ELSE proc
Ends(p) ==
    /\ proc[p].pc = "leaving"
    /\ Gone(p)
    /\ UNCHANGED <<disk, l2, used>>
Killed(p) ==
    /\ Alive(p) /\ Use("mishap")
    /\ Gone(p)
    /\ UNCHANGED <<disk, l2>>

(* Starting a session: spawn_l3_with_cwd *)

\* Below the cap a region gets the name of the sid and a process is forked for it.
Forked(s, p) ==
    /\ p \in Pids /\ proc[p].pc = "unborn" /\ \A q \in 1 .. p - 1 : proc[q].pc # "unborn"
    /\ region' = [region EXCEPT ![s] = p]
    /\ proc' = [proc EXCEPT ![p] = [pc |-> "forked", sid |-> s, home |-> 0, lock |-> 0]]
\* Refused at the cap; the system can refuse a process as well.
Capped == Cardinality(Live) >= Cap \/ \A p \in Pids : proc[p].pc # "unborn"
\* Connected to whoever listens at the path; with nobody there the child is killed.
Connected(s, p) == Pane("live", Sock(s), p, p)

(* The assembly of a window: assemble_panes_at_boot *)

\* The assembly of w is `at` this for s, the next of those it has to do.
Turn(w, at, s) == job[w].at = at /\ job[w].todo # {} /\ s = Min(job[w].todo)
Step(w, j) == job' = [job EXCEPT ![w] = j]
\* A slot is done: it yields a pane in any case.
Yield(w, s, pane) == [job[w] EXCEPT !.at = "slot", !.todo = @ \ {s}, !.claimed = @ \cup {s},
                                    !.got = [@ EXCEPT ![s] = pane], !.born = 0]

\* list_session_entries, and which of them are live
Scan(w) ==
    /\ job[w].at = "scan"
    /\ Step(w, [job[w] EXCEPT !.at = "slot", !.todo = record[w], !.alive = Live,
                              !.seen = [s \in Sids |-> Entry(s)]])
    /\ UNCHANGED <<disk, proc, core, record, layout, panes, work, used>>

\* reattach_l3_pane
Attached(s) == Pane("live", Sock(s), Entry(s), region[s])
Reattach(w) == \E s \in Sids :
    /\ Turn(w, "slot", s) /\ s \in job[w].alive /\ Reachable(s) /\ region[s] # 0
    /\ Step(w, Yield(w, s, Attached(s)))
    /\ UNCHANGED <<disk, proc, core, record, layout, panes, work, used>>

\* Live and not reached within its four seconds: the process its entry named
\* is killed.
ReattachFails(w) == \E s \in Sids :
    /\ Turn(w, "slot", s) /\ s \in job[w].alive
    /\ proc' = IF Entry(s) # 0 THEN Signalled(job[w].seen[s]) ELSE proc
    /\ Step(w, [job[w] EXCEPT !.at = "probe"])
    /\ UNCHANGED <<disk, core, record, layout, panes, work, used>>

\* The owner lock is tried and let go; a directory somebody owns is left alone.
\* (A bind in between is one of those that come before Clear: see Tried.)
Occupied(s) == Owner(dir[s]) # {}
Probe(w) == \E s \in Sids :
    /\ \/ Turn(w, "slot", s) /\ s \notin job[w].alive
       \/ Turn(w, "probe", s)
    /\ region' = IF job[w].seen[s] = 0 THEN region ELSE [region EXCEPT ![s] = 0]
    /\ \E n \in NodeAt(s) : Put(s, n) /\ node' = [node EXCEPT ![n].made = 1]
    /\ Step(w, IF Occupied(s) THEN Yield(w, s, Plain("vacant"))
               ELSE [job[w] EXCEPT !.at = "clear"])
    /\ UNCHANGED <<retired, nextId, proc, core, record, layout, panes, work, used>>

\* The entry and the socket of the previous life are unlinked.
Clear(w) == \E s \in Sids :
    /\ Turn(w, "clear", s)
    /\ node' = [m \in Nodes |-> IF m = dir[s] THEN [node[m] EXCEPT !.entry = 0, !.sock = 0]
                                ELSE node[m]]
    /\ Step(w, [job[w] EXCEPT !.at = "fork"])
    /\ UNCHANGED <<dir, retired, region, nextId, proc, core, record, layout, panes, work, used>>

Fork(w) == \E s \in Sids :
    /\ Turn(w, "fork", s)
    /\ IF Capped THEN Step(w, Yield(w, s, Plain("vacant"))) /\ UNCHANGED <<region, proc>>
       ELSE \E p \in Pids : Forked(s, p) /\ Step(w, [job[w] EXCEPT !.at = "connect", !.born = p])
    /\ UNCHANGED <<dir, node, retired, nextId, core, record, layout, panes, work, used>>

Connect(w) == \E s \in Sids :
    /\ Turn(w, "connect", s)
    /\ IF Reachable(s) THEN Step(w, Yield(w, s, Connected(s, job[w].born))) /\ UNCHANGED proc
       ELSE Step(w, Yield(w, s, Plain("vacant"))) /\ Gone(job[w].born)
    /\ UNCHANGED <<disk, core, record, layout, panes, work, used>>

\* Mutant: the assembly of every window does.
AllSweep(w) == TRUE

\* Only the assembly of the boot window sweeps the registry.
Sweeps(w) == w = "boot"
Reserved == record["other"]
\* Mutant: the newest session is overlooked.
OlderUnclaimed(w) == {s \in Sids : s < nextId /\ s \notin job[w].claimed \cup Reserved}

Unclaimed(w) == {s \in Sids : s \notin job[w].claimed \cup Reserved}
SlotsDone(w) ==
    /\ job[w].at = "slot" /\ job[w].todo = {}
    /\ Step(w, IF Sweeps(w) THEN [job[w] EXCEPT !.at = "adopt", !.todo = job[w].alive \cap Unclaimed(w)]
               ELSE [job[w] EXCEPT !.at = "done"])
    /\ UNCHANGED <<disk, proc, core, record, layout, panes, work, used>>

\* A live session no slot names becomes one more pane, or is left on disk.
Adopt(w) == \E s \in Sids :
    /\ Turn(w, "adopt", s)
    /\ Step(w, IF Reachable(s) /\ region[s] # 0
               THEN [Yield(w, s, Attached(s)) EXCEPT !.at = "adopt"]
               ELSE [job[w] EXCEPT !.todo = @ \ {s}])
    /\ UNCHANGED <<disk, proc, core, record, layout, panes, work, used>>

\* list_session_dir_ids, less what is claimed, was alive or is reserved
Junk(w) == {s \in Unclaimed(w) : dir[s] # 0 /\ s \notin job[w].alive}
List(w) ==
    /\ job[w].at = "adopt" /\ job[w].todo = {}
    /\ Step(w, [job[w] EXCEPT !.at = "sweep", !.todo = Junk(w)])
    /\ UNCHANGED <<disk, proc, core, record, layout, panes, work, used>>
Retire(w) == \E s \in Sids :
    /\ Turn(w, "sweep", s)
    /\ region' = IF job[w].seen[s] = 0 THEN region ELSE [region EXCEPT ![s] = 0]
    /\ dir' = [dir EXCEPT ![s] = 0]
    /\ retired' = retired \cup ({dir[s]} \ {0})
    /\ Step(w, [job[w] EXCEPT !.todo = @ \ {s}])
    /\ UNCHANGED <<node, nextId, proc, core, record, layout, panes, work, used>>

(* The core *)

Start ==
    /\ core = "down" /\ Use("start")
    /\ core' = "boot" /\ record' = layout
    /\ job' = [job EXCEPT !["boot"] = [NoJob EXCEPT !.at = "scan"]]
    /\ UNCHANGED <<disk, proc, layout, panes, work>>

Booted ==
    /\ core = "boot" /\ job["boot"].at = "sweep" /\ job["boot"].todo = {}
    /\ core' = "up"
    /\ panes' = [panes EXCEPT !["boot"] = job["boot"].got]
    /\ job' = [job EXCEPT !["boot"] = [NoJob EXCEPT !.at = "over"]]
    /\ Save(panes', job')
    /\ UNCHANGED <<disk, proc, record, work, used>>

\* L1 opens the other saved window: placeholders now, panes when a worker has them.
OpenWindow ==
    /\ core = "up" /\ job["other"].at = "none"
    /\ panes' = [panes EXCEPT !["other"] = [s \in Sids |-> IF s \in record["other"] THEN Plain("pending")
                                                           ELSE NoPane]]
    /\ job' = [job EXCEPT !["other"] = [NoJob EXCEPT !.at = "scan"]]
    /\ UNCHANGED <<disk, proc, core, record, layout, work, used>>
WindowRestored ==
    /\ core = "up" /\ job["other"].at = "done"
    /\ panes' = [panes EXCEPT !["other"] = job["other"].got]
    /\ job' = [job EXCEPT !["other"] = [NoJob EXCEPT !.at = "over"]]
    /\ Save(panes', job')
    /\ UNCHANGED <<disk, proc, core, record, work, used>>

\* Mutant: only the directories are looked at.
AboveDirs == 1 + Max({0} \cup {s \in Sids : dir[s] # 0})

\* The next id is above every one handed out and every directory there is.
NextFree == 1 + Max({nextId} \cup {s \in Sids : dir[s] # 0})
NewPane(w) ==
    /\ core = "up" /\ job[w].at # "none" /\ NextFree \in Sids /\ Use("open")
    /\ nextId' = NextFree
    /\ work' = [work EXCEPT ![NextFree] = [NoWork EXCEPT !.at = "fork"]]
    /\ panes' = [panes EXCEPT ![w][NextFree] = Plain("pending")]
    /\ Save(panes', job)
    /\ UNCHANGED <<dir, node, retired, region, proc, core, record, job>>

\* A key in a pane without a session starts one for the same sid.
Exited(pane) == \/ pane.kind = "vacant"
                \/ pane.kind = "live" /\ proc[pane.child].pc = "gone"
Revive(w, s) ==
    /\ core = "up" /\ Exited(panes[w][s]) /\ work[s].at = "none" /\ Use("gesture")
    /\ work' = [work EXCEPT ![s] = [NoWork EXCEPT !.at = "fork"]]
    /\ panes' = [panes EXCEPT ![w][s] = Plain("pending")]
    /\ UNCHANGED <<disk, proc, core, record, layout, job>>

WorkerForks(s) ==
    /\ work[s].at = "fork"
    /\ IF Capped THEN work' = [work EXCEPT ![s] = [at |-> "sent", born |-> 0, pane |-> Plain("vacant")]]
                      /\ UNCHANGED <<region, proc>>
       ELSE \E p \in Pids : Forked(s, p) /\ work' = [work EXCEPT ![s].at = "connect", ![s].born = p]
    /\ UNCHANGED <<dir, node, retired, nextId, core, record, layout, panes, job, used>>
WorkerConnects(s) ==
    /\ work[s].at = "connect"
    /\ IF Reachable(s)
       THEN work' = [work EXCEPT ![s].at = "sent", ![s].pane = Connected(s, work[s].born)] /\ UNCHANGED proc
       ELSE work' = [work EXCEPT ![s].at = "sent", ![s].pane = Plain("vacant")] /\ Gone(work[s].born)
    /\ UNCHANGED <<disk, core, record, layout, panes, job, used>>

\* L3SpawnFinished: into the pane with that sid; without one the result is let go.
SpawnFinished(s) ==
    LET ws == {w \in Windows : panes[w][s].kind # "none"} IN
    /\ core = "up" /\ work[s].at = "sent"
    /\ IF ws = {} THEN UNCHANGED panes
       ELSE \E w \in ws : panes' = [panes EXCEPT ![w][s] = work[s].pane]
    /\ work' = [work EXCEPT ![s] = NoWork]
    /\ UNCHANGED <<disk, proc, core, record, layout, job, used>>

\* Closing a live pane hangs up on its session and deletes the directory and the region.
Close(w, s) ==
    /\ core = "up" /\ panes[w][s].kind # "none" /\ Use("gesture")
    /\ IF panes[w][s].kind = "live"
       THEN /\ proc' = Signalled(Entry(s))
            /\ dir' = [dir EXCEPT ![s] = 0]
            /\ region' = [region EXCEPT ![s] = 0]
       ELSE UNCHANGED <<proc, dir, region>>
    /\ panes' = [panes EXCEPT ![w][s] = NoPane]
    /\ Save(panes', job)
    /\ UNCHANGED <<node, retired, nextId, core, record, job, work>>

\* A pane dragged to the other window
Move(v, w, s) ==
    /\ core = "up" /\ v # w /\ job[w].at # "none" /\ panes[v][s].kind # "none" /\ Use("gesture")
    /\ panes' = [panes EXCEPT ![v][s] = NoPane, ![w][s] = panes[v][s]]
    /\ Save(panes', job)
    /\ UNCHANGED <<disk, proc, core, record, job, work>>

\* The core dies, at any point, and its workers with it.
CoreDies ==
    /\ core # "down" /\ Use("mishap")
    /\ core' = "down"
    /\ panes' = [w \in Windows |-> NoPanes]
    /\ job' = [w \in Windows |-> NoJob]
    /\ work' = [s \in Sids |-> NoWork]
    /\ UNCHANGED <<disk, proc, record, layout>>

L3Step(p) == \/ Open(p) \/ Bind(p) \/ Register(p) \/ Deadman(p) \/ Ends(p)
Assembly(w) ==
    \/ Scan(w) \/ Reattach(w) \/ ReattachFails(w) \/ Probe(w) \/ Clear(w) \/ Fork(w) \/ Connect(w)
    \/ SlotsDone(w) \/ Adopt(w) \/ List(w) \/ Retire(w)
Worker(s) == WorkerForks(s) \/ WorkerConnects(s) \/ SpawnFinished(s)
Person ==
    \/ \E w \in Windows : NewPane(w)
    \/ \E w \in Windows, s \in Sids : Revive(w, s) \/ Close(w, s)
    \/ \E v, w \in Windows, s \in Sids : Move(v, w, s)
Next ==
    \/ \E p \in Pids : L3Step(p) \/ Reexec(p) \/ ShellExits(p) \/ Killed(p)
    \/ \E w \in Windows : Assembly(w)
    \/ \E s \in Sids : Worker(s)
    \/ Start \/ Booted \/ OpenWindow \/ WindowRestored \/ Person \/ CoreDies

Spec == Init /\ [][Next]_vars
\* The session processes run; a core owes nobody a step.
FairSpec == Spec /\ \A p \in Pids : WF_vars(L3Step(p))
-----------------------------------------------------------------------------
\* Nodes, processes and regions are within their bounds.
TypeOK ==
    /\ dir \in [Sids -> 0 .. MaxNodes] /\ retired \subseteq Nodes
    /\ node \in [Nodes -> [made : {0, 1}, entry : 0 .. MaxPids, sock : 0 .. MaxPids]]
    /\ region \in [Sids -> 0 .. MaxPids]

\* "Exactly one L3 process may own sessions/<id>/ at a time"
\* (session_registry.rs:129-137), from the bind until it is gone, whatever
\* is renamed or executed in between.
InCharge(n) == {p \in Pids : n # 0 /\ proc[p].home = n /\ proc[p].pc \notin {"unborn", "gone"}}
OneServes == \A n \in Nodes : \A p, q \in InCharge(n) : p = q

\* The sweep of the registry never retires the directory of a session the
\* layout on disk names, in whichever window (marspot-core.rs:10185-10204).
SweepSpares ==
    [][\A s \in Sids : retired' # retired /\ dir'[s] # dir[s]
         => s \notin layout["boot"] \cup layout["other"]]_vars

\* A new session's number belongs to nobody: no process ever had it, no pane
\* shows it and no saved slot asks for it (session_registry.rs:60-118).
IdsNotReused ==
    [][\A v \in Windows : NewPane(v)
         => /\ \A p \in Pids : proc[p].sid # nextId'
            /\ \A w \in Windows : panes[w][nextId'].kind = "none" /\ nextId' \notin layout[w]]_vars

\* A process that serves its session from the boot's scan to its end, with a
\* region to read, is in a pane when the core is up, unless the other window
\* will ask for it (marspot-core.rs:10112-10130).
Served(s, p) == proc[p].pc = "serving" /\ proc[p].sid = s /\ Entry(s) = p /\ Sock(s) = p
NoneLost ==
    [][core = "boot" /\ core' = "up" =>
         \A s \in Sids \ Reserved, p \in Pids :
           Served(s, p) /\ job["boot"].seen[s] = p /\ region[s] # 0
             => panes'["boot"][s].ctl = p]_vars

\* No process serves for ever where nobody can find it: another one's entry
\* stands in its place, or the directory or the socket is gone (the deadman,
\* crates/marspot-session/src/main.rs:1478-1513).
Stranded(p) == proc[p].pc = "serving" /\ ~Served(proc[p].sid, p)
StrandedLeaves == []<>(\A p \in Pids : ~Stranded(p))

\* A child whose pane was closed while it was being spawned does not outlive
\* the answer of its spawn (marspot-core.rs:11038-11041).
DroppedIsKilled ==
    [][\A s \in Sids : \A p \in Pids :
         SpawnFinished(s) /\ work[s].pane.child = p /\ (\A w \in Windows : panes[w][s].kind = "none")
         => proc'[p].pc \in {"leaving", "gone"}]_vars

\* A session is in one pane at most.
OnePane == \A s \in Sids : Cardinality({w \in Windows : panes[w][s].kind # "none"}) <= 1

\* A pane's control socket and its frame region belong to one process.
WiredRight == \A w \in Windows, s \in Sids :
    panes[w][s].kind = "live" => panes[w][s].ctl = panes[w][s].reads

\* Nobody owns a directory that is retired, or whose entry and socket are
\* unlinked.
RetiredIdle == [][\A n \in retired' \ retired : Owner(n) = {}]_vars
ClearedIdle == [][\A w \in Windows, s \in Sids :
                    Clear(w) /\ Turn(w, "clear", s) => Owner(dir[s]) = {}]_vars
=============================================================================
