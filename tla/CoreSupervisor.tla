--------------------------- MODULE CoreSupervisor ---------------------------
(***************************************************************************)
(* How the shell (L1) keeps a renderer (the core, L2) running and replaces *)
(* it, and itself, by a newer build.  One pass of the main thread drains   *)
(* the core's answers, judges the core by its silence, pings it, and takes *)
(* up the answer of a probe; the files are the slots of BinaryTree.        *)
(*                                                                         *)
(* Time is a number of ticks, and a pass takes none.  A build is what the  *)
(* properties tell apart of it: whether it starts, and whether it speaks   *)
(* this shell's protocol.  The quarantine slot is never read: a build that *)
(* goes there is gone.  Of windows and surfaces there is only whether the  *)
(* shell still has any.                                                    *)
(***************************************************************************)
EXTENDS Integers, Sequences, FiniteSets, SequencesExt

CONSTANTS
    Builds,       \* what a slot can hold
    Starts,       \* the builds that answer --version
    Speaks,       \* the cores among them that speak PROTO_VERSION
    Bundle,       \* the build next to the shell, run when current/ is empty
    Installed,    \* the build in current/ at first
    Releases,     \* per layer, the builds that are staged
    None,         \* an empty slot
    PingInterval, HelloTimeout, PongDeadline, StallGap, CrashWindow, MaxCrashes,
    Latency,      \* ticks in which a core that runs answers a ping
    BootTime,     \* ticks in which it answers the hello
    Doublings,    \* how often a cool-down doubles
    LongGap,      \* bound on the ticks between two passes
    MaxStaged,    \* bound on the builds staged
    MaxMishaps    \* bound on what goes wrong: gaps longer than StallGap, cores that
                  \* hang or exit, spawns and execs that fail, rollbacks, dead shells

ASSUME BuildsAssumption ==
    /\ Speaks \subseteq Starts /\ Starts \subseteq Builds /\ None \notin Builds
    /\ {Bundle, Installed} \subseteq Speaks /\ Releases \in [{"shell", "core"} -> SUBSET Builds]
ASSUME TimesAssumption ==
    /\ PingInterval \in Nat \ {0} /\ HelloTimeout \in Nat \ {0} /\ PongDeadline \in Nat \ {0}
    /\ StallGap \in Nat \ {0} /\ CrashWindow \in Nat \ {0} /\ MaxCrashes \in Nat /\ Doublings \in Nat
    /\ \A n \in 0 .. Doublings : 2 ^ n \in Nat \ {0}  \* of arithmetic, for the proofs

Layers == {"shell", "core"}

VARIABLES
    tree,     \* per layer: the slots current, prev and pending
    core,     \* the build of the active core, and whether it runs
    asked,    \* what it has not answered yet, with the age
    inbox,    \* its answers
    acked,    \* hello_acked
    age,      \* time since spawned_at, or since last_pong_at once acked
    pingAge,  \* time since the last ping, or since the hello
    nonce,    \* last_ping_nonce
    gap,      \* time since the last pass
    crashes,  \* their ages
    paused,   \* auto_restart_disabled
    pauseAge, \* time since disabled_at
    trips,    \* budget_trips
    surfaces, \* its windows have something to draw on
    main,     \* the main thread
    todo,     \* what is left of an update
    probe,    \* the probe round
    restarts, \* ages of the respawns of the watchdog (for a property)
    restaged, \* layers staged again after the probe looked (for a property)
    used      \* how much of the bounds has been used

conn == <<core, asked, inbox, acked, age, pingAge, nonce>>
budget == <<crashes, paused, pauseAge, trips, restarts>>
vars == <<tree, conn, gap, budget, surfaces, main, todo, probe, restaged, used>>

Use(what) == used' = [used EXCEPT ![what] = @ + 1]
Mishap(what) == /\ used.fault + used.spawn + used.rollback + used.death < MaxMishaps
                /\ Use(what)

Hello == -1
NoCore == [build |-> None, life |-> "none"]
NoProbe == [at |-> "idle", verdict |-> [l \in Layers |-> "-"]]
Slots(current) == [current |-> current, prev |-> None, pending |-> None]

\* resolve_runnable
Runnable == IF tree["core"].current = None THEN Bundle ELSE tree["core"].current

\* A core from `b`: it is sent a hello.
Spawned(b) ==
    /\ core' = [build |-> b, life |-> IF b \in Starts THEN "up" ELSE "gone"]
    /\ asked' = <<[n |-> Hello, age |-> 0]>> /\ inbox' = <<>>
    /\ acked' = FALSE /\ age' = 0 /\ pingAge' = 0 /\ nonce' = 0

\* shutdown_active
Retired == /\ core' = NoCore /\ asked' = <<>> /\ inbox' = <<>>
           /\ acked' = FALSE /\ age' = 0 /\ pingAge' = 0 /\ nonce' = 0

Fails == Mishap("spawn")

\* A shell that has just started.
FreshShell ==
    /\ Spawned(Runnable)
    /\ gap' = 0 /\ crashes' = <<>> /\ paused' = FALSE /\ pauseAge' = 0 /\ trips' = 0
    /\ restarts' = <<>> /\ surfaces' = TRUE
    /\ main' = "idle" /\ todo' = <<>> /\ probe' = NoProbe

Init ==
    /\ tree = [l \in Layers |-> Slots(Installed)]
    /\ core = [build |-> Installed, life |-> "up"]
    /\ asked = <<[n |-> Hello, age |-> 0]>> /\ inbox = <<>>
    /\ acked = FALSE /\ age = 0 /\ pingAge = 0 /\ nonce = 0
    /\ gap = 0 /\ crashes = <<>> /\ paused = FALSE /\ pauseAge = 0 /\ trips = 0
    /\ restarts = <<>> /\ surfaces = TRUE
    /\ main = "idle" /\ todo = <<>> /\ probe = NoProbe
    /\ restaged = {}
    /\ used = [staged |-> 0, fault |-> 0, spawn |-> 0, rollback |-> 0, death |-> 0]
-----------------------------------------------------------------------------
(* The surroundings.  They act between passes, and between the steps of an *)
(* update: what else a pass does reads the inbox, the exit of the core and   *)
(* the files once.                                                           *)

Between == main \in {"idle", "update"}

Prompt(q) == q.age < (IF q.n = Hello THEN BootTime ELSE Latency)
\* What is older than `most` leaves at the front.
Recent(ages, most) ==
    LET young == {i \in DOMAIN ages : ages[i] <= most}
    IN  IF young = {} THEN <<>> ELSE SubSeq(ages, Min(young), Len(ages))
Aged(ages, most) == Recent([i \in DOMAIN ages |-> ages[i] + 1], most - 1)
Upto(a, most) == IF a < most THEN a + 1 ELSE a
Cooldown == CrashWindow * 2 ^ (IF trips < 1 THEN 0 ELSE IF trips > Doublings THEN Doublings ELSE trips - 1)
LongestCooldown == CrashWindow * 2 ^ Doublings

\* Time passes: a core that runs answers in time, and the shell passes by
\* often enough unless it is kept from running.
Tick ==
    /\ main = "idle"
    /\ core.life = "up" /\ asked # <<>> => Prompt(Head(asked))
    /\ gap < LongGap
    /\ IF gap = StallGap THEN Mishap("fault") ELSE UNCHANGED used
    /\ gap' = gap + 1
    /\ age' = IF core.life = "none" THEN age ELSE Upto(age, HelloTimeout + PongDeadline + LongGap)
    /\ pingAge' = IF acked THEN Upto(pingAge, PingInterval) ELSE pingAge
    /\ asked' = [i \in DOMAIN asked |-> [asked[i] EXCEPT !.age = Upto(@, BootTime + Latency)]]
    /\ crashes' = [i \in DOMAIN crashes |-> Upto(crashes[i], CrashWindow + 1)]
    /\ restarts' = Aged(restarts, CrashWindow)
    /\ pauseAge' = IF paused THEN Upto(pauseAge, LongestCooldown) ELSE pauseAge
    /\ UNCHANGED <<tree, core, inbox, acked, nonce, paused, trips, surfaces, main, todo, probe, restaged>>

\* The core's main loop takes the next request.
CoreAnswers ==
    /\ main = "idle"
    /\ core.life = "up" /\ asked # <<>>
    /\ asked' = Tail(asked)
    /\ inbox' = Append(inbox, Head(asked).n)
    /\ UNCHANGED <<tree, core, acked, age, pingAge, nonce, gap, budget, surfaces, main, todo, probe, restaged, used>>

CoreFails(life) ==
    /\ main = "idle"
    /\ core.life = "up"
    /\ Mishap("fault")
    /\ core' = [core EXCEPT !.life = life]
    /\ UNCHANGED <<tree, asked, inbox, acked, age, pingAge, nonce, gap, budget, surfaces, main, todo, probe, restaged>>

\* The updater, or install-local, puts a build into pending/.
Stage(l, b) ==
    /\ Between
    /\ used.staged < MaxStaged /\ Use("staged")
    /\ tree' = [tree EXCEPT ![l].pending = b]
    /\ restaged' = IF probe.verdict[l] = "ok" \/ todo # <<>> THEN restaged \union {l} ELSE restaged
    /\ UNCHANGED <<conn, gap, budget, surfaces, main, todo, probe>>

\* rollback_to_prev
RolledBack(l) == [tree EXCEPT ![l].current = tree[l].prev, ![l].prev = None]

\* --rollback-shell and --rollback-core, in a process of their own.
CmdRollback(l) ==
    /\ Between
    /\ Mishap("rollback")
    /\ tree' = RolledBack(l)
    /\ UNCHANGED <<conn, gap, budget, surfaces, main, todo, probe, restaged>>

\* The shell dies, between any two steps; its core sees the end of the
\* socket.  The user starts another.
ShellDies ==
    /\ Between
    /\ Mishap("death")
    /\ FreshShell
    /\ UNCHANGED <<tree, restaged>>
-----------------------------------------------------------------------------
(* A pass of the main thread: user_event, then poll_supervisor. *)

\* The pump, or an answer, wakes the main thread; user_event drains the inbox
\* first.  A pong to an older ping is stale.
Drain ==
    /\ main = "idle"
    /\ gap > 0 \/ inbox # <<>>
    /\ main' = "judge"
    /\ inbox' = <<>>
    /\ LET hello == Contains(inbox, Hello)
           speaks == core.build \in Speaks
       IN  /\ acked' = (acked \/ (hello /\ speaks))
           /\ age' = IF (hello /\ speaks) \/ Contains(inbox, nonce) THEN 0 ELSE age
           /\ pingAge' = IF hello /\ speaks THEN 0 ELSE pingAge
           /\ core' = IF hello /\ ~speaks THEN [core EXCEPT !.life = "killed"] ELSE core
    /\ UNCHANGED <<tree, asked, nonce, gap, budget, surfaces, todo, probe, restaged, used>>

\* note_crash: those a window old still count.
Noted == Append(Recent(crashes, CrashWindow), 0)

RecordCrash ==
    /\ crashes' = Noted
    /\ paused' = (paused \/ Len(Noted) > MaxCrashes)
    /\ pauseAge' = IF Len(Noted) > MaxCrashes THEN 0 ELSE pauseAge
    /\ trips' = IF Len(Noted) > MaxCrashes THEN Upto(trips, Doublings + 1) ELSE trips

\* Mutant: a pause shows its banner and holds nothing back.
RestartAnyway ==
    \/ Spawned(Runnable) /\ restarts' = Append(restarts, 0) /\ UNCHANGED used
    \/ Fails /\ Retired /\ UNCHANGED restarts

\* restart_core, unless restarts are paused or there is nothing to draw on.
RestartCore ==
    LET may == ~paused' /\ surfaces
    IN  \/ ~may /\ Retired /\ UNCHANGED <<restarts, used>>
        \/ may /\ Spawned(Runnable) /\ restarts' = Append(restarts, 0) /\ UNCHANGED used
        \/ may /\ Fails /\ Retired /\ UNCHANGED restarts

\* Mutant: silence counts although nobody listened.
ForgivenNothing == age

\* The gap is handed back when the shell itself was not running.
Forgiven == IF gap <= StallGap THEN age ELSE IF gap < age THEN age - gap ELSE 0

Judging == main = "judge" /\ gap' = 0

\* Mutant: a pause lasts until the app is restarted.
NeverCooledDown == FALSE
CooledDown == paused /\ pauseAge >= Cooldown
Overdue == core.life # "none" /\ ~acked /\ Forgiven > HelloTimeout

TryAgain ==
    /\ Judging /\ CooledDown
    /\ paused' = FALSE /\ pauseAge' = 0 /\ crashes' = <<>> /\ UNCHANGED trips
    /\ RestartCore
    /\ main' = "idle"
    /\ UNCHANGED <<tree, surfaces, todo, probe, restaged>>

\* The core has exited, or never said hello.
GoneOrMute ==
    /\ Judging /\ ~CooledDown
    /\ core.life = "gone" \/ Overdue
    /\ RecordCrash
    /\ RestartCore
    /\ main' = "idle"
    /\ UNCHANGED <<tree, surfaces, todo, probe, restaged>>

Judge ==
    /\ Judging /\ ~CooledDown /\ core.life # "gone" /\ ~Overdue
    /\ age' = Forgiven
    /\ main' = "ping"
    /\ UNCHANGED <<tree, core, asked, inbox, acked, pingAge, nonce, budget, surfaces, todo, probe, restaged, used>>

\* Pings go out whether or not the last one was answered; nonces wrap.
Nonces == 8
Ping ==
    /\ main = "ping"
    /\ ~(acked /\ age > PongDeadline)
    /\ main' = "collect"
    /\ IF acked /\ pingAge >= PingInterval
       THEN /\ nonce' = (nonce + 1) % Nonces
            /\ pingAge' = 0
            /\ asked' = IF core.life = "up" THEN Append(asked, [n |-> nonce', age |-> 0]) ELSE asked
       ELSE UNCHANGED <<nonce, pingAge, asked>>
    /\ UNCHANGED <<tree, core, inbox, acked, age, gap, budget, surfaces, todo, probe, restaged, used>>

Hung ==
    /\ main = "ping"
    /\ acked /\ age > PongDeadline
    /\ RecordCrash
    /\ RestartCore
    /\ main' = "collect"
    /\ UNCHANGED <<tree, gap, surfaces, todo, probe, restaged>>
-----------------------------------------------------------------------------
(* An update. *)

\* SIGUSR1 or the loss of focus: apply_pending_update, start_probe.
ApplyUpdate ==
    /\ main = "idle" /\ probe.at = "idle"
    /\ \E l \in Layers : tree[l].pending # None
    /\ probe' = [NoProbe EXCEPT !.at = "shell", !.verdict =
                   [l \in Layers |-> IF tree[l].pending # None THEN "asked" ELSE "-"]]
    /\ UNCHANGED <<tree, conn, gap, budget, surfaces, main, todo, restaged, used>>

\* Mutant: a candidate that does not answer in time counts as one that starts.
ProbeTrusts(l, next) ==
    /\ probe.at = l
    /\ \E answer \in {"ok", "failed"} :
          probe' = IF probe.verdict[l] = "-" THEN [probe EXCEPT !.at = next]
                   ELSE [probe EXCEPT !.at = next, !.verdict[l] = answer]
    /\ UNCHANGED <<tree, conn, gap, budget, surfaces, main, todo, restaged, used>>

\* can_start, of what is in pending/ by then.  A build that starts can be too
\* slow to say so.
ProbeRuns(l, next) ==
    /\ probe.at = l
    /\ \E answer \in {"ok", "failed"} :
          /\ answer = "ok" => tree[l].pending \in Starts
          /\ probe' = IF probe.verdict[l] = "-" THEN [probe EXCEPT !.at = next]
                      ELSE [probe EXCEPT !.at = next, !.verdict[l] = answer]
    /\ UNCHANGED <<tree, conn, gap, budget, surfaces, main, todo, restaged, used>>

ProbeThread == ProbeRuns("shell", "core") \/ ProbeRuns("core", "done")

Passed(l) == probe.verdict[l] = "ok"
Do(what, l) == [do |-> what, layer |-> l]
Promote(l) == <<Do("park", l), Do("land", l)>>

\* ProbeVerdict::plan; perform_core_swap promotes nothing without a surface.
Plan == (IF Passed("shell") /\ Passed("core") THEN Promote("core") ELSE <<>>)
        \o (IF Passed("shell") THEN Promote("shell") \o <<Do("exec", "shell")>>
            ELSE IF Passed("core") /\ surfaces THEN Promote("core") \o <<Do("swap", "core")>> ELSE <<>>)

NotYet == main = "collect" /\ probe.at # "done" /\ main' = "idle"
          /\ UNCHANGED <<tree, conn, gap, budget, surfaces, todo, probe, restaged, used>>

\* finish_probe: what failed leaves pending/, and the rest is carried out.
FinishProbe ==
    /\ main = "collect" /\ probe.at = "done"
    /\ tree' = [l \in Layers |-> IF probe.verdict[l] = "failed"
                                 THEN [tree[l] EXCEPT !.pending = None] ELSE tree[l]]
    /\ todo' = Plan
    /\ main' = IF todo' = <<>> THEN "idle" ELSE "update"
    /\ probe' = NoProbe
    /\ UNCHANGED <<conn, gap, budget, surfaces, restaged, used>>

Doing(what, l) ==
    /\ main = "update"
    /\ Head(todo) = Do(what, l)
    /\ todo' = Tail(todo)
    /\ main' = IF todo' = <<>> THEN "idle" ELSE "update"

\* promote_pending, its first rename and its second.
Park(l) ==
    /\ Doing("park", l)
    /\ tree' = IF tree[l].current = None THEN tree
               ELSE [tree EXCEPT ![l].prev = tree[l].current, ![l].current = None]
    /\ UNCHANGED <<conn, gap, budget, surfaces, probe, restaged, used>>

Land(l) ==
    /\ Doing("land", l)
    /\ tree' = [tree EXCEPT ![l].current = tree[l].pending, ![l].pending = None]
    /\ UNCHANGED <<conn, gap, budget, surfaces, probe, restaged, used>>

\* perform_core_swap, from the end of the old core: prev/ goes once the new
\* one is spawned, and comes back if it cannot be.
Swap ==
    /\ Doing("swap", "core")
    /\ \/ /\ Spawned(Runnable)
          /\ tree' = [tree EXCEPT !["core"].prev = None]
          /\ UNCHANGED used
       \/ /\ Fails
          /\ Retired
          /\ tree' = RolledBack("core")
    /\ UNCHANGED <<gap, budget, surfaces, probe, restaged>>

\* finish_shell_self_update, from the end of the core.  The surfaces go before
\* the exec, and do not come back if it does.
Exec ==
    /\ Doing("exec", "shell")
    /\ \/ /\ tree["shell"].current # None
          /\ FreshShell
          /\ UNCHANGED used
       \/ /\ IF tree["shell"].current = None THEN UNCHANGED used ELSE Fails
          /\ Retired
          /\ surfaces' = FALSE
          /\ UNCHANGED <<gap, budget, probe>>
    /\ UNCHANGED <<tree, restaged>>
-----------------------------------------------------------------------------
Pass == \/ Drain \/ TryAgain \/ GoneOrMute \/ Judge \/ Ping \/ Hung \/ NotYet \/ FinishProbe
        \/ (\E l \in Layers : Park(l) \/ Land(l)) \/ Swap \/ Exec

Next == \/ Tick \/ CoreAnswers \/ Pass \/ ApplyUpdate \/ ProbeThread
        \/ (\E life \in {"hung", "gone"} : CoreFails(life))
        \/ (\E l \in Layers : CmdRollback(l) \/ \E b \in Releases[l] : Stage(l, b))
        \/ ShellDies

Spec == Init /\ [][Next]_vars

\* Time passes, and so do the shell's main thread and the core's.
FairSpec == Spec /\ SF_vars(Tick) /\ WF_vars(Pass) /\ SF_vars(CoreAnswers)
-----------------------------------------------------------------------------
(* Correctness. *)

Sound == {b \in Speaks : b \in Starts}
Up == core.life = "up" /\ acked

\* Every variable keeps its type; there is something to do exactly in an update.
TypeOK ==
    /\ tree \in [Layers -> [current : Builds \union {None}, prev : Builds \union {None},
                            pending : Builds \union {None}]]
    /\ core.build \in Builds \union {None}
    /\ core.life \in {"none", "up", "hung", "gone", "killed"}
    /\ core.build = None <=> core.life = "none"
    /\ \A i \in DOMAIN inbox : inbox[i] \in Hello .. Nonces - 1
    /\ nonce \in 0 .. Nonces - 1 /\ gap \in 0 .. LongGap
    /\ pauseAge \in 0 .. LongestCooldown /\ trips \in 0 .. Doublings + 1
    /\ Len(crashes) <= MaxCrashes + 2
    /\ main \in {"idle", "judge", "ping", "collect", "update"}
    /\ main = "update" <=> todo # <<>>
    /\ surfaces \in BOOLEAN
    /\ probe.at \in {"idle", "shell", "core", "done"}
    /\ restaged \subseteq Layers

\* A core is charged with a crash only if it has exited, hangs or does not
\* speak the protocol: neither a slow boot nor a shell that was not running
\* is held against one that answers in time (main.rs:163-174, 3167-3182).
CrashIsReal ==
    [][crashes' # crashes /\ crashes' # <<>> /\ main \in {"judge", "ping"}
         => core.life \in {"gone", "hung", "killed"}]_vars

\* The crash budget bounds the rate of respawns, whatever fails and however
\* often a pause has been sat out (main.rs:2606-2612).
RestartRate == Len(restarts) <= MaxCrashes + 1

\* Unless it was staged over one that had been probed, a build that does not
\* start is never in current/, to be executed or to be rolled back to.
DeadNeverCurrent ==
    \A l \in Layers \ restaged : tree[l].current # None => tree[l].current \in Starts

\* What a pause has kept from running is all that its end replaces
\* (main.rs:2605-2612).  The code does not have this: a swap during the pause
\* starts a core, and the end of the pause kills it however well it does.
CooldownSparesHealthy == [][main = "judge" /\ CooledDown /\ main' = "idle" => ~Up]_vars

Watched == core.life # "none" \/ paused

\* Whatever the core does, and after every pause, one that is sound comes to
\* run and to answer, as long as the shell has a core or a pause to end.
CoreComesBack == <>[](Runnable \in Sound /\ Watched) => <>[]Up

\* A shell without a core makes one (the banner it shows meanwhile says
\* "recovering").  The code does not have this: after a spawn that failed, or
\* an exec that came back, no pass has a core to judge.
NoneRecovers == core.life = "none" ~> core.life # "none"
=============================================================================
