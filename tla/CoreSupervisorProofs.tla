------------------------ MODULE CoreSupervisorProofs ------------------------
(***************************************************************************)
(* Proofs about CoreSupervisor, for every set of builds, every window and  *)
(* number of crashes, and any number of updates, rollbacks and mishaps.    *)
(*                                                                         *)
(* What runs can start (TreeInv): an update lands only what its probe      *)
(* passed, unless the slot was staged over in between, and the layers for  *)
(* which that happened are known.  Respawns are rationed (BudgetInv): each *)
(* but the first is charged to a crash at least as old, in order, so there *)
(* are never more of them in a window than crashes, and one.  A core that  *)
(* answers in time is not charged (AnswerInv): no second ping waits behind *)
(* a first, so its silence is what a ping, a stall and an answer take.     *)
(***************************************************************************)
EXTENDS CoreSupervisor, SequenceTheorems, WellFoundedInduction, TLAPS

-----------------------------------------------------------------------------
(* What runs can start. *)

Runs == Starts \union {None}
Verdicts == {"-", "asked", "ok", "failed"}
Slot == [current : Builds \union {None}, prev : Builds \union {None}, pending : Builds \union {None}]

\* What can be left of an update.
Exec1 == <<Do("exec", "shell")>>
Exec2 == <<Do("land", "shell"), Do("exec", "shell")>>
Exec3 == <<Do("park", "shell"), Do("land", "shell"), Do("exec", "shell")>>
Exec4 == <<Do("land", "core"), Do("park", "shell"), Do("land", "shell"), Do("exec", "shell")>>
Exec5 == <<Do("park", "core"), Do("land", "core"), Do("park", "shell"), Do("land", "shell"),
           Do("exec", "shell")>>
Swap1 == <<Do("swap", "core")>>
Swap2 == <<Do("land", "core"), Do("swap", "core")>>
Swap3 == <<Do("park", "core"), Do("land", "core"), Do("swap", "core")>>
Agendas == {<<>>, Exec1, Exec2, Exec3, Exec4, Exec5, Swap1, Swap2, Swap3}

\* It is still to put what is in pending/ of `l` into current/.
ToLand(l) == IF l = "shell" THEN todo \in {Exec2, Exec3, Exec4, Exec5}
             ELSE todo \in {Exec4, Exec5, Swap2, Swap3}

Sorted == /\ tree \in [Layers -> Slot] /\ probe.verdict \in [Layers -> Verdicts]
          /\ todo \in Agendas /\ (main = "update" <=> todo # <<>>)
          /\ todo # <<>> => probe = NoProbe

\* A layer whose pending/ was not staged over since the probe looked.
Tested(l) == /\ tree[l].current \in Runs /\ tree[l].prev \in Runs
             /\ Passed(l) \/ ToLand(l) => tree[l].pending \in Starts
TreeInv == Sorted /\ \A l \in Layers \ restaged : Tested(l)

\* The newest but k, of ages in the order of what happened.
But(s, k) == s[Len(s) - k]
\* The respawns in the window.
Ordered(r) == /\ \A k \in 0 .. Len(r) - 1 : But(r, k) < CrashWindow
              /\ \A k, l \in 0 .. Len(r) - 1 : k <= l => But(r, k) <= But(r, l)
\* A respawn came no later than the crash that is in its place; the oldest one
\* needs no crash.
Charged(c, r) == Len(r) <= Len(c) + 1 /\ \A k \in 0 .. Len(r) - 2 : But(c, k) <= But(r, k)
\* None came since the pause began.
HeldBack == paused => \A k \in 0 .. Len(restarts) - 1 : pauseAge <= But(restarts, k)

BudgetInv == /\ crashes \in Seq(Nat) /\ restarts \in Seq(Nat) /\ pauseAge \in Nat /\ trips \in Nat
             /\ Ordered(restarts) /\ Charged(crashes, restarts) /\ HeldBack /\ RestartRate

\* What is left of an update after its first step.
LEMMA Tails == /\ Tail(Exec1) = <<>> /\ Tail(Exec2) = Exec1 /\ Tail(Exec3) = Exec2
               /\ Tail(Exec4) = Exec3 /\ Tail(Exec5) = Exec4
               /\ Tail(Swap1) = <<>> /\ Tail(Swap2) = Swap1 /\ Tail(Swap3) = Swap2
BY DEF Exec1, Exec2, Exec3, Exec4, Exec5, Swap1, Swap2, Swap3

\* The first step of what is left.
LEMMA Heads == /\ Head(Exec1) = Do("exec", "shell") /\ Head(Exec2) = Do("land", "shell")
               /\ Head(Exec3) = Do("park", "shell") /\ Head(Exec4) = Do("land", "core")
               /\ Head(Exec5) = Do("park", "core") /\ Head(Swap1) = Do("swap", "core")
               /\ Head(Swap2) = Do("land", "core") /\ Head(Swap3) = Do("park", "core")
BY DEF Exec1, Exec2, Exec3, Exec4, Exec5, Swap1, Swap2, Swap3

\* Its length: it decides which of them it is.
LEMMA Lens == /\ Len(Exec1) = 1 /\ Len(Exec2) = 2 /\ Len(Exec3) = 3 /\ Len(Exec4) = 4 /\ Len(Exec5) = 5
              /\ Len(Swap1) = 1 /\ Len(Swap2) = 2 /\ Len(Swap3) = 3 /\ Len(<<>>) = 0
BY DEF Exec1, Exec2, Exec3, Exec4, Exec5, Swap1, Swap2, Swap3

\* A step is its verb and its layer.
LEMMA Dos == \A w, v, k, l : Do(w, k) = Do(v, l) => w = v /\ k = l
BY DEF Do

\* No two of the agendas are the same.
LEMMA Apart ==
    /\ <<>> \notin {Exec1, Exec2, Exec3, Exec4, Exec5, Swap1, Swap2, Swap3}
    /\ Exec1 \notin {Exec2, Exec3, Exec4, Exec5, Swap2, Swap3}
    /\ Exec2 \notin {Exec4, Exec5, Swap2, Swap3}
    /\ Exec3 \notin {Exec4, Exec5, Swap2, Swap3}
    /\ Swap1 \notin {Exec2, Exec3, Exec4, Exec5, Swap2, Swap3}
    /\ Swap2 \notin {Exec2, Exec3, Exec4, Exec5}
<1>1. Exec2 # Swap2 /\ Exec3 # Swap3
  BY Heads, Dos
<1>2. <<>> \notin {Exec1, Exec2, Exec3, Exec4, Exec5, Swap1, Swap2, Swap3}
  BY Lens
<1>5. Exec1 \notin {Exec2, Exec3, Exec4, Exec5, Swap2, Swap3}
  BY Lens
<1>6. Swap1 \notin {Exec2, Exec3, Exec4, Exec5, Swap2, Swap3}
  BY Lens
<1>3. Exec2 \notin {Exec4, Exec5} /\ Exec3 \notin {Exec4, Exec5} /\ Exec2 # Swap3 /\ Exec3 # Swap2
  BY Lens
<1>4. Swap2 \notin {Exec3, Exec4, Exec5}
  BY Lens
<1> QED BY <1>1, <1>2, <1>3, <1>4, <1>5, <1>6

\* Tuples put together.
LEMMA Pair1 == ASSUME NEW a, NEW b, NEW c PROVE <<a, b>> \o <<c>> = <<a, b, c>>
<1> DEFINE S == {a, b, c}
<1>1. <<a, b>> \in Seq(S) /\ <<c>> \in Seq(S) /\ <<a, b, c>> \in Seq(S)
  OBVIOUS
<1> HIDE DEF S
<1>2. <<a, b>> \o <<c>> \in Seq(S) /\ Len(<<a, b>> \o <<c>>) = 3
  BY <1>1, ConcatProperties
<1>3. \A i \in 1 .. 3 : (<<a, b>> \o <<c>>)[i] = <<a, b, c>>[i]
  BY <1>1, ConcatProperties
<1> QED BY <1>1, <1>2, <1>3, SeqEqual

\* The same for two longer ones.
LEMMA Pair3 ==
    ASSUME NEW a, NEW b, NEW c, NEW d, NEW e
    PROVE  <<a, b>> \o <<c, d, e>> = <<a, b, c, d, e>>
<1> DEFINE S == {a, b, c, d, e}
<1>1. <<a, b>> \in Seq(S) /\ <<c, d, e>> \in Seq(S) /\ <<a, b, c, d, e>> \in Seq(S)
  OBVIOUS
<1> HIDE DEF S
<1>2. <<a, b>> \o <<c, d, e>> \in Seq(S) /\ Len(<<a, b>> \o <<c, d, e>>) = 5
  BY <1>1, ConcatProperties
<1>3. \A i \in 1 .. 5 : (<<a, b>> \o <<c, d, e>>)[i] = <<a, b, c, d, e>>[i]
  BY <1>1, ConcatProperties
<1> QED BY <1>1, <1>2, <1>3, SeqEqual

\* What ApplyUpdate and FinishProbe plan is one of the agendas.
LEMMA Joined ==
    /\ Promote("core") \o <<Do("swap", "core")>> = Swap3
    /\ Promote("shell") \o <<Do("exec", "shell")>> = Exec3
    /\ Promote("core") \o Exec3 = Exec5
<1>1. Promote("core") \o <<Do("swap", "core")>> = Swap3
  BY Pair1 DEF Promote, Swap3
<1>2. Promote("shell") \o <<Do("exec", "shell")>> = Exec3
  BY Pair1 DEF Promote, Exec3
<1>3. Promote("core") \o Exec3 = Exec5
  BY Pair3 DEF Promote, Exec3, Exec5
<1> QED BY <1>1, <1>2, <1>3

\* Nothing in front of an agenda leaves it.
LEMMA ConcatNone == ASSUME NEW t \in Agendas PROVE <<>> \o t = t
<1> DEFINE S == {Do(w, l) : w \in {"park", "land", "exec", "swap"}, l \in Layers}
<1>1. t \in Seq(S)
  <2>1. \A w \in {"park", "land", "exec", "swap"} : Do(w, "shell") \in S /\ Do(w, "core") \in S
    BY DEF Layers
  <2> HIDE DEF S
  <2>2. <<>> \in Seq(S)
    OBVIOUS
  <2>3. Exec1 \in Seq(S) /\ Exec2 \in Seq(S) /\ Exec3 \in Seq(S) /\ Exec4 \in Seq(S) /\ Exec5 \in Seq(S)
    BY <2>1 DEF Exec1, Exec2, Exec3, Exec4, Exec5
  <2>4. Swap1 \in Seq(S) /\ Swap2 \in Seq(S) /\ Swap3 \in Seq(S)
    BY <2>1 DEF Swap1, Swap2, Swap3
  <2> QED BY <2>2, <2>3, <2>4 DEF Agendas
<1> QED BY <1>1, ConcatEmptySeq

\* What a probe's verdicts make of the slots is an agenda that lands only
\* what passed.
LEMMA Planned ==
    /\ Plan \in Agendas
    /\ \A l \in Layers : Plan \in (IF l = "shell" THEN {Exec2, Exec3, Exec4, Exec5}
                                  ELSE {Exec4, Exec5, Swap2, Swap3}) => Passed(l)
<1>1. CASE Passed("shell") /\ Passed("core")
  BY <1>1, Joined DEF Plan, Agendas, Layers
<1>2. CASE Passed("shell") /\ ~Passed("core")
  <2>1. Plan = <<>> \o Exec3
    BY <1>2, Joined DEF Plan
  <2>2. Plan = Exec3
    BY <2>1, ConcatNone DEF Agendas
  <2>3. Exec3 \notin {Exec4, Exec5, Swap2, Swap3}
    <3>1. Exec3 # Exec4 /\ Exec3 # Exec5 /\ Exec3 # Swap2
      BY Lens
    <3>2. Exec3 # Swap3
      BY Heads, Dos
    <3> QED BY <3>1, <3>2
  <2> QED BY <1>2, <2>2, <2>3 DEF Agendas, Layers
<1>3. CASE ~Passed("shell") /\ Passed("core") /\ surfaces
  <2>1. Plan = <<>> \o Swap3
    BY <1>3, Joined DEF Plan
  <2>2. Plan = Swap3
    BY <2>1, ConcatNone DEF Agendas
  <2>3. Swap3 \notin {Exec2, Exec3, Exec4, Exec5}
    <3>1. Swap3 # Exec4 /\ Swap3 # Exec5 /\ Swap3 # Exec2
      BY Lens
    <3>2. Exec3 # Swap3
      BY Heads, Dos
    <3> QED BY <3>1, <3>2
  <2> QED BY <1>3, <2>2, <2>3 DEF Agendas, Layers
<1>4. CASE ~Passed("shell") /\ ~(Passed("core") /\ surfaces)
  <2>1. Plan = <<>> \o <<>>
    BY <1>4 DEF Plan
  <2>2. Plan = <<>>
    BY <2>1, ConcatNone DEF Agendas
  <2>3. <<>> \notin {Exec2, Exec3, Exec4, Exec5, Swap2, Swap3}
    BY Lens
  <2> QED BY <2>2, <2>3 DEF Agendas, Layers
<1> QED BY <1>1, <1>2, <1>3, <1>4

\* What a step of an update leaves of it: a layer that was to be landed is so
\* once.
LEMMA Done ==
    ASSUME TreeInv, NEW w, NEW l \in Layers, Doing(w, l)
    PROVE  /\ todo # <<>> /\ todo' \in Agendas /\ (main' = "update" <=> todo' # <<>>)
           /\ \A k \in Layers : ToLand(k)' => ToLand(k)
           /\ w = "land" => ToLand(l) /\ ~ToLand(l)'
<1>1. todo \in Agendas /\ todo # <<>> /\ Head(todo) = Do(w, l) /\ todo' = Tail(todo)
  BY DEF Doing, TreeInv, Sorted
<1>2. main' = "update" <=> todo' # <<>>
  BY DEF Doing
<1>3. \E s \in {Exec1, Exec2, Exec3, Exec4, Exec5, Swap1, Swap2, Swap3} : todo = s
  BY <1>1 DEF Agendas
<1>4. todo' \in Agendas
  BY <1>1, <1>3, Tails DEF Agendas
<1>5. /\ <<>> \notin {Exec1, Exec2, Exec3, Exec4, Exec5, Swap1, Swap2, Swap3}
      /\ Exec1 \notin {Exec2, Exec3, Exec4, Exec5, Swap2, Swap3}
      /\ Exec2 \notin {Exec4, Exec5, Swap2, Swap3}
      /\ Exec3 \notin {Exec4, Exec5, Swap2, Swap3}
      /\ Swap1 \notin {Exec2, Exec3, Exec4, Exec5, Swap2, Swap3}
      /\ Swap2 \notin {Exec2, Exec3, Exec4, Exec5}
  BY Apart
<1>6. \A k \in Layers : ToLand(k)' => ToLand(k)
  <2>0. \/ todo \in {Exec1, Swap1} /\ todo' = <<>>
        \/ todo = Exec2 /\ todo' = Exec1
        \/ todo = Exec3 /\ todo' = Exec2
        \/ todo = Exec4 /\ todo' = Exec3
        \/ todo = Exec5 /\ todo' = Exec4
        \/ todo = Swap2 /\ todo' = Swap1
        \/ todo = Swap3 /\ todo' = Swap2
    BY <1>1, <1>3, Tails
  <2>1. todo' \in {Exec2, Exec3, Exec4, Exec5} => todo \in {Exec2, Exec3, Exec4, Exec5}
    BY <1>5, <2>0
  <2>2. todo' \in {Exec4, Exec5, Swap2, Swap3} => todo \in {Exec4, Exec5, Swap2, Swap3}
    BY <1>5, <2>0
  <2> QED BY <2>1, <2>2 DEF ToLand
<1>7. ASSUME w = "land" PROVE ToLand(l) /\ ~ToLand(l)'
  <2>1. todo \in {Exec2, Exec4, Swap2}
    BY <1>1, <1>3, <1>7, Heads, Dos
  <2>2. CASE todo = Exec2
    <3>1. l = "shell" /\ todo' = Exec1
      BY <1>1, <2>2, Heads, Dos, Tails
    <3> QED BY <1>5, <2>2, <3>1 DEF ToLand
  <2>3. CASE todo = Exec4
    <3>1. l = "core" /\ todo' = Exec3
      BY <1>1, <2>3, Heads, Dos, Tails
    <3> QED BY <1>5, <2>3, <3>1 DEF ToLand
  <2>4. CASE todo = Swap2
    <3>1. l = "core" /\ todo' = Swap1
      BY <1>1, <2>4, Heads, Dos, Tails
    <3> QED BY <1>5, <2>4, <3>1 DEF ToLand
  <2> QED BY <2>1, <2>2, <2>3, <2>4
<1> QED BY <1>1, <1>2, <1>4, <1>6, <1>7

\* Steps that are not about the slots, or what is to be done with them.
LEMMA Elsewhere ==
    ASSUME TreeInv, UNCHANGED <<tree, probe, todo, restaged>>, main' = "update" <=> main = "update"
    PROVE  TreeInv'
<1>1. Sorted'
  BY DEF TreeInv, Sorted
<1>2. \A l \in Layers \ restaged' : Tested(l)'
  BY DEF TreeInv, Tested, Passed, ToLand
<1> QED BY <1>1, <1>2 DEF TreeInv

\* Without an agenda nothing is to be landed.
LEMMA NothingToDo == ASSUME todo = <<>> PROVE \A l \in Layers : ~ToLand(l)
BY Apart DEF ToLand

\* A probe that has not begun has asked for nothing.
LEMMA NothingAsked == \A l \in Layers : NoProbe.verdict[l] = "-"
BY DEF NoProbe

\* Its verdicts have their type.
LEMMA NoProbeVerdicts == NoProbe.verdict \in [Layers -> Verdicts]
BY DEF NoProbe, Verdicts

\* A shell that starts has no verdicts, and nothing left to do.
LEMMA StartsAfresh ==
    ASSUME TreeInv, tree' = tree, restaged' = restaged, FreshShell
    PROVE  TreeInv'
<1>1. todo' = <<>> /\ main' = "idle" /\ probe' = NoProbe
  BY DEF FreshShell
<1>2. Sorted'
  BY <1>1, NoProbeVerdicts DEF TreeInv, Sorted, Agendas
<1>3. ASSUME NEW l \in Layers, l \notin restaged' PROVE Tested(l)'
  <2>1. Tested(l)
    BY <1>3 DEF TreeInv
  <2>2. ~Passed(l)'
    BY <1>1, NothingAsked DEF Passed
  <2>3. ~ToLand(l)'
    BY <1>1, Apart DEF ToLand
  <2> QED BY <2>1, <2>2, <2>3 DEF Tested
<1> QED BY <1>2, <1>3 DEF TreeInv

\* A build staged over one that was probed is nobody's verdict: its layer is set
\* apart.
LEMMA StageKeeps ==
    ASSUME TreeInv, NEW l \in Layers, NEW b \in Releases[l], Stage(l, b)
    PROVE  TreeInv'
<1>1. /\ tree' = [tree EXCEPT ![l].pending = b]
      /\ restaged' = IF probe.verdict[l] = "ok" \/ todo # <<>> THEN restaged \union {l} ELSE restaged
      /\ UNCHANGED <<main, todo, probe>>
  BY DEF Stage
<1>2. b \in Builds
  BY BuildsAssumption DEF Layers
<1>3. tree \in [Layers -> Slot]
  BY DEF TreeInv, Sorted
<1>4. tree' \in [Layers -> Slot]
  BY <1>1, <1>2, <1>3 DEF Slot
<1>5. Sorted'
  BY <1>1, <1>4 DEF TreeInv, Sorted
<1>6. ASSUME NEW k \in Layers, k \notin restaged' PROVE Tested(k)'
  <2>1. Tested(k)
    BY <1>1, <1>6 DEF TreeInv
  <2>2. tree'[k].current = tree[k].current /\ tree'[k].prev = tree[k].prev
    BY <1>1, <1>3 DEF Slot
  <2>3. CASE k = l
    <3>1. ~Passed(k)' /\ ~ToLand(k)'
      BY <1>1, <1>6, <2>3, NothingToDo DEF Passed, ToLand
    <3> QED BY <2>1, <2>2, <3>1 DEF Tested
  <2>4. CASE k # l
    <3>1. tree'[k] = tree[k] /\ (Passed(k)' <=> Passed(k)) /\ (ToLand(k)' <=> ToLand(k))
      BY <1>1, <1>3, <2>4 DEF Passed, ToLand
    <3> QED BY <2>1, <3>1 DEF Tested
  <2> QED BY <2>3, <2>4
<1> QED BY <1>5, <1>6 DEF TreeInv

\* A slot that moves back.
LEMMA RollsBack ==
    ASSUME TreeInv, NEW l \in Layers
    PROVE  /\ RolledBack(l) \in [Layers -> Slot]
           /\ \A k \in Layers : RolledBack(l)[k].pending = tree[k].pending
           /\ \A k \in Layers \ restaged : RolledBack(l)[k].current \in Runs /\ RolledBack(l)[k].prev \in Runs
<1>1. tree \in [Layers -> Slot]
  BY DEF TreeInv, Sorted
<1>2. RolledBack(l) \in [Layers -> Slot]
  BY <1>1 DEF RolledBack, Slot
<1>4. \A k \in Layers : RolledBack(l)[k].pending = tree[k].pending
  BY <1>1 DEF RolledBack, Slot
<1>5. \A k \in Layers : IF k = l THEN RolledBack(l)[k].current = tree[k].prev /\ RolledBack(l)[k].prev = None
                        ELSE RolledBack(l)[k] = tree[k]
  BY <1>1 DEF RolledBack, Slot
<1>3. \A k \in Layers \ restaged : tree[k].current \in Runs /\ tree[k].prev \in Runs
  BY DEF TreeInv, Tested
<1> QED BY <1>2, <1>3, <1>4, <1>5 DEF Runs

\* A step that leaves verdicts and the slots pending/ alone.
LEMMA SlotsMove ==
    ASSUME TreeInv, Sorted', restaged' = restaged,
           \A k \in Layers : tree'[k].pending = tree[k].pending,
           \A k \in Layers \ restaged : tree'[k].current \in Runs /\ tree'[k].prev \in Runs,
           \A k \in Layers : Passed(k)' => Passed(k),
           \A k \in Layers : ToLand(k)' => ToLand(k)
    PROVE  TreeInv'
BY DEF TreeInv, Tested

\* A verdict is about what is in pending/, unless that was replaced.
LEMMA ProbeKeeps ==
    ASSUME TreeInv, NEW l \in Layers, NEW next, next \in {"core", "done"}, ProbeRuns(l, next)
    PROVE  TreeInv'
<1>1. PICK answer \in {"ok", "failed"} :
        /\ answer = "ok" => tree[l].pending \in Starts
        /\ probe' = IF probe.verdict[l] = "-" THEN [probe EXCEPT !.at = next]
                    ELSE [probe EXCEPT !.at = next, !.verdict[l] = answer]
  BY DEF ProbeRuns
<1>2. probe.at = l /\ UNCHANGED <<tree, main, todo, restaged>>
  BY DEF ProbeRuns
<1>3. todo = <<>>
  BY <1>2 DEF TreeInv, Sorted, NoProbe, Layers
<1>4. probe.verdict \in [Layers -> Verdicts]
  BY DEF TreeInv, Sorted
<1>5. probe'.verdict = IF probe.verdict[l] = "-" THEN probe.verdict
                       ELSE [probe.verdict EXCEPT ![l] = answer]
  BY <1>1
<1>6. probe'.verdict \in [Layers -> Verdicts]
  BY <1>4, <1>5 DEF Verdicts
<1>7. Sorted'
  BY <1>2, <1>3, <1>6 DEF TreeInv, Sorted
<1>8. ASSUME NEW k \in Layers, k \notin restaged' PROVE Tested(k)'
  <2>1. Tested(k) /\ ~ToLand(k)'
    BY <1>2, <1>3, <1>8, Apart DEF TreeInv, ToLand
  <2>2. Passed(k)' => Passed(k) \/ (k = l /\ answer = "ok")
    BY <1>4, <1>5 DEF Passed
  <2> QED BY <1>1, <1>2, <2>1, <2>2 DEF Tested
<1> QED BY <1>7, <1>8 DEF TreeInv

\* What is staged is probed, or nothing is done.
LEMMA ApplyKeeps == ASSUME TreeInv, ApplyUpdate PROVE TreeInv'
<1> DEFINE v == [l \in Layers |-> IF tree[l].pending # None THEN "asked" ELSE "-"]
<1>1. probe' = [NoProbe EXCEPT !.at = "shell", !.verdict = v] /\ UNCHANGED <<tree, main, todo, restaged>>
  BY DEF ApplyUpdate
<1>2. todo = <<>>
  BY DEF ApplyUpdate, TreeInv, Sorted
<1>3. probe'.verdict = v
  BY <1>1 DEF NoProbe
<1>4. v \in [Layers -> Verdicts] /\ \A l \in Layers : v[l] # "ok"
  BY DEF Verdicts
<1> HIDE DEF v
<1>5. Sorted'
  BY <1>1, <1>2, <1>3, <1>4 DEF TreeInv, Sorted
<1>6. \A l \in Layers : ~Passed(l)'
  BY <1>3, <1>4 DEF Passed
<1>7. \A l \in Layers : ToLand(l)' => ToLand(l)
  BY <1>1 DEF ToLand
<1>8. \A k \in Layers \ restaged : tree'[k].current \in Runs /\ tree'[k].prev \in Runs
  BY <1>1 DEF TreeInv, Tested
<1> QED BY <1>1, <1>5, <1>6, <1>7, <1>8, SlotsMove

\* The verdicts become an agenda.
LEMMA FinishKeeps == ASSUME TreeInv, FinishProbe PROVE TreeInv'
<1>1. /\ tree' = [l \in Layers |-> IF probe.verdict[l] = "failed"
                                   THEN [tree[l] EXCEPT !.pending = None] ELSE tree[l]]
      /\ todo' = Plan /\ main' = (IF todo' = <<>> THEN "idle" ELSE "update")
      /\ probe' = NoProbe /\ restaged' = restaged
  BY DEF FinishProbe
<1>2. tree \in [Layers -> Slot]
  BY DEF TreeInv, Sorted
<1>3. tree' \in [Layers -> Slot]
  BY <1>1, <1>2 DEF Slot
<1>4. Sorted'
  BY <1>1, <1>3, Planned, NoProbeVerdicts DEF Sorted
<1>5. ASSUME NEW k \in Layers, k \notin restaged' PROVE Tested(k)'
  <2>1. Tested(k)
    BY <1>1, <1>5 DEF TreeInv
  <2>2. tree'[k].current = tree[k].current /\ tree'[k].prev = tree[k].prev
    BY <1>1, <1>2 DEF Slot
  <2>3. ~Passed(k)'
    BY <1>1, NothingAsked DEF Passed
  <2>4. ToLand(k)' => Passed(k)
    BY <1>1, Planned DEF ToLand
  <2>5. Passed(k) => tree'[k] = tree[k]
    BY <1>1 DEF Passed
  <2> QED BY <2>1, <2>2, <2>3, <2>4, <2>5 DEF Tested
<1> QED BY <1>4, <1>5 DEF TreeInv

\* A step of an update, its slots apart.
LEMMA Doings ==
    ASSUME TreeInv, NEW w, NEW l \in Layers, Doing(w, l), probe' = probe, tree' \in [Layers -> Slot]
    PROVE  Sorted' /\ \A k \in Layers : ~Passed(k)'
<1>1. todo # <<>> /\ todo' \in Agendas /\ (main' = "update" <=> todo' # <<>>)
  BY Done
<1>2. probe = NoProbe
  BY <1>1 DEF TreeInv, Sorted
<1> QED BY <1>1, <1>2, NothingAsked DEF TreeInv, Sorted, Passed

\* current/ becomes prev/.
LEMMA ParkKeeps == ASSUME TreeInv, NEW l \in Layers, Park(l) PROVE TreeInv'
<1>1. /\ Doing("park", l) /\ probe' = probe /\ restaged' = restaged
      /\ tree' = IF tree[l].current = None THEN tree
                 ELSE [tree EXCEPT ![l].prev = tree[l].current, ![l].current = None]
  BY DEF Park
<1>2. tree \in [Layers -> Slot]
  BY DEF TreeInv, Sorted
<1>3. tree' \in [Layers -> Slot]
  BY <1>1, <1>2 DEF Slot
<1>4. \A k \in Layers : tree'[k].pending = tree[k].pending
  BY <1>1, <1>2 DEF Slot
<1>5. \A k \in Layers : tree'[k] = tree[k] \/ (tree'[k].prev = tree[k].current /\ tree'[k].current = None)
  BY <1>1, <1>2 DEF Slot
<1>6. \A k \in Layers \ restaged : tree[k].current \in Runs /\ tree[k].prev \in Runs
  BY DEF TreeInv, Tested
<1>7. \A k \in Layers \ restaged : tree'[k].current \in Runs /\ tree'[k].prev \in Runs
  BY <1>5, <1>6 DEF Runs
<1>8. Sorted' /\ (\A k \in Layers : ~Passed(k)') /\ \A k \in Layers : ToLand(k)' => ToLand(k)
  BY <1>1, <1>3, Doings, Done
<1> QED BY <1>1, <1>4, <1>7, <1>8, SlotsMove

\* pending/ becomes current/: it is what passed.
LEMMA LandKeeps == ASSUME TreeInv, NEW l \in Layers, Land(l) PROVE TreeInv'
<1>1. /\ Doing("land", l) /\ probe' = probe /\ restaged' = restaged
      /\ tree' = [tree EXCEPT ![l].current = tree[l].pending, ![l].pending = None]
  BY DEF Land
<1>2. tree \in [Layers -> Slot]
  BY DEF TreeInv, Sorted
<1>3. tree' \in [Layers -> Slot]
  BY <1>1, <1>2 DEF Slot
<1>4. Sorted' /\ (\A k \in Layers : ~Passed(k)') /\ \A k \in Layers : ToLand(k)' => ToLand(k)
  BY <1>1, <1>3, Doings, Done
<1>5. ToLand(l) /\ ~ToLand(l)'
  BY <1>1, Done
<1>6. ASSUME NEW k \in Layers, k \notin restaged' PROVE Tested(k)'
  <2>1. Tested(k)
    BY <1>1, <1>6 DEF TreeInv
  <2>2. CASE k = l
    <3>1. tree'[k].current = tree[k].pending /\ tree'[k].prev = tree[k].prev
      BY <1>1, <1>2, <2>2 DEF Slot
    <3> QED BY <1>4, <1>5, <2>1, <2>2, <3>1 DEF Tested, Runs
  <2>3. CASE k # l
    <3>1. tree'[k] = tree[k]
      BY <1>1, <1>2, <2>3
    <3> QED BY <1>4, <2>1, <3>1 DEF Tested
  <2> QED BY <2>2, <2>3
<1> QED BY <1>4, <1>6 DEF TreeInv

\* The new core is started.
LEMMA SwapKeeps == ASSUME TreeInv, Swap PROVE TreeInv'
<1>1. /\ Doing("swap", "core") /\ probe' = probe /\ restaged' = restaged
      /\ tree' = [tree EXCEPT !["core"].prev = None] \/ tree' = RolledBack("core")
  BY DEF Swap
<1>2. tree \in [Layers -> Slot] /\ "core" \in Layers
  BY DEF TreeInv, Sorted, Layers
<1>3. /\ tree' \in [Layers -> Slot]
      /\ \A k \in Layers : tree'[k].pending = tree[k].pending
      /\ \A k \in Layers \ restaged : tree'[k].current \in Runs /\ tree'[k].prev \in Runs
  <2>1. CASE tree' = [tree EXCEPT !["core"].prev = None]
    <3>1. tree' \in [Layers -> Slot]
      BY <1>2, <2>1 DEF Slot
    <3>2. \A k \in Layers : /\ tree'[k].pending = tree[k].pending /\ tree'[k].current = tree[k].current
                           /\ tree'[k].prev \in {None, tree[k].prev}
      BY <1>2, <2>1 DEF Slot
    <3>3. \A k \in Layers \ restaged : tree[k].current \in Runs /\ tree[k].prev \in Runs
      BY DEF TreeInv, Tested
    <3> QED BY <3>1, <3>2, <3>3 DEF Runs
  <2>2. CASE tree' = RolledBack("core")
    BY <1>2, <2>2, RollsBack
  <2> QED BY <1>1, <2>1, <2>2
<1>4. Sorted' /\ (\A k \in Layers : ~Passed(k)') /\ \A k \in Layers : ToLand(k)' => ToLand(k)
  BY <1>1, <1>2, <1>3, Doings, Done
<1> QED BY <1>1, <1>3, <1>4, SlotsMove

\* The new shell is started.
LEMMA ExecKeeps == ASSUME TreeInv, Exec PROVE TreeInv'
<1>1. Doing("exec", "shell") /\ UNCHANGED <<tree, restaged>> /\ (FreshShell \/ probe' = probe)
  BY DEF Exec
<1>2. CASE FreshShell
  BY <1>1, <1>2, StartsAfresh
<1>3. CASE probe' = probe
  <2>1. tree' \in [Layers -> Slot] /\ "shell" \in Layers
    BY <1>1 DEF TreeInv, Sorted, Layers
  <2>2. Sorted' /\ (\A k \in Layers : ~Passed(k)') /\ \A k \in Layers : ToLand(k)' => ToLand(k)
    BY <1>1, <1>3, <2>1, Doings, Done
  <2>3. \A k \in Layers \ restaged : tree'[k].current \in Runs /\ tree'[k].prev \in Runs
    BY <1>1 DEF TreeInv, Tested
  <2> QED BY <1>1, <2>2, <2>3, SlotsMove
<1> QED BY <1>1, <1>2, <1>3

\* What cannot start never comes into current/, where it would be run.
THEOREM NothingDeadIsCurrent == Spec => []DeadNeverCurrent
<1>1. Init => TreeInv
  <2> SUFFICES ASSUME Init PROVE TreeInv
    OBVIOUS
  <2>1. Installed \in Starts /\ Installed \in Builds
    BY BuildsAssumption
  <2>2. tree \in [Layers -> Slot]
    BY <2>1 DEF Init, Slots, Slot
  <2>3. Sorted
    BY <2>2, NoProbeVerdicts DEF Init, Sorted, Agendas
  <2>4. ASSUME NEW l \in Layers PROVE Tested(l)
    <3>1. tree[l].current = Installed /\ tree[l].prev = None
      BY DEF Init, Slots
    <3>2. ~Passed(l) /\ ~ToLand(l)
      BY NothingAsked, NothingToDo DEF Init, Passed
    <3> QED BY <2>1, <3>1, <3>2 DEF Tested, Runs
  <2> QED BY <2>3, <2>4 DEF TreeInv
<1>2. TreeInv /\ [Next]_vars => TreeInv'
  <2> SUFFICES ASSUME TreeInv, [Next]_vars PROVE TreeInv'
    OBVIOUS
  <2>0. main = "update" <=> todo # <<>>
    BY DEF TreeInv, Sorted
  <2>1. CASE Tick
    BY <2>1, Elsewhere DEF Tick
  <2>2. CASE CoreAnswers
    BY <2>2, Elsewhere DEF CoreAnswers
  <2>3. CASE Drain
    BY <2>3, Elsewhere DEF Drain
  <2>4. CASE TryAgain \/ GoneOrMute \/ Judge
    BY <2>4, Elsewhere DEF TryAgain, GoneOrMute, Judge, Judging
  <2>5. CASE Ping \/ Hung \/ NotYet
    BY <2>5, Elsewhere DEF Ping, Hung, NotYet
  <2>6. CASE FinishProbe
    BY <2>6, FinishKeeps
  <2>7. ASSUME NEW l \in Layers, Park(l) \/ Land(l) PROVE TreeInv'
    BY <2>7, ParkKeeps, LandKeeps
  <2>8. CASE Swap \/ Exec
    BY <2>8, SwapKeeps, ExecKeeps
  <2>9. CASE ApplyUpdate
    BY <2>9, ApplyKeeps
  <2>10. CASE ProbeThread
    BY <2>10, ProbeKeeps DEF ProbeThread, Layers
  <2>11. ASSUME NEW life \in {"hung", "gone"}, CoreFails(life) PROVE TreeInv'
    BY <2>11, Elsewhere DEF CoreFails
  <2>12. ASSUME NEW l \in Layers, CmdRollback(l) PROVE TreeInv'
    <3>1. tree' = RolledBack(l) /\ UNCHANGED <<main, todo, probe, restaged>>
      BY <2>12 DEF CmdRollback
    <3>2. Sorted'
      BY <3>1, RollsBack DEF TreeInv, Sorted
    <3>3. /\ \A k \in Layers : Passed(k)' => Passed(k)
          /\ \A k \in Layers : ToLand(k)' => ToLand(k)
      BY <3>1 DEF Passed, ToLand
    <3> QED BY <3>1, <3>2, <3>3, RollsBack, SlotsMove
  <2>13. ASSUME NEW l \in Layers, NEW b \in Releases[l], Stage(l, b) PROVE TreeInv'
    BY <2>13, StageKeeps
  <2>14. CASE ShellDies
    BY <2>14, StartsAfresh DEF ShellDies
  <2>15. CASE UNCHANGED vars
    BY <2>15, Elsewhere DEF vars
  <2> QED BY <2>1, <2>2, <2>3, <2>4, <2>5, <2>6, <2>7, <2>8, <2>9, <2>10, <2>11, <2>12,
             <2>13, <2>14, <2>15 DEF Next, Pass
<1>3. TreeInv => DeadNeverCurrent
  BY DEF TreeInv, Tested, DeadNeverCurrent, Runs
<1> QED BY <1>1, <1>2, <1>3, PTL DEF Spec

-----------------------------------------------------------------------------
(* Respawns are rationed. *)

\* The constants of the crash budget are numbers.
LEMMA Times == /\ CrashWindow \in Nat /\ CrashWindow > 0 /\ MaxCrashes \in Nat /\ Doublings \in Nat
BY TimesAssumption

\* A set of numbers that is not empty has a least.
LEMMA LeastOf == ASSUME NEW S, S \subseteq Nat, S # {} PROVE \E x \in S : \A y \in S : x <= y
<1> DEFINE R == {ss \in Nat \X Nat : ss[1] < ss[2]}
<1>0. IsWellFoundedOn(R, Nat)
  BY NatLessThanWellFounded DEF OpToRel
<1> HIDE DEF R
<1>1. PICK x \in S : \A y \in S : ~(<<y, x>> \in R)
  BY <1>0, WFMin
<1>2. \A y \in S : ~ (y < x)
  BY <1>1 DEF R
<1> QED BY <1>2

\* Min returns it.
LEMMA MinIn == ASSUME NEW S, S \subseteq Nat, S # {} PROVE Min(S) \in S /\ \A y \in S : Min(S) <= y
BY LeastOf DEF Min

\* An age is a number.
LEMMA ButNat == ASSUME NEW s \in Seq(Nat) PROVE Len(s) \in Nat /\ \A k \in 0 .. Len(s) - 1 : But(s, k) \in Nat
<1>1. Len(s) \in Nat
  BY LenProperties
<1>2. \A k \in 0 .. Len(s) - 1 : Len(s) - k \in 1 .. Len(s)
  BY <1>1
<1> QED BY <1>1, <1>2, ElementOfSeq DEF But

\* What happens now moves every earlier one back by a place.
LEMMA ButAppended ==
    ASSUME NEW s \in Seq(Nat), NEW x \in Nat
    PROVE  /\ Append(s, x) \in Seq(Nat) /\ Len(Append(s, x)) = Len(s) + 1 /\ But(Append(s, x), 0) = x
           /\ \A k \in 1 .. Len(s) : But(Append(s, x), k) = But(s, k - 1)
<1>1. Len(s) \in Nat
  BY LenProperties
<1>2. /\ Append(s, x) \in Seq(Nat) /\ Len(Append(s, x)) = Len(s) + 1 /\ Append(s, x)[Len(s) + 1] = x
      /\ \A i \in 1 .. Len(s) : Append(s, x)[i] = s[i]
  BY AppendProperties
<1>3. But(Append(s, x), 0) = x
  BY <1>1, <1>2 DEF But
<1>4. ASSUME NEW k \in 1 .. Len(s) PROVE But(Append(s, x), k) = But(s, k - 1)
  <2>1. Len(s) - (k - 1) \in 1 .. Len(s) /\ Len(s) - (k - 1) = Len(s) + 1 - k
    BY <1>1
  <2> QED BY <1>2, <2>1 DEF But
<1> QED BY <1>2, <1>3, <1>4

\* What leaves at the front is too old, and the rest stays as it is.
LEMMA FrontLeaves ==
    ASSUME NEW s \in Seq(Nat), NEW most \in Int, NEW q, q = Recent(s, most)
    PROVE  /\ q \in Seq(Nat) /\ Len(q) <= Len(s)
           /\ \A k \in 0 .. Len(q) - 1 : But(q, k) = But(s, k)
           /\ \A k \in Len(q) .. Len(s) - 1 : But(s, k) > most
           /\ Len(q) > 0 => But(q, Len(q) - 1) <= most
<1> DEFINE young == {i \in DOMAIN s : s[i] <= most}
<1>0. Len(s) \in Nat /\ DOMAIN s = 1 .. Len(s) /\ \A i \in 1 .. Len(s) : s[i] \in Nat
  BY LenProperties, ElementOfSeq
<1>i. \A k \in 0 .. Len(s) - 1 : Len(s) - k \in 1 .. Len(s)
  BY <1>0
<1>1. CASE young = {}
  <2>1. q = <<>>
    BY <1>1 DEF Recent
  <2>2. q \in Seq(Nat) /\ Len(q) = 0
    BY <2>1, EmptySeq
  <2>3. \A i \in 1 .. Len(s) : s[i] > most
    BY <1>0, <1>1
  <2>4. \A k \in 0 .. Len(s) - 1 : But(s, k) > most
    BY <1>i, <2>3 DEF But
  <2> QED BY <1>0, <2>2, <2>4
<1>2. CASE young # {}
  <2>1. young \subseteq Nat
    BY <1>0
  <2> DEFINE m == Min(young)
  <2>2. m \in young /\ \A y \in young : m <= y
    <3> HIDE DEF young
    <3> QED BY <1>2, <2>1, MinIn
  <2>3. q = SubSeq(s, m, Len(s))
    BY <1>2 DEF Recent
  <2> HIDE DEF m
  <2>4. m \in 1 .. Len(s) /\ s[m] <= most
    BY <1>0, <2>2
  <2>5. SubSeq(s, m, Len(s)) \in Seq(Nat)
    BY <1>0, <2>4, SubSeqProperties
  <2>6. /\ Len(SubSeq(s, m, Len(s))) = (IF m <= Len(s) THEN Len(s) - m + 1 ELSE 0)
        /\ \A i \in 1 .. Len(s) - m + 1 : SubSeq(s, m, Len(s))[i] = s[m + i - 1]
    BY <1>0, <2>4, SubSeqProperties
  <2>7. q \in Seq(Nat) /\ Len(q) = Len(s) - m + 1 /\ Len(q) \in 1 .. Len(s)
    BY <1>0, <2>3, <2>4, <2>5, <2>6
  <2>8. ASSUME NEW k \in 0 .. Len(q) - 1 PROVE But(q, k) = But(s, k)
    <3>0. Len(q) - k \in 1 .. Len(s) - m + 1
      BY <1>0, <2>4, <2>7
    <3>1. PICK i \in 1 .. Len(s) - m + 1 : i = Len(q) - k
      BY <3>0
    <3>2. m + i - 1 = Len(s) - k
      BY <1>0, <2>4, <2>7, <3>1
    <3> QED BY <2>3, <2>6, <3>1, <3>2 DEF But
  <2>9. ASSUME NEW k \in Len(q) .. Len(s) - 1 PROVE But(s, k) > most
    <3>0. Len(s) - k \in 1 .. Len(s) /\ Len(s) - k < m
      BY <1>0, <2>4, <2>7
    <3>1. PICK i \in 1 .. Len(s) : i = Len(s) - k /\ i < m
      BY <3>0
    <3>2. i \notin young
      <4> HIDE DEF young
      <4> QED BY <2>2, <2>4, <3>1
    <3> QED BY <1>0, <3>1, <3>2 DEF But
  <2>10. But(q, Len(q) - 1) <= most
    <3>1. Len(q) - 1 \in 0 .. Len(q) - 1 /\ Len(s) - (Len(q) - 1) = m
      BY <1>0, <2>4, <2>7
    <3> QED BY <2>4, <2>8, <3>1 DEF But
  <2> QED BY <1>0, <2>7, <2>8, <2>9, <2>10
<1> QED BY <1>1, <1>2

\* A crash that is noted lets one respawn more.
LEMMA CrashCharged ==
    ASSUME NEW c \in Seq(Nat), NEW r \in Seq(Nat), Ordered(r), Charged(c, r),
           NEW n, n = Append(Recent(c, CrashWindow), 0)
    PROVE  n \in Seq(Nat) /\ Len(n) >= Len(r) /\ Charged(n, r) /\ Charged(n, Append(r, 0))
<1>0. PICK q : q = Recent(c, CrashWindow)
  OBVIOUS
<1>1. /\ q \in Seq(Nat) /\ Len(q) <= Len(c) /\ \A k \in 0 .. Len(q) - 1 : But(q, k) = But(c, k)
      /\ \A k \in Len(q) .. Len(c) - 1 : But(c, k) > CrashWindow
  BY <1>0, FrontLeaves, Times
<1>2. n = Append(q, 0)
  BY <1>0
<1>3. Len(c) \in Nat /\ Len(r) \in Nat /\ Len(q) \in Nat
  BY <1>1, ButNat
<1>4. /\ n \in Seq(Nat) /\ Len(n) = Len(q) + 1 /\ But(n, 0) = 0
      /\ \A k \in 1 .. Len(q) : But(n, k) = But(q, k - 1)
  <2>1. /\ Append(q, 0) \in Seq(Nat) /\ Len(Append(q, 0)) = Len(q) + 1 /\ But(Append(q, 0), 0) = 0
        /\ \A k \in 1 .. Len(q) : But(Append(q, 0), k) = But(q, k - 1)
    BY <1>1, ButAppended
  <2> QED BY <1>2, <2>1
<1>5. ASSUME NEW k \in 0 .. Len(r) - 2 PROVE k < Len(q) /\ But(q, k) <= But(r, k)
  <2>1. But(c, k) <= But(r, k) /\ k \in 0 .. Len(c) - 1
    BY <1>3 DEF Charged
  <2>2. But(r, k) < CrashWindow /\ But(r, k) \in Nat /\ But(c, k) \in Nat
    BY <1>3, <2>1, ButNat DEF Ordered
  <2>3. k < Len(q)
    <3>1. SUFFICES ASSUME ~(k < Len(q)) PROVE FALSE
      OBVIOUS
    <3>2. k \in Len(q) .. Len(c) - 1
      BY <1>3, <2>1, <3>1
    <3>3. But(c, k) > CrashWindow
      BY <1>1, <3>2
    <3> QED BY <2>1, <2>2, <3>3, Times
  <2>4. But(q, k) = But(c, k)
    BY <1>1, <1>3, <2>3
  <2> QED BY <2>1, <2>3, <2>4
<1>6. Len(n) >= Len(r)
  <2>1. CASE Len(r) < 2
    BY <1>3, <1>4, <2>1
  <2>2. CASE Len(r) >= 2
    <3>1. Len(r) - 2 \in 0 .. Len(r) - 2
      BY <1>3, <2>2
    <3>2. Len(r) - 2 < Len(q)
      BY <1>5, <3>1
    <3> QED BY <1>3, <1>4, <3>2
  <2> QED BY <1>3, <2>1, <2>2
<1>7. Charged(n, r)
  <2>1. ASSUME NEW k \in 0 .. Len(r) - 2 PROVE But(n, k) <= But(r, k)
    <3>0. k \in 0 .. Len(r) - 1 /\ But(r, k) \in Nat
      BY <1>3, ButNat
    <3>1. CASE k = 0
      BY <1>4, <3>0, <3>1
    <3>2. CASE k > 0
      <4>1. k - 1 \in 0 .. Len(r) - 2 /\ k - 1 \in 0 .. Len(r) - 1
        BY <1>3, <3>2
      <4>2. k - 1 < Len(q) /\ But(q, k - 1) <= But(r, k - 1)
        BY <1>5, <4>1
      <4>3. But(n, k) = But(q, k - 1) /\ k - 1 \in 0 .. Len(q) - 1
        BY <1>3, <1>4, <3>2, <4>2
      <4>4. But(r, k - 1) <= But(r, k) /\ But(r, k - 1) \in Nat
        BY <3>0, <4>1, ButNat DEF Ordered
      <4>5. But(q, k - 1) \in Nat
        BY <1>1, <4>3, ButNat
      <4> QED BY <3>0, <4>2, <4>3, <4>4, <4>5
    <3> QED BY <3>1, <3>2
  <2> QED BY <1>3, <1>4, <1>6, <2>1 DEF Charged
<1>8. Charged(n, Append(r, 0))
  <2>0. /\ Len(Append(r, 0)) = Len(r) + 1 /\ But(Append(r, 0), 0) = 0
        /\ \A k \in 1 .. Len(r) : But(Append(r, 0), k) = But(r, k - 1)
    BY ButAppended
  <2>1. ASSUME NEW k \in 0 .. Len(r) - 1 PROVE But(n, k) <= But(Append(r, 0), k)
    <3>1. CASE k = 0
      BY <1>4, <2>0, <3>1
    <3>2. CASE k > 0
      <4>1. k - 1 \in 0 .. Len(r) - 2 /\ k \in 1 .. Len(r)
        BY <1>3, <3>2
      <4>2. k - 1 < Len(q) /\ But(q, k - 1) <= But(r, k - 1)
        BY <1>5, <4>1
      <4>3. But(n, k) = But(q, k - 1)
        BY <1>3, <1>4, <3>2, <4>2
      <4> QED BY <2>0, <4>1, <4>2, <4>3
    <3> QED BY <3>1, <3>2
  <2>2. 0 .. Len(Append(r, 0)) - 2 = 0 .. Len(r) - 1 /\ Len(Append(r, 0)) <= Len(n) + 1
    BY <1>3, <1>4, <1>6, <2>0
  <2> QED BY <2>1, <2>2 DEF Charged
<1> QED BY <1>4, <1>6, <1>7, <1>8

\* A tick makes every age one more.
LEMMA GrownOlder ==
    ASSUME NEW s \in Seq(Nat), NEW t, t = [i \in DOMAIN s |-> s[i] + 1]
    PROVE  t \in Seq(Nat) /\ Len(t) = Len(s) /\ \A k \in 0 .. Len(s) - 1 : But(t, k) = But(s, k) + 1
<1>1. Len(s) \in Nat /\ DOMAIN s = 1 .. Len(s) /\ \A i \in 1 .. Len(s) : s[i] \in Nat
  BY LenProperties, ElementOfSeq
<1>2. t = [i \in 1 .. Len(s) |-> s[i] + 1]
  BY <1>1
<1>3. t \in Seq(Nat) /\ Len(t) = Len(s)
  BY <1>1, <1>2
<1>4. \A k \in 0 .. Len(s) - 1 : Len(s) - k \in 1 .. Len(s)
  BY <1>1
<1> QED BY <1>2, <1>3, <1>4 DEF But

\* And forgets those that leave the window.
LEMMA GrownOlderAtMost ==
    ASSUME NEW s \in Seq(Nat), NEW m \in Nat, NEW t, t = [i \in DOMAIN s |-> Upto(s[i], m)]
    PROVE  t \in Seq(Nat) /\ Len(t) = Len(s) /\ \A k \in 0 .. Len(s) - 1 : But(t, k) <= But(s, k) + 1
<1>1. Len(s) \in Nat /\ DOMAIN s = 1 .. Len(s) /\ \A i \in 1 .. Len(s) : s[i] \in Nat
  BY LenProperties, ElementOfSeq
<1>2. t = [i \in 1 .. Len(s) |-> Upto(s[i], m)]
  BY <1>1
<1>3. \A a \in Nat : Upto(a, m) \in Nat /\ Upto(a, m) <= a + 1
  BY DEF Upto
<1>4. t \in Seq(Nat) /\ Len(t) = Len(s)
  <2>1. \A i \in 1 .. Len(s) : Upto(s[i], m) \in Nat
    BY <1>1, <1>3
  <2>2. t \in [1 .. Len(s) -> Nat]
    BY <1>2, <2>1
  <2>3. DOMAIN t = 1 .. Len(s)
    BY <1>2
  <2>4. t \in Seq(Nat)
    BY <1>1, <2>2, SeqDef
  <2> QED BY <1>1, <2>3, <2>4, LenProperties
<1>5. \A k \in 0 .. Len(s) - 1 : Len(s) - k \in 1 .. Len(s)
  BY <1>1
<1>6. \A i \in 1 .. Len(s) : t[i] <= s[i] + 1
  BY <1>1, <1>2, <1>3
<1> QED BY <1>4, <1>5, <1>6 DEF But

\* Time passes for respawns and crashes alike.
LEMMA TickCharged ==
    ASSUME NEW c \in Seq(Nat), NEW r \in Seq(Nat), Ordered(r), Charged(c, r),
           NEW d, d = [i \in DOMAIN c |-> Upto(c[i], CrashWindow + 1)], NEW q, q = Aged(r, CrashWindow)
    PROVE  /\ d \in Seq(Nat) /\ q \in Seq(Nat) /\ Len(q) <= Len(r) /\ Ordered(q) /\ Charged(d, q)
           /\ \A k \in 0 .. Len(q) - 1 : But(q, k) = But(r, k) + 1
<1>0. PICK t : t = [i \in DOMAIN r |-> r[i] + 1]
  OBVIOUS
<1>1. t \in Seq(Nat) /\ Len(t) = Len(r) /\ \A k \in 0 .. Len(r) - 1 : But(t, k) = But(r, k) + 1
  BY <1>0, GrownOlder
<1>2. d \in Seq(Nat) /\ Len(d) = Len(c) /\ \A k \in 0 .. Len(c) - 1 : But(d, k) <= But(c, k) + 1
  <2>1. PICK m \in Nat : m = CrashWindow + 1
    BY Times
  <2>2. d = [i \in DOMAIN c |-> Upto(c[i], m)]
    BY <2>1
  <2> QED BY <2>2, GrownOlderAtMost
<1>3. q = Recent(t, CrashWindow - 1) /\ CrashWindow - 1 \in Int
  BY <1>0, Times DEF Aged
<1>4. /\ q \in Seq(Nat) /\ Len(q) <= Len(t) /\ \A k \in 0 .. Len(q) - 1 : But(q, k) = But(t, k)
      /\ Len(q) > 0 => But(q, Len(q) - 1) <= CrashWindow - 1
  BY <1>1, <1>3, FrontLeaves
<1>5. Len(c) \in Nat /\ Len(r) \in Nat /\ Len(q) \in Nat /\ Len(q) <= Len(r)
  BY <1>1, <1>4, ButNat
<1>6. ASSUME NEW k \in 0 .. Len(q) - 1 PROVE k \in 0 .. Len(r) - 1 /\ But(q, k) = But(r, k) + 1 /\ But(r, k) \in Nat
  <2>1. k \in 0 .. Len(r) - 1
    BY <1>5
  <2> QED BY <1>1, <1>4, <2>1, ButNat
<1>7. \A k, l \in 0 .. Len(q) - 1 : k <= l => But(q, k) <= But(q, l)
  <2> SUFFICES ASSUME NEW k \in 0 .. Len(q) - 1, NEW l \in 0 .. Len(q) - 1, k <= l PROVE But(q, k) <= But(q, l)
    OBVIOUS
  <2>1. But(r, k) <= But(r, l)
    BY <1>6 DEF Ordered
  <2> QED BY <1>6, <2>1
<1>8. \A k \in 0 .. Len(q) - 1 : But(q, k) < CrashWindow
  <2> SUFFICES ASSUME NEW k \in 0 .. Len(q) - 1 PROVE But(q, k) < CrashWindow
    OBVIOUS
  <2>1. Len(q) - 1 \in 0 .. Len(q) - 1 /\ k <= Len(q) - 1 /\ Len(q) > 0
    BY <1>5
  <2>2. But(q, k) <= But(q, Len(q) - 1)
    BY <1>7, <2>1
  <2>3. But(q, k) \in Nat /\ But(q, Len(q) - 1) \in Nat
    BY <1>4, <2>1, ButNat
  <2> QED BY <1>4, <2>1, <2>2, <2>3, Times
<1>9. Charged(d, q)
  <2>1. Len(q) <= Len(d) + 1
    BY <1>2, <1>5 DEF Charged
  <2>2. ASSUME NEW k \in 0 .. Len(q) - 2 PROVE But(d, k) <= But(q, k)
    <3>1. k \in 0 .. Len(q) - 1 /\ k \in 0 .. Len(r) - 2 /\ k \in 0 .. Len(c) - 1
      BY <1>5 DEF Charged
    <3>2. But(c, k) <= But(r, k) /\ But(d, k) <= But(c, k) + 1 /\ But(q, k) = But(r, k) + 1
      BY <1>2, <1>6, <3>1 DEF Charged
    <3>3. But(c, k) \in Nat /\ But(r, k) \in Nat /\ But(d, k) \in Nat
      BY <1>2, <1>6, <3>1, ButNat
    <3> QED BY <3>2, <3>3
  <2> QED BY <2>1, <2>2 DEF Charged
<1> QED BY <1>2, <1>4, <1>5, <1>6, <1>7, <1>8, <1>9 DEF Ordered

\* A pause that has been sat out is a window long.
LEMMA Cooled == ASSUME trips \in Nat PROVE Cooldown \in Nat /\ Cooldown >= CrashWindow
<1> DEFINE n == IF trips < 1 THEN 0 ELSE IF trips > Doublings THEN Doublings ELSE trips - 1
<1>1. n \in 0 .. Doublings
  BY Times
<1>2. 2 ^ n \in Nat \ {0}
  BY <1>1, TimesAssumption
<1>3. Cooldown = CrashWindow * 2 ^ n
  BY DEF Cooldown
<1>4. \A a \in Nat, b \in Nat \ {0} : a * b \in Nat /\ a * b >= a
  OBVIOUS
<1> HIDE DEF n
<1> QED BY <1>2, <1>3, <1>4, Times

\* A step that leaves the budget alone keeps the invariant.
LEMMA BudgetAlone == ASSUME BudgetInv, UNCHANGED budget PROVE BudgetInv'
BY DEF BudgetInv, HeldBack, RestartRate, budget

\* Without a respawn nothing is owed.
LEMMA NothingYet == Ordered(<<>>) /\ Charged(<<>>, <<>>) /\ Len(<<>>) = 0
BY DEF Ordered, Charged

\* A shell that starts has an empty budget.
LEMMA BudgetAfresh ==
    ASSUME crashes' = <<>>, restarts' = <<>>, pauseAge' = 0, trips' = 0 PROVE BudgetInv'
<1>1. <<>> \in Seq(Nat) /\ Len(<<>>) = 0
  BY EmptySeq
<1>2. HeldBack'
  BY <1>1 DEF HeldBack
<1>3. RestartRate'
  BY <1>1, Times DEF RestartRate
<1> QED BY <1>1, <1>2, <1>3, NothingYet DEF BudgetInv

\* Time passes.
LEMMA TickBudget == ASSUME BudgetInv, Tick PROVE BudgetInv'
<1>1. /\ crashes' = [i \in DOMAIN crashes |-> Upto(crashes[i], CrashWindow + 1)]
      /\ restarts' = Aged(restarts, CrashWindow)
      /\ pauseAge' = IF paused THEN Upto(pauseAge, LongestCooldown) ELSE pauseAge
      /\ UNCHANGED <<paused, trips>>
  BY DEF Tick
<1>2. /\ crashes \in Seq(Nat) /\ restarts \in Seq(Nat) /\ pauseAge \in Nat /\ trips \in Nat
      /\ Ordered(restarts) /\ Charged(crashes, restarts)
  BY DEF BudgetInv
<1>3. /\ crashes' \in Seq(Nat) /\ restarts' \in Seq(Nat) /\ Len(restarts') <= Len(restarts)
      /\ Ordered(restarts') /\ Charged(crashes', restarts')
      /\ \A k \in 0 .. Len(restarts') - 1 : But(restarts', k) = But(restarts, k) + 1
  BY <1>1, <1>2, TickCharged
<1>4. pauseAge' \in Nat /\ pauseAge' <= pauseAge + 1
  BY <1>1, <1>2 DEF Upto
<1>5. Len(restarts) \in Nat /\ Len(restarts') \in Nat
  BY <1>2, <1>3, ButNat
<1>6. HeldBack'
  <2> SUFFICES ASSUME paused, NEW k \in 0 .. Len(restarts') - 1 PROVE pauseAge' <= But(restarts', k)
    BY <1>1 DEF HeldBack
  <2>1. k \in 0 .. Len(restarts) - 1
    BY <1>3, <1>5
  <2>2. pauseAge <= But(restarts, k) /\ But(restarts, k) \in Nat
    BY <1>2, <2>1, ButNat DEF BudgetInv, HeldBack
  <2>3. But(restarts', k) = But(restarts, k) + 1
    BY <1>3
  <2> QED BY <1>2, <1>4, <2>2, <2>3
<1>7. RestartRate'
  BY <1>3, <1>5, Times DEF BudgetInv, RestartRate
<1> QED BY <1>1, <1>2, <1>3, <1>4, <1>6, <1>7 DEF BudgetInv

\* A respawn now is the newest.
LEMMA OrderedAppended ==
    ASSUME NEW r \in Seq(Nat), Ordered(r)
    PROVE  Append(r, 0) \in Seq(Nat) /\ Len(Append(r, 0)) = Len(r) + 1 /\ Ordered(Append(r, 0))
<1>0. PICK q : q = Append(r, 0)
  OBVIOUS
<1>1. /\ q \in Seq(Nat) /\ Len(q) = Len(r) + 1 /\ But(q, 0) = 0
      /\ \A k \in 1 .. Len(r) : But(q, k) = But(r, k - 1)
  <2>1. 0 \in Nat
    OBVIOUS
  <2> QED BY <1>0, <2>1, ButAppended
<1>2. Len(r) \in Nat
  BY ButNat
<1>3. ASSUME NEW k \in 0 .. Len(q) - 1, k > 0
      PROVE  k - 1 \in 0 .. Len(r) - 1 /\ But(q, k) = But(r, k - 1) /\ But(r, k - 1) \in Nat
  <2>1. k \in 1 .. Len(r) /\ k - 1 \in 0 .. Len(r) - 1
    BY <1>1, <1>2, <1>3
  <2> QED BY <1>1, <2>1, ButNat
<1>4. \A k \in 0 .. Len(q) - 1 : But(q, k) < CrashWindow /\ But(q, k) \in Nat
  <2> SUFFICES ASSUME NEW k \in 0 .. Len(q) - 1 PROVE But(q, k) < CrashWindow /\ But(q, k) \in Nat
    OBVIOUS
  <2>1. CASE k = 0
    BY <1>1, <2>1, Times
  <2>2. CASE k > 0
    BY <1>3, <2>2 DEF Ordered
  <2> QED BY <2>1, <2>2
<1>5. \A k, l \in 0 .. Len(q) - 1 : k <= l => But(q, k) <= But(q, l)
  <2> SUFFICES ASSUME NEW k \in 0 .. Len(q) - 1, NEW l \in 0 .. Len(q) - 1, k <= l PROVE But(q, k) <= But(q, l)
    OBVIOUS
  <2>1. CASE k = 0
    BY <1>1, <1>4, <2>1
  <2>2. CASE k > 0
    <3>1. l > 0 /\ k - 1 <= l - 1
      BY <2>2
    <3>2. But(r, k - 1) <= But(r, l - 1)
      BY <1>3, <2>2, <3>1 DEF Ordered
    <3> QED BY <1>3, <2>2, <3>1, <3>2
  <2> QED BY <2>1, <2>2
<1> QED BY <1>0, <1>1, <1>4, <1>5 DEF Ordered

\* A crash that is within the budget is followed by a respawn.
LEMMA CrashBudget == ASSUME BudgetInv, RecordCrash, RestartCore PROVE BudgetInv'
<1>1. /\ crashes' = Append(Recent(crashes, CrashWindow), 0)
      /\ paused' = (paused \/ Len(crashes') > MaxCrashes)
      /\ pauseAge' = (IF Len(crashes') > MaxCrashes THEN 0 ELSE pauseAge)
      /\ trips' = IF Len(crashes') > MaxCrashes THEN Upto(trips, Doublings + 1) ELSE trips
  BY DEF RecordCrash, Noted
<1>2. /\ crashes \in Seq(Nat) /\ restarts \in Seq(Nat) /\ pauseAge \in Nat /\ trips \in Nat
      /\ Ordered(restarts) /\ Charged(crashes, restarts) /\ HeldBack /\ RestartRate
  BY DEF BudgetInv
<1>3. /\ crashes' \in Seq(Nat) /\ Len(crashes') >= Len(restarts)
      /\ Charged(crashes', restarts) /\ Charged(crashes', Append(restarts, 0))
  BY <1>1, <1>2, CrashCharged
<1>4. pauseAge' \in Nat /\ trips' \in Nat
  BY <1>1, <1>2 DEF Upto
<1>5. Len(restarts) \in Nat /\ Len(crashes') \in Nat
  BY <1>2, <1>3, ButNat
<1>6. CASE restarts' = restarts
  <2>1. HeldBack'
    <3> SUFFICES ASSUME paused', NEW k \in 0 .. Len(restarts) - 1 PROVE pauseAge' <= But(restarts, k)
      BY <1>6 DEF HeldBack
    <3>1. But(restarts, k) \in Nat
      BY <1>2, ButNat
    <3>2. CASE Len(crashes') > MaxCrashes
      BY <1>1, <3>1, <3>2
    <3>3. CASE ~(Len(crashes') > MaxCrashes)
      BY <1>1, <1>2, <3>3 DEF HeldBack
    <3> QED BY <3>2, <3>3
  <2> QED BY <1>2, <1>3, <1>4, <1>6, <2>1 DEF BudgetInv, RestartRate
<1>7. CASE ~paused' /\ restarts' = Append(restarts, 0)
  <2>1. restarts' \in Seq(Nat) /\ Len(restarts') = Len(restarts) + 1 /\ Ordered(restarts')
    BY <1>2, <1>7, OrderedAppended
  <2>2. ~(Len(crashes') > MaxCrashes)
    BY <1>1, <1>7
  <2>3. RestartRate'
    BY <1>3, <1>5, <2>1, <2>2, Times DEF RestartRate
  <2>4. HeldBack'
    BY <1>7 DEF HeldBack
  <2> QED BY <1>3, <1>4, <1>7, <2>1, <2>3, <2>4 DEF BudgetInv
<1> QED BY <1>6, <1>7 DEF RestartCore

\* The first respawn after a pause finds none in the window.
LEMMA TryBudget == ASSUME BudgetInv, TryAgain PROVE BudgetInv'
<1>1. /\ CooledDown /\ paused' = FALSE /\ pauseAge' = 0 /\ crashes' = <<>> /\ trips' = trips
      /\ restarts' = restarts \/ restarts' = Append(restarts, 0)
  BY DEF TryAgain, RestartCore
<1>2. /\ restarts \in Seq(Nat) /\ pauseAge \in Nat /\ trips \in Nat /\ Ordered(restarts) /\ HeldBack
  BY DEF BudgetInv
<1>3. paused /\ pauseAge >= CrashWindow
  BY <1>1, <1>2, Cooled, Times DEF CooledDown
<1>4. Len(restarts) = 0
  <2> SUFFICES ASSUME Len(restarts) # 0 PROVE FALSE
    OBVIOUS
  <2>1. 0 \in 0 .. Len(restarts) - 1
    BY <1>2, ButNat
  <2>2. pauseAge <= But(restarts, 0) /\ But(restarts, 0) < CrashWindow /\ But(restarts, 0) \in Nat
    BY <1>2, <1>3, <2>1, ButNat DEF HeldBack, Ordered
  <2> QED BY <1>2, <1>3, <2>2, Times
<1>5. crashes' \in Seq(Nat) /\ Len(crashes') = 0
  BY <1>1, EmptySeq
<1>6. restarts' \in Seq(Nat) /\ Ordered(restarts') /\ Len(restarts') \in 0 .. 1
  <2>1. CASE restarts' = restarts
    BY <1>2, <1>4, <2>1
  <2>2. CASE restarts' = Append(restarts, 0)
    <3>1. /\ Append(restarts, 0) \in Seq(Nat) /\ Ordered(Append(restarts, 0))
          /\ Len(Append(restarts, 0)) = Len(restarts) + 1
      BY <1>2, OrderedAppended
    <3>2. Len(restarts) + 1 \in 0 .. 1
      BY <1>4
    <3> QED BY <2>2, <3>1, <3>2
  <2> QED BY <1>1, <2>1, <2>2
<1>7. Charged(crashes', restarts')
  <2>0. Len(restarts') = 0 \/ Len(restarts') = 1
    BY <1>6
  <2>a. \A n \in {0, 1} : 0 .. n - 2 = {}
    OBVIOUS
  <2>1. 0 .. Len(restarts') - 2 = {}
    BY <2>0, <2>a
  <2>2. Len(restarts') <= Len(crashes') + 1
    BY <1>5, <2>0
  <2> QED BY <2>1, <2>2 DEF Charged
<1>8. RestartRate' /\ HeldBack'
  <2>1. Len(restarts') = 0 \/ Len(restarts') = 1
    BY <1>6
  <2>2. RestartRate'
    BY <2>1, Times DEF RestartRate
  <2> QED BY <1>1, <2>2 DEF HeldBack
<1> QED BY <1>1, <1>2, <1>5, <1>6, <1>7, <1>8 DEF BudgetInv

\* However it fails, the watchdog respawns the core no more often in a window
\* than the budget allows, and once when a pause ends.
THEOREM RespawnsAreRationed == Spec => []RestartRate
<1>1. Init => BudgetInv
  <2> SUFFICES ASSUME Init PROVE BudgetInv
    OBVIOUS
  <2>1. crashes = <<>> /\ restarts = <<>> /\ pauseAge = 0 /\ trips = 0 /\ paused = FALSE
    BY DEF Init
  <2>2. <<>> \in Seq(Nat) /\ Len(<<>>) = 0
    BY EmptySeq
  <2>3. HeldBack /\ RestartRate
    BY <2>1, <2>2, Times DEF HeldBack, RestartRate
  <2> QED BY <2>1, <2>2, <2>3, NothingYet DEF BudgetInv
<1>2. BudgetInv /\ [Next]_vars => BudgetInv'
  <2> SUFFICES ASSUME BudgetInv, [Next]_vars PROVE BudgetInv'
    OBVIOUS
  <2>1. CASE Tick
    BY <2>1, TickBudget
  <2>2. CASE CoreAnswers \/ Drain \/ Judge
    BY <2>2, BudgetAlone DEF CoreAnswers, Drain, Judge
  <2>3. CASE TryAgain
    BY <2>3, TryBudget
  <2>4. CASE GoneOrMute \/ Hung
    BY <2>4, CrashBudget DEF GoneOrMute, Hung
  <2>5. CASE Ping \/ NotYet \/ FinishProbe
    BY <2>5, BudgetAlone DEF Ping, NotYet, FinishProbe
  <2>6. ASSUME NEW l \in Layers, Park(l) \/ Land(l) PROVE BudgetInv'
    BY <2>6, BudgetAlone DEF Park, Land
  <2>7. CASE Swap
    BY <2>7, BudgetAlone DEF Swap
  <2>8. CASE Exec
    BY <2>8, BudgetAlone, BudgetAfresh DEF Exec, FreshShell
  <2>9. CASE ApplyUpdate \/ ProbeThread
    BY <2>9, BudgetAlone DEF ApplyUpdate, ProbeThread, ProbeRuns
  <2>10. ASSUME NEW life \in {"hung", "gone"}, CoreFails(life) PROVE BudgetInv'
    BY <2>10, BudgetAlone DEF CoreFails
  <2>11. ASSUME NEW l \in Layers, CmdRollback(l) PROVE BudgetInv'
    BY <2>11, BudgetAlone DEF CmdRollback
  <2>12. ASSUME NEW l \in Layers, NEW b \in Releases[l], Stage(l, b) PROVE BudgetInv'
    BY <2>12, BudgetAlone DEF Stage
  <2>13. CASE ShellDies
    BY <2>13, BudgetAfresh DEF ShellDies, FreshShell
  <2>14. CASE UNCHANGED vars
    BY <2>14, BudgetAlone DEF vars
  <2> QED BY <2>1, <2>2, <2>3, <2>4, <2>5, <2>6, <2>7, <2>8, <2>9, <2>10, <2>11, <2>12,
             <2>13, <2>14 DEF Next, Pass
<1>3. BudgetInv => RestartRate
  BY DEF BudgetInv
<1> QED BY <1>1, <1>2, <1>3, PTL DEF Spec
-----------------------------------------------------------------------------
(* What counts as a crash. *)

\* A core that runs answers a ping before the next one is due, and says hello in
\* time; the deadline leaves room for a ping, a stall and an answer.
Timely == /\ Latency \in 0 .. PingInterval - 1 /\ BootTime \in 0 .. HelloTimeout
          /\ PingInterval - 1 + StallGap + Latency <= PongDeadline

Lives == {"none", "up", "hung", "gone", "killed"}
Request(n, a) == [n |-> n, age |-> a]

\* Its silence, when it owes no answer, is as long as the shell has not asked, or
\* `most` longer than that once it ought to.
Rested(most) == IF pingAge < PingInterval THEN age <= pingAge ELSE age <= PingInterval - 1 + most

\* A core that runs: it owes the hello, has said it, owes a pong, has sent it, or
\* owes nothing.  A second ping never waits behind a first.
Greeting == ~acked /\ inbox = <<>> /\ \E a \in 0 .. BootTime : asked = <<Request(Hello, a)>> /\ age <= a
Greeted  == ~acked /\ asked = <<>> /\ inbox = <<Hello>>
Pinged   == /\ acked /\ inbox = <<>>
            /\ \E a \in 0 .. Latency : /\ asked = <<Request(nonce, a)>> /\ pingAge <= a
                                       /\ age <= PingInterval - 1 + StallGap + a
Ponged   == acked /\ asked = <<>> /\ inbox = <<nonce>>
Resting  == acked /\ asked = <<>> /\ inbox = <<>> /\ Rested(IF main = "ping" THEN StallGap ELSE gap)
Answers  == Greeting \/ Greeted \/ Pinged \/ Ponged \/ Resting

Ages == /\ core.life \in Lives /\ acked \in BOOLEAN /\ (core.life = "none" => ~acked /\ inbox = <<>>)
        /\ nonce \in Nat /\ gap \in Nat /\ age \in Nat /\ pingAge \in 0 .. PingInterval
AnswerInv == /\ Ages /\ (main # "idle" => inbox = <<>>) /\ (main \in {"ping", "collect"} => gap = 0)
             /\ (core.life = "up" => Answers)

\* The ticks of a timely shell and core.
LEMMA Timings ==
    ASSUME Timely
    PROVE  /\ PingInterval \in Nat /\ PingInterval > 0 /\ StallGap \in Nat /\ PongDeadline \in Nat
           /\ HelloTimeout \in Nat /\ Latency \in Nat /\ Latency < PingInterval
           /\ BootTime \in Nat /\ BootTime <= HelloTimeout
           /\ PingInterval - 1 + StallGap + Latency <= PongDeadline
BY TimesAssumption DEF Timely

\* One request, or one answer.
LEMMA Single ==
    ASSUME NEW x
    PROVE  /\ <<x>> # <<>> /\ Head(<<x>>) = x /\ Tail(<<x>>) = <<>> /\ Append(<<>>, x) = <<x>>
           /\ \A y : Contains(<<x>>, y) <=> x = y
<1>1. <<x>> # <<>> /\ Head(<<x>>) = x /\ Tail(<<x>>) = <<>> /\ Append(<<>>, x) = <<x>>
  OBVIOUS
<1>2. Len(<<x>>) = 1 /\ <<x>>[1] = x
  OBVIOUS
<1>3. \A y : Contains(<<x>>, y) <=> \E i \in 1 .. Len(<<x>>) : <<x>>[i] = y
  BY DEF Contains
<1>4. \A y : Contains(<<x>>, y) <=> x = y
  <2>1. 1 .. 1 = {1}
    OBVIOUS
  <2> QED BY <1>2, <1>3, <2>1
<1> QED BY <1>1, <1>4

\* None.
LEMMA Nothing == \A y : ~Contains(<<>>, y)
<1>1. Len(<<>>) = 0 /\ 1 .. 0 = {}
  OBVIOUS
<1> QED BY <1>1 DEF Contains

\* A request a tick older.
LEMMA Older ==
    ASSUME NEW n, NEW a \in Nat, NEW m \in Nat, a < m,
           NEW s, s = <<Request(n, a)>>, NEW t, t = [i \in DOMAIN s |-> [s[i] EXCEPT !.age = Upto(@, m)]]
    PROVE  t = <<Request(n, a + 1)>>
<1>1. DOMAIN s = {1} /\ s[1] = Request(n, a)
  OBVIOUS
<1>2. [s[1] EXCEPT !.age = Upto(@, m)] = Request(n, a + 1)
  BY <1>1 DEF Request, Upto
<1>3. t = [i \in {1} |-> Request(n, a + 1)]
  BY <1>1, <1>2
<1>4. \A x : [i \in {1} |-> x] = <<x>>
  OBVIOUS
<1> QED BY <1>3, <1>4

\* Steps that leave the core and the clocks alone.
LEMMA StillAnswers ==
    ASSUME AnswerInv, UNCHANGED <<conn, gap>>,
           main' = main \/ (main \in {"collect", "update"} /\ main' \in {"idle", "update"})
    PROVE  AnswerInv'
<1>1. Ages'
  BY DEF AnswerInv, Ages, conn
<1>2. (main # "idle" => inbox = <<>>)' /\ (main \in {"ping", "collect"} => gap = 0)'
  BY DEF AnswerInv, conn
<1>3. ASSUME core'.life = "up" PROVE Answers'
  <2>1. Answers
    BY <1>3 DEF AnswerInv, conn
  <2>2. Greeting \/ Greeted \/ Pinged \/ Ponged => Answers'
    BY DEF Greeting, Greeted, Pinged, Ponged, Answers, conn
  <2>3. ASSUME Resting PROVE Resting'
    <3>1. (main' = "ping") = (main = "ping")
      OBVIOUS
    <3> QED BY <2>3, <3>1 DEF Resting, Rested, conn
  <2> QED BY <2>1, <2>2, <2>3 DEF Answers
<1> QED BY <1>1, <1>2, <1>3 DEF AnswerInv

\* A new core owes the hello; without one nobody owes anything.
LEMMA AnewAnswers ==
    ASSUME Timely, AnswerInv, NEW b, Spawned(b) \/ Retired, gap' \in Nat,
           main' \in {"ping", "collect"} => gap' = 0
    PROVE  AnswerInv'
<1>1. /\ acked' = FALSE /\ age' = 0 /\ pingAge' = 0 /\ nonce' = 0 /\ inbox' = <<>>
      /\ core'.life \in Lives
      /\ core'.life = "up" => asked' = <<Request(Hello, 0)>>
  BY DEF Spawned, Retired, NoCore, Lives, Request
<1>2. Ages'
  <2>1. acked' \in BOOLEAN /\ ~acked'
    BY <1>1
  <2>2. age' \in Nat /\ pingAge' \in 0 .. PingInterval /\ nonce' \in Nat
    BY <1>1, Timings
  <2> QED BY <1>1, <2>1, <2>2 DEF Ages
<1>3. core'.life = "up" => Greeting'
  <2>1. 0 \in 0 .. BootTime /\ 0 <= 0
    BY Timings
  <2> QED BY <1>1, <2>1 DEF Greeting
<1> QED BY <1>1, <1>2, <1>3 DEF AnswerInv, Answers

\* Time passes only while a core that runs is in time.
LEMMA TickAnswers == ASSUME Timely, AnswerInv, Tick PROVE AnswerInv'
<1>1. /\ main = "idle" /\ main' = "idle" /\ gap' = gap + 1
      /\ core.life = "up" /\ asked # <<>> => Prompt(Head(asked))
      /\ pingAge' = IF acked THEN Upto(pingAge, PingInterval) ELSE pingAge
      /\ asked' = [i \in DOMAIN asked |-> [asked[i] EXCEPT !.age = Upto(@, BootTime + Latency)]]
      /\ UNCHANGED <<core, inbox, acked, nonce>>
  BY DEF Tick
<1>2. Ages
  BY DEF AnswerInv
<1>3. age' \in Nat /\ age' <= age + 1
  BY <1>2 DEF Tick, Upto, Ages
<1>4. pingAge' \in 0 .. PingInterval /\ pingAge' <= pingAge + 1 /\ (acked /\ pingAge < PingInterval => pingAge' = pingAge + 1)
      /\ (pingAge = PingInterval => pingAge' = PingInterval)
  BY <1>1, <1>2, Timings DEF Upto, Ages
<1>5. Ages'
  BY <1>1, <1>2, <1>3, <1>4 DEF Ages
<1>6. ASSUME core.life = "up" PROVE Answers'
  <2>0. asked = <<>> => asked' = <<>>
    BY <1>1
  <2>1. CASE Greeting
    <3>1. PICK a \in 0 .. BootTime : asked = <<Request(Hello, a)>> /\ age <= a
      BY <2>1 DEF Greeting
    <3>2. a < BootTime
      BY <1>1, <1>6, <3>1, Single DEF Prompt, Request
    <3>3. a \in Nat /\ BootTime + Latency \in Nat /\ a < BootTime + Latency
      BY <3>2, Timings
    <3>4. asked' = <<Request(Hello, a + 1)>>
      BY <1>1, <3>1, <3>3, Older
    <3>5. a + 1 \in 0 .. BootTime /\ age' <= a + 1
      BY <1>2, <1>3, <3>1, <3>2, <3>3, Timings DEF Ages
    <3>6. Greeting'
      BY <1>1, <2>1, <3>4, <3>5 DEF Greeting
    <3> QED BY <3>6 DEF Answers
  <2>2. CASE Greeted
    BY <1>1, <2>0, <2>2 DEF Greeted, Answers
  <2>3. CASE Pinged
    <3>1. PICK a \in 0 .. Latency : /\ asked = <<Request(nonce, a)>> /\ pingAge <= a
                                    /\ age <= PingInterval - 1 + StallGap + a
      BY <2>3 DEF Pinged
    <3>2. nonce # Hello
      BY <1>2 DEF Ages, Hello
    <3>3. a < Latency
      BY <1>1, <1>6, <3>1, <3>2, Single DEF Prompt, Request
    <3>4. a \in Nat /\ BootTime + Latency \in Nat /\ a < BootTime + Latency
      BY <3>3, Timings
    <3>5. asked' = <<Request(nonce, a + 1)>>
      BY <1>1, <3>1, <3>4, Older
    <3>6. a + 1 \in 0 .. Latency /\ pingAge' <= a + 1 /\ age' <= PingInterval - 1 + StallGap + (a + 1)
      <4>1. age \in Nat /\ pingAge \in Nat
        BY <1>2 DEF Ages
      <4>2. age' <= PingInterval - 1 + StallGap + (a + 1)
        BY <1>3, <3>1, <3>4, <4>1, Timings
      <4>3. a + 1 \in 0 .. Latency
        BY <3>3, <3>4, Timings
      <4>4. pingAge' <= a + 1
        BY <1>4, <3>1, <3>4, <4>1
      <4> QED BY <4>2, <4>3, <4>4
    <3>7. Pinged'
      BY <1>1, <2>3, <3>5, <3>6 DEF Pinged
    <3> QED BY <3>7 DEF Answers
  <2>4. CASE Ponged
    BY <1>1, <2>0, <2>4 DEF Ponged, Answers
  <2>5. CASE Resting
    <3>1. Rested(gap) /\ acked
      BY <1>1, <2>5 DEF Resting
    <3>2. IF pingAge' < PingInterval THEN age' <= pingAge' ELSE age' <= PingInterval - 1 + gap'
      <4>0. age \in Nat /\ gap \in Nat /\ pingAge \in 0 .. PingInterval
        BY <1>2 DEF Ages
      <4>1. CASE pingAge < PingInterval
        <5>1. age <= pingAge /\ pingAge' = pingAge + 1
          BY <1>4, <3>1, <4>1 DEF Rested
        <5> QED BY <1>1, <1>3, <4>0, <4>1, <5>1, Timings
      <4>2. CASE pingAge = PingInterval
        <5>1. age <= PingInterval - 1 + gap /\ pingAge' = PingInterval
          BY <1>4, <3>1, <4>0, <4>2 DEF Rested
        <5> QED BY <1>1, <1>3, <4>0, <4>2, <5>1, Timings
      <4> QED BY <4>0, <4>1, <4>2, Timings
    <3>3. Resting'
      BY <1>1, <2>0, <2>5, <3>2 DEF Resting, Rested
    <3> QED BY <3>3 DEF Answers
  <2> QED BY <1>6, <2>1, <2>2, <2>3, <2>4, <2>5 DEF AnswerInv, Answers
<1> QED BY <1>1, <1>5, <1>6 DEF AnswerInv

\* What it owed it has answered.
LEMMA AnswerAnswers == ASSUME AnswerInv, CoreAnswers PROVE AnswerInv'
<1>1. /\ main = "idle" /\ core.life = "up" /\ asked # <<>> /\ asked' = Tail(asked)
      /\ inbox' = Append(inbox, Head(asked).n)
      /\ UNCHANGED <<core, acked, age, pingAge, nonce, gap, main>>
  BY DEF CoreAnswers
<1>2. Answers
  BY <1>1 DEF AnswerInv
<1>3. Greeting => Greeted'
  BY <1>1, Single DEF Greeting, Greeted, Request
<1>4. Pinged => Ponged'
  BY <1>1, Single DEF Pinged, Ponged, Request
<1>5. Answers'
  BY <1>1, <1>2, <1>3, <1>4 DEF Answers, Greeted, Ponged, Resting
<1>6. Ages'
  BY <1>1 DEF AnswerInv, Ages
<1> QED BY <1>1, <1>5, <1>6 DEF AnswerInv

\* The shell hears of it before it judges.
LEMMA DrainAnswers == ASSUME Timely, AnswerInv, Drain PROVE AnswerInv'
<1> DEFINE h == Contains(inbox, Hello) /\ core.build \in Speaks
<1>1. /\ main = "idle" /\ main' = "judge" /\ inbox' = <<>>
      /\ acked' = (acked \/ h)
      /\ age' = (IF h \/ Contains(inbox, nonce) THEN 0 ELSE age)
      /\ pingAge' = (IF h THEN 0 ELSE pingAge)
      /\ core' = (IF Contains(inbox, Hello) /\ core.build \notin Speaks
                  THEN [core EXCEPT !.life = "killed"] ELSE core)
      /\ UNCHANGED <<asked, nonce, gap>>
  BY DEF Drain
<1>2. Ages
  BY DEF AnswerInv
<1>a. ASSUME core'.life = "up" PROVE core.life = "up" /\ (Contains(inbox, Hello) => h)
  BY <1>1, <1>a
<1> HIDE DEF h
<1>3. ASSUME core'.life = "up" PROVE Answers'
  <2>0. core.life = "up" /\ (Contains(inbox, Hello) => h) /\ (h => Contains(inbox, Hello)) /\ nonce # Hello
    BY <1>2, <1>3, <1>a DEF Ages, Hello, h
  <2>1. CASE Greeting
    <3>1. acked' = acked /\ age' = age
      BY <1>1, <1>2, <2>0, <2>1, Nothing DEF Greeting, Ages
    <3> QED BY <1>1, <2>1, <3>1 DEF Greeting, Answers
  <2>2. CASE Greeted
    <3>1. h
      BY <2>0, <2>2, Single DEF Greeted
    <3>2. acked' /\ age' = 0 /\ pingAge' = 0 /\ asked' = <<>>
      BY <1>1, <2>2, <3>1 DEF Greeted
    <3>3. Resting'
      BY <1>1, <3>2, Timings DEF Resting, Rested
    <3> QED BY <3>3 DEF Answers
  <2>3. CASE Pinged
    <3>1. acked' = acked /\ age' = age /\ pingAge' = pingAge
      BY <1>1, <1>2, <2>0, <2>3, Nothing DEF Pinged, Ages
    <3> QED BY <1>1, <2>3, <3>1 DEF Pinged, Answers
  <2>4. CASE Ponged
    <3>1. ~h /\ Contains(inbox, nonce)
      BY <2>0, <2>4, Single DEF Ponged
    <3>2. acked' /\ age' = 0 /\ pingAge' = pingAge /\ asked' = <<>> /\ gap' = gap
      BY <1>1, <2>4, <3>1 DEF Ponged
    <3>3. IF pingAge' < PingInterval THEN age' <= pingAge' ELSE age' <= PingInterval - 1 + gap'
      BY <1>2, <3>2, Timings DEF Ages
    <3>4. Resting'
      BY <1>1, <3>2, <3>3 DEF Resting, Rested
    <3> QED BY <3>4 DEF Answers
  <2>5. CASE Resting
    <3>1. acked' = acked /\ age' = age /\ pingAge' = pingAge
      BY <1>1, <1>2, <2>0, <2>5, Nothing DEF Resting, Ages
    <3> QED BY <1>1, <2>5, <3>1 DEF Resting, Rested, Answers
  <2> QED BY <2>0, <2>1, <2>2, <2>3, <2>4, <2>5 DEF AnswerInv, Answers
<1>4. Ages'
  <2>1. core'.life \in Lives /\ (core'.life = "none" => core.life = "none")
    BY <1>1, <1>2 DEF Ages, Lives
  <2>2. acked' \in BOOLEAN
    BY <1>1
  <2>3. age' \in Nat /\ pingAge' \in 0 .. PingInterval /\ nonce' \in Nat /\ gap' \in Nat
    BY <1>1, <1>2, Timings DEF Ages
  <2>4. ASSUME core'.life = "none" PROVE ~acked'
    <3>1. core.life = "none" /\ ~acked /\ inbox = <<>>
      BY <1>2, <2>1, <2>4 DEF Ages
    <3>2. ~h
      BY <3>1, Nothing DEF h
    <3> QED BY <1>1, <3>1, <3>2
  <2> QED BY <1>1, <2>1, <2>2, <2>3, <2>4 DEF Ages
<1> QED BY <1>1, <1>3, <1>4 DEF AnswerInv

\* The judge takes back the gap.
LEMMA JudgeAnswers == ASSUME Timely, AnswerInv, Judge PROVE AnswerInv'
<1>1. /\ main = "judge" /\ main' = "ping" /\ gap' = 0
      /\ age' = (IF gap <= StallGap THEN age ELSE IF gap < age THEN age - gap ELSE 0)
      /\ UNCHANGED <<core, asked, inbox, acked, pingAge, nonce>>
  BY DEF Judge, Judging, Forgiven
<1>2. Ages
  BY DEF AnswerInv
<1>3. age' \in Nat /\ age' <= age
  BY <1>1, <1>2, Timings DEF Ages
<1>4. Ages'
  BY <1>1, <1>2, <1>3 DEF Ages
<1>5. ASSUME core.life = "up" PROVE Answers'
  <2>1. CASE Greeting
    <3>1. PICK a \in 0 .. BootTime : asked = <<Request(Hello, a)>> /\ age <= a
      BY <2>1 DEF Greeting
    <3>2. age' <= a
      BY <1>2, <1>3, <3>1 DEF Ages
    <3>3. Greeting'
      BY <1>1, <2>1, <3>1, <3>2 DEF Greeting
    <3> QED BY <3>3 DEF Answers
  <2>2. CASE Greeted \/ Ponged
    <3> QED BY <1>1, <2>2 DEF Greeted, Ponged, Answers
  <2>3. CASE Pinged
    <3>1. PICK a \in 0 .. Latency : /\ asked = <<Request(nonce, a)>> /\ pingAge <= a
                                    /\ age <= PingInterval - 1 + StallGap + a
      BY <2>3 DEF Pinged
    <3>2. age' <= PingInterval - 1 + StallGap + a
      BY <1>2, <1>3, <3>1, Timings DEF Ages
    <3>3. Pinged'
      BY <1>1, <2>3, <3>1, <3>2 DEF Pinged
    <3> QED BY <3>3 DEF Answers
  <2>4. CASE Resting
    <3>1. Rested(gap)
      BY <1>1, <2>4 DEF Resting
    <3>2. IF pingAge < PingInterval THEN age' <= pingAge ELSE age' <= PingInterval - 1 + StallGap
      BY <1>1, <1>2, <3>1, Timings DEF Ages, Rested
    <3>3. Resting'
      BY <1>1, <2>4, <3>2 DEF Resting, Rested
    <3> QED BY <3>3 DEF Answers
  <2> QED BY <1>5, <2>1, <2>2, <2>3, <2>4 DEF AnswerInv, Answers
<1> QED BY <1>1, <1>4, <1>5 DEF AnswerInv

\* A ping goes out only to a core that owes nothing.
LEMMA PingAnswers == ASSUME Timely, AnswerInv, Ping PROVE AnswerInv'
<1>1. main = "ping" /\ main' = "collect" /\ gap' = gap /\ UNCHANGED <<core, inbox, acked, age>>
  BY DEF Ping
<1>2. Ages /\ gap = 0 /\ inbox = <<>>
  BY <1>1 DEF AnswerInv
<1>3. CASE acked /\ pingAge >= PingInterval
  <2>1. /\ nonce' = (nonce + 1) % Nonces /\ pingAge' = 0
        /\ core.life = "up" => asked' = Append(asked, Request(nonce', 0))
    BY <1>3 DEF Ping, Request
  <2>2. nonce' \in Nat
    BY <1>2, <2>1 DEF Ages, Nonces
  <2>3. Ages'
    BY <1>1, <1>2, <2>1, <2>2, Timings DEF Ages
  <2>4. ASSUME core.life = "up" PROVE Pinged'
    <3>1. ~Pinged
      BY <1>2, <1>3, Timings DEF Ages, Pinged
    <3>2. ~Greeting /\ ~Greeted /\ ~Ponged
      BY <1>2, <1>3, Single DEF Greeting, Greeted, Ponged
    <3>3. Resting
      BY <2>4, <3>1, <3>2 DEF AnswerInv, Answers
    <3>4. asked' = <<Request(nonce', 0)>>
      BY <2>1, <2>4, <3>3, Single DEF Resting
    <3>5. age <= PingInterval - 1 + StallGap
      BY <1>1, <1>2, <1>3, <3>3, Timings DEF Resting, Rested, Ages
    <3>6. 0 \in 0 .. Latency /\ pingAge' <= 0 /\ age' <= PingInterval - 1 + StallGap + 0
      BY <1>1, <1>2, <2>1, <3>5, Timings DEF Ages
    <3> QED BY <1>1, <1>2, <1>3, <3>4, <3>6 DEF Pinged
  <2> QED BY <1>1, <1>2, <2>3, <2>4 DEF AnswerInv, Answers
<1>4. CASE ~(acked /\ pingAge >= PingInterval)
  <2>1. UNCHANGED <<nonce, pingAge, asked>>
    BY <1>4 DEF Ping
  <2>2. Ages'
    BY <1>1, <1>2, <2>1 DEF Ages
  <2>3. ASSUME core.life = "up" PROVE Answers'
    <3>1. Greeting \/ Greeted \/ Pinged \/ Ponged => Answers'
      BY <1>1, <2>1 DEF Greeting, Greeted, Pinged, Ponged, Answers
    <3>2. ASSUME Resting PROVE Resting'
      <4>1. pingAge < PingInterval
        BY <1>2, <1>4, <3>2, Timings DEF Resting, Ages
      <4>2. age <= pingAge
        BY <3>2, <4>1 DEF Resting, Rested
      <4> QED BY <1>1, <2>1, <3>2, <4>1, <4>2 DEF Resting, Rested
    <3> QED BY <2>3, <3>1, <3>2 DEF AnswerInv, Answers
  <2> QED BY <1>1, <1>2, <2>2, <2>3 DEF AnswerInv
<1> QED BY <1>3, <1>4

\* What is charged: a core that runs is neither mute for longer than it may be,
\* nor silent for longer than the deadline.
LEMMA Innocent == ASSUME Timely, AnswerInv, core.life = "up" PROVE ~GoneOrMute /\ ~Hung
<1>1. Ages /\ Answers
  BY DEF AnswerInv
<1>2. ASSUME GoneOrMute PROVE FALSE
  <2>1. main = "judge" /\ ~acked /\ Forgiven > HelloTimeout
    BY <1>2 DEF GoneOrMute, Judging, Overdue
  <2>2. inbox = <<>>
    BY <2>1 DEF AnswerInv
  <2>3. Greeting
    BY <1>1, <2>1, <2>2, Single DEF Answers, Greeted, Pinged, Ponged, Resting
  <2>4. age <= BootTime
    BY <1>1, <2>3, Timings DEF Greeting, Ages
  <2>5. Forgiven <= age
    BY <1>1, Timings DEF Forgiven, Ages
  <2>6. Forgiven \in Nat
    BY <1>1, Timings DEF Forgiven, Ages
  <2> QED BY <1>1, <2>1, <2>4, <2>5, <2>6, Timings DEF Ages
<1>3. ASSUME Hung PROVE FALSE
  <2>1. main = "ping" /\ acked /\ age > PongDeadline
    BY <1>3 DEF Hung
  <2>2. inbox = <<>>
    BY <2>1 DEF AnswerInv
  <2>3. Pinged \/ Resting
    BY <1>1, <2>1, <2>2, Single DEF Answers, Greeting, Greeted, Ponged
  <2>4. CASE Pinged
    <3>1. PICK a \in 0 .. Latency : age <= PingInterval - 1 + StallGap + a
      BY <2>4 DEF Pinged
    <3> QED BY <1>1, <2>1, <3>1, Timings DEF Ages
  <2>5. CASE Resting
    <3>1. Rested(StallGap)
      BY <2>1, <2>5 DEF Resting
    <3>2. age <= PingInterval - 1 + StallGap
      BY <1>1, <3>1, Timings DEF Rested, Ages
    <3> QED BY <1>1, <2>1, <3>2, Timings DEF Ages
  <2> QED BY <2>3, <2>4, <2>5
<1> QED BY <1>2, <1>3

\* Every step keeps what a core that runs owes.
LEMMA AnswerStep == ASSUME Timely, AnswerInv, [Next]_vars PROVE AnswerInv'
<1>0. gap \in Nat /\ 0 \in Nat
  BY DEF AnswerInv, Ages
<1>1. CASE Tick
  BY <1>1, TickAnswers
<1>2. CASE CoreAnswers
  BY <1>2, AnswerAnswers
<1>3. CASE Drain
  BY <1>3, DrainAnswers
<1>4. CASE Judge
  BY <1>4, JudgeAnswers
<1>5. CASE Ping
  BY <1>5, PingAnswers
<1>6. CASE TryAgain \/ GoneOrMute
  <2>1. main' = "idle" /\ gap' = 0 /\ RestartCore
    BY <1>6 DEF TryAgain, GoneOrMute, Judging
  <2>2. Spawned(Runnable) \/ Retired
    BY <2>1 DEF RestartCore
  <2> QED BY <1>0, <2>1, <2>2, AnewAnswers
<1>7. CASE Hung
  <2>1. main = "ping" /\ main' = "collect" /\ gap' = gap /\ RestartCore
    BY <1>7 DEF Hung
  <2>2. Spawned(Runnable) \/ Retired
    BY <2>1 DEF RestartCore
  <2>3. gap = 0
    BY <2>1 DEF AnswerInv
  <2> QED BY <1>0, <2>1, <2>2, <2>3, AnewAnswers
<1>8. CASE NotYet \/ FinishProbe
  BY <1>8, StillAnswers DEF NotYet, FinishProbe
<1>9. ASSUME NEW l \in Layers, Park(l) \/ Land(l) PROVE AnswerInv'
  BY <1>9, StillAnswers DEF Park, Land, Doing
<1>10. CASE Swap
  <2>1. main' \in {"idle", "update"} /\ gap' = gap
    BY <1>10 DEF Swap, Doing
  <2>2. Spawned(Runnable) \/ Retired
    BY <1>10 DEF Swap
  <2> QED BY <1>0, <2>1, <2>2, AnewAnswers
<1>11. CASE Exec
  <2>1. main' \in {"idle", "update"}
    BY <1>11 DEF Exec, Doing
  <2>2. (Spawned(Runnable) /\ gap' = 0) \/ (Retired /\ gap' = gap)
    BY <1>11 DEF Exec, FreshShell
  <2> QED BY <1>0, <2>1, <2>2, AnewAnswers
<1>12. CASE ApplyUpdate \/ ProbeThread
  BY <1>12, StillAnswers DEF ApplyUpdate, ProbeThread, ProbeRuns
<1>13. ASSUME NEW life \in {"hung", "gone"}, CoreFails(life) PROVE AnswerInv'
  <2>1. /\ core.life = "up" /\ core' = [core EXCEPT !.life = life]
        /\ UNCHANGED <<inbox, acked, age, pingAge, nonce, gap, main>>
    BY <1>13 DEF CoreFails
  <2>2. core'.life # "up" /\ core'.life # "none" /\ core'.life \in Lives
    BY <2>1 DEF Lives
  <2>3. Ages'
    BY <2>1, <2>2 DEF AnswerInv, Ages
  <2> QED BY <2>1, <2>2, <2>3 DEF AnswerInv
<1>14. ASSUME NEW l \in Layers, CmdRollback(l) PROVE AnswerInv'
  BY <1>14, StillAnswers DEF CmdRollback
<1>15. ASSUME NEW l \in Layers, NEW b \in Releases[l], Stage(l, b) PROVE AnswerInv'
  BY <1>15, StillAnswers DEF Stage
<1>16. CASE ShellDies
  <2>1. main' = "idle" /\ gap' = 0 /\ Spawned(Runnable)
    BY <1>16 DEF ShellDies, FreshShell
  <2> QED BY <1>0, <2>1, AnewAnswers
<1>17. CASE UNCHANGED vars
  BY <1>17, StillAnswers DEF vars
<1> QED BY <1>1, <1>2, <1>3, <1>4, <1>5, <1>6, <1>7, <1>8, <1>9, <1>10, <1>11, <1>12, <1>13,
           <1>14, <1>15, <1>16, <1>17 DEF Next, Pass

\* A core that starts, speaks the protocol and answers in time is never charged
\* with a crash, whatever keeps the shell from running (main.rs:163-174, 3167-3182).
\* The ticks are the code's: 5 s between pings and for a stall, 15 s for the hello and
\* the pong; what is asked of the core is an answer within a ping interval.
THEOREM CrashesAreReal == ASSUME Timely PROVE Spec => CrashIsReal
<1>1. Init => AnswerInv
  <2> SUFFICES ASSUME Init PROVE AnswerInv
    OBVIOUS
  <2>1. /\ core.life = "up" /\ asked = <<Request(Hello, 0)>> /\ inbox = <<>> /\ acked = FALSE
        /\ age = 0 /\ pingAge = 0 /\ nonce = 0 /\ gap = 0 /\ main = "idle"
    BY DEF Init, Request
  <2>2. Ages
    <3>1. acked \in BOOLEAN /\ ~acked
      BY <2>1
    <3>2. core.life \in Lives /\ core.life # "none"
      BY <2>1 DEF Lives
    <3> QED BY <2>1, <3>1, <3>2, Timings DEF Ages
  <2>3. 0 \in 0 .. BootTime /\ age <= 0
    BY <2>1, Timings
  <2>4. Greeting
    BY <2>1, <2>3 DEF Greeting
  <2> QED BY <2>1, <2>2, <2>4 DEF AnswerInv, Answers
<1>2. AnswerInv /\ [Next]_vars => AnswerInv'
  BY AnswerStep
<1>3. ASSUME AnswerInv, [Next]_vars, crashes' # crashes, crashes' # <<>>, main \in {"judge", "ping"}
      PROVE  core.life \in {"gone", "hung", "killed"}
  <2>1. GoneOrMute \/ Hung
    <3>1. ~(CoreAnswers \/ Tick)
      BY <1>3 DEF CoreAnswers, Tick
    <3>2. ~(Drain \/ Judge \/ Ping \/ NotYet \/ FinishProbe)
      BY <1>3 DEF Drain, Judge, Ping, NotYet, FinishProbe, budget
    <3>3. ~TryAgain
      BY <1>3 DEF TryAgain
    <3>4. ~(Swap \/ Exec) /\ \A l \in Layers : ~(Park(l) \/ Land(l))
      BY <1>3 DEF Swap, Exec, Park, Land, Doing
    <3>5. ~(ApplyUpdate \/ ProbeThread)
      BY <1>3 DEF ApplyUpdate, ProbeThread, ProbeRuns, budget
    <3>6. ~ShellDies /\ \A life \in {"hung", "gone"} : ~CoreFails(life)
      BY <1>3 DEF ShellDies, Between, CoreFails
    <3>7. \A l \in Layers : ~CmdRollback(l) /\ \A b \in Releases[l] : ~Stage(l, b)
      BY <1>3 DEF CmdRollback, Stage, Between
    <3>8. ~UNCHANGED vars
      BY <1>3 DEF vars, budget
    <3> QED BY <1>3, <3>1, <3>2, <3>3, <3>4, <3>5, <3>6, <3>7, <3>8 DEF Next, Pass
  <2>2. core.life # "up"
    BY <1>3, <2>1, Innocent
  <2>3. core.life # "none"
    BY <1>3, <2>1 DEF GoneOrMute, Overdue, Hung, AnswerInv, Ages
  <2> QED BY <1>3, <2>2, <2>3 DEF AnswerInv, Ages, Lives
<1>4. AnswerInv /\ [Next]_vars
      => [crashes' # crashes /\ crashes' # <<>> /\ main \in {"judge", "ping"}
          => core.life \in {"gone", "hung", "killed"}]_vars
  BY <1>3
<1> QED BY <1>1, <1>2, <1>4, PTL DEF Spec, CrashIsReal
=============================================================================
