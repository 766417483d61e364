--------------------------- MODULE L3HandoffProofs ---------------------------
(***************************************************************************)
(* The hand-over of L3Handoff, for every world, every hold and every set   *)
(* of builds: a close that was handled wins, no output is lost, doubled or *)
(* reordered, and neither is any key.                                      *)
(***************************************************************************)
EXTENDS L3Handoff, SequenceTheorems, TLAPS

-----------------------------------------------------------------------------
(* The close and the verdict. *)

\* The verdict stands until the hand-over ends, and no close stands beside it.
VerdictInv == /\ verdict => ~closing
              /\ pc \in Leaving => verdict

\* A close that was handled is never followed by an execv (main.rs:1738-1752).
THEOREM CloseBeatsExec == Spec => []NoExecAfterClose
<1>1. Init => VerdictInv
  BY DEF Init, VerdictInv, Leaving
<1>2. VerdictInv /\ [Next]_vars => VerdictInv'
  <2> SUFFICES ASSUME VerdictInv, [Next]_vars PROVE VerdictInv'
    OBVIOUS
  <2> USE DEF VerdictInv, Leaving
  <2>1. CASE \/ World \/ Readers \/ Writers \/ ProbeAnswers \/ UNCHANGED vars
    BY <2>1 DEF World, L2Sends, ShellPrints, Stage, Signal, Readers, ControlPoll, ControlRead,
       ControlQueue, PtyPoll, PtyRead, PtyQueue, Writers, InputTake, InputWrite, LogWrite,
       ProbeAnswers, vars, loop
  <2>2. CASE HandleKey \/ HandleSize \/ HandleHold \/ HandleUpdate("term") \/ HandleUpdate("update")
    BY <2>2 DEF HandleKey, HandleSize, HandleHold, HandleUpdate, Handling
  <2>3. CASE HandleClose
    BY <2>3 DEF HandleClose, Handling
  <2>4. CASE HandleProbe
    BY <2>4 DEF HandleProbe, Handling
  <2>5. CASE EndBatch \/ Turn \/ Exec \/ ExecFails
    BY <2>5 DEF EndBatch, Turn, Exec, ExecFails, Goto
  <2>6. CASE LastTurn
    BY <2>6 DEF LastTurn
  <2>7. CASE StopControl \/ JoinControl \/ Leftover \/ StopPty \/ JoinPty \/ WaitInput
    BY <2>7 DEF StopControl, JoinControl, Leftover, StopPty, JoinPty, WaitInput, Goto, loop
  <2> QED
    BY <2>1, <2>2, <2>3, <2>4, <2>5, <2>6, <2>7 DEF Next, Loop
<1>3. VerdictInv => NoExecAfterClose
  BY DEF VerdictInv, NoExecAfterClose
<1> QED
  BY <1>1, <1>2, <1>3, PTL DEF Spec

-----------------------------------------------------------------------------
(* Sequences of numbers laid end to end. *)

LEMMA Joined == \A a, b \in Seq(Nat) : a \o b \in Seq(Nat)
BY ConcatProperties

LEMMA Regroup == \A a, b, c \in Seq(Nat) : (a \o b) \o c = a \o (b \o c)
BY ConcatAssociative

LEMMA NoPieces == <<>> \in Seq(Nat) /\ \A a \in Seq(Nat) : a \o <<>> = a /\ <<>> \o a = a
BY ConcatEmptySeq, EmptySeq

LEMMA OneMore ==
    \A n \in Nat : UpTo(n) \in Seq(Nat) /\ UpTo(n + 1) = Append(UpTo(n), n + 1)
<1> TAKE n \in Nat
<1>1. /\ UpTo(n) \in Seq(Nat) /\ Len(UpTo(n)) = n
      /\ UpTo(n + 1) \in Seq(Nat) /\ Len(UpTo(n + 1)) = n + 1
  BY DEF UpTo
<1>2. /\ Append(UpTo(n), n + 1) \in Seq(Nat)
      /\ Len(Append(UpTo(n), n + 1)) = n + 1
  BY <1>1
<1>3. \A i \in 1 .. n + 1 : UpTo(n + 1)[i] = Append(UpTo(n), n + 1)[i]
  BY <1>1 DEF UpTo
<1> QED
  BY <1>1, <1>2, <1>3, SeqEqual

LEMMA OneMoreBehind ==
    ASSUME NEW a \in Seq(Nat), NEW b \in Seq(Nat), NEW n \in Nat, a \o b = UpTo(n)
    PROVE  Append(b, n + 1) \in Seq(Nat) /\ a \o Append(b, n + 1) = UpTo(n + 1)
<1>1. n + 1 \in Nat /\ <<n + 1>> \in Seq(Nat) /\ a \o b \in Seq(Nat)
  BY OneMore
<1>2. /\ Append(b, n + 1) = b \o <<n + 1>>
      /\ Append(a \o b, n + 1) = (a \o b) \o <<n + 1>>
  BY <1>1, AppendIsConcat
<1>3. (a \o b) \o <<n + 1>> = a \o (b \o <<n + 1>>)
  BY <1>1, Regroup
<1>4. b \o <<n + 1>> \in Seq(Nat)
  BY <1>1, Joined
<1> QED
  BY <1>2, <1>3, <1>4, OneMore

\* Cutting a queue in two and laying the parts end to end gives the queue.
LEMMA Cut ==
    ASSUME NEW s \in Seq(Nat), NEW n \in 0 .. Len(s)
    PROVE  LET a == SubSeq(s, 1, n)
               b == SubSeq(s, n + 1, Len(s))
           IN  a \in Seq(Nat) /\ b \in Seq(Nat) /\ a \o b = s
<1>1. SubSeq(s, 1, n) \in Seq(Nat)
  BY SubSeqProperties, ElementOfSeq
<1>2. SubSeq(s, n + 1, Len(s)) \in Seq(Nat)
  BY SubSeqProperties, ElementOfSeq
<1>3. /\ 1 \in 1 .. Len(s) + 1 /\ n \in 1 - 1 .. Len(s) /\ Len(s) \in n .. Len(s)
  OBVIOUS
<1>4. SubSeq(s, 1, n) \o SubSeq(s, n + 1, Len(s)) = SubSeq(s, 1, Len(s))
  BY <1>3, ConcatAdjacentSubSeq
<1> QED
  BY <1>1, <1>2, <1>4, SubSeqFull
-----------------------------------------------------------------------------
(* What comes out of the shell. *)

OutputTypes == /\ made \in Nat
               /\ term \in Seq(Nat) /\ held \in Seq(Nat) /\ rx \in Seq(Nat)
               /\ chunk \in Seq(Nat) /\ out \in Seq(Nat)

\* The PTY reader has nothing in hand unless it is between a read and a queue,
\* and once it is joined nothing is left outside the terminal but in the PTY:
\* what execv wipes out is empty.
Drained == /\ ppc # "took" => chunk = <<>>
           /\ pc \in {"waitInput", "exec"} => ppc = "off" /\ rx = <<>> /\ held = <<>>

OutputInv == OutputTypes /\ Drained /\ OutputInFlight

\* A turn moves output from its queue to the terminal and the hold, and loses
\* none of it.
LEMMA DrainKeeps ==
    ASSUME OutputTypes, NEW n \in 0 .. Len(rx), Drain(n)
    PROVE  /\ term' \in Seq(Nat) /\ held' \in Seq(Nat) /\ rx' \in Seq(Nat)
           /\ term' \o held' \o rx' = term \o held \o rx
<1> DEFINE new == SubSeq(rx, 1, n)
           aside == hold /\ Len(held) + n < HoldCap
<1> USE DEF OutputTypes
<1>1. /\ new \in Seq(Nat) /\ rx' \in Seq(Nat) /\ new \o rx' = rx
      /\ held' = IF aside THEN held \o new ELSE <<>>
      /\ term' = IF aside THEN term ELSE term \o held \o new
  BY Cut DEF Drain
<1> HIDE DEF new, aside, OutputTypes
<1> DEFINE P == term \o held
<1>2. term \in Seq(Nat) /\ held \in Seq(Nat)
  BY DEF OutputTypes
<1>3. P \in Seq(Nat)
  BY <1>2, Joined, Zenon
<1>4. term \o (held \o new) = P \o new
  BY <1>1, <1>2, Regroup
<1> HIDE DEF P
<1>5. (P \o new) \o rx' = P \o rx
  BY <1>1, <1>3, Regroup
<1>6. P \o new \in Seq(Nat) /\ held \o new \in Seq(Nat)
  BY <1>1, <1>2, <1>3, Joined, Zenon
<1>7. CASE aside
  BY <1>1, <1>2, <1>4, <1>5, <1>6, <1>7 DEF P
<1>8. CASE ~aside
  <2>1. term' = P \o new /\ held' = <<>>
    BY <1>1, <1>8 DEF P
  <2>2. term' \o held' = term'
    BY <1>6, <2>1, NoPieces
  <2> QED
    BY <1>1, <1>5, <1>6, <2>1, <2>2, NoPieces DEF P
<1> QED
  BY <1>7, <1>8

\* What the PTY reader queues stands where it stood.
LEMMA QueueKeeps ==
    ASSUME OutputTypes, rx' = rx \o chunk, chunk' = <<>>
    PROVE  /\ rx' \in Seq(Nat)
           /\ term \o held \o rx' \o chunk' = term \o held \o rx \o chunk
<1> DEFINE P == term \o held
<1>1. P \in Seq(Nat) /\ rx \in Seq(Nat) /\ chunk \in Seq(Nat) /\ rx' \in Seq(Nat)
  BY Joined DEF OutputTypes
<1> HIDE DEF P
<1>2. (P \o rx) \o chunk = P \o rx'
  BY <1>1, Regroup
<1>3. P \o rx' \in Seq(Nat)
  BY <1>1, Joined
<1>4. P \o rx' \o chunk' = P \o rx'
  BY <1>3, NoPieces
<1> QED
  BY <1>1, <1>2, <1>4 DEF P

\* What the shell prints reaches the terminal once and in order, across an
\* execv and through a hold too (local_session.rs:633-671).
THEOREM OutputReachesTerminal == Spec => []OutputInFlight
<1>1. Init => OutputInv
  <2> SUFFICES ASSUME Init PROVE OutputInv
    OBVIOUS
  <2>1. UpTo(0) = <<>>
    BY DEF UpTo
  <2>2. OutputTypes /\ Drained
    BY NoPieces DEF Init, OutputTypes, Drained
  <2>3. OutputInFlight
    BY <2>1, NoPieces DEF Init, OutputInFlight
  <2> QED
    BY <2>2, <2>3 DEF OutputInv
<1>2. OutputInv /\ [Next]_vars => OutputInv'
  <2> SUFFICES ASSUME OutputInv, [Next]_vars PROVE OutputInv'
    OBVIOUS
  <2>a. /\ term \in Seq(Nat) /\ held \in Seq(Nat) /\ rx \in Seq(Nat)
        /\ chunk \in Seq(Nat) /\ out \in Seq(Nat)
    BY DEF OutputInv, OutputTypes
  <2> USE DEF OutputInv, OutputTypes, Drained, OutputInFlight, Up
  <2>1. CASE \/ \E f \in L2Frames : L2Sends(f)
             \/ \E b \in Staged : Stage(b)
             \/ \E k \in {"term", "close"} \intersect world.kinds : Signal(k)
             \/ ControlPoll \/ ControlRead \/ ControlQueue
             \/ Writers \/ ProbeAnswers \/ UNCHANGED vars
    BY <2>1 DEF L2Sends, Stage, Signal, ControlPoll, ControlRead, ControlQueue, Writers,
       InputTake, InputWrite, LogWrite, ProbeAnswers, vars, loop, output, screen
  <2>2. CASE ShellPrints
    <3>1. Up /\ made' = made + 1 /\ out' = Append(out, made + 1)
      BY <2>2 DEF ShellPrints
    <3>2. UNCHANGED <<term, held, rx, chunk, ppc, pc>>
      BY <2>2 DEF ShellPrints, screen, loop
    <3> DEFINE before == term \o held \o rx \o chunk
    <3>3. before \in Seq(Nat) /\ out \in Seq(Nat) /\ made \in Nat
      BY Joined
    <3>4. before \o out = UpTo(made)
      BY <3>1
    <3> HIDE DEF before
    <3>5. out' \in Seq(Nat) /\ before \o out' = UpTo(made + 1)
      BY <3>1, <3>3, <3>4, OneMoreBehind, ZenonT(60)
    <3>6. term' \o held' \o rx' \o chunk' = before
      BY <3>2 DEF before
    <3>7. OutputTypes' /\ Drained'
      BY <3>1, <3>2, <3>5
    <3>8. OutputInFlight'
      BY <3>1, <3>5, <3>6
    <3> QED
      BY <3>7, <3>8
  <2>3. CASE PtyPoll
    BY <2>3 DEF PtyPoll, screen, loop
  <2>4. CASE PtyRead
    <3>1. /\ chunk = <<>> /\ chunk' = out /\ out' = <<>> /\ ppc = "go" /\ ppc' = "took"
          /\ UNCHANGED <<made, term, held, rx, pc>>
      BY <2>4 DEF PtyRead, screen, loop
    <3>2. term \o held \o rx \in Seq(Nat)
      BY Joined
    <3>3. term \o held \o rx \o chunk' \o out' = term \o held \o rx \o chunk \o out
      BY <3>1, <3>2, NoPieces, Joined
    <3> QED
      BY <3>1, <3>3, NoPieces
  <2>5. CASE PtyQueue
    <3>1. /\ rx' = rx \o chunk /\ chunk' = <<>> /\ ppc = "took" /\ ppc' = "poll"
          /\ UNCHANGED <<made, term, held, out, pc>>
      BY <2>5 DEF PtyQueue, loop
    <3>2. rx' \in Seq(Nat) /\ term \o held \o rx' \o chunk' = term \o held \o rx \o chunk
      BY <3>1, QueueKeeps
    <3> QED
      BY <3>1, <3>2, NoPieces
  <2>6. CASE \/ HandleSize \/ HandleUpdate("term") \/ HandleUpdate("update") \/ HandleClose
             \/ HandleProbe \/ EndBatch
    BY <2>6 DEF HandleSize, HandleUpdate, HandleClose, HandleProbe, EndBatch, Handling,
       output, screen
  <2>7. CASE HandleKey \/ HandleHold
    <3>1. /\ pc = "events" /\ UNCHANGED <<made, rx, chunk, out, ppc, pc>>
          /\ Unhold \/ UNCHANGED <<held, term>>
      BY <2>7 DEF HandleKey, HandleHold, Handling, output
    <3>2. CASE UNCHANGED <<held, term>>
      BY <3>1, <3>2
    <3>3. CASE Unhold
      <4>1. term' = term \o held /\ held' = <<>> /\ term' \in Seq(Nat)
        BY <3>3, Joined DEF Unhold
      <4>2. term' \o held' = term \o held
        BY <4>1, NoPieces
      <4> QED
        BY <3>1, <4>1, <4>2, NoPieces
    <3> QED
      BY <3>1, <3>2, <3>3
  <2>8. CASE Turn \/ LastTurn
    <3>1. /\ pc = "turn" /\ pc' \in {"events", "stopControl", "exited"}
          /\ UNCHANGED <<made, chunk, out, ppc>>
          /\ \E n \in 0 .. Len(rx) : Drain(n)
      BY <2>8 DEF Turn, LastTurn, output
    <3>2. /\ term' \in Seq(Nat) /\ held' \in Seq(Nat) /\ rx' \in Seq(Nat)
          /\ term' \o held' \o rx' = term \o held \o rx
      BY <3>1, DrainKeeps
    <3> QED
      BY <3>1, <3>2
  <2>9. CASE StopControl \/ JoinControl \/ Leftover \/ StopPty
    BY <2>9 DEF StopControl, JoinControl, Leftover, StopPty, Goto, output, screen, loop
  <2>10. CASE JoinPty
    <3>1. /\ pc = "joinPty" /\ pc' = "waitInput" /\ ppc = "off"
          /\ term' = term \o held \o rx /\ held' = <<>> /\ rx' = <<>>
          /\ UNCHANGED <<made, chunk, out, ppc>>
      BY <2>10 DEF JoinPty, Goto, output
    <3>2. term' \in Seq(Nat) /\ term' \o held' \o rx' = term \o held \o rx
      BY <3>1, Joined, NoPieces
    <3> QED
      BY <3>1, <3>2, NoPieces
  <2>11. CASE WaitInput
    BY <2>11 DEF WaitInput, Goto, output, screen
  <2>12. CASE Exec
    <3>1. /\ pc = "exec" /\ pc' \in {"lost", "events"} /\ ppc' = "poll"
          /\ chunk' = <<>> /\ rx' = <<>> /\ held' = <<>>
          /\ UNCHANGED <<term, made, out>>
      BY <2>12 DEF Exec
    <3>2. chunk = <<>> /\ rx = <<>> /\ held = <<>>
      BY <3>1
    <3> QED
      BY <3>1, <3>2
  <2>13. CASE ExecFails
    BY <2>13 DEF ExecFails, Goto, output, screen
  <2> QED
    BY <2>1, <2>2, <2>3, <2>4, <2>5, <2>6, <2>7, <2>8, <2>9, <2>10, <2>11, <2>12, <2>13
       DEF Next, World, Readers, Loop
<1>3. OutputInv => OutputInFlight
  BY DEF OutputInv
<1> QED
  BY <1>1, <1>2, <1>3, PTL DEF Spec
-----------------------------------------------------------------------------
(* Keys among frames. *)

Frames == [k : Kinds, n : Nat]

IsKey(s, i) == s[i].k = "key"

LEMMA KeysRunMeans ==
    ASSUME NEW s \in Seq(Frames), NEW p \in Nat, NEW q \in Nat
    PROVE  KeysRun(s, p, q) <=>
             /\ p <= q + 1
             /\ \A i \in 1 .. Len(s) : IsKey(s, i) => s[i].n \in p .. q
             /\ \A m \in p .. q : \E i \in 1 .. Len(s) : IsKey(s, i) /\ s[i].n = m
             /\ \A i, j \in 1 .. Len(s) :
                  IsKey(s, i) /\ IsKey(s, j) /\ i < j => s[i].n < s[j].n
<1> DEFINE keys == {i \in 1 .. Len(s) : s[i].k = "key"}
<1>1. KeysRun(s, p, q) <=>
         /\ p <= q + 1
         /\ {s[i].n : i \in keys} = p .. q
         /\ \A i, j \in keys : i < j => s[i].n < s[j].n
  BY DEF KeysRun
<1>2. {s[i].n : i \in keys} = p .. q <=>
         /\ \A i \in keys : s[i].n \in p .. q
         /\ \A m \in p .. q : \E i \in keys : s[i].n = m
  OBVIOUS
<1> QED
  BY <1>1, <1>2 DEF IsKey

\* Every key has a number.
LEMMA FrameParts ==
    ASSUME NEW s \in Seq(Frames), NEW i \in 1 .. Len(s)
    PROVE  s[i] \in Frames /\ s[i].n \in Nat
<1>1. s[i] \in Frames
  BY ElementOfSeq
<1> QED
  BY <1>1 DEF Frames

\* The next key goes behind the others.
LEMMA KeyBehind ==
    ASSUME NEW s \in Seq(Frames), NEW p \in Nat, NEW q \in Nat,
           NEW f \in Frames, KeysRun(s, p, q), f.k = "key", f.n = q + 1
    PROVE  KeysRun(Append(s, f), p, q + 1)
<1> DEFINE t == Append(s, f)
<1>1. /\ t \in Seq(Frames) /\ Len(t) = Len(s) + 1 /\ t[Len(s) + 1] = f
      /\ \A i \in 1 .. Len(s) : t[i] = s[i]
      /\ Len(s) \in Nat
  BY AppendProperties
<1> HIDE DEF t
<1>2. /\ p <= q + 1
      /\ \A i \in 1 .. Len(s) : IsKey(s, i) => s[i].n \in p .. q
      /\ \A m \in p .. q : \E i \in 1 .. Len(s) : IsKey(s, i) /\ s[i].n = m
      /\ \A i, j \in 1 .. Len(s) :
            IsKey(s, i) /\ IsKey(s, j) /\ i < j => s[i].n < s[j].n
  BY KeysRunMeans
<1>3. \A i \in 1 .. Len(t) : IsKey(t, i) => t[i].n \in p .. q + 1
  BY <1>1, <1>2 DEF IsKey
<1>4. \A m \in p .. q + 1 : \E i \in 1 .. Len(t) : IsKey(t, i) /\ t[i].n = m
  <2> TAKE m \in p .. q + 1
  <2>1. CASE m = q + 1
    BY <1>1, <2>1 DEF IsKey
  <2>2. CASE m # q + 1
    <3>1. m \in p .. q
      BY <2>2
    <3>2. PICK i \in 1 .. Len(s) : IsKey(s, i) /\ s[i].n = m
      BY <1>2, <3>1
    <3>3. i \in 1 .. Len(t) /\ IsKey(t, i) /\ t[i].n = m
      BY <1>1, <3>2 DEF IsKey
    <3> QED
      BY <3>3
  <2> QED
    BY <2>1, <2>2
<1>5. \A i, j \in 1 .. Len(t) : IsKey(t, i) /\ IsKey(t, j) /\ i < j => t[i].n < t[j].n
  <2> SUFFICES ASSUME NEW i \in 1 .. Len(t), NEW j \in 1 .. Len(t),
                      IsKey(t, i), IsKey(t, j), i < j
               PROVE  t[i].n < t[j].n
    OBVIOUS
  <2>1. i \in 1 .. Len(s) /\ IsKey(s, i) /\ t[i] = s[i] /\ s[i].n \in p .. q
    BY <1>1, <1>2 DEF IsKey
  <2>2. CASE j = Len(s) + 1
    BY <1>1, <2>1, <2>2
  <2>3. CASE j # Len(s) + 1
    <3>1. j \in 1 .. Len(s) /\ IsKey(s, j) /\ t[j] = s[j]
      BY <1>1, <2>3 DEF IsKey
    <3> QED
      BY <1>2, <2>1, <3>1
  <2> QED
    BY <2>2, <2>3
<1>6. q + 1 \in Nat /\ p <= (q + 1) + 1
  BY <1>2
<1>7. KeysRun(t, p, q + 1)
  BY <1>1, <1>3, <1>4, <1>5, <1>6, KeysRunMeans
<1> QED
  BY <1>7 DEF t

\* Two sequences that hold the same keys in the same order hold the same run:
\* g says where in t each frame of s stands, and misses no key.
LEMMA SameKeys ==
    ASSUME NEW s \in Seq(Frames), NEW t \in Seq(Frames), NEW p \in Nat, NEW q \in Nat,
           NEW g \in [1 .. Len(s) -> 1 .. Len(t)],
           \A i \in 1 .. Len(s) : t[g[i]] = s[i],
           \A i, j \in 1 .. Len(s) : i < j => g[i] < g[j],
           \A j \in 1 .. Len(t) : IsKey(t, j) => \E i \in 1 .. Len(s) : j = g[i]
    PROVE  KeysRun(s, p, q) <=> KeysRun(t, p, q)
<1>1. \A i \in 1 .. Len(s) : g[i] \in 1 .. Len(t) /\ (IsKey(s, i) <=> IsKey(t, g[i]))
  BY DEF IsKey
<1>2. Len(s) \in Nat /\ Len(t) \in Nat
  BY LenProperties
<1>3. (\A i \in 1 .. Len(s) : IsKey(s, i) => s[i].n \in p .. q)
        <=> (\A j \in 1 .. Len(t) : IsKey(t, j) => t[j].n \in p .. q)
  BY <1>1, SMTT(60)
<1>4. \A m \in p .. q : (\E i \in 1 .. Len(s) : IsKey(s, i) /\ s[i].n = m)
                          <=> (\E j \in 1 .. Len(t) : IsKey(t, j) /\ t[j].n = m)
  <2> TAKE m \in p .. q
  <2>1. ASSUME NEW i \in 1 .. Len(s), IsKey(s, i), s[i].n = m
        PROVE  \E j \in 1 .. Len(t) : IsKey(t, j) /\ t[j].n = m
    BY <1>1, <2>1
  <2>2. ASSUME NEW j \in 1 .. Len(t), IsKey(t, j), t[j].n = m
        PROVE  \E i \in 1 .. Len(s) : IsKey(s, i) /\ s[i].n = m
    BY <1>1, <2>2
  <2> QED
    BY <2>1, <2>2
<1>5. (\A i, j \in 1 .. Len(s) : IsKey(s, i) /\ IsKey(s, j) /\ i < j => s[i].n < s[j].n)
        <=> (\A i, j \in 1 .. Len(t) : IsKey(t, i) /\ IsKey(t, j) /\ i < j => t[i].n < t[j].n)
  <2>1. ASSUME \A i, j \in 1 .. Len(s) :
                  IsKey(s, i) /\ IsKey(s, j) /\ i < j => s[i].n < s[j].n,
               NEW i \in 1 .. Len(t), NEW j \in 1 .. Len(t), IsKey(t, i), IsKey(t, j), i < j
        PROVE  t[i].n < t[j].n
    <3>1. PICK x \in 1 .. Len(s) : i = g[x]
      BY <2>1
    <3>2. PICK y \in 1 .. Len(s) : j = g[y]
      BY <2>1
    <3>3. ~(y < x) /\ y # x
      BY <1>1, <1>2, <2>1, <3>1, <3>2
    <3>4. x < y
      BY <1>2, <3>3
    <3> QED
      BY <1>1, <2>1, <3>1, <3>2, <3>4
  <2>2. ASSUME \A i, j \in 1 .. Len(t) :
                  IsKey(t, i) /\ IsKey(t, j) /\ i < j => t[i].n < t[j].n,
               NEW i \in 1 .. Len(s), NEW j \in 1 .. Len(s), IsKey(s, i), IsKey(s, j), i < j
        PROVE  s[i].n < s[j].n
    BY <1>1, <2>2
  <2> QED
    BY <2>1, <2>2
<1>6. KeysRun(s, p, q) <=>
         /\ p <= q + 1
         /\ \A i \in 1 .. Len(s) : IsKey(s, i) => s[i].n \in p .. q
         /\ \A m \in p .. q : \E i \in 1 .. Len(s) : IsKey(s, i) /\ s[i].n = m
         /\ \A i, j \in 1 .. Len(s) :
              IsKey(s, i) /\ IsKey(s, j) /\ i < j => s[i].n < s[j].n
  BY KeysRunMeans
<1>7. KeysRun(t, p, q) <=>
         /\ p <= q + 1
         /\ \A i \in 1 .. Len(t) : IsKey(t, i) => t[i].n \in p .. q
         /\ \A m \in p .. q : \E i \in 1 .. Len(t) : IsKey(t, i) /\ t[i].n = m
         /\ \A i, j \in 1 .. Len(t) :
              IsKey(t, i) /\ IsKey(t, j) /\ i < j => t[i].n < t[j].n
  BY KeysRunMeans
<1> QED
  BY <1>3, <1>4, <1>5, <1>6, <1>7, Zenon

LEMMA TailParts ==
    ASSUME NEW s \in Seq(Frames), s # <<>>
    PROVE  /\ Tail(s) \in Seq(Frames) /\ Len(s) = Len(Tail(s)) + 1 /\ Len(Tail(s)) \in Nat
           /\ \A i \in 1 .. Len(Tail(s)) : Tail(s)[i] = s[i + 1]
           /\ Head(s) = s[1] /\ Head(s) \in Frames
BY HeadTailProperties

\* The frame in front, when it is a key, is the first of the run.
LEMMA KeyInFront ==
    ASSUME NEW s \in Seq(Frames), NEW p \in Nat, NEW q \in Nat,
           KeysRun(s, p, q), s # <<>>, Head(s).k = "key"
    PROVE  Head(s).n = p /\ KeysRun(Tail(s), p + 1, q)
<1> DEFINE t == Tail(s)
<1>1. /\ t \in Seq(Frames) /\ Len(s) = Len(t) + 1 /\ Len(t) \in Nat
      /\ \A i \in 1 .. Len(t) : t[i] = s[i + 1]
      /\ Head(s) = s[1]
  BY TailParts
<1> HIDE DEF t
<1>2. /\ p <= q + 1
      /\ \A i \in 1 .. Len(s) : IsKey(s, i) => s[i].n \in p .. q
      /\ \A m \in p .. q : \E i \in 1 .. Len(s) : IsKey(s, i) /\ s[i].n = m
      /\ \A i, j \in 1 .. Len(s) :
            IsKey(s, i) /\ IsKey(s, j) /\ i < j => s[i].n < s[j].n
  BY KeysRunMeans
<1>3. \A i \in 1 .. Len(t) : /\ i + 1 \in 1 .. Len(s) /\ t[i] = s[i + 1]
                             /\ IsKey(t, i) <=> IsKey(s, i + 1)
  BY <1>1 DEF IsKey
<1>4. IsKey(s, 1) /\ s[1].n \in p .. q /\ 1 \in 1 .. Len(s)
  BY <1>1, <1>2 DEF IsKey
<1>5. s[1].n = p
  <2>1. PICK i \in 1 .. Len(s) : IsKey(s, i) /\ s[i].n = p
    BY <1>2, <1>4
  <2> QED
    BY <1>2, <1>4, <2>1
<1>6. \A i \in 1 .. Len(t) : IsKey(t, i) => t[i].n \in p + 1 .. q
  <2> TAKE i \in 1 .. Len(t)
  <2> HAVE IsKey(t, i)
  <2>1. s[1].n < s[i + 1].n /\ s[i + 1].n \in p .. q
    BY <1>2, <1>3, <1>4
  <2> QED
    BY <1>3, <1>5, <2>1
<1>7. \A m \in p + 1 .. q : \E i \in 1 .. Len(t) : IsKey(t, i) /\ t[i].n = m
  <2> TAKE m \in p + 1 .. q
  <2>1. PICK i \in 1 .. Len(s) : IsKey(s, i) /\ s[i].n = m
    BY <1>2
  <2>2. i - 1 \in 1 .. Len(t) /\ (i - 1) + 1 = i
    BY <1>1, <1>5, <2>1
  <2> QED
    BY <1>3, <2>1, <2>2
<1>8. \A i, j \in 1 .. Len(t) : IsKey(t, i) /\ IsKey(t, j) /\ i < j => t[i].n < t[j].n
  <2> SUFFICES ASSUME NEW i \in 1 .. Len(t), NEW j \in 1 .. Len(t),
                      IsKey(t, i), IsKey(t, j), i < j
               PROVE  t[i].n < t[j].n
    OBVIOUS
  <2>1. i + 1 < j + 1
    BY <1>1
  <2> QED
    BY <1>2, <1>3, <2>1
<1>9. p + 1 \in Nat /\ p + 1 <= q + 1
  BY <1>4
<1>10. KeysRun(t, p + 1, q)
  BY <1>1, <1>6, <1>7, <1>8, <1>9, KeysRunMeans
<1> QED
  BY <1>1, <1>5, <1>10 DEF t

\* Frames in front that are no keys can go.
LEMMA NoKeyInFront ==
    ASSUME NEW a \in Seq(Frames), NEW b \in Seq(Frames), NEW p \in Nat, NEW q \in Nat,
           \A i \in 1 .. Len(a) : ~IsKey(a, i), KeysRun(a \o b, p, q)
    PROVE  KeysRun(b, p, q)
<1> DEFINE s == a \o b
           g == [i \in 1 .. Len(b) |-> Len(a) + i]
<1>1. /\ s \in Seq(Frames) /\ Len(s) = Len(a) + Len(b)
      /\ \A i \in 1 .. Len(s) : s[i] = IF i <= Len(a) THEN a[i] ELSE b[i - Len(a)]
      /\ Len(a) \in Nat /\ Len(b) \in Nat
  BY ConcatProperties
<1>2. KeysRun(s, p, q)
  OBVIOUS
<1> HIDE DEF s
<1>3. g \in [1 .. Len(b) -> 1 .. Len(s)]
  BY <1>1
<1>4. \A i \in 1 .. Len(b) : s[g[i]] = b[i]
  <2> TAKE i \in 1 .. Len(b)
  <2>1. /\ g[i] = Len(a) + i /\ Len(a) + i \in 1 .. Len(s)
        /\ ~(Len(a) + i <= Len(a)) /\ (Len(a) + i) - Len(a) = i
    BY <1>1
  <2> QED
    BY <1>1, <2>1
<1>5. \A i, j \in 1 .. Len(b) : i < j => g[i] < g[j]
  BY <1>1
<1>6. \A j \in 1 .. Len(s) : IsKey(s, j) => \E i \in 1 .. Len(b) : j = g[i]
  <2> TAKE j \in 1 .. Len(s)
  <2> HAVE IsKey(s, j)
  <2>1. ~(j <= Len(a))
    BY <1>1 DEF IsKey
  <2>2. j - Len(a) \in 1 .. Len(b) /\ Len(a) + (j - Len(a)) = j
    BY <1>1, <2>1
  <2> QED
    BY <2>2
<1> HIDE DEF g
<1>7. s \in Seq(Frames)
  BY <1>1
<1>8. KeysRun(b, p, q) <=> KeysRun(s, p, q)
  BY <1>3, <1>4, <1>5, <1>6, <1>7, SameKeys
<1> QED
  BY <1>2, <1>8

\* So can the one frame in front.
LEMMA OtherInFront ==
    ASSUME NEW s \in Seq(Frames), NEW p \in Nat, NEW q \in Nat,
           KeysRun(s, p, q), s # <<>>, Head(s).k # "key"
    PROVE  KeysRun(Tail(s), p, q)
<1> DEFINE t == Tail(s)
           g == [i \in 1 .. Len(t) |-> i + 1]
<1>1. /\ t \in Seq(Frames) /\ Len(s) = Len(t) + 1 /\ Len(t) \in Nat
      /\ \A i \in 1 .. Len(t) : t[i] = s[i + 1]
      /\ Head(s) = s[1]
  BY TailParts
<1> HIDE DEF t
<1>2. g \in [1 .. Len(t) -> 1 .. Len(s)]
  BY <1>1
<1>3. \A i \in 1 .. Len(t) : s[g[i]] = t[i]
  BY <1>1
<1>4. \A i, j \in 1 .. Len(t) : i < j => g[i] < g[j]
  BY <1>1
<1>5. \A j \in 1 .. Len(s) : IsKey(s, j) => \E i \in 1 .. Len(t) : j = g[i]
  <2> TAKE j \in 1 .. Len(s)
  <2> HAVE IsKey(s, j)
  <2>1. j # 1
    BY <1>1 DEF IsKey
  <2>2. j - 1 \in 1 .. Len(t) /\ (j - 1) + 1 = j
    BY <1>1, <2>1
  <2> QED
    BY <2>2
<1> HIDE DEF g
<1>6. KeysRun(t, p, q)
  BY <1>1, <1>2, <1>3, <1>4, <1>5, SameKeys
<1> QED
  BY <1>6 DEF t

\* An event that is no key, put between others, changes nothing for the keys.
LEMMA NoKeyBetween ==
    ASSUME NEW a \in Seq(Frames), NEW b \in Seq(Frames), NEW p \in Nat, NEW q \in Nat,
           NEW f \in Frames, f.k # "key", KeysRun(a \o b, p, q)
    PROVE  KeysRun(Append(a, f) \o b, p, q)
<1> DEFINE s == a \o b
           c == Append(a, f)
           t == c \o b
           g == [i \in 1 .. Len(s) |-> IF i <= Len(a) THEN i ELSE i + 1]
<1>1. /\ s \in Seq(Frames) /\ Len(s) = Len(a) + Len(b)
      /\ \A i \in 1 .. Len(s) : s[i] = IF i <= Len(a) THEN a[i] ELSE b[i - Len(a)]
      /\ Len(a) \in Nat /\ Len(b) \in Nat
  BY ConcatProperties
<1>2. /\ c \in Seq(Frames) /\ Len(c) = Len(a) + 1
      /\ \A i \in 1 .. Len(a) : c[i] = a[i]
      /\ c[Len(a) + 1] = f
  BY AppendProperties
<1> HIDE DEF c
<1>c. c \in Seq(Frames)
  BY <1>2
<1>d. /\ t \in Seq(Frames) /\ Len(t) = Len(c) + Len(b)
      /\ \A i \in 1 .. Len(c) + Len(b) : t[i] = IF i <= Len(c) THEN c[i] ELSE b[i - Len(c)]
  BY <1>c, ConcatProperties
<1> HIDE DEF t
<1>3. /\ t \in Seq(Frames) /\ Len(t) = Len(a) + 1 + Len(b)
      /\ \A i \in 1 .. Len(t) :
            t[i] = IF i <= Len(a) + 1 THEN c[i] ELSE b[i - (Len(a) + 1)]
  BY <1>1, <1>2, <1>d
<1>4. KeysRun(s, p, q)
  OBVIOUS
<1> HIDE DEF s
<1>5. g \in [1 .. Len(s) -> 1 .. Len(t)]
  BY <1>1, <1>3
<1>6. \A i \in 1 .. Len(s) : t[g[i]] = s[i]
  <2> TAKE i \in 1 .. Len(s)
  <2>1. CASE i <= Len(a)
    <3>1. g[i] = i /\ i \in 1 .. Len(t) /\ i <= Len(a) + 1 /\ i \in 1 .. Len(a)
      BY <1>1, <1>3, <2>1
    <3>2. t[i] = c[i] /\ c[i] = a[i] /\ s[i] = a[i]
      BY <1>1, <1>2, <1>3, <2>1, <3>1
    <3> QED
      BY <3>1, <3>2
  <2>2. CASE ~(i <= Len(a))
    <3>1. /\ g[i] = i + 1 /\ i + 1 \in 1 .. Len(t) /\ ~(i + 1 <= Len(a) + 1)
          /\ (i + 1) - (Len(a) + 1) = i - Len(a)
      BY <1>1, <1>3, <2>2
    <3> QED
      BY <1>1, <1>3, <2>2, <3>1
  <2> QED
    BY <2>1, <2>2
<1>7. \A i, j \in 1 .. Len(s) : i < j => g[i] < g[j]
  BY <1>1
<1>8. \A j \in 1 .. Len(t) : IsKey(t, j) => \E i \in 1 .. Len(s) : j = g[i]
  <2> TAKE j \in 1 .. Len(t)
  <2> HAVE IsKey(t, j)
  <2>1. j # Len(a) + 1
    BY <1>1, <1>2, <1>3 DEF IsKey
  <2>2. CASE j <= Len(a)
    <3>1. j \in 1 .. Len(s) /\ g[j] = j
      BY <1>1, <2>2
    <3> QED
      BY <3>1
  <2>3. CASE j > Len(a) + 1
    <3>1. j - 1 \in 1 .. Len(s) /\ ~(j - 1 <= Len(a)) /\ j = (j - 1) + 1
      BY <1>1, <1>3, <2>3
    <3> QED
      BY <3>1
  <2>4. j <= Len(a) \/ j = Len(a) + 1 \/ j > Len(a) + 1
    BY <1>1, <1>3
  <2> QED
    BY <2>1, <2>2, <2>3, <2>4
<1> HIDE DEF g
<1>9. s \in Seq(Frames) /\ t \in Seq(Frames)
  BY <1>1, <1>3
<1>10. KeysRun(s, p, q) <=> KeysRun(t, p, q)
  BY <1>5, <1>6, <1>7, <1>8, <1>9, SameKeys
<1> QED
  BY <1>4, <1>10 DEF t, c
-----------------------------------------------------------------------------
(* What goes into the shell. *)

Passed == child \o inhand \o inq      \* the keys the loop has passed on
Coming == evs \o taken \o sock        \* the frames it has not
PassedOn == {"joinPty", "waitInput", "exec"}

InputTypes == /\ typed \in Nat /\ asked \in Nat
              /\ sock \in Seq(Frames) /\ taken \in Seq(Frames) /\ evs \in Seq(Frames)
              /\ inq \in Seq(Nat) /\ inhand \in Seq(Nat) /\ child \in Seq(Nat)

\* The control reader holds a frame only between a read and its queue, and
\* reads only what is there.  From its join on it holds none, after the
\* leftovers no key waits, and unless the wait ran out none is on its way to
\* the PTY: of what execv wipes out, nothing is a key.
HandedOn == /\ rpc # "took" => taken = <<>>
            /\ rpc = "go" => sock # <<>>
            /\ pc \in PassedOn \union {"leftovers"} => rpc = "off"
            /\ pc \in PassedOn => \A i \in 1 .. Len(evs) : ~IsKey(evs, i)
            /\ pc = "exec" /\ ~gaveUp => inq = <<>> /\ inhand = <<>>

KeysFlow == Passed = UpTo(Len(Passed)) /\ KeysRun(Coming, Len(Passed) + 1, typed)

InputInv == InputTypes /\ HandedOn /\ (Up /\ ~gaveUp => KeysFlow)

LEMMA FrameSeqs ==
    /\ \A a, b \in Seq(Frames) : a \o b \in Seq(Frames)
    /\ \A a, b, c \in Seq(Frames) : (a \o b) \o c = a \o (b \o c)
    /\ \A a \in Seq(Frames) : a \o <<>> = a
    /\ <<>> \in Seq(Frames)
<1>1. \A a, b \in Seq(Frames) : a \o b \in Seq(Frames)
  BY ConcatProperties
<1>2. \A a, b, c \in Seq(Frames) : (a \o b) \o c = a \o (b \o c)
  BY ConcatAssociative
<1>3. \A a \in Seq(Frames) : a \o <<>> = a
  BY ConcatEmptySeq
<1>4. <<>> \in Seq(Frames)
  BY EmptySeq
<1> QED
  BY <1>1, <1>2, <1>3, <1>4

\* Taking the first frame of two sequences laid end to end.
LEMMA TakeFirst ==
    ASSUME NEW S, NEW a \in Seq(S), NEW b \in Seq(S), a # <<>>
    PROVE  /\ a \o b # <<>> /\ Head(a \o b) = Head(a) /\ Tail(a \o b) = Tail(a) \o b
           /\ Head(a) \in S /\ Tail(a) \in Seq(S) /\ <<Head(a)>> \o Tail(a) = a
<1>1. /\ a \o b \in Seq(S) /\ Len(a \o b) = Len(a) + Len(b)
      /\ \A i \in 1 .. Len(a) + Len(b) :
            (a \o b)[i] = IF i <= Len(a) THEN a[i] ELSE b[i - Len(a)]
      /\ Len(a) \in Nat \ {0} /\ Len(b) \in Nat
  BY ConcatProperties, EmptySeq, LenProperties
<1>2. /\ Tail(a) \in Seq(S) /\ Len(Tail(a)) = Len(a) - 1 /\ Head(a) \in S /\ Head(a) = a[1]
      /\ \A i \in 1 .. Len(Tail(a)) : Tail(a)[i] = a[i + 1]
  BY HeadTailProperties
<1> DEFINE c == a \o b
<1>3. c # <<>>
  BY <1>1
<1>4. /\ Tail(c) \in Seq(S) /\ Len(Tail(c)) = Len(c) - 1 /\ Head(c) = c[1]
      /\ \A i \in 1 .. Len(Tail(c)) : Tail(c)[i] = c[i + 1]
  BY <1>1, <1>3, HeadTailProperties
<1> DEFINE t == Tail(a)
           d == t \o b
<1>5. t \in Seq(S)
  BY <1>2
<1>6. /\ d \in Seq(S) /\ Len(d) = Len(t) + Len(b)
      /\ \A i \in 1 .. Len(t) + Len(b) : d[i] = IF i <= Len(t) THEN t[i] ELSE b[i - Len(t)]
  BY <1>5, ConcatProperties
<1>7. Head(c) = Head(a)
  BY <1>1, <1>2, <1>4
<1> HIDE DEF c, d, t
<1>8. /\ Len(t) = Len(a) - 1 /\ \A i \in 1 .. Len(t) : t[i] = a[i + 1]
      /\ Len(c) = Len(a) + Len(b)
      /\ \A i \in 1 .. Len(a) + Len(b) : c[i] = IF i <= Len(a) THEN a[i] ELSE b[i - Len(a)]
  BY <1>1, <1>2 DEF t, c
<1>9. ASSUME NEW i \in 1 .. Len(Tail(c)) PROVE Tail(c)[i] = d[i]
  <2>1. /\ i \in 1 .. Len(t) + Len(b) /\ i + 1 \in 1 .. Len(a) + Len(b)
        /\ Tail(c)[i] = c[i + 1]
        /\ i + 1 <= Len(a) <=> i <= Len(t)
        /\ (i + 1) - Len(a) = i - Len(t)
    BY <1>1, <1>4, <1>8
  <2>2. CASE i <= Len(t)
    BY <1>6, <1>8, <2>1, <2>2
  <2>3. CASE ~(i <= Len(t))
    BY <1>6, <1>8, <2>1, <2>3
  <2> QED
    BY <2>2, <2>3
<1>10. Len(Tail(c)) = Len(d)
  BY <1>1, <1>4, <1>6, <1>8
<1>11. Tail(c) = d
  BY <1>4, <1>6, <1>9, <1>10, SeqEqual
<1>12. <<Head(a)>> \o Tail(a) = a
  <2>1. 1 \in 1 .. Len(a) /\ Len(a) \in 1 .. Len(a)
    BY <1>1
  <2>2. SubSeq(a, 1, Len(a)) = <<a[1]>> \o SubSeq(a, 1 + 1, Len(a))
    BY <2>1, SubSeqRecursiveFirst
  <2> QED
    BY <1>2, <2>2, SubSeqFull, TailIsSubSeq
<1> QED
  BY <1>2, <1>3, <1>7, <1>11, <1>12 DEF c, d, t

LEMMA ChainTypes ==
    ASSUME InputTypes
    PROVE  /\ Passed \in Seq(Nat) /\ Len(Passed) \in Nat
           /\ Coming \in Seq(Frames) /\ taken \o sock \in Seq(Frames)
           /\ Coming = evs \o (taken \o sock)
<1>1. child \in Seq(Nat) /\ inhand \in Seq(Nat) /\ inq \in Seq(Nat)
  BY DEF InputTypes
<1>2. Passed \in Seq(Nat)
  BY <1>1, Joined, Zenon DEF Passed
<1>3. evs \in Seq(Frames) /\ taken \in Seq(Frames) /\ sock \in Seq(Frames)
  BY DEF InputTypes
<1>4. evs \o taken \in Seq(Frames) /\ taken \o sock \in Seq(Frames)
  BY <1>3, FrameSeqs, Zenon
<1>5. Coming \in Seq(Frames)
  BY <1>3, <1>4, FrameSeqs, Zenon DEF Coming
<1>6. Coming = evs \o (taken \o sock)
  <2>1. \A a \in Seq(Frames) : (a \o taken) \o sock = a \o (taken \o sock)
    BY <1>3, FrameSeqs
  <2> QED
    BY <1>3, <2>1 DEF Coming
<1> QED
  BY <1>2, <1>4, <1>5, <1>6, LenProperties

\* A step that leaves both chains alone.
LEMMA SameChains ==
    ASSUME KeysFlow, UNCHANGED <<Passed, Coming, typed>>
    PROVE  KeysFlow'
BY DEF KeysFlow

LEMMA SendKeepsKeys ==
    ASSUME InputTypes, NEW f \in L2Frames, L2Sends(f)
    PROVE  InputTypes' /\ sock' # <<>> /\ (KeysFlow => KeysFlow')
<1>1. f \in Frames
  BY DEF InputTypes, L2Frames, Frame, Frames, Kinds
<1>2. /\ sock' = Append(sock, f) /\ UNCHANGED <<taken, evs, inq, inhand, child>>
      /\ f.k = "key" => f.n = typed + 1
      /\ typed' = IF f.k = "key" THEN f.n ELSE typed
      /\ asked' = IF f.k = "size" THEN f.n ELSE asked
  BY DEF L2Sends, reader, input
<1>3. sock \in Seq(Frames) /\ sock' \in Seq(Frames) /\ sock' # <<>> /\ sock' = sock \o <<f>>
      /\ <<f>> \in Seq(Frames)
  BY <1>1, <1>2, AppendProperties, AppendIsConcat DEF InputTypes
<1>4. f.n \in Nat
  BY <1>1 DEF Frames
<1>5. InputTypes'
  BY <1>2, <1>3, <1>4 DEF InputTypes
<1>6. evs \o taken \in Seq(Frames)
  BY FrameSeqs DEF InputTypes
<1>7. Coming' = Append(Coming, f)
  <2>1. (evs \o taken) \o (sock \o <<f>>) = ((evs \o taken) \o sock) \o <<f>>
    BY <1>3, <1>6, FrameSeqs
  <2>2. Append(Coming, f) = Coming \o <<f>>
    BY <1>1, ChainTypes, AppendIsConcat
  <2> QED
    BY <1>2, <1>3, <2>1, <2>2 DEF Coming
<1>8. /\ Passed' = Passed /\ Len(Passed) + 1 \in Nat /\ Coming \in Seq(Frames)
      /\ typed \in Nat
  BY <1>2, ChainTypes DEF Passed, InputTypes
<1>9. ASSUME KeysFlow PROVE KeysFlow'
  <2>1. KeysRun(Coming, Len(Passed) + 1, typed) /\ Passed = UpTo(Len(Passed))
    BY <1>9 DEF KeysFlow
  <2>2. CASE f.k = "key"
    <3>1. KeysRun(Append(Coming, f), Len(Passed) + 1, typed + 1)
      BY <1>1, <1>2, <1>8, <2>1, <2>2, KeyBehind
    <3> QED
      BY <1>2, <1>7, <1>8, <2>1, <2>2, <3>1 DEF KeysFlow
  <2>3. CASE f.k # "key"
    <3>1. Coming \o <<>> = Coming /\ Append(Coming, f) \o <<>> = Append(Coming, f)
          /\ <<>> \in Seq(Frames)
      BY <1>1, <1>8, FrameSeqs, AppendProperties
    <3>2. KeysRun(Append(Coming, f) \o <<>>, Len(Passed) + 1, typed)
      BY <1>1, <1>8, <2>1, <2>3, <3>1, NoKeyBetween
    <3> QED
      BY <1>2, <1>7, <1>8, <2>1, <2>3, <3>1, <3>2 DEF KeysFlow
  <2> QED
    BY <2>2, <2>3
<1> QED
  BY <1>3, <1>5, <1>9

\* A signal and a probe's answer are queued as events that are no keys.
LEMMA EventKeepsKeys ==
    ASSUME InputTypes, NEW f \in Frames, f.k # "key", evs' = Append(evs, f),
           UNCHANGED <<typed, asked, sock, taken, inq, inhand, child>>
    PROVE  /\ InputTypes' /\ (KeysFlow => KeysFlow')
           /\ (\A i \in 1 .. Len(evs) : ~IsKey(evs, i))
                 => (\A i \in 1 .. Len(evs') : ~IsKey(evs', i))
<1>1. /\ evs \in Seq(Frames) /\ evs' \in Seq(Frames)
      /\ Len(evs') = Len(evs) + 1 /\ Len(evs) \in Nat
      /\ \A i \in 1 .. Len(evs) : evs'[i] = evs[i]
      /\ evs'[Len(evs) + 1] = f
  BY AppendProperties DEF InputTypes
<1>2. InputTypes'
  BY <1>1 DEF InputTypes
<1>3. /\ Coming = evs \o (taken \o sock) /\ taken \o sock \in Seq(Frames)
      /\ Len(Passed) + 1 \in Nat /\ typed \in Nat
  BY ChainTypes DEF InputTypes
<1>4. Coming' = evs' \o (taken \o sock) /\ Passed' = Passed
  <2>1. taken \in Seq(Frames) /\ sock \in Seq(Frames)
    BY DEF InputTypes
  <2>2. \A a \in Seq(Frames) : (a \o taken) \o sock = a \o (taken \o sock)
    BY <2>1, FrameSeqs
  <2> QED
    BY <1>1, <2>2 DEF Coming, Passed
<1>5. ASSUME KeysFlow PROVE KeysFlow'
  <2>1. KeysRun(evs \o (taken \o sock), Len(Passed) + 1, typed)
    BY <1>3, <1>5 DEF KeysFlow
  <2>2. KeysRun(Append(evs, f) \o (taken \o sock), Len(Passed) + 1, typed)
    BY <1>1, <1>3, <2>1, NoKeyBetween
  <2> QED
    BY <1>4, <1>5, <2>2 DEF KeysFlow
<1>6. ASSUME \A i \in 1 .. Len(evs) : ~IsKey(evs, i), NEW i \in 1 .. Len(evs')
      PROVE  ~IsKey(evs', i)
  BY <1>1, <1>6 DEF IsKey
<1> QED
  BY <1>2, <1>5, <1>6

\* The loop takes its first event: a key moves from one chain to the other,
\* any other event was none of them.
LEMMA TakeKeepsKeys ==
    ASSUME InputTypes, evs # <<>>, evs' = Tail(evs),
           inq' = IF Ev.k = "key" THEN Append(inq, Ev.n) ELSE inq,
           UNCHANGED <<typed, asked, sock, taken, inhand, child>>
    PROVE  InputTypes' /\ (KeysFlow => KeysFlow')
<1>1. /\ evs \in Seq(Frames) /\ evs' \in Seq(Frames) /\ Ev \in Frames /\ Ev.n \in Nat
      /\ Ev = Head(evs)
  <2>1. evs \in Seq(Frames)
    BY DEF InputTypes
  <2>2. Head(evs) \in Frames /\ Tail(evs) \in Seq(Frames)
    BY <2>1, HeadTailProperties
  <2>3. Head(evs).n \in Nat
    BY <2>2 DEF Frames
  <2> QED
    BY <2>1, <2>2, <2>3 DEF Ev
<1>2. inq \in Seq(Nat) /\ inq' \in Seq(Nat)
  BY <1>1, AppendProperties DEF InputTypes
<1>3. InputTypes'
  BY <1>1, <1>2 DEF InputTypes
<1>4. /\ Coming = evs \o (taken \o sock) /\ taken \o sock \in Seq(Frames)
      /\ Coming \in Seq(Frames) /\ Passed \in Seq(Nat)
      /\ Len(Passed) \in Nat /\ typed \in Nat
  BY ChainTypes DEF InputTypes
<1>5. Coming' = evs' \o (taken \o sock)
  <2>1. taken \in Seq(Frames) /\ sock \in Seq(Frames)
    BY DEF InputTypes
  <2>2. \A a \in Seq(Frames) : (a \o taken) \o sock = a \o (taken \o sock)
    BY <2>1, FrameSeqs
  <2> QED
    BY <1>1, <2>2 DEF Coming
<1>6. Coming # <<>> /\ Head(Coming) = Ev /\ Tail(Coming) = Coming'
  <2> DEFINE R == taken \o sock
  <2>1. R \in Seq(Frames) /\ Coming = evs \o R /\ Coming' = Tail(evs) \o R
    BY <1>4, <1>5
  <2> HIDE DEF R
  <2>2. evs \o R # <<>> /\ Head(evs \o R) = Head(evs) /\ Tail(evs \o R) = Tail(evs) \o R
    BY <1>1, <2>1, TakeFirst
  <2> QED
    BY <1>1, <2>1, <2>2
<1>7. Len(Passed) + 1 \in Nat
  BY <1>4
<1>8. ASSUME KeysFlow PROVE KeysFlow'
  <2>1. KeysRun(Coming, Len(Passed) + 1, typed) /\ Passed = UpTo(Len(Passed))
    BY <1>8 DEF KeysFlow
  <2>2. CASE Ev.k = "key"
    <3>1. Ev.n = Len(Passed) + 1 /\ KeysRun(Coming', (Len(Passed) + 1) + 1, typed)
      BY <1>4, <1>6, <1>7, <2>1, <2>2, KeyInFront
    <3> DEFINE a == child \o inhand
    <3>2. a \in Seq(Nat)
      BY Joined DEF InputTypes
    <3>3. a \o inq = UpTo(Len(Passed)) /\ Passed' = a \o inq'
      BY <2>1 DEF Passed
    <3> HIDE DEF a
    <3>4. inq' = Append(inq, Len(Passed) + 1)
      BY <2>2, <3>1
    <3>5. a \o inq' = UpTo(Len(Passed) + 1)
      <4>1. inq \in Seq(Nat) /\ Len(Passed) \in Nat
        BY <1>2, <1>4
      <4>2. a \o Append(inq, Len(Passed) + 1) = UpTo(Len(Passed) + 1)
        BY <3>2, <3>3, <4>1, OneMoreBehind
      <4> QED
        BY <3>4, <4>2
    <3>6. Len(Passed') = Len(Passed) + 1
      BY <1>4, <3>3, <3>5 DEF UpTo
    <3> QED
      BY <3>1, <3>3, <3>5, <3>6 DEF KeysFlow
  <2>3. CASE Ev.k # "key"
    <3>1. KeysRun(Coming', Len(Passed) + 1, typed)
      BY <1>4, <1>6, <1>7, <2>1, <2>3, OtherInFront
    <3>2. Passed' = Passed
      BY <2>3 DEF Passed
    <3> QED
      BY <2>1, <3>1, <3>2 DEF KeysFlow
  <2> QED
    BY <2>2, <2>3
<1> QED
  BY <1>3, <1>8

\* The control reader hands a frame on without dropping or repeating it.
LEMMA ReadKeepsKeys ==
    ASSUME InputTypes, taken = <<>>, sock # <<>>, taken' = <<Head(sock)>>, sock' = Tail(sock),
           UNCHANGED <<typed, asked, evs, inq, inhand, child>>
    PROVE  InputTypes' /\ (KeysFlow => KeysFlow')
<1>1. /\ sock \in Seq(Frames) /\ Head(sock) \in Frames /\ sock' \in Seq(Frames)
      /\ evs \in Seq(Frames) /\ taken' \in Seq(Frames)
  <2>1. sock \in Seq(Frames) /\ evs \in Seq(Frames)
    BY DEF InputTypes
  <2> QED
    BY <2>1, HeadTailProperties
<1>2. taken' \o sock' = sock
  BY <1>1, EmptySeq, TakeFirst
<1>3. (evs \o taken') \o sock' = evs \o (taken' \o sock')
  BY <1>1, FrameSeqs
<1>4. evs \o taken = evs
  BY <1>1, FrameSeqs
<1>5. Coming' = Coming /\ Passed' = Passed
  BY <1>2, <1>3, <1>4 DEF Coming, Passed
<1>6. InputTypes'
  BY <1>1 DEF InputTypes
<1> QED
  BY <1>5, <1>6, SameChains

LEMMA QueueKeepsKeys ==
    ASSUME InputTypes, evs' = evs \o taken, taken' = <<>>,
           UNCHANGED <<typed, asked, sock, inq, inhand, child>>
    PROVE  InputTypes' /\ (KeysFlow => KeysFlow')
<1>1. evs \in Seq(Frames) /\ taken \in Seq(Frames) /\ evs' \in Seq(Frames)
  BY FrameSeqs DEF InputTypes
<1>2. evs' \o taken' = evs \o taken
  BY <1>1, FrameSeqs
<1>3. Coming' = Coming /\ Passed' = Passed
  BY <1>2 DEF Coming, Passed
<1>4. InputTypes'
  BY <1>1, FrameSeqs DEF InputTypes
<1> QED
  BY <1>3, <1>4, SameChains

\* Nor does the PTY writer drop or repeat a key.
LEMMA WriterKeepsKeys ==
    ASSUME InputTypes, InputTake \/ InputWrite
    PROVE  InputTypes' /\ (KeysFlow => KeysFlow')
<1>1. child \in Seq(Nat) /\ inhand \in Seq(Nat) /\ inq \in Seq(Nat)
  BY DEF InputTypes
<1>2. UNCHANGED <<typed, asked, sock, taken, evs>>
  BY DEF InputTake, InputWrite, l2, reader
<1>3. child' \in Seq(Nat) /\ inhand' \in Seq(Nat) /\ inq' \in Seq(Nat) /\ Passed' = Passed
  <2>1. CASE InputTake
    <3>1. /\ inhand = <<>> /\ inq # <<>> /\ inhand' = <<Head(inq)>> /\ inq' = Tail(inq)
          /\ child' = child
      BY <2>1 DEF InputTake
    <3>2. Head(inq) \in Nat /\ inq' \in Seq(Nat) /\ inhand' \in Seq(Nat)
      BY <1>1, <3>1, HeadTailProperties
    <3>3. inhand' \o inq' = inq
      BY <1>1, <3>1, EmptySeq, TakeFirst
    <3>4. \A a, b \in Seq(Nat) : (child \o a) \o b = child \o (a \o b)
      BY <1>1, Regroup
    <3>5. child \o inhand = child
      BY <1>1, <3>1, NoPieces
    <3>6. Passed' = child \o inq
      BY <1>1, <3>1, <3>2, <3>3, <3>4 DEF Passed
    <3>7. Passed = child \o inq
      BY <3>5 DEF Passed
    <3> QED
      BY <1>1, <3>1, <3>2, <3>6, <3>7
  <2>2. CASE InputWrite
    <3>1. child' = child \o inhand /\ inhand' = <<>> /\ inq' = inq
      BY <2>2 DEF InputWrite
    <3>2. child' \in Seq(Nat)
      BY <1>1, <3>1, Joined
    <3>3. child' \o inhand' = child'
      BY <3>1, <3>2, NoPieces
    <3> QED
      BY <1>1, <3>1, <3>2, <3>3, NoPieces DEF Passed
  <2> QED
    BY <2>1, <2>2
<1>4. InputTypes'
  BY <1>1, <1>2, <1>3 DEF InputTypes
<1>5. Coming' = Coming
  BY <1>2 DEF Coming
<1> QED
  BY <1>2, <1>3, <1>4, <1>5, SameChains

\* execv wipes out what the loop and the writer hold: no key is among it.
LEMMA ExecKeepsKeys ==
    ASSUME InputTypes, HandedOn, ~gaveUp, Exec
    PROVE  KeysFlow => KeysFlow'
<1>1. /\ pc = "exec" /\ evs' = <<>> /\ taken' = <<>> /\ inq' = <<>> /\ inhand' = <<>>
      /\ UNCHANGED <<typed, sock, child>>
  BY DEF Exec, l2
<1>2. /\ taken = <<>> /\ inq = <<>> /\ inhand = <<>>
      /\ \A i \in 1 .. Len(evs) : ~IsKey(evs, i)
  BY <1>1 DEF HandedOn, PassedOn
<1>3. Passed' = Passed
  BY <1>1, <1>2 DEF Passed
<1>4. /\ evs \in Seq(Frames) /\ sock \in Seq(Frames) /\ typed \in Nat
      /\ Len(Passed) + 1 \in Nat
  BY ChainTypes DEF InputTypes
<1>5. Coming = evs \o sock /\ Coming' = sock
  <2>1. evs \o <<>> = evs /\ <<>> \o <<>> = <<>> /\ <<>> \o sock = sock
    BY <1>4, ConcatEmptySeq, EmptySeq
  <2> QED
    BY <1>1, <1>2, <2>1 DEF Coming
<1>6. ASSUME KeysFlow PROVE KeysFlow'
  <2>1. KeysRun(evs \o sock, Len(Passed) + 1, typed)
    BY <1>5, <1>6 DEF KeysFlow
  <2>2. KeysRun(sock, Len(Passed) + 1, typed)
    BY <1>2, <1>4, <2>1, NoKeyInFront
  <2> QED
    BY <1>1, <1>3, <1>5, <1>6, <2>2 DEF KeysFlow
<1> QED
  BY <1>6

\* What is typed reaches the shell once and in order: socket, reader, events,
\* queue, writer and PTY always hold the keys end to end, across an execv too
\* (control_reader.rs:50-56, local_session.rs:665-671).
THEOREM InputReachesShell == Spec => []InputInFlight
<1>1. Init => InputInv
  <2> SUFFICES ASSUME Init PROVE InputInv
    OBVIOUS
  <2>1. InputTypes /\ HandedOn
    BY NoPieces, FrameSeqs DEF Init, InputTypes, HandedOn, PassedOn
  <2>2. Passed = <<>> /\ Coming = <<>> /\ typed = 0
    BY NoPieces, FrameSeqs DEF Init, Passed, Coming
  <2>3. <<>> = UpTo(Len(<<>>)) /\ Len(<<>>) = 0 /\ <<>> \in Seq(Frames)
    BY FrameSeqs DEF UpTo
  <2>4. KeysRun(<<>>, 1, 0)
    BY DEF KeysRun
  <2> QED
    BY <2>1, <2>2, <2>3, <2>4 DEF InputInv, KeysFlow
<1>2. InputInv /\ [Next]_vars => InputInv'
  <2> SUFFICES ASSUME InputInv, [Next]_vars PROVE InputInv'
    OBVIOUS
  <2>a. InputTypes /\ HandedOn /\ (Up /\ ~gaveUp => KeysFlow)
    BY DEF InputInv
  <2>1. ASSUME NEW f \in L2Frames, L2Sends(f) PROVE InputInv'
    <3>1. InputTypes' /\ sock' # <<>> /\ (KeysFlow => KeysFlow')
      BY <2>1, <2>a, SendKeepsKeys
    <3>2. UNCHANGED <<rpc, taken, evs, pc, inq, inhand, gaveUp>>
      BY <2>1 DEF L2Sends, reader, loop, input
    <3> QED
      BY <2>a, <3>1, <3>2 DEF InputInv, HandedOn, Up, IsKey
  <2>2. ASSUME NEW k \in {"term", "close"}, Signal(k) PROVE InputInv'
    <3>1. /\ evs' = Append(evs, Frame(k, 0))
          /\ UNCHANGED <<typed, asked, sock, taken, inq, inhand, child, rpc, pc, gaveUp>>
      BY <2>2 DEF Signal, l2, reader, loop, input
    <3>2. Frame(k, 0) \in Frames /\ Frame(k, 0).k # "key"
      BY DEF Frame, Frames, Kinds
    <3>3. /\ InputTypes' /\ (KeysFlow => KeysFlow')
          /\ (\A i \in 1 .. Len(evs) : ~IsKey(evs, i))
                => (\A i \in 1 .. Len(evs') : ~IsKey(evs', i))
      BY <2>a, <3>1, <3>2, EventKeepsKeys
    <3> QED
      BY <2>a, <3>1, <3>3 DEF InputInv, HandedOn, Up
  <2>3. CASE ProbeAnswers
    <3> DEFINE f == Frame("probe", IF staged = "bad" THEN 0 ELSE 1)
    <3>1. /\ evs' = Append(evs, f)
          /\ UNCHANGED <<typed, asked, sock, taken, inq, inhand, child, rpc, pc, gaveUp>>
      BY <2>3 DEF ProbeAnswers, l2, reader, loop, input
    <3>2. f \in Frames /\ f.k # "key"
      BY DEF Frame, Frames, Kinds
    <3> HIDE DEF f
    <3>3. /\ InputTypes' /\ (KeysFlow => KeysFlow')
          /\ (\A i \in 1 .. Len(evs) : ~IsKey(evs, i))
                => (\A i \in 1 .. Len(evs') : ~IsKey(evs', i))
      BY <2>a, <3>1, <3>2, EventKeepsKeys
    <3> QED
      BY <2>a, <3>1, <3>3 DEF InputInv, HandedOn, Up
  <2>4. CASE ControlRead
    <3>1. /\ Up /\ rpc = "go" /\ rpc' = "took"
          /\ taken' = <<Head(sock)>> /\ sock' = Tail(sock)
          /\ UNCHANGED <<typed, asked, evs, inq, inhand, child, pc, gaveUp>>
      BY <2>4 DEF ControlRead, loop, input
    <3>2. taken = <<>> /\ sock # <<>> /\ pc \notin PassedOn \union {"leftovers"}
      BY <2>a, <3>1 DEF HandedOn
    <3>3. InputTypes' /\ (KeysFlow => KeysFlow')
      BY <2>a, <3>1, <3>2, ReadKeepsKeys
    <3> QED
      BY <2>a, <3>1, <3>2, <3>3 DEF InputInv, HandedOn, PassedOn, Up
  <2>5. CASE ControlQueue
    <3>1. /\ Up /\ rpc = "took" /\ rpc' = "poll"
          /\ evs' = evs \o taken /\ taken' = <<>>
          /\ UNCHANGED <<typed, asked, sock, inq, inhand, child, pc, gaveUp>>
      BY <2>5 DEF ControlQueue, l2, loop, input
    <3>2. pc \notin PassedOn \union {"leftovers"}
      BY <2>a, <3>1 DEF HandedOn
    <3>3. InputTypes' /\ (KeysFlow => KeysFlow')
      BY <2>a, <3>1, QueueKeepsKeys
    <3> QED
      BY <2>a, <3>1, <3>2, <3>3 DEF InputInv, HandedOn, PassedOn, Up
  <2>6. CASE InputTake \/ InputWrite
    <3>1. /\ Up /\ UNCHANGED <<sock, rpc, taken, evs, pc, gaveUp>>
          /\ ~(inq = <<>> /\ inhand = <<>>)
      BY <2>6 DEF InputTake, InputWrite, l2, reader, loop
    <3>2. InputTypes' /\ (KeysFlow => KeysFlow')
      BY <2>6, <2>a, WriterKeepsKeys
    <3> QED
      BY <2>a, <3>1, <3>2 DEF InputInv, HandedOn, Up, IsKey
  <2>7. CASE HandleKey \/ Leftover
    <3>1. /\ pc \in {"events", "leftovers"} /\ evs # <<>> /\ evs' = Tail(evs)
          /\ inq' = IF Ev.k = "key" THEN Append(inq, Ev.n) ELSE inq
          /\ UNCHANGED <<typed, asked, sock, taken, rpc, inhand, child, pc, gaveUp>>
      BY <2>7 DEF HandleKey, Leftover, Handling, l2, reader, loop
    <3>2. InputTypes' /\ (KeysFlow => KeysFlow')
      BY <2>a, <3>1, TakeKeepsKeys
    <3> QED
      BY <2>a, <3>1, <3>2 DEF InputInv, HandedOn, PassedOn, Up
  <2>8. CASE \/ HandleSize \/ HandleHold \/ HandleUpdate("term") \/ HandleUpdate("update")
             \/ HandleClose \/ HandleProbe
    <3>1. /\ pc = "events" /\ evs # <<>> /\ evs' = Tail(evs) /\ Ev.k # "key"
          /\ UNCHANGED <<typed, asked, sock, taken, rpc, inq, inhand, child, pc, gaveUp>>
      BY <2>8 DEF HandleSize, HandleHold, HandleUpdate, HandleClose, HandleProbe, Handling,
         l2, reader, input
    <3>2. InputTypes' /\ (KeysFlow => KeysFlow')
      BY <2>a, <3>1, TakeKeepsKeys
    <3> QED
      BY <2>a, <3>1, <3>2 DEF InputInv, HandedOn, PassedOn, Up
  <2>9. CASE Exec
    <3>1. /\ pc = "exec" /\ pc' \in {"lost", "events"} /\ gaveUp' = gaveUp
          /\ evs' = <<>> /\ taken' = <<>> /\ inq' = <<>> /\ inhand' = <<>> /\ rpc' = "poll"
          /\ UNCHANGED <<typed, asked, sock, child>>
      BY <2>9 DEF Exec, l2
    <3>2. ~gaveUp => (KeysFlow => KeysFlow')
      BY <2>9, <2>a, ExecKeepsKeys
    <3>3. InputTypes'
      BY <2>a, <3>1, NoPieces, FrameSeqs DEF InputTypes
    <3> QED
      BY <2>a, <3>1, <3>2, <3>3 DEF InputInv, HandedOn, PassedOn, Up
  <2>b. ASSUME UNCHANGED <<typed, asked, sock, taken, evs, inq, inhand, child>>,
               HandedOn', (Up /\ ~gaveUp)' => Up /\ ~gaveUp
        PROVE  InputInv'
    <3>1. Passed' = Passed /\ Coming' = Coming /\ InputTypes'
      BY <2>a, <2>b DEF Passed, Coming, InputTypes
    <3> QED
      BY <2>a, <2>b, <3>1, SameChains DEF InputInv
  <2>10. CASE ControlPoll
    <3>1. /\ UNCHANGED <<typed, asked, sock, taken, evs, inq, inhand, child, pc, gaveUp>>
          /\ rpc = "poll" /\ rpc' \in {"off", "go"} /\ (rpc' = "go" => sock # <<>>)
      BY <2>10 DEF ControlPoll, l2, loop, input
    <3>2. HandedOn'
      BY <2>a, <3>1 DEF HandedOn, IsKey
    <3> QED
      BY <2>b, <3>1, <3>2 DEF Up
  <2>11. CASE \/ ShellPrints \/ \E b \in Staged : Stage(b)
              \/ PtyPoll \/ PtyRead \/ PtyQueue \/ LogWrite \/ UNCHANGED vars
    <3>1. UNCHANGED <<typed, asked, sock, rpc, taken, evs, inq, inhand, child, pc, gaveUp>>
      BY <2>11 DEF ShellPrints, Stage, PtyPoll, PtyRead, PtyQueue, LogWrite, vars,
         l2, reader, loop, input
    <3>2. HandedOn'
      BY <2>a, <3>1 DEF HandedOn, IsKey
    <3> QED
      BY <2>b, <3>1, <3>2 DEF Up
  <2>12. CASE \/ EndBatch \/ Turn \/ LastTurn \/ StopControl \/ JoinControl \/ StopPty
              \/ JoinPty \/ ExecFails
    <3>1. /\ UNCHANGED <<typed, asked, sock, rpc, taken, evs, inq, inhand, child, gaveUp>>
          /\ pc' # "exec" /\ Up
          /\ pc' = "leftovers" => rpc = "off"
          /\ pc' \in PassedOn => /\ pc \in PassedOn \union {"leftovers"}
                                 /\ pc \in PassedOn \/ evs = <<>>
      BY <2>12 DEF EndBatch, Turn, LastTurn, StopControl, JoinControl, StopPty, JoinPty,
         ExecFails, Goto, PassedOn, l2, reader, input, Up
    <3>2. HandedOn'
      BY <2>a, <3>1 DEF HandedOn, IsKey, PassedOn
    <3> QED
      BY <2>b, <3>1, <3>2
  <2>13. CASE WaitInput
    <3>1. /\ UNCHANGED <<typed, asked, sock, rpc, taken, evs, inq, inhand, child>>
          /\ pc = "waitInput" /\ pc' = "exec"
          /\ gaveUp' = (gaveUp \/ inq # <<>> \/ inhand # <<>>)
      BY <2>13 DEF WaitInput, Goto, l2, reader, input
    <3>2. HandedOn'
      BY <2>a, <3>1 DEF HandedOn, IsKey, PassedOn
    <3> QED
      BY <2>b, <3>1, <3>2 DEF Up
  <2> QED
    BY <2>1, <2>2, <2>3, <2>4, <2>5, <2>6, <2>7, <2>8, <2>9, <2>10, <2>11, <2>12, <2>13
       DEF Next, World, Readers, Writers, Loop
<1>3. InputInv => InputInFlight
  BY DEF InputInv, KeysFlow, Passed, Coming, InputInFlight
<1> QED
  BY <1>1, <1>2, <1>3, PTL DEF Spec
=============================================================================
