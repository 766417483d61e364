---------------------------- MODULE PeerBusProofs ----------------------------
(***************************************************************************)
(* The peer bus of PeerBus, for any panes, threads and peers, any number   *)
(* of frames, changes and mishaps and a queue of any length: a frame is    *)
(* handed to the thread it was sent to, no subscription outlives its       *)
(* binding, no pane that shows a loaded thread is left without an inbox,   *)
(* nobody waits for a notice that will not come, and no notice goes out    *)
(* that the thread has not earned.                                         *)
(***************************************************************************)
EXTENDS PeerBus, SequenceTheorems, TLAPS

-----------------------------------------------------------------------------
(* What a step may make of the queue of events.                            *)

ByMail == {"mail", "told"}
NoteOps == {"status", "turn", "threads", "want", "ask"}

Sequence(s) == s \in Seq(Range(s)) /\ \A i \in 1 .. Len(s) : "op" \in DOMAIN s[i]
IsNotes(s)  == Sequence(s) /\ \A i \in 1 .. Len(s) : s[i].op \in NoteOps

\* `t` holds what was in `s` from the k-th event on, in its places, and notes.
Alike(f, g) == f.op = g.op /\ (f.op \in ByMail => f = g)
Carried(s, t, k) ==
    /\ Sequence(t)
    /\ \A i \in 1 .. Len(t) : \/ i + k \in 1 .. Len(s) /\ Alike(s[i + k], t[i])
                              \/ t[i].op \in NoteOps

LEMMA Joined ==
    ASSUME NEW s, Sequence(s), NEW t, Sequence(t)
    PROVE  /\ Sequence(s \o t) /\ Len(s) \in Nat /\ Len(t) \in Nat
           /\ Len(s \o t) = Len(s) + Len(t)
           /\ \A i \in 1 .. Len(s) : (s \o t)[i] = s[i]
           /\ \A i \in 1 .. Len(s \o t) :
                 i \notin 1 .. Len(s) => i - Len(s) \in 1 .. Len(t) /\ (s \o t)[i] = t[i - Len(s)]
<1> DEFINE S == Range(s) \cup Range(t)
           j == s \o t
<1>1. s \in Seq(S) /\ t \in Seq(S)
  BY SeqMonotonic DEF Sequence
<1>2. /\ j \in Seq(S) /\ Len(j) = Len(s) + Len(t) /\ Len(s) \in Nat /\ Len(t) \in Nat
      /\ \A i \in 1 .. Len(j) : j[i] = IF i <= Len(s) THEN s[i] ELSE t[i - Len(s)]
  BY <1>1, ConcatProperties, LenProperties
<1>3. j \in Seq(Range(j))
  BY <1>2, SeqOfRange
<1> HIDE DEF j
<1>4. \A i \in 1 .. Len(s) : i \in 1 .. Len(j) /\ j[i] = s[i]
  BY <1>2
<1>5. \A i \in 1 .. Len(j) : i \notin 1 .. Len(s) => i - Len(s) \in 1 .. Len(t) /\ j[i] = t[i - Len(s)]
  BY <1>2
<1>6. \A i \in 1 .. Len(j) : "op" \in DOMAIN j[i]
  BY <1>4, <1>5 DEF Sequence
<1>7. Sequence(j)
  BY <1>3, <1>6 DEF Sequence
<1> QED
  BY <1>2, <1>4, <1>5, <1>7 DEF j

LEMMA One ==
    ASSUME NEW x, "op" \in DOMAIN x
    PROVE  Sequence(<<x>>) /\ Len(<<x>>) = 1 /\ <<x>>[1] = x
<1>1. <<x>> \in Seq({x}) /\ Len(<<x>>) = 1 /\ <<x>>[1] = x
  OBVIOUS
<1>2. <<x>> \in Seq(Range(<<x>>))
  BY <1>1, SeqOfRange
<1> QED
  BY <1>1, <1>2 DEF Sequence

LEMMA NoNotes == IsNotes(<<>>)
<1>1. <<>> \in Seq(Range(<<>>)) /\ Len(<<>>) = 0
  BY EmptySeq
<1> QED
  BY <1>1 DEF IsNotes, Sequence

LEMMA OneNote ==
    ASSUME NEW x, "op" \in DOMAIN x, x.op \in NoteOps
    PROVE  IsNotes(<<x>>)
BY One DEF IsNotes

LEMMA MoreNotes ==
    ASSUME NEW s, NEW t, IsNotes(s), IsNotes(t)
    PROVE  IsNotes(s \o t)
<1>1. /\ Sequence(s \o t)
      /\ \A i \in 1 .. Len(s) : (s \o t)[i] = s[i]
      /\ \A i \in 1 .. Len(s \o t) :
            i \notin 1 .. Len(s) => i - Len(s) \in 1 .. Len(t) /\ (s \o t)[i] = t[i - Len(s)]
  BY Joined DEF IsNotes
<1> QED
  BY <1>1 DEF IsNotes

LEMMA CarriedOn ==
    ASSUME NEW s, NEW t, NEW n, NEW k \in {0, 1}, Carried(s, t, k), IsNotes(n)
    PROVE  Carried(s, t \o n, k)
<1>1. Sequence(t) /\ Sequence(n)
  BY DEF Carried, IsNotes
<1>2. /\ Sequence(t \o n)
      /\ \A i \in 1 .. Len(t) : (t \o n)[i] = t[i]
      /\ \A i \in 1 .. Len(t \o n) :
            i \notin 1 .. Len(t) => i - Len(t) \in 1 .. Len(n) /\ (t \o n)[i] = n[i - Len(t)]
  BY <1>1, Joined
<1> QED
  BY <1>2 DEF Carried, IsNotes

LEMMA AllCarried ==
    ASSUME NEW s, Sequence(s)
    PROVE  Carried(s, s, 0)
<1>1. Len(s) \in Nat
  BY LenProperties DEF Sequence
<1> QED
  BY <1>1 DEF Carried, Alike

LEMMA RestCarried ==
    ASSUME NEW s, Sequence(s), s # <<>>
    PROVE  /\ Carried(s, Tail(s), 1) /\ Head(s) = s[1] /\ 1 \in 1 .. Len(s)
<1>1. s \in Seq(Range(s))
  BY DEF Sequence
<1>2. /\ Tail(s) \in Seq(Range(s)) /\ Len(Tail(s)) = Len(s) - 1 /\ Len(s) \in Nat \ {0}
      /\ \A i \in 1 .. Len(Tail(s)) : Tail(s)[i] = s[i + 1]
      /\ Head(s) = s[1]
  BY <1>1, HeadTailProperties, EmptySeq
<1>3. Tail(s) \in Seq(Range(Tail(s)))
  BY <1>2, SeqOfRange
<1>4. \A i \in 1 .. Len(Tail(s)) : i + 1 \in 1 .. Len(s)
  BY <1>2
<1> QED
  BY <1>2, <1>3, <1>4 DEF Carried, Alike, Sequence

-----------------------------------------------------------------------------
(* The invariant.                                                          *)

Fields(b) == {"key", "thread", "subscribed"} \subseteq DOMAIN b /\ b.subscribed \in BOOLEAN

Shape == /\ Sequence(evs)
         /\ bound = [p \in Panes |-> bound[p]]
         /\ \A p \in Bound : Fields(bound[p])
         /\ todo = [drop |-> todo.drop, join |-> todo.join]
         /\ {conn, link, sure} \subseteq BOOLEAN

\* No two bindings have one key, and keys come from below nextKey.
Keys == /\ nextKey \in Nat \ {0}
        /\ \A p \in Bound : bound[p].key \in 1 .. nextKey - 1
        /\ \A p, q \in Bound : bound[p].key = bound[q].key => p = q

\* A frame on its way names an inbox that is open for the thread it was sent
\* to, or that will never open again.
Meant(f) == /\ f.key \in 1 .. nextKey - 1
            /\ \A p \in Bound : bound[p].key = f.key => bound[p].thread = f.for
Addressed == \A i \in 1 .. Len(evs) : evs[i].op \in ByMail => Meant(evs[i])

Delivered == astray = {}

\* The end of a connection is known to the worker until it is handled, once.
IsClosed(i) == evs[i].op = "closed"
Linked == /\ link => conn
          /\ ~link => heard = {}
          /\ \A i \in 1 .. Len(evs) : IsClosed(i) => conn /\ ~link
          /\ \A i, j \in 1 .. Len(evs) : IsClosed(i) /\ IsClosed(j) => i = j

Follows == {bound[p].thread : p \in {q \in Bound : bound[q].subscribed}}
Heard == sure => heard \subseteq Follows

\* What is to be bound is not bound, or will be unbound first.
Fits(work) == /\ \A j \in work.join : j.pane \in Panes /\ (j.pane \in Bound => j.pane \in work.drop)
              /\ \A j, k \in work.join : j.pane = k.pane => j = k
Todo == Fits(todo)

BusInv == Shape /\ Keys /\ Addressed /\ Delivered /\ Linked /\ Heard /\ Todo

-----------------------------------------------------------------------------
(* What a step makes of the bindings, if it opens none, of the connection  *)
(* and of what is left to do.                                              *)

Kept == /\ bound' = [p \in Panes |-> bound'[p]]
        /\ \A p \in Panes :
              bound'[p].key # 0 => /\ Fields(bound'[p])
                                   /\ bound'[p].key = bound[p].key
                                   /\ bound'[p].thread = bound[p].thread

\* No subscription is given up.
StillFollows == \A p \in Bound : bound[p].subscribed => bound'[p].key # 0 /\ bound'[p].subscribed

\* A call that reached the daemon (`x`), or that did not.
Calls(x) == /\ x \in BOOLEAN /\ (x /\ conn => link)
            /\ conn' = (conn \/ x) /\ link' = (link \/ x)

LEMMA MailKept ==
    ASSUME Shape, Keys, Addressed, NEW k \in {0, 1}, Carried(evs, evs', k), Kept, UNCHANGED nextKey
    PROVE  Keys' /\ Addressed'
<1>1. \A p \in Bound' : p \in Bound /\ bound'[p].key = bound[p].key /\ bound'[p].thread = bound[p].thread
  BY DEF Kept, Bound
<1>2. Keys'
  BY <1>1 DEF Keys
<1>3. ASSUME NEW i \in 1 .. Len(evs'), evs'[i].op \in ByMail PROVE Meant(evs[i])'
  <2>1. i + k \in 1 .. Len(evs) /\ Alike(evs[i + k], evs'[i])
    BY <1>3 DEF Carried, ByMail, NoteOps
  <2>2. evs'[i] = evs[i + k] /\ Meant(evs[i + k])
    BY <1>3, <2>1 DEF Alike, Addressed
  <2> QED
    BY <1>1, <2>2 DEF Meant
<1> QED
  BY <1>2, <1>3 DEF Addressed, Meant

LEMMA LinkKept ==
    ASSUME Shape, Linked, NEW k \in {0, 1}, Carried(evs, evs', k), NEW x, Calls(x),
           ~x => heard' \subseteq heard
    PROVE  Linked'
<1>1. \A i \in 1 .. Len(evs') : IsClosed(i)' => i + k \in 1 .. Len(evs) /\ IsClosed(i + k)
  BY DEF Carried, Alike, IsClosed, NoteOps
<1>2. \A i \in 1 .. Len(evs') : IsClosed(i)' => conn' /\ ~link'
  BY <1>1 DEF Linked, Calls
<1>3. ASSUME NEW i \in 1 .. Len(evs'), NEW j \in 1 .. Len(evs'), IsClosed(i)', IsClosed(j)'
      PROVE  i = j
  <2>1. i + k = j + k
    BY <1>1, <1>3 DEF Linked
  <2> QED
    BY <2>1
<1>4. (link' => conn') /\ (~link' => heard' = {})
  BY DEF Linked, Calls
<1> QED
  BY <1>2, <1>3, <1>4 DEF Linked, IsClosed

LEMMA TodoKept ==
    ASSUME Kept, Fits(todo')
    PROVE  Todo'
BY DEF Kept, Todo, Fits, Bound

LEMMA HeardKept ==
    ASSUME Shape, Heard, Kept, StillFollows, UNCHANGED <<heard, sure>>
    PROVE  Heard'
<1>1. ASSUME NEW t \in Follows PROVE t \in Follows'
  <2>1. PICK p \in Bound : bound[p].subscribed /\ t = bound[p].thread
    BY DEF Follows
  <2>2. p \in Bound' /\ bound'[p].subscribed /\ bound'[p].thread = t
    BY <2>1 DEF Kept, StillFollows, Bound
  <2> QED
    BY <2>2 DEF Follows
<1> QED
  BY <1>1 DEF Heard

\* A step that binds nothing and hears of nothing but notes keeps the invariant,
\* when its subscriptions, and what it leaves to do, are right.
LEMMA StepKept ==
    ASSUME BusInv, NEW k \in {0, 1}, Carried(evs, evs', k), Kept, NEW x, Calls(x),
           UNCHANGED <<nextKey, astray>>, ~x => heard' \subseteq heard, sure' \in BOOLEAN, Heard',
           todo' = [drop |-> todo'.drop, join |-> todo'.join], Todo'
    PROVE  BusInv'
<1>1. Shape'
  BY DEF BusInv, Shape, Kept, Carried, Bound, Calls
<1>2. Keys' /\ Addressed'
  BY MailKept DEF BusInv
<1>3. Linked'
  BY LinkKept DEF BusInv
<1> QED
  BY <1>1, <1>2, <1>3 DEF BusInv, Delivered

LEMMA BusKept ==
    ASSUME BusInv, NEW k \in {0, 1}, Carried(evs, evs', k), Kept, NEW x, Calls(x),
           UNCHANGED <<nextKey, astray>>, ~x => heard' \subseteq heard, sure' \in BOOLEAN, Heard',
           todo' = [drop |-> todo'.drop, join |-> todo'.join], Fits(todo')
    PROVE  BusInv'
BY StepKept, TodoKept

\* The same, if it asks for nothing.
LEMMA CalmKept ==
    ASSUME BusInv, NEW k \in {0, 1}, Carried(evs, evs', k), Kept, StillFollows,
           UNCHANGED <<nextKey, astray, heard, sure, todo, conn, link>>
    PROVE  BusInv'
<1>1. Calls(FALSE) /\ sure' \in BOOLEAN
  BY DEF BusInv, Shape, Calls
<1>2. Heard'
  BY HeardKept DEF BusInv
<1>3. todo' = [drop |-> todo'.drop, join |-> todo'.join] /\ Fits(todo')
  BY DEF BusInv, Shape, Todo
<1> QED
  BY <1>1, <1>2, <1>3, BusKept

LEMMA BoundSame ==
    ASSUME Shape, UNCHANGED bound
    PROVE  Kept /\ StillFollows
BY DEF Shape, Kept, StillFollows, Bound

\* Bindings are changed, and not in what they are.
LEMMA OneChanged ==
    ASSUME Shape, NEW p \in Bound, NEW b, bound' = [bound EXCEPT ![p] = b],
           Fields(b), b.key = bound[p].key, b.thread = bound[p].thread
    PROVE  /\ Kept
           /\ (bound[p].subscribed => b.subscribed) => StillFollows
BY DEF Shape, Kept, StillFollows, Bound

LEMMA AllChanged ==
    ASSUME Shape, bound' = [p \in Panes |-> bound'[p]],
           \A p \in Panes : \/ bound'[p] = bound[p]
                            \/ /\ Fields(bound'[p])
                               /\ bound'[p].key = bound[p].key
                               /\ bound'[p].thread = bound[p].thread
                               /\ bound'[p].subscribed = bound[p].subscribed
    PROVE  Kept /\ StillFollows
BY DEF Shape, Kept, StillFollows, Bound

-----------------------------------------------------------------------------
(* Codex and its daemon.                                                   *)

LEMMA NotesAreNotes ==
    /\ \A t : IsNotes(<<Busy(t)>>) /\ IsNotes(<<Idle(t)>>) /\ IsNotes(Completed(t))
    /\ \A t, n : IsNotes(Started(t, n))
    /\ IsNotes(<<Reload>>)
<1>1. \A t : IsNotes(<<Busy(t)>>)
  <2> TAKE t
  <2> DEFINE x == Busy(t)
  <2>1. "op" \in DOMAIN x /\ x.op \in NoteOps
    BY DEF Busy, NoteOps
  <2> QED
    BY <2>1, OneNote
<1>2. \A t : IsNotes(<<Idle(t)>>)
  <2> TAKE t
  <2> DEFINE x == Idle(t)
  <2>1. "op" \in DOMAIN x /\ x.op \in NoteOps
    BY DEF Idle, NoteOps
  <2> QED
    BY <2>1, OneNote
<1>3. \A t, n : IsNotes(TurnNote(t, [op |-> "turn", thread |-> t, turn |-> n]))
  <2> TAKE t, n
  <2> DEFINE x == [op |-> "turn", thread |-> t, turn |-> n]
  <2>1. "op" \in DOMAIN x /\ x.op \in NoteOps
    BY DEF NoteOps
  <2>2. IsNotes(<<x>>)
    BY <2>1, OneNote
  <2> QED
    BY <2>2, NoNotes DEF TurnNote
<1>4. IsNotes(<<Reload>>)
  <2> DEFINE x == Reload
  <2>1. "op" \in DOMAIN x /\ x.op \in NoteOps
    BY DEF Reload, NoteOps
  <2> QED
    BY <2>1, OneNote
<1> QED
  BY <1>1, <1>2, <1>3, <1>4 DEF Started, Completed

LEMMA Noted ==
    ASSUME Shape, NEW es, IsNotes(es), evs' = Note(es)
    PROVE  Carried(evs, evs', 0)
<1>1. Carried(evs, evs, 0)
  BY AllCarried DEF Shape
<1>2. Carried(evs, evs \o es, 0)
  BY <1>1, CarriedOn
<1> QED
  BY <1>1, <1>2 DEF Note

LEMMA RestCarries ==
    ASSUME Shape, NEW t
    PROVE  Carried(evs, RestedAsks(t), 0)
<1> DEFINE r == RestedAsks(t)
           S == {r[i] : i \in 1 .. Len(evs)}
<1>1. Len(evs) \in Nat /\ DOMAIN evs = 1 .. Len(evs)
  BY LenProperties DEF Shape, Sequence
<1>2. r \in [1 .. Len(evs) -> S]
  BY <1>1 DEF RestedAsks
<1>3. r \in Seq(S) /\ Len(r) = Len(evs)
  BY <1>1, <1>2
<1>4. r \in Seq(Range(r))
  BY <1>3, SeqOfRange
<1>5. ASSUME NEW i \in 1 .. Len(evs) PROVE "op" \in DOMAIN r[i] /\ Alike(evs[i], r[i])
  <2>1. "op" \in DOMAIN evs[i]
    BY DEF Shape, Sequence
  <2>2. r[i] = IF AskOf(evs[i], t) THEN [evs[i] EXCEPT !.idled = TRUE] ELSE evs[i]
    BY <1>1 DEF RestedAsks
  <2>3. AskOf(evs[i], t) => evs[i].op = "ask"
    BY DEF AskOf
  <2> QED
    BY <2>1, <2>2, <2>3 DEF Alike, ByMail
<1> HIDE DEF r
<1>6. \A i \in 1 .. Len(r) : i + 0 \in 1 .. Len(evs) /\ i + 0 = i
  BY <1>1, <1>3
<1>7. Carried(evs, r, 0)
  BY <1>3, <1>4, <1>5, <1>6 DEF Carried, Sequence
<1> QED
  BY <1>7 DEF r

LEMMA TurnEndKeeps ==
    ASSUME BusInv, NEW t \in Threads, TurnEnds(t)
    PROVE  BusInv'
<1>1. UNCHANGED <<nextKey, astray, heard, sure, todo, conn, link>>
  BY DEF TurnEnds, daemon, ghosts
<1>s. Shape
  BY DEF BusInv
<1>2. CASE evs' = Note(Completed(t) \o Started(t, began + 1)) /\ UNCHANGED bound
  <2>1. IsNotes(Completed(t) \o Started(t, began + 1))
    BY NotesAreNotes, MoreNotes
  <2>2. Carried(evs, evs', 0)
    BY <1>s, <1>2, <2>1, Noted
  <2> QED
    BY <1>1, <1>2, <1>s, <2>2, BoundSame, CalmKept
<1>3. CASE /\ evs' = RestedAsks(t) \o (IF link THEN Completed(t) \o <<Idle(t)>> ELSE <<>>)
           /\ bound' = Rested(t)
  <2>1. IsNotes(IF link THEN Completed(t) \o <<Idle(t)>> ELSE <<>>)
    BY NotesAreNotes, MoreNotes, NoNotes
  <2>2. Carried(evs, evs', 0)
    BY <1>s, <1>3, <2>1, RestCarries, CarriedOn
  <2>3. bound' = [p \in Panes |-> bound'[p]]
    BY <1>3 DEF Rested
  <2>4. ASSUME NEW p \in Panes
        PROVE  \/ bound'[p] = bound[p]
               \/ /\ Fields(bound'[p])
                  /\ bound'[p].key = bound[p].key
                  /\ bound'[p].thread = bound[p].thread
                  /\ bound'[p].subscribed = bound[p].subscribed
    <3>1. CASE p \in BoundTo(t)
      <4>1. Fields(bound[p])
        BY <1>s, <3>1 DEF Shape, BoundTo
      <4>2. PICK u : bound'[p] = [bound[p] EXCEPT !.subs = u]
        BY <1>3, <3>1 DEF Rested
      <4> QED
        BY <4>1, <4>2 DEF Fields
    <3>2. CASE p \notin BoundTo(t)
      BY <1>3, <3>2 DEF Rested
    <3> QED
      BY <3>1, <3>2
  <2>5. Kept /\ StillFollows
    BY <1>s, <2>3, <2>4, AllChanged
  <2> QED
    BY <1>1, <2>2, <2>5, CalmKept
<1> QED
  BY <1>2, <1>3 DEF TurnEnds

LEMMA Put ==
    ASSUME Shape, NEW x, "op" \in DOMAIN x, evs' = Append(evs, x)
    PROVE  /\ Sequence(evs') /\ Len(evs) \in Nat /\ Len(evs') = Len(evs) + 1
           /\ \A i \in 1 .. Len(evs') : \/ i \in 1 .. Len(evs) /\ evs'[i] = evs[i]
                                        \/ i = Len(evs) + 1 /\ evs'[i] = x
<1> DEFINE S == Range(evs) \cup {x}
           t == Append(evs, x)
<1>1. evs \in Seq(S) /\ x \in S
  BY SeqMonotonic DEF Shape, Sequence
<1>2. /\ t \in Seq(S) /\ Len(t) = Len(evs) + 1 /\ Len(evs) \in Nat
      /\ \A i \in 1 .. Len(evs) : t[i] = evs[i]
      /\ t[Len(evs) + 1] = x
  BY <1>1, AppendProperties, LenProperties
<1>3. t \in Seq(Range(t))
  BY <1>2, SeqOfRange
<1> HIDE DEF t
<1>4. \A i \in 1 .. Len(t) : i \in 1 .. Len(evs) \/ i = Len(evs) + 1
  BY <1>2
<1>5. \A i \in 1 .. Len(t) : \/ i \in 1 .. Len(evs) /\ t[i] = evs[i]
                             \/ i = Len(evs) + 1 /\ t[i] = x
  BY <1>2, <1>4
<1>6. Sequence(t)
  BY <1>3, <1>5 DEF Sequence, Shape
<1> QED
  BY <1>2, <1>5, <1>6 DEF t

\* The connection breaks: nothing is subscribed any more, and the worker will
\* hear of it.
LEMMA BreakKeeps ==
    ASSUME BusInv, NEW dies \in BOOLEAN, Breaks(dies)
    PROVE  BusInv'
<1> DEFINE x == [op |-> "closed"]
<1>1. /\ link /\ link' = FALSE /\ heard' = {} /\ sure' = TRUE
      /\ evs' = Append(evs, x) /\ bound' = Unfollowed
      /\ UNCHANGED <<conn, todo, nextKey, astray>>
  BY DEF Breaks
<1>2. "op" \in DOMAIN x /\ x.op = "closed"
  OBVIOUS
<1> HIDE DEF x
<1>s. Shape
  BY DEF BusInv
<1>3. /\ Sequence(evs') /\ Len(evs) \in Nat /\ Len(evs') = Len(evs) + 1
      /\ \A i \in 1 .. Len(evs') : \/ i \in 1 .. Len(evs) /\ evs'[i] = evs[i]
                                   \/ i = Len(evs) + 1 /\ evs'[i] = x
  BY <1>1, <1>2, <1>s, Put
<1>4. ASSUME NEW p \in Panes
      PROVE  /\ bound'[p].key # 0 => /\ Fields(bound'[p])
                                     /\ bound'[p].key = bound[p].key
                                     /\ bound'[p].thread = bound[p].thread
  <2>1. CASE p \in Bound
    <3>1. Fields(bound[p])
      BY <1>s, <2>1 DEF Shape
    <3>2. bound'[p] = [bound[p] EXCEPT !.followed = FALSE]
      BY <1>1, <2>1 DEF Unfollowed
    <3> QED
      BY <3>1, <3>2 DEF Fields
  <2>2. CASE p \notin Bound
    BY <1>1, <2>2 DEF Unfollowed, NoBinding
  <2> QED
    BY <2>1, <2>2
<1>5. Kept
  BY <1>1, <1>4 DEF Kept, Unfollowed
<1>6. \A p \in Bound' : p \in Bound /\ bound'[p].key = bound[p].key /\ bound'[p].thread = bound[p].thread
  BY <1>5 DEF Kept, Bound
<1>7. Shape'
  BY <1>1, <1>3, <1>5, <1>s DEF Shape, Kept, Bound
<1>8. Keys' /\ Addressed'
  BY <1>1, <1>2, <1>3, <1>6 DEF BusInv, Keys, Addressed, Meant, ByMail
<1>9. \A i \in 1 .. Len(evs) : ~IsClosed(i)
  BY <1>1 DEF BusInv, Linked
<1>10. \A i \in 1 .. Len(evs') : IsClosed(i)' => i = Len(evs) + 1
  BY <1>3, <1>9 DEF IsClosed
<1>11. Linked'
  BY <1>1, <1>10, <1>s DEF BusInv, Linked, Shape
<1>12. Heard' /\ Delivered'
  BY <1>1 DEF Heard, Delivered, BusInv
<1>13. Todo'
  BY <1>1, <1>5, TodoKept DEF BusInv, Todo
<1> QED
  BY <1>7, <1>8, <1>11, <1>12, <1>13 DEF BusInv

\* A peer's frame names the inbox it was read from and the thread behind it.
LEMMA SendKeeps ==
    ASSUME BusInv, NEW p \in Panes, Send(p)
    PROVE  BusInv'
<1>1. PICK f \in Frames(p) : evs' = Append(evs, f)
  BY DEF Send
<1>2. /\ p \in Bound
      /\ UNCHANGED <<bound, nextKey, astray, heard, sure, todo, conn, link>>
  BY DEF Send, daemon, worker, ghosts
<1>3. /\ "op" \in DOMAIN f /\ f.op \in {"mail", "told", "ask"}
      /\ f.op \in ByMail => f.key = bound[p].key /\ f.for = bound[p].thread
  BY DEF Frames, ByMail
<1>s. Shape
  BY DEF BusInv
<1>4. /\ Sequence(evs') /\ Len(evs) \in Nat /\ Len(evs') = Len(evs) + 1
      /\ \A i \in 1 .. Len(evs') : \/ i \in 1 .. Len(evs) /\ evs'[i] = evs[i]
                                   \/ i = Len(evs) + 1 /\ evs'[i] = f
  BY <1>1, <1>3, <1>s, Put
<1>5. Shape'
  BY <1>2, <1>4, <1>s DEF Shape, Bound
<1>6. f.op \in ByMail => Meant(f)
  BY <1>2, <1>3 DEF Meant, BusInv, Keys
<1>7. Keys' /\ Addressed'
  BY <1>2, <1>4, <1>6 DEF BusInv, Keys, Addressed, Meant, Bound
<1>8. \A i \in 1 .. Len(evs') : IsClosed(i)' => i \in 1 .. Len(evs) /\ IsClosed(i)
  BY <1>3, <1>4 DEF IsClosed
<1>9. Linked'
  BY <1>2, <1>8 DEF BusInv, Linked, IsClosed
<1>10. Heard' /\ Delivered' /\ Todo'
  BY <1>2 DEF BusInv, Heard, Follows, Delivered, Todo, Fits, Bound
<1> QED
  BY <1>5, <1>7, <1>9, <1>10 DEF BusInv

-----------------------------------------------------------------------------
(* The worker.                                                             *)

LEMMA CallIsCall ==
    ASSUME Shape, NEW r, Call(r)
    PROVE  Calls(Reached(r)) /\ (Reached(r) => link')
BY DEF Shape, Calls, Call, Reached

LEMMA TakesEvent ==
    ASSUME Shape, NEW op, At(op)
    PROVE  /\ Carried(evs, evs', 1) /\ 1 \in 1 .. Len(evs)
           /\ e = evs[1] /\ evs[1].op = op /\ todo = NoWork
BY RestCarried DEF Shape, At, e

LEMMA WorkFits ==
    /\ Fits(NoWork) /\ NoWork = [drop |-> NoWork.drop, join |-> NoWork.join]
    /\ \A ws, live : live \subseteq Panes =>
          /\ Fits(Work(ws, live))
          /\ Work(ws, live) = [drop |-> Work(ws, live).drop, join |-> Work(ws, live).join]
<1>1. Fits(NoWork) /\ NoWork = [drop |-> NoWork.drop, join |-> NoWork.join]
  BY DEF Fits, NoWork
<1>2. ASSUME NEW ws, NEW live, live \subseteq Panes
      PROVE  /\ Fits(Work(ws, live))
             /\ Work(ws, live) = [drop |-> Work(ws, live).drop, join |-> Work(ws, live).join]
  <2> DEFINE plan == Assign(ws, live)
             stay == {p \in Bound \cap live : bound[p].proc = ws[p].proc /\ bound[p].thread = plan[p]}
             J == {[pane |-> p, thread |-> plan[p], proc |-> ws[p].proc] :
                      p \in {q \in live \ stay : plan[q] \in loaded}}
  <2>1. Work(ws, live) = [drop |-> Bound \ stay, join |-> J]
    BY DEF Work
  <2>2. \A j \in J : j.pane \in live \ stay /\ j = [pane |-> j.pane, thread |-> plan[j.pane], proc |-> ws[j.pane].proc]
    OBVIOUS
  <2> HIDE DEF J, stay, plan
  <2>3. \A j \in J : j.pane \in Panes /\ (j.pane \in Bound => j.pane \in Bound \ stay)
    BY <1>2, <2>2
  <2>4. \A j, k \in J : j.pane = k.pane => j = k
    BY <2>2
  <2> QED
    BY <2>1, <2>3, <2>4 DEF Fits
<1> QED
  BY <1>1, <1>2

LEMMA Refreshed ==
    ASSUME Shape, NEW ws, NEW armed, Refresh(ws, armed)
    PROVE  /\ \E x : Calls(x)
           /\ todo' = [drop |-> todo'.drop, join |-> todo'.join] /\ Fits(todo')
<1> DEFINE live == {p \in Panes : ws[p].proc # 0 /\ ws[p].proc = tui[p].proc}
<1>1. live \subseteq Panes
  OBVIOUS
<1>2. \/ NoCall /\ todo' = Work(ws, live)
      \/ \E r \in Outcomes : Call(r) /\ todo' = (IF r = "ok" THEN Work(ws, live) ELSE NoWork)
  BY DEF Refresh
<1> HIDE DEF live
<1>3. \E x : Calls(x)
  <2>1. CASE NoCall
    <3>1. Calls(FALSE)
      BY <2>1 DEF Shape, Calls, NoCall
    <3> QED
      BY <3>1
  <2>2. CASE \E r \in Outcomes : Call(r)
    BY <2>2, CallIsCall
  <2> QED
    BY <1>2, <2>1, <2>2
<1>4. todo' = Work(ws, live) \/ todo' = NoWork
  BY <1>2
<1> QED
  BY <1>1, <1>3, <1>4, WorkFits

LEMMA RefreshKeeps ==
    ASSUME BusInv, HandleWant \/ HandleThreads \/ RetryDue
    PROVE  BusInv'
<1>s. Shape
  BY DEF BusInv
<1>1. UNCHANGED <<bound, nextKey, astray, heard, sure>>
  BY DEF HandleWant, HandleThreads, RetryDue
<1>2. PICK k \in {0, 1} : Carried(evs, evs', k)
  <2>1. CASE HandleWant \/ HandleThreads
    <3>1. Carried(evs, evs', 1)
      BY <1>s, <2>1, TakesEvent DEF HandleWant, HandleThreads
    <3> QED
      BY <3>1
  <2>2. CASE RetryDue
    <3>1. evs' = evs /\ Carried(evs, evs, 0)
      BY <1>s, <2>2, AllCarried DEF RetryDue, Shape
    <3> QED
      BY <3>1
  <2> QED
    BY <2>1, <2>2
<1>3. \/ \E ws, armed : Refresh(ws, armed)
      \/ NoCall /\ UNCHANGED todo
  BY DEF HandleWant, HandleThreads, RetryDue
<1>4. /\ \E x : Calls(x)
      /\ todo' = [drop |-> todo'.drop, join |-> todo'.join] /\ Fits(todo')
  <2>1. CASE \E ws, armed : Refresh(ws, armed)
    BY <1>s, <2>1, Refreshed
  <2>2. CASE NoCall /\ UNCHANGED todo
    <3>1. Calls(FALSE)
      BY <1>s, <2>2 DEF Shape, Calls, NoCall
    <3> QED
      BY <3>1, <2>2 DEF BusInv, Shape, Todo
  <2> QED
    BY <1>3, <2>1, <2>2
<1>5. PICK x : Calls(x)
  BY <1>4
<1>6. Kept /\ StillFollows
  BY <1>1, <1>s, BoundSame
<1>7. Heard' /\ sure' \in BOOLEAN
  BY <1>1, <1>6, <1>s, HeardKept DEF BusInv, Shape
<1>8. heard' \subseteq heard /\ UNCHANGED <<nextKey, astray>>
  BY <1>1
<1> QED
  BY <1>2, <1>4, <1>5, <1>6, <1>7, <1>8, BusKept

LEMMA ClosedKeeps ==
    ASSUME BusInv, HandleClosed
    PROVE  BusInv'
<1>s. Shape
  BY DEF BusInv
<1>1. /\ conn' = FALSE /\ UNCHANGED <<link, heard, sure, todo, nextKey, astray>>
      /\ bound' = [p \in Panes |-> IF p \in Bound THEN [bound[p] EXCEPT !.subscribed = FALSE] ELSE NoBinding]
  BY DEF HandleClosed, daemon, ghosts
<1>2. /\ Carried(evs, evs', 1) /\ 1 \in 1 .. Len(evs) /\ IsClosed(1)
  BY <1>s, TakesEvent DEF HandleClosed, IsClosed
<1>3. conn /\ ~link /\ heard = {}
  BY <1>2 DEF BusInv, Linked
<1>4. ASSUME NEW p \in Panes
      PROVE  /\ bound'[p].key # 0 => /\ Fields(bound'[p])
                                     /\ bound'[p].key = bound[p].key
                                     /\ bound'[p].thread = bound[p].thread
  <2>1. CASE p \in Bound
    <3>1. Fields(bound[p])
      BY <1>s, <2>1 DEF Shape
    <3>2. bound'[p] = [bound[p] EXCEPT !.subscribed = FALSE]
      BY <1>1, <2>1
    <3> QED
      BY <3>1, <3>2 DEF Fields
  <2>2. CASE p \notin Bound
    BY <1>1, <2>2 DEF NoBinding
  <2> QED
    BY <2>1, <2>2
<1>5. Kept
  BY <1>1, <1>4 DEF Kept
<1>6. Keys' /\ Addressed'
  BY <1>1, <1>2, <1>5, MailKept DEF BusInv
<1>7. Shape'
  BY <1>1, <1>2, <1>5, <1>s DEF Shape, Kept, Bound, Carried
<1>8. \A i \in 1 .. Len(evs') : ~IsClosed(i)'
  <2> SUFFICES ASSUME NEW i \in 1 .. Len(evs'), IsClosed(i)' PROVE FALSE
    OBVIOUS
  <2>1. i + 1 \in 1 .. Len(evs) /\ IsClosed(i + 1)
    BY <1>2 DEF Carried, Alike, IsClosed, NoteOps
  <2>2. i + 1 = 1
    BY <1>2, <2>1 DEF BusInv, Linked
  <2> QED
    BY <2>2
<1>9. Linked' /\ Heard' /\ Delivered'
  BY <1>1, <1>3, <1>8 DEF BusInv, Linked, Heard, Delivered
<1>10. Todo'
  BY <1>1, <1>5, TodoKept DEF BusInv, Todo
<1> QED
  BY <1>6, <1>7, <1>9, <1>10 DEF BusInv

\* A subscribing call that was answered has subscribed the binding (`sub`); one
\* that was not leaves nothing sure.
LEMMA CallHeard ==
    ASSUME BusInv, NEW t, NEW r, Call(r), heard' = HeardAfter(t, r), sure' = SureAfter(r)
    PROVE  /\ sure' \in BOOLEAN /\ (sure' => sure)
           /\ ~Reached(r) => heard' = heard
           /\ sure' /\ ~Subscribed(t, r) => heard' = heard
           /\ heard' \subseteq heard \cup {t}
<1>1. link => conn
  BY DEF BusInv, Linked
<1> QED
  BY <1>1 DEF BusInv, Shape, Call, Outcomes, HeardAfter, SureAfter, Reached, Subscribed

LEMMA StatusKeeps ==
    ASSUME BusInv, HandleStatus
    PROVE  BusInv'
<1>s. Shape
  BY DEF BusInv
<1> DEFINE t == e.thread
<1>1. Carried(evs, evs', 1)
  BY <1>s, TakesEvent DEF HandleStatus
<1>2. UNCHANGED <<nextKey, astray, todo>>
  BY DEF HandleStatus
<1>3. todo' = [drop |-> todo'.drop, join |-> todo'.join] /\ Fits(todo')
  BY <1>2 DEF BusInv, Shape, Todo
<1>4. CASE NoCall /\ UNCHANGED <<heard, bound, sure>>
  <2>1. Kept /\ StillFollows
    BY <1>4, <1>s, BoundSame
  <2> QED
    BY <1>1, <1>2, <1>4, <2>1, CalmKept DEF NoCall
<1>5. ASSUME NEW p \in BoundTo(t), NEW r \in Outcomes,
             IF e.idle /\ ~bound[p].subscribed
             THEN Call(r) /\ heard' = HeardAfter(t, r) /\ sure' = SureAfter(r)
             ELSE NoCall /\ UNCHANGED <<heard, sure>>,
             bound' = [bound EXCEPT ![p] = [bound[p] EXCEPT
                 !.subscribed = IF e.idle /\ ~bound[p].subscribed THEN Subscribed(t, r) ELSE @,
                 !.idle = e.idle,
                 !.subs = IF e.idle /\ ~bound[p].idle THEN {} ELSE @]]
      PROVE  BusInv'
  <2> DEFINE asks == e.idle /\ ~bound[p].subscribed
             idle == e.idle
             subs == IF e.idle /\ ~bound[p].idle THEN {} ELSE bound[p].subs
             sub == IF asks THEN Subscribed(t, r) ELSE bound[p].subscribed
             b == [bound[p] EXCEPT !.subscribed = sub, !.idle = idle, !.subs = subs]
  <2>1. p \in Bound /\ bound[p].thread = t /\ Fields(bound[p])
    BY <1>s DEF BoundTo, Shape
  <2>2. sub \in BOOLEAN
    BY <2>1 DEF Subscribed, Fields
  <2>3. Fields(b) /\ b.key = bound[p].key /\ b.thread = t /\ b.subscribed = sub
    BY <2>1, <2>2 DEF Fields
  <2>4. bound' = [bound EXCEPT ![p] = b]
    BY <1>5
  <2>5. bound[p].subscribed => sub
    BY <1>5
  <2> HIDE DEF b
  <2>6. Kept /\ StillFollows
    BY <1>s, <2>1, <2>3, <2>4, <2>5, OneChanged
  <2>7. p \in Bound' /\ bound'[p].thread = t /\ bound'[p].subscribed = sub
    BY <1>s, <2>1, <2>3, <2>4 DEF Shape, Bound
  <2>8. CASE ~asks
    <3>1. NoCall /\ UNCHANGED <<heard, sure>>
      BY <1>5, <2>8
    <3> QED
      BY <1>1, <1>2, <2>6, <3>1, CalmKept DEF NoCall
  <2>9. CASE asks
    <3>1. Call(r) /\ heard' = HeardAfter(t, r) /\ sure' = SureAfter(r) /\ sub = Subscribed(t, r)
      BY <1>5, <2>9
    <3>2. Calls(Reached(r))
      BY <1>s, <3>1, CallIsCall
    <3>3. /\ sure' \in BOOLEAN /\ (sure' => sure)
          /\ ~Reached(r) => heard' = heard
          /\ sure' /\ ~Subscribed(t, r) => heard' = heard
          /\ heard' \subseteq heard \cup {t}
      BY <3>1, CallHeard
    <3>4. Follows \subseteq Follows'
      BY <2>6 DEF Follows, Kept, StillFollows, Bound
    <3>5. sub => t \in Follows'
      BY <2>7 DEF Follows
    <3>6. Heard'
      BY <3>1, <3>3, <3>4, <3>5 DEF Heard, BusInv
    <3>7. ~Reached(r) => heard' \subseteq heard
      BY <3>3
    <3> QED
      BY <1>1, <1>2, <1>3, <2>6, <3>2, <3>3, <3>6, <3>7, BusKept
  <2> QED
    BY <2>8, <2>9
<1> QED
  BY <1>4, <1>5 DEF HandleStatus

LEMMA TurnNoteKeeps ==
    ASSUME BusInv, HandleTurn
    PROVE  BusInv'
<1>s. Shape
  BY DEF BusInv
<1>1. Carried(evs, evs', 1)
  BY <1>s, TakesEvent DEF HandleTurn
<1>2. UNCHANGED <<nextKey, astray, heard, sure, todo, conn, link>>
  BY DEF HandleTurn, daemon, ghosts
<1>3. Kept /\ StillFollows
  <2>1. CASE UNCHANGED bound
    BY <1>s, <2>1, BoundSame
  <2>2. ASSUME NEW p \in BoundTo(e.thread), NEW n, bound' = [bound EXCEPT ![p].active = n]
        PROVE  Kept /\ StillFollows
    <3> DEFINE b == [bound[p] EXCEPT !.active = n]
    <3>1. p \in Bound /\ Fields(bound[p])
      BY <1>s DEF BoundTo, Shape
    <3>2. Fields(b) /\ b.key = bound[p].key /\ b.thread = bound[p].thread /\ b.subscribed = bound[p].subscribed
      BY <3>1 DEF Fields
    <3>3. bound' = [bound EXCEPT ![p] = b]
      BY <2>2
    <3> HIDE DEF b
    <3> QED
      BY <1>s, <3>1, <3>2, <3>3, OneChanged
  <2> QED
    BY <2>1, <2>2 DEF HandleTurn
<1> QED
  BY <1>1, <1>2, <1>3, CalmKept

\* What is handed over comes from an inbox of the binding it is handed to, and
\* was meant for its thread.
LEMMA HandedKeeps ==
    ASSUME BusInv, NEW op \in ByMail, At(op), NEW p \in Key, NEW steers, NEW r, HandOver(p, steers, r),
           NEW b, bound' = [bound EXCEPT ![p] = b], Fields(b),
           b.key = bound[p].key, b.thread = bound[p].thread, b.subscribed = bound[p].subscribed,
           UNCHANGED <<heard, sure, todo, nextKey>>
    PROVE  BusInv'
<1>s. Shape
  BY DEF BusInv
<1>1. Carried(evs, evs', 1) /\ 1 \in 1 .. Len(evs) /\ e = evs[1] /\ evs[1].op = op
  BY <1>s, TakesEvent
<1>2. p \in Bound /\ bound[p].key = e.key
  BY DEF Key
<1>3. bound[p].thread = e.for
  BY <1>1, <1>2 DEF BusInv, Addressed, Meant
<1>4. astray' = {}
  BY <1>3 DEF HandOver, BusInv, Delivered
<1>5. Kept /\ StillFollows
  BY <1>s, <1>2, OneChanged
<1>6. Calls(Reached(r))
  BY <1>s DEF HandOver, Calls, Reached, Shape
<1>7. Heard' /\ sure' \in BOOLEAN /\ heard' \subseteq heard
  BY <1>5, <1>s, HeardKept DEF BusInv, Shape
<1>8. todo' = [drop |-> todo'.drop, join |-> todo'.join] /\ Fits(todo')
  BY DEF BusInv, Shape, Todo
<1>9. UNCHANGED <<nextKey, astray>>
  BY <1>4 DEF BusInv, Delivered
<1> QED
  BY <1>1, <1>5, <1>6, <1>7, <1>8, <1>9, BusKept

LEMMA MailKeeps ==
    ASSUME BusInv, HandleMail \/ HandleTold
    PROVE  BusInv'
<1>s. Shape
  BY DEF BusInv
<1>1. PICK op \in ByMail : At(op)
  BY DEF HandleMail, HandleTold, ByMail
<1>2. UNCHANGED <<heard, sure, todo, nextKey>>
  BY DEF HandleMail, HandleTold
<1>3. CASE NoCall /\ UNCHANGED <<astray, bound>>
  <2>1. Carried(evs, evs', 1)
    BY <1>1, <1>s, TakesEvent
  <2>2. Kept /\ StillFollows
    BY <1>3, <1>s, BoundSame
  <2> QED
    BY <1>2, <1>3, <2>1, <2>2, CalmKept DEF NoCall
<1>4. ASSUME NEW p \in Key, NEW steers, NEW r, HandOver(p, steers, r),
             NEW b, bound' = [bound EXCEPT ![p] = b],
             \/ \E x : b = [bound[p] EXCEPT !.last = x]
             \/ \E x : b = [bound[p] EXCEPT !.followed = x]
      PROVE  BusInv'
  <2>1. Fields(bound[p])
    BY <1>s DEF Key, Shape
  <2>2. /\ Fields(b) /\ b.key = bound[p].key /\ b.thread = bound[p].thread
        /\ b.subscribed = bound[p].subscribed
    BY <2>1, <1>4 DEF Fields
  <2> QED
    BY <1>1, <1>2, <1>4, <2>2, HandedKeeps
<1>5. CASE HandleTold /\ ~(NoCall /\ UNCHANGED <<astray, bound>>)
  <2>1. PICK p \in Key, r \in Outcomes :
            /\ HandOver(p, FALSE, r)
            /\ bound' = [bound EXCEPT ![p].followed = @ /\ ~Reached(r)]
    BY <1>5 DEF HandleTold
  <2> DEFINE b == [bound[p] EXCEPT !.followed = @ /\ ~Reached(r)]
  <2>2. bound' = [bound EXCEPT ![p] = b]
    BY <2>1
  <2>3. \E x : b = [bound[p] EXCEPT !.followed = x]
    OBVIOUS
  <2> QED
    BY <1>4, <2>1, <2>2, <2>3
<1>6. CASE HandleMail /\ ~(NoCall /\ UNCHANGED <<astray, bound>>)
  <2>1. PICK p \in Key, r \in Outcomes :
            /\ HandOver(p, e.now /\ bound[p].active # 0 /\ bound[p].subscribed, r)
            /\ \/ bound' = [bound EXCEPT ![p].last = dealt + 1]
               \/ bound' = [bound EXCEPT ![p].followed = @ /\ ~Reached(r)]
    BY <1>6 DEF HandleMail
  <2> DEFINE b == [bound[p] EXCEPT !.last = dealt + 1]
             c == [bound[p] EXCEPT !.followed = @ /\ ~Reached(r)]
  <2>2. bound' = [bound EXCEPT ![p] = b] \/ bound' = [bound EXCEPT ![p] = c]
    BY <2>1
  <2>3. (\E x : b = [bound[p] EXCEPT !.last = x]) /\ (\E x : c = [bound[p] EXCEPT !.followed = x])
    OBVIOUS
  <2> HIDE DEF b, c
  <2> QED
    BY <1>4, <2>1, <2>2, <2>3
<1> QED
  BY <1>3, <1>5, <1>6

LEMMA AskKeeps ==
    ASSUME BusInv, HandleAsk
    PROVE  BusInv'
<1>s. Shape
  BY DEF BusInv
<1>1. Carried(evs, evs', 1)
  BY <1>s, TakesEvent DEF HandleAsk
<1>2. UNCHANGED <<nextKey, astray, heard, sure, todo, conn, link>>
  BY DEF HandleAsk, daemon, ghosts
<1>3. Kept /\ StillFollows
  <2>1. CASE UNCHANGED bound
    BY <1>s, <2>1, BoundSame
  <2>2. ASSUME NEW p \in Key, NEW subs, bound' = [bound EXCEPT ![p].subs = subs]
        PROVE  Kept /\ StillFollows
    <3> DEFINE b == [bound[p] EXCEPT !.subs = subs]
    <3>1. p \in Bound /\ Fields(bound[p])
      BY <1>s DEF Key, Shape
    <3>2. Fields(b) /\ b.key = bound[p].key /\ b.thread = bound[p].thread /\ b.subscribed = bound[p].subscribed
      BY <3>1 DEF Fields
    <3>3. bound' = [bound EXCEPT ![p] = b]
      BY <2>2
    <3> HIDE DEF b
    <3> QED
      BY <1>s, <3>1, <3>2, <3>3, OneChanged
  <2> QED
    BY <2>1, <2>2 DEF HandleAsk
<1> QED
  BY <1>1, <1>2, <1>3, CalmKept

LEMMA ChecksKeep ==
    ASSUME BusInv, ChecksDue
    PROVE  BusInv'
<1>s. Shape
  BY DEF BusInv
<1>1. Carried(evs, evs', 0)
  BY <1>s, AllCarried DEF ChecksDue, Shape
<1>2. UNCHANGED <<nextKey, astray, heard, sure, todo, conn, link>>
  BY DEF ChecksDue, daemon, ghosts
<1>3. /\ bound' = [p \in Panes |-> bound'[p]]
      /\ \A p \in Panes : \/ bound'[p] = bound[p]
                          \/ p \in Bound /\ bound'[p] = [bound[p] EXCEPT !.subs = {}]
  BY DEF ChecksDue
<1>4. ASSUME NEW p \in Panes
      PROVE  \/ bound'[p] = bound[p]
             \/ /\ Fields(bound'[p])
                /\ bound'[p].key = bound[p].key
                /\ bound'[p].thread = bound[p].thread
                /\ bound'[p].subscribed = bound[p].subscribed
  <2>1. p \in Bound => Fields(bound[p])
    BY <1>s DEF Shape
  <2> QED
    BY <1>3, <2>1 DEF Fields
<1>5. Kept /\ StillFollows
  BY <1>s, <1>3, <1>4, AllChanged
<1> QED
  BY <1>1, <1>2, <1>5, CalmKept

-----------------------------------------------------------------------------
(* Unbinding and binding.                                                  *)

LEMMA UnbindKeeps ==
    ASSUME BusInv, NEW p \in Panes, Unbind(p)
    PROVE  BusInv'
<1>s. Shape
  BY DEF BusInv
<1> DEFINE b == bound[p]
<1>1. /\ evs' = evs /\ UNCHANGED <<nextKey, astray>>
      /\ todo' = [todo EXCEPT !.drop = @ \ {p}]
      /\ bound' = [bound EXCEPT ![p] = NoBinding]
  BY DEF Unbind
<1>2. Carried(evs, evs', 0)
  BY <1>1, <1>s, AllCarried DEF Shape
<1>3. /\ bound' = [q \in Panes |-> bound'[q]] /\ bound'[p].key = 0
      /\ \A q \in Panes : q # p => bound'[q] = bound[q]
  BY <1>1, <1>s DEF Shape, NoBinding
<1>4. Kept
  BY <1>3, <1>s DEF Kept, Shape, Bound
<1>5. todo' = [drop |-> todo.drop \ {p}, join |-> todo.join]
  BY <1>1, <1>s DEF Shape
<1>6. Todo'
  <2>1. \A j \in todo.join : j.pane \in Panes /\ (j.pane \in Bound' => j.pane \in todo.drop \ {p})
    BY <1>3 DEF BusInv, Todo, Fits, Bound
  <2> QED
    BY <1>5, <2>1 DEF BusInv, Todo, Fits
\* Whatever the call came to, what is heard has a binding left.
<1>7. /\ \E x : Calls(x) /\ (~x => heard' \subseteq heard)
      /\ sure' \in BOOLEAN /\ (sure' => sure) /\ heard' \subseteq heard
      /\ sure' /\ p \in Bound /\ b.subscribed => heard' \subseteq heard \ {b.thread}
  <2>1. CASE b.subscribed /\ conn
    <3>1. PICK r \in Outcomes :
            /\ Call(r) /\ sure' = SureAfter(r)
            /\ heard' = IF Reached(r) THEN heard \ {b.thread} ELSE heard
      BY <2>1 DEF Unbind
    <3>2. Calls(Reached(r)) /\ heard' \subseteq heard
      BY <1>s, <3>1, CallIsCall
    <3>3. sure' /\ ~Reached(r) => heard = {}
      BY <3>1 DEF BusInv, Linked, Outcomes, SureAfter, Reached
    <3>4. sure' \in BOOLEAN /\ (sure' => sure)
      BY <1>s, <3>1 DEF SureAfter, Shape
    <3> QED
      BY <3>1, <3>2, <3>3, <3>4
  <2>2. CASE ~(b.subscribed /\ conn)
    <3>1. NoCall /\ UNCHANGED <<heard, sure>>
      BY <2>2 DEF Unbind
    <3>2. Calls(FALSE)
      BY <1>s, <3>1 DEF Shape, Calls, NoCall
    <3>3. ~conn => heard = {}
      BY DEF BusInv, Linked
    <3> QED
      BY <1>s, <2>2, <3>1, <3>2, <3>3 DEF Shape
  <2> QED
    BY <2>1, <2>2
<1>8. ASSUME sure', NEW t \in heard' PROVE t \in Follows'
  <2>1. sure /\ t \in heard /\ (p \in Bound /\ b.subscribed => t # b.thread)
    BY <1>7, <1>8
  <2>2. PICK q \in Bound : bound[q].subscribed /\ t = bound[q].thread
    BY <2>1 DEF BusInv, Heard, Follows
  <2>3. q # p
    BY <2>1, <2>2
  <2>4. q \in Bound' /\ bound'[q] = bound[q]
    BY <1>3, <2>2, <2>3 DEF Bound
  <2> QED
    BY <2>2, <2>4 DEF Follows
<1>9. Heard'
  BY <1>8 DEF Heard
<1>10. todo' = [drop |-> todo'.drop, join |-> todo'.join]
  BY <1>5
<1> QED
  BY <1>1, <1>2, <1>4, <1>6, <1>7, <1>9, <1>10, StepKept

\* The subscription of an inbox that did not open is given up, or perhaps not.
GivesUp(t, r) ==
    \E u \in {"ok", "lost", "unsent"} :
        /\ sure' = (SureAfter(r) /\ (Subscribed(t, r) => u = "ok"))
        /\ heard' = IF Subscribed(t, r) /\ u # "unsent"
                    THEN GivenUp(t, HeardAfter(t, r)) ELSE HeardAfter(t, r)

\* A new inbox's key is new, so nothing on its way names it; and its pane was
\* unbound, so no subscription is lost to it.
LEMMA BindKeeps ==
    ASSUME BusInv, Bind
    PROVE  BusInv'
<1>s. Shape
  BY DEF BusInv
<1>1. PICK j \in First(todo.join) :
        /\ todo.drop = {}
        /\ todo' = [todo EXCEPT !.join = @ \ {j}]
        /\ nextKey' = nextKey + 1
        /\ \E r \in Outcomes :
              \/ /\ Call(r)
                 /\ sure' = SureAfter(r)
                 /\ heard' = HeardAfter(j.thread, r)
                 /\ bound' = [Doubted(j.thread) EXCEPT ![j.pane] =
                       [key |-> NewKey(j.pane), proc |-> j.proc, thread |-> j.thread,
                        subscribed |-> Subscribed(j.thread, r), active |-> 0, idle |-> TRUE,
                        last |-> 0, subs |-> {},
                        followed |-> link' /\ Quiet(j.thread) /\ BoundTo(j.thread) = {} /\ ~Heralded(j.thread)]]
              \/ /\ r \in {"ok", "closed"}
                 /\ conn' = (conn \/ Reached(r)) /\ link' = (link \/ Reached(r))
                 /\ GivesUp(j.thread, r)
                 /\ bound' = Doubted(j.thread)
  BY DEF Bind, GivesUp
<1>2. evs' = evs /\ UNCHANGED astray
  BY DEF Bind
<1> DEFINE t == j.thread
           p == j.pane
<1>3. j \in todo.join /\ p \in Panes /\ p \notin Bound
  BY <1>1 DEF First, BusInv, Todo, Fits
<1>4. todo' = [drop |-> {}, join |-> todo.join \ {j}]
  BY <1>1, <1>s DEF Shape
<1>5. \A q \in Panes : \/ Doubted(t)[q] = bound[q]
                       \/ /\ Fields(Doubted(t)[q])
                          /\ Doubted(t)[q].key = bound[q].key
                          /\ Doubted(t)[q].thread = bound[q].thread
                          /\ Doubted(t)[q].subscribed = bound[q].subscribed
  <2> TAKE q \in Panes
  <2>1. q \in BoundTo(t) => q \in Bound /\ Fields(bound[q])
    BY <1>s DEF BoundTo, Shape
  <2>2. Doubted(t)[q] = IF q \in BoundTo(t) THEN [bound[q] EXCEPT !.followed = FALSE] ELSE bound[q]
    BY DEF Doubted
  <2> QED
    BY <2>1, <2>2 DEF Fields
<1>6. PICK r \in Outcomes :
        /\ conn' = (conn \/ Reached(r)) /\ link' = (link \/ Reached(r))
        /\ bound' = [q \in Panes |-> bound'[q]]
        /\ \A q \in Panes \ {p} : bound'[q] = Doubted(t)[q]
        /\ \/ /\ heard' = HeardAfter(t, r)
              /\ sure' = SureAfter(r)
              /\ bound'[p].key = nextKey /\ Fields(bound'[p])
              /\ bound'[p].thread = t /\ bound'[p].subscribed = Subscribed(t, r)
           \/ /\ GivesUp(t, r)
              /\ r \in {"ok", "closed"}
              /\ bound'[p].key = 0
  <2>1. PICK r \in Outcomes :
              \/ /\ Call(r)
                 /\ sure' = SureAfter(r)
                 /\ heard' = HeardAfter(t, r)
                 /\ bound' = [Doubted(t) EXCEPT ![p] =
                       [key |-> NewKey(p), proc |-> j.proc, thread |-> t,
                        subscribed |-> Subscribed(t, r), active |-> 0, idle |-> TRUE,
                        last |-> 0, subs |-> {},
                        followed |-> link' /\ Quiet(t) /\ BoundTo(t) = {} /\ ~Heralded(t)]]
              \/ /\ r \in {"ok", "closed"}
                 /\ conn' = (conn \/ Reached(r)) /\ link' = (link \/ Reached(r))
                 /\ GivesUp(t, r)
                 /\ bound' = Doubted(t)
    BY <1>1
  <2>2. CASE /\ r \in {"ok", "closed"}
             /\ conn' = (conn \/ Reached(r)) /\ link' = (link \/ Reached(r))
             /\ GivesUp(t, r)
             /\ bound' = Doubted(t)
    <3>1. bound' = [q \in Panes |-> bound'[q]]
      BY <2>2 DEF Doubted
    <3>2. bound'[p].key = 0
      BY <1>3, <1>5, <2>2 DEF Bound, Doubted, BoundTo
    <3> QED
      BY <2>1, <2>2, <3>1, <3>2
  <2>3. CASE /\ Call(r)
             /\ sure' = SureAfter(r)
             /\ heard' = HeardAfter(t, r)
             /\ bound' = [Doubted(t) EXCEPT ![p] =
                   [key |-> NewKey(p), proc |-> j.proc, thread |-> t,
                    subscribed |-> Subscribed(t, r), active |-> 0, idle |-> TRUE,
                    last |-> 0, subs |-> {},
                    followed |-> link' /\ Quiet(t) /\ BoundTo(t) = {} /\ ~Heralded(t)]]
    <3> DEFINE b == [key |-> NewKey(p), proc |-> j.proc, thread |-> t,
                     subscribed |-> Subscribed(t, r), active |-> 0, idle |-> TRUE,
                     last |-> 0, subs |-> {},
                     followed |-> link' /\ Quiet(t) /\ BoundTo(t) = {} /\ ~Heralded(t)]
    <3>1. Call(r) /\ sure' = SureAfter(r) /\ heard' = HeardAfter(t, r) /\ bound' = [Doubted(t) EXCEPT ![p] = b]
      BY <2>3
    <3>2. b.key = nextKey /\ Fields(b) /\ b.thread = t /\ b.subscribed = Subscribed(t, r)
      BY DEF NewKey, Fields, Subscribed
    <3> HIDE DEF b
    <3>3. DOMAIN Doubted(t) = Panes
      BY DEF Doubted
    <3>4. /\ bound' = [q \in Panes |-> bound'[q]] /\ bound'[p] = b
          /\ \A q \in Panes \ {p} : bound'[q] = Doubted(t)[q]
      BY <1>3, <3>1, <3>3 DEF Doubted
    <3> QED
      BY <2>1, <3>1, <3>2, <3>4 DEF Call
  <2> QED
    BY <2>1, <2>2, <2>3
<1>7. /\ \A q \in Panes \ {p} : bound'[q].key # 0 =>
            /\ q \in Bound /\ Fields(bound'[q])
            /\ bound'[q].key = bound[q].key /\ bound'[q].thread = bound[q].thread
      /\ \A q \in Bound : bound[q].subscribed =>
            /\ q # p /\ q \in Bound' /\ bound'[q].subscribed /\ bound'[q].thread = bound[q].thread
      /\ bound'[p].key \in {0, nextKey}
      /\ p \in Bound' => Fields(bound'[p])
  BY <1>3, <1>5, <1>6, <1>s DEF Bound, Shape
<1>8. Shape'
  <2>1. sure' \in BOOLEAN /\ conn' \in BOOLEAN /\ link' \in BOOLEAN
    BY <1>6, <1>s DEF Shape, SureAfter, GivesUp
  <2> QED
    BY <1>2, <1>4, <1>6, <1>7, <1>s, <2>1 DEF Shape, Bound
<1>9. Keys'
  <2>1. /\ nextKey \in Nat \ {0} /\ nextKey' = nextKey + 1
        /\ \A q \in Bound : bound[q].key \in 1 .. nextKey - 1
        /\ \A q, m \in Bound : bound[q].key = bound[m].key => q = m
    BY <1>1 DEF BusInv, Keys
  <2>2. \A q \in Bound' : \/ q = p /\ bound'[q].key = nextKey
                          \/ q \in Bound /\ bound'[q].key = bound[q].key
    BY <1>3, <1>7 DEF Bound
  <2> QED
    BY <2>1, <2>2 DEF Keys
<1>10. Addressed'
  <2> SUFFICES ASSUME NEW i \in 1 .. Len(evs), evs[i].op \in ByMail PROVE Meant(evs[i])'
    BY <1>2 DEF Addressed, Meant
  <2>1. /\ evs[i].key \in 1 .. nextKey - 1
        /\ \A q \in Bound : bound[q].key = evs[i].key => bound[q].thread = evs[i].for
    BY DEF BusInv, Addressed, Meant
  <2>2. nextKey \in Nat /\ nextKey' = nextKey + 1 /\ evs'[i] = evs[i]
    BY <1>1, <1>2 DEF BusInv, Keys
  <2>3. \A q \in Bound' : \/ bound'[q].key = nextKey
                          \/ q \in Bound /\ bound'[q].key = bound[q].key /\ bound'[q].thread = bound[q].thread
    BY <1>3, <1>7 DEF Bound
  <2>4. evs[i].key # nextKey /\ evs[i].key \in 1 .. nextKey' - 1
    BY <2>1, <2>2
  <2> QED
    BY <2>1, <2>2, <2>3, <2>4 DEF Meant
\* The connection's threads.
<1>11. (Reached(r) /\ conn => link) /\ (r = "closed" => conn /\ ~link) /\ (link => conn)
  BY DEF Outcomes, Reached, BusInv, Linked
<1>12. /\ ~Reached(r) => heard' \subseteq heard
       /\ sure' => sure
       /\ sure' => heard' \subseteq heard \cup (IF p \in Bound' /\ bound'[p].subscribed THEN {t} ELSE {})
  <2>0. sure' => r \in {"ok", "closed"} /\ sure
    BY <1>6 DEF SureAfter, GivesUp
  <2>1. CASE /\ heard' = HeardAfter(t, r) /\ bound'[p].key = nextKey
             /\ bound'[p].subscribed = Subscribed(t, r)
    <3>1. p \in Bound'
      BY <1>3, <2>1 DEF Bound, BusInv, Keys
    <3>2. sure' /\ heard' # heard => Subscribed(t, r)
      BY <1>11, <2>0, <2>1 DEF HeardAfter, Subscribed, Reached
    <3> QED
      BY <2>0, <2>1, <3>1, <3>2 DEF HeardAfter
  <2>2. CASE GivesUp(t, r) /\ r \in {"ok", "closed"}
    <3>1. ~Reached(r) \/ sure' => heard' \subseteq heard
      BY <1>11, <2>2 DEF GivesUp, HeardAfter, Subscribed, Reached, GivenUp
    <3> QED
      BY <2>0, <3>1
  <2> QED
    BY <1>6, <2>1, <2>2
<1>13. Calls(Reached(r))
  BY <1>6, <1>11, <1>s DEF Calls, Shape, Reached
<1>14. Carried(evs, evs', 0)
  BY <1>2, <1>s, AllCarried DEF Shape
<1>15. Linked'
  BY <1>12, <1>13, <1>14, <1>s, LinkKept DEF BusInv
<1>16. Heard'
  <2>1. Follows \subseteq Follows'
    BY <1>7 DEF Follows
  <2>2. p \in Bound' /\ bound'[p].subscribed => t \in Follows'
    <3>1. p \in Bound' => bound'[p].thread = t
      BY <1>6 DEF Bound
    <3> QED
      BY <3>1 DEF Follows
  <2> QED
    BY <1>12, <2>1, <2>2 DEF BusInv, Heard
<1>17. Todo'
  <2>1. \A k \in todo.join \ {j} : k.pane \in Panes /\ k.pane # p /\ k.pane \notin Bound
    BY <1>1, <1>3 DEF BusInv, Todo, Fits
  <2>2. \A k \in todo.join \ {j} : k.pane \notin Bound'
    BY <1>7, <2>1 DEF Bound
  <2> QED
    BY <1>4, <2>1, <2>2 DEF BusInv, Todo, Fits
<1> QED
  BY <1>2, <1>8, <1>9, <1>10, <1>15, <1>16, <1>17 DEF BusInv, Delivered

-----------------------------------------------------------------------------
(* The theorems.                                                           *)

LEMMA AtFirst == Init => BusInv
<1> SUFFICES ASSUME Init PROVE BusInv
  OBVIOUS
<1>1. /\ evs = <<>> /\ Len(evs) = 0 /\ bound = [p \in Panes |-> NoBinding] /\ Bound = {}
      /\ todo = NoWork /\ conn = FALSE /\ link = FALSE /\ sure = TRUE /\ heard = {}
      /\ nextKey = 1 /\ astray = {}
  BY DEF Init, Bound, NoBinding
<1>2. Sequence(evs)
  BY <1>1, NoNotes DEF IsNotes
<1>3. Shape /\ Todo
  BY <1>1, <1>2, WorkFits DEF Shape, Todo
<1>4. Keys /\ Addressed /\ Delivered /\ Linked /\ Heard
  BY <1>1 DEF Keys, Addressed, Delivered, Linked, Heard
<1> QED
  BY <1>3, <1>4 DEF BusInv

LEMMA ReexecKeeps ==
    ASSUME BusInv, Reexec
    PROVE  BusInv'
<1>1. /\ evs' = <<>> /\ Len(evs') = 0 /\ bound' = [p \in Panes |-> NoBinding] /\ Bound' = {}
      /\ todo' = NoWork /\ conn' = FALSE /\ link' = FALSE /\ sure' = TRUE /\ heard' = {}
      /\ nextKey' = 1 /\ astray' = {}
  BY DEF Reexec, NewWorker, Bound, NoBinding, BusInv, Delivered
<1>2. Sequence(evs')
  BY <1>1, NoNotes DEF IsNotes
<1>3. todo' = [drop |-> todo'.drop, join |-> todo'.join] /\ todo'.join = {}
  BY <1>1 DEF NoWork
<1>4. Shape'
  BY <1>1, <1>2, <1>3 DEF Shape
<1>5. Todo'
  BY <1>3 DEF Todo, Fits
<1>6. Keys' /\ Addressed' /\ Delivered' /\ Linked' /\ Heard'
  BY <1>1 DEF Keys, Addressed, Delivered, Linked, Heard
<1> QED
  BY <1>4, <1>5, <1>6 DEF BusInv

LEMMA StepKeeps == BusInv /\ [Next]_vars => BusInv'
<1> SUFFICES ASSUME BusInv, [Next]_vars PROVE BusInv'
  OBVIOUS
<1>s. Shape
  BY DEF BusInv
<1>1. CASE \/ \E p \in Panes : Starts(p) \/ Quits(p) \/ \E t \in Threads : Shows(p, t)
           \/ \E t \in Threads : Unloads(t) \/ PersonAsks(t) \/ TakesQueued(t)
  <2>1. UNCHANGED <<bound, nextKey, astray, heard, sure, todo, conn, link>>
    BY <1>1 DEF Starts, Quits, Shows, Unloads, PersonAsks, TakesQueued, Begins, TuiOnly, daemon, worker, ghosts
  <2>2. \/ evs' = evs \/ evs' = Note(<<Reload>>)
        \/ \E t, n : evs' = Note(<<Busy(t)>> \o Started(t, n))
    BY <1>1 DEF Starts, Quits, Shows, Unloads, PersonAsks, TakesQueued, Begins
  <2>3. \A t, n : IsNotes(<<Busy(t)>> \o Started(t, n))
    BY NotesAreNotes, MoreNotes
  <2>4. Carried(evs, evs', 0)
    BY <1>s, <2>2, <2>3, Noted, AllCarried, NotesAreNotes DEF Shape
  <2> QED
    BY <1>s, <2>1, <2>4, BoundSame, CalmKept
<1>2. CASE Offer
  <2> DEFINE x == [op |-> "want", wants |-> Observed]
  <2>1. evs' = Append(evs, x) /\ UNCHANGED <<bound, nextKey, astray, heard, sure, todo, conn, link>>
    BY <1>2 DEF Offer, daemon, worker, ghosts
  <2>2. "op" \in DOMAIN x /\ x.op \in NoteOps
    BY DEF NoteOps
  <2> HIDE DEF x
  <2>3. /\ Sequence(evs') /\ Len(evs) \in Nat /\ Len(evs') = Len(evs) + 1
        /\ \A i \in 1 .. Len(evs') : \/ i \in 1 .. Len(evs) /\ evs'[i] = evs[i]
                                     \/ i = Len(evs) + 1 /\ evs'[i] = x
    BY <1>s, <2>1, <2>2, Put
  <2>4. \A i \in 1 .. Len(evs) : i + 0 = i
    BY <2>3
  <2>5. Carried(evs, evs', 0)
    BY <2>2, <2>3, <2>4 DEF Carried, Alike
  <2> QED
    BY <1>s, <2>1, <2>5, BoundSame, CalmKept
<1>3. CASE Tick \/ UNCHANGED vars
  <2>1. UNCHANGED <<evs, bound, nextKey, astray, heard, sure, todo, conn, link>>
    BY <1>3 DEF Tick, vars, daemon, worker, ghosts
  <2>2. Carried(evs, evs', 0)
    BY <1>s, <2>1, AllCarried DEF Shape
  <2> QED
    BY <1>s, <2>1, <2>2, BoundSame, CalmKept
<1>4. CASE \E t \in Threads : TurnEnds(t)
  BY <1>4, TurnEndKeeps
<1>5. CASE \E dies \in BOOLEAN : Breaks(dies)
  BY <1>5, BreakKeeps
<1>6. CASE \E p \in Panes : Send(p)
  BY <1>6, SendKeeps
<1>7. CASE Handles \/ RetryDue \/ ChecksDue
  BY <1>7, RefreshKeeps, ClosedKeeps, StatusKeeps, TurnNoteKeeps, MailKeeps, AskKeeps, ChecksKeep
  DEF Handles
<1>8. CASE Bind \/ \E p \in Panes : Unbind(p)
  BY <1>8, BindKeeps, UnbindKeeps
<1>9. CASE Reexec
  BY <1>9, ReexecKeeps
<1> QED
  BY <1>1, <1>2, <1>3, <1>4, <1>5, <1>6, <1>7, <1>8, <1>9 DEF Next, Works, Codex

LEMMA Invariance == Spec => []BusInv
BY AtFirst, StepKeeps, PTL DEF Spec

\* A frame is handed to the thread its sender addressed and to no other, though
\* its inbox may have closed and its pane been bound to another thread while it
\* was on its way (worker.rs:91-93, bind.rs:4-6).
THEOREM MailGoesWhereSent == Spec => []MailToItsThread
<1>1. BusInv => MailToItsThread
  BY DEF BusInv, Delivered, MailToItsThread
<1> QED
  BY <1>1, Invariance, PTL

\* The connection is subscribed to the threads of its bindings and to no others,
\* unless a call was lost (lifecycle.rs:251-255).
THEOREM NothingLeftSubscribed == Spec => []NoStraySubscription
<1>1. BusInv => NoStraySubscription
  BY DEF BusInv, Heard, Follows, NoStraySubscription
<1> QED
  BY <1>1, Invariance, PTL
-----------------------------------------------------------------------------
(* What a step leaves of the queue of events, all of it this time: every   *)
(* event but the first `k` stays in its place, an ask perhaps with         *)
(* `idled` set, and what is new belongs to `new`.                          *)

Same(f, g) == /\ g.op = f.op
              /\ \/ g = f
                 \/ f.op = "ask" /\ g = [f EXCEPT !.idled = TRUE]

Retained(s, t, k, new) ==
    /\ Sequence(t) /\ Len(t) \in Nat
    /\ \A i \in 1 .. Len(s) : i > k => i - k \in 1 .. Len(t) /\ Same(s[i], t[i - k])
    /\ \A i \in 1 .. Len(t) : i + k \notin 1 .. Len(s) => t[i] \in new

Lists(s, S) == Sequence(s) /\ Len(s) \in Nat /\ \A i \in 1 .. Len(s) : s[i] \in S

LEMMA ListsNone == \A S : Lists(<<>>, S)
<1>1. Sequence(<<>>) /\ Len(<<>>) = 0
  BY NoNotes DEF IsNotes
<1> QED
  BY <1>1 DEF Lists

LEMMA ListsOne ==
    ASSUME NEW x, "op" \in DOMAIN x, NEW S, x \in S
    PROVE  Lists(<<x>>, S)
<1>1. Sequence(<<x>>) /\ Len(<<x>>) = 1 /\ <<x>>[1] = x
  BY One
<1> QED
  BY <1>1 DEF Lists

LEMMA ListsBoth ==
    ASSUME NEW S, NEW s, NEW t, Lists(s, S), Lists(t, S)
    PROVE  Lists(s \o t, S)
<1>1. /\ Sequence(s \o t) /\ Len(s) \in Nat /\ Len(t) \in Nat
      /\ Len(s \o t) = Len(s) + Len(t)
      /\ \A i \in 1 .. Len(s) : (s \o t)[i] = s[i]
      /\ \A i \in 1 .. Len(s \o t) :
            i \notin 1 .. Len(s) => i - Len(s) \in 1 .. Len(t) /\ (s \o t)[i] = t[i - Len(s)]
  BY Joined DEF Lists
<1> QED
  BY <1>1 DEF Lists

LEMMA AllRetained ==
    ASSUME NEW s, Sequence(s), NEW S
    PROVE  Retained(s, s, 0, S)
<1>1. Len(s) \in Nat
  BY LenProperties DEF Sequence
<1>2. \A i \in 1 .. Len(s) : i - 0 = i /\ i + 0 = i
  BY <1>1
<1> QED
  BY <1>1, <1>2 DEF Retained, Same

LEMMA RestRetained ==
    ASSUME NEW s, Sequence(s), s # <<>>, NEW S
    PROVE  /\ Retained(s, Tail(s), 1, S) /\ Head(s) = s[1] /\ 1 \in 1 .. Len(s)
           /\ Len(s) \in Nat /\ Len(Tail(s)) = Len(s) - 1
           /\ \A i \in 1 .. Len(Tail(s)) : i + 1 \in 1 .. Len(s) /\ Tail(s)[i] = s[i + 1]
<1>1. s \in Seq(Range(s))
  BY DEF Sequence
<1>2. /\ Tail(s) \in Seq(Range(s)) /\ Len(Tail(s)) = Len(s) - 1 /\ Len(s) \in Nat \ {0}
      /\ \A i \in 1 .. Len(Tail(s)) : Tail(s)[i] = s[i + 1]
      /\ Head(s) = s[1]
  BY <1>1, HeadTailProperties, EmptySeq
<1>3. Sequence(Tail(s))
  BY RestCarried DEF Carried
<1>4. \A i \in 1 .. Len(Tail(s)) : i + 1 \in 1 .. Len(s)
  BY <1>2
<1>5. \A i \in 1 .. Len(s) : i > 1 => i - 1 \in 1 .. Len(Tail(s)) /\ (i - 1) + 1 = i
  BY <1>2
<1>6. \A i \in 1 .. Len(s) : i > 1 => Tail(s)[i - 1] = s[i]
  BY <1>2, <1>5
<1> QED
  BY <1>2, <1>3, <1>4, <1>5, <1>6 DEF Retained, Same

LEMMA MoreRetained ==
    ASSUME NEW s, Sequence(s), NEW t, NEW n, NEW S, Retained(s, t, 0, S), Len(t) = Len(s), Lists(n, S)
    PROVE  Retained(s, t \o n, 0, S)
<1>1. Sequence(t) /\ Sequence(n)
  BY DEF Retained, Lists
<1>2. /\ Sequence(t \o n) /\ Len(t) \in Nat /\ Len(n) \in Nat
      /\ Len(t \o n) = Len(t) + Len(n)
      /\ \A i \in 1 .. Len(t) : (t \o n)[i] = t[i]
      /\ \A i \in 1 .. Len(t \o n) :
            i \notin 1 .. Len(t) => i - Len(t) \in 1 .. Len(n) /\ (t \o n)[i] = n[i - Len(t)]
  BY <1>1, Joined
<1>3. \A i \in 1 .. Len(s) : i > 0 /\ i - 0 = i /\ i \in 1 .. Len(t \o n) /\ Same(s[i], (t \o n)[i])
  <2> TAKE i \in 1 .. Len(s)
  <2>1. i > 0 /\ i - 0 = i /\ i \in 1 .. Len(t) /\ i \in 1 .. Len(t \o n)
    BY <1>2
  <2>2. Same(s[i], t[i])
    BY <2>1 DEF Retained
  <2> QED
    BY <1>2, <2>1, <2>2
<1>4. \A i \in 1 .. Len(t \o n) : i + 0 \notin 1 .. Len(s) => (t \o n)[i] \in S
  BY <1>2 DEF Lists
<1> QED
  BY <1>2, <1>3, <1>4 DEF Retained

-----------------------------------------------------------------------------
(* The panes that are to be served.                                        *)

Closing == \E i \in 1 .. Len(evs) : evs[i].op = "closed"
Tidings == Closing \/ \E i \in 1 .. Len(evs) : evs[i].op = "threads"

\* The process L1 last told the worker of is the one the pane runs.
Wanted(p) == wants[p].proc # 0 /\ wants[p].proc = tui[p].proc

\* A pane's inbox, once the rescan has done what it has left to do.
Keeps(p) == p \in Bound /\ p \notin todo.drop
Has(p, t) ==
    \/ Keeps(p) /\ bound[p].thread = t /\ bound[p].proc = wants[p].proc
    \/ \E j \in todo.join : j.pane = p /\ j.thread = t /\ j.proc = wants[p].proc
Gets(p) == {bound[q].thread : q \in {x \in {p} : Keeps(x)}}
           \cup {j.thread : j \in {k \in todo.join : k.pane = p}}

Served(p) ==
    /\ wants[p].proc = 0 => Gets(p) = {}
    /\ Wanted(p) /\ wants[p].shows # None =>
          /\ Gets(p) \subseteq {wants[p].shows}
          /\ wants[p].shows \in loaded => p \in unserved \/ Has(p, wants[p].shows)
AllServed == ~retry /\ ~Tidings => \A p \in Panes : Served(p)

\* Without a connection, and with nothing that says so still to be handled, no
\* pane that is wanted runs Codex.
Apart == ~link /\ ~retry /\ ~Closing => \A p \in Panes : ~Wanted(p)

\* The last set of panes on its way is the one sent last; without one, it is the
\* worker's.
IsWant(x) == x.op = "want"
Posted == /\ \A i \in 1 .. Len(evs) :
                IsWant(evs[i]) /\ (\A k \in 1 .. Len(evs) : k > i => ~IsWant(evs[k])) => evs[i].wants = sent
          /\ (\A i \in 1 .. Len(evs) : ~IsWant(evs[i])) => wants = sent

\* A process is known by a number that no later one has.
Procs == /\ changes \in Nat
         /\ tui = [p \in Panes |-> tui[p]]
         /\ \A p \in Panes : /\ tui[p] = [proc |-> tui[p].proc, argv |-> tui[p].argv, shows |-> tui[p].shows]
                             /\ tui[p].proc \in 0 .. changes /\ wants[p].proc \in 0 .. changes
                             /\ tui[p].proc = 0 => tui[p].shows = None
         /\ \A i \in 1 .. Len(evs) : IsWant(evs[i]) => \A p \in Panes : evs[i].wants[p].proc \in 0 .. changes

HasProc(b) == "proc" \in DOMAIN b /\ b.thread \in Threads
Places == /\ loaded \subseteq Threads
          /\ \A p \in Bound : HasProc(bound[p])
          /\ \A j \in todo.join : j.thread \in Threads

ServeInv == Procs /\ Places /\ Posted /\ Apart /\ AllServed

-----------------------------------------------------------------------------
\* The inboxes stay what they are.
Stands == /\ bound' = [p \in Panes |-> bound'[p]]
          /\ \A p \in Panes : bound'[p].key # 0 <=> p \in Bound
          /\ \A p \in Bound : /\ HasProc(bound'[p])
                              /\ bound'[p].thread = bound[p].thread
                              /\ bound'[p].proc = bound[p].proc

\* A step that leaves alone the inboxes and what the worker wants.
LEMMA ServeKept ==
    ASSUME Shape, ServeInv, NEW k \in {0, 1}, NEW new, Retained(evs, evs', k, new),
           \A x \in new : ~IsWant(x),
           k = 1 => evs[1].op \notin {"closed", "threads"} /\ (IsWant(evs[1]) => evs[1].wants = wants),
           Stands, UNCHANGED <<sent, wants, todo, unserved, retry>>, Procs', loaded' \subseteq Threads,
           \A p \in Panes : Wanted(p)' => Wanted(p),
           ~link' => ~link,
           loaded' \subseteq loaded \/ Tidings' \/ retry \/ \A p \in Panes : ~Wanted(p)
    PROVE  ServeInv'
<1>0. Len(evs) \in Nat
  BY LenProperties DEF Shape, Sequence
<1>1. ASSUME NEW i \in 1 .. Len(evs), evs[i].op \in {"want", "closed", "threads"}, i > k
      PROVE  i - k \in 1 .. Len(evs') /\ evs'[i - k] = evs[i]
  <2>1. i - k \in 1 .. Len(evs') /\ Same(evs[i], evs'[i - k])
    BY <1>1 DEF Retained
  <2> QED
    BY <1>1, <2>1 DEF Same
<1>9. \A i \in 1 .. Len(evs) : evs[i].op \in {"closed", "threads"} => i > k
  BY <1>0
<1>2. ASSUME NEW i \in 1 .. Len(evs'), IsWant(evs'[i])
      PROVE  i + k \in 1 .. Len(evs) /\ evs[i + k] = evs'[i]
  <2>1. i + k \in 1 .. Len(evs) /\ i + k > k /\ (i + k) - k = i
    BY <1>0, <1>2 DEF Retained
  <2>2. Same(evs[i + k], evs'[i])
    BY <2>1 DEF Retained
  <2> QED
    BY <1>2, <2>1, <2>2 DEF Same, IsWant
<1>3. Posted'
  <2>1. ASSUME NEW i \in 1 .. Len(evs'), IsWant(evs'[i]),
               \A m \in 1 .. Len(evs') : m > i => ~IsWant(evs'[m])
        PROVE  evs'[i].wants = sent
    <3>1. ASSUME NEW m \in 1 .. Len(evs), m > i + k PROVE ~IsWant(evs[m])
      <4> SUFFICES ASSUME IsWant(evs[m]) PROVE FALSE
        OBVIOUS
      <4>0. m > k
        BY <1>0, <3>1
      <4>1. m - k \in 1 .. Len(evs') /\ evs'[m - k] = evs[m]
        BY <1>1, <4>0 DEF IsWant
      <4>2. m - k > i
        BY <1>0, <3>1
      <4> QED
        BY <2>1, <4>1, <4>2
    <3>2. i + k \in 1 .. Len(evs) /\ evs[i + k] = evs'[i]
      BY <1>2, <2>1
    <3> QED
      BY <2>1, <3>1, <3>2 DEF ServeInv, Posted
  <2>2. ASSUME \A i \in 1 .. Len(evs') : ~IsWant(evs'[i]) PROVE wants = sent
    <3>1. \A i \in 1 .. Len(evs) : i > k => ~IsWant(evs[i])
      BY <1>1, <2>2 DEF IsWant
    <3>2. CASE \A i \in 1 .. Len(evs) : ~IsWant(evs[i])
      BY <3>2 DEF ServeInv, Posted
    <3>3. CASE \E i \in 1 .. Len(evs) : IsWant(evs[i])
      <4>1. PICK i \in 1 .. Len(evs) : IsWant(evs[i])
        BY <3>3
      <4>2. k = 1 /\ i = 1
        BY <1>0, <3>1, <4>1
      <4>3. evs[1].wants = sent
        BY <1>0, <3>1, <4>1, <4>2 DEF ServeInv, Posted
      <4> QED
        BY <4>1, <4>2, <4>3
    <3> QED
      BY <3>2, <3>3
  <2> QED
    BY <2>1, <2>2 DEF Posted
<1>4. Tidings => Tidings'
  BY <1>1, <1>9 DEF Tidings, Closing
<1>5. Closing => Closing'
  BY <1>1, <1>9 DEF Closing
<1>6. Apart'
  BY <1>5 DEF ServeInv, Apart
<1>7. ASSUME NEW p \in Panes
      PROVE  (Keeps(p)' <=> Keeps(p)) /\ (\A t : Has(p, t)' <=> Has(p, t)) /\ Gets(p)' = Gets(p)
  <2>1. p \in Bound' <=> p \in Bound
    BY DEF Stands, Bound
  <2>2. Keeps(p)' <=> Keeps(p)
    BY <2>1 DEF Keeps
  <2>3. \A t : Has(p, t)' <=> Has(p, t)
    BY <2>2 DEF Has, Stands, Keeps
  <2>4. Gets(p)' = Gets(p)
    BY <2>2 DEF Gets, Stands, Keeps
  <2> QED
    BY <2>2, <2>3, <2>4
<1>8. AllServed'
  <2> SUFFICES ASSUME ~retry', ~Tidings', NEW p \in Panes PROVE Served(p)'
    BY DEF AllServed
  <2>1. Served(p)
    BY <1>4 DEF ServeInv, AllServed
  <2>2. Wanted(p)' => loaded' \subseteq loaded
    OBVIOUS
  <2> QED
    BY <1>7, <2>1, <2>2 DEF Served
<1>10. Places'
  BY DEF ServeInv, Places, Stands, Bound
<1> QED
  BY <1>3, <1>6, <1>8, <1>10 DEF ServeInv

LEMMA WantsCarried ==
    ASSUME Shape, NEW k \in {0, 1}, NEW new, Retained(evs, evs', k, new), \A x \in new : ~IsWant(x),
           NEW n \in Nat, NEW m \in Nat, n <= m,
           \A i \in 1 .. Len(evs) : IsWant(evs[i]) => \A p \in Panes : evs[i].wants[p].proc \in 0 .. n
    PROVE  \A i \in 1 .. Len(evs') : IsWant(evs'[i]) => \A p \in Panes : evs'[i].wants[p].proc \in 0 .. m
<1> TAKE i \in 1 .. Len(evs')
<1> HAVE IsWant(evs'[i])
<1>0. Len(evs) \in Nat
  BY LenProperties DEF Shape, Sequence
<1>1. i + k \in 1 .. Len(evs) /\ i + k > k /\ (i + k) - k = i
  BY <1>0 DEF Retained
<1>2. Same(evs[i + k], evs'[i])
  BY <1>1 DEF Retained
<1>3. evs[i + k] = evs'[i]
  BY <1>2 DEF Same, IsWant
<1>4. 0 .. n \subseteq 0 .. m
  OBVIOUS
<1> QED
  BY <1>1, <1>3, <1>4

LEMMA ProcsSame ==
    ASSUME Shape, Procs, NEW k \in {0, 1}, NEW new, Retained(evs, evs', k, new), \A x \in new : ~IsWant(x),
           UNCHANGED <<tui, changes, wants>>
    PROVE  Procs' /\ \A p \in Panes : Wanted(p)' => Wanted(p)
<1>0. /\ changes \in Nat /\ changes <= changes
      /\ \A i \in 1 .. Len(evs) : IsWant(evs[i]) => \A p \in Panes : evs[i].wants[p].proc \in 0 .. changes
  BY DEF Procs
<1>1. \A i \in 1 .. Len(evs') : IsWant(evs'[i]) => \A p \in Panes : evs'[i].wants[p].proc \in 0 .. changes
  BY <1>0, WantsCarried
<1> QED
  BY <1>1 DEF Procs, Wanted

LEMMA StandsSame ==
    ASSUME Shape, Places, UNCHANGED bound
    PROVE  Stands
BY DEF Shape, Places, Stands, Bound

LEMMA StandsOne ==
    ASSUME Shape, Places, NEW p \in Bound, NEW b, bound' = [bound EXCEPT ![p] = b],
           HasProc(b), b.key = bound[p].key, b.thread = bound[p].thread, b.proc = bound[p].proc
    PROVE  Stands
BY DEF Shape, Places, Stands, Bound

LEMMA StandsAll ==
    ASSUME Shape, Places, bound' = [p \in Panes |-> bound'[p]],
           \A p \in Panes : \/ bound'[p] = bound[p]
                            \/ /\ HasProc(bound'[p]) /\ bound'[p].key = bound[p].key
                               /\ bound'[p].thread = bound[p].thread
                               /\ bound'[p].proc = bound[p].proc
    PROVE  Stands
BY DEF Shape, Places, Stands, Bound

-----------------------------------------------------------------------------
(* Codex and its daemon.                                                   *)

\* What they tell the worker of.
TurnNews(t) == {Busy(t), Idle(t)} \cup {[op |-> "turn", thread |-> t, turn |-> n] : n \in {0, began + 1}}

LEMMA NewsIsNews ==
    /\ \A t : \A x \in TurnNews(t) : "op" \in DOMAIN x /\ x.op \in {"status", "turn"} /\ x.thread = t
    /\ \A t \in Threads : Lists(<<Busy(t)>>, TurnNews(t)) /\ Lists(<<Idle(t)>>, TurnNews(t)) /\ Lists(Completed(t), TurnNews(t))
    /\ \A t \in Threads : Lists(Started(t, began + 1), TurnNews(t))
    /\ Lists(<<Reload>>, {Reload}) /\ Reload.op = "threads"
<1>1. \A t : \A x \in TurnNews(t) : "op" \in DOMAIN x /\ x.op \in {"status", "turn"} /\ x.thread = t
  BY DEF TurnNews, Busy, Idle
<1>2. ASSUME NEW t \in Threads PROVE Lists(<<Busy(t)>>, TurnNews(t)) /\ Lists(<<Idle(t)>>, TurnNews(t))
  <2>1. Busy(t) \in TurnNews(t) /\ Idle(t) \in TurnNews(t)
    BY DEF TurnNews
  <2> QED
    BY <1>1, <2>1, ListsOne
<1>3. ASSUME NEW t \in Threads, NEW n \in {0, began + 1} PROVE Lists(TurnNote(t, [op |-> "turn", thread |-> t, turn |-> n]), TurnNews(t))
  <2> DEFINE x == [op |-> "turn", thread |-> t, turn |-> n]
  <2>1. x \in TurnNews(t)
    BY DEF TurnNews
  <2> HIDE DEF x
  <2>2. Lists(<<x>>, TurnNews(t)) /\ Lists(<<>>, TurnNews(t))
    BY <1>1, <2>1, ListsOne, ListsNone
  <2>3. Lists(TurnNote(t, x), TurnNews(t))
    BY <2>2 DEF TurnNote
  <2> QED
    BY <2>3 DEF x
<1>4. Lists(<<Reload>>, {Reload}) /\ Reload.op = "threads"
  <2>1. "op" \in DOMAIN Reload /\ Reload.op = "threads"
    BY DEF Reload
  <2> QED
    BY <2>1, ListsOne
<1> QED
  BY <1>1, <1>2, <1>3, <1>4 DEF Started, Completed

LEMMA NotedAll ==
    ASSUME Shape, NEW S, NEW es, Lists(es, S), evs' = Note(es)
    PROVE  Retained(evs, evs', 0, S)
<1>1. Sequence(evs) /\ Retained(evs, evs, 0, S)
  BY AllRetained DEF Shape
<1>2. Retained(evs, evs \o es, 0, S)
  BY <1>1, MoreRetained
<1> QED
  BY <1>1, <1>2 DEF Note

\* The worker hears of a thread that was loaded or unloaded, if it can.
LEMMA Reloaded ==
    ASSUME Shape, link, evs' = Note(<<Reload>>)
    PROVE  Tidings'
<1>1. Sequence(evs) /\ Sequence(<<Reload>>) /\ Len(<<Reload>>) = 1 /\ <<Reload>>[1] = Reload
  BY One DEF Shape, Reload
<1>2. /\ Len(evs) \in Nat /\ Len(evs \o <<Reload>>) = Len(evs) + 1
      /\ \A i \in 1 .. Len(evs \o <<Reload>>) :
            i \notin 1 .. Len(evs) => (evs \o <<Reload>>)[i] = <<Reload>>[i - Len(evs)]
  BY <1>1, Joined
<1>3. /\ Len(evs) + 1 \in 1 .. Len(evs') /\ Len(evs) + 1 \notin 1 .. Len(evs)
      /\ (Len(evs) + 1) - Len(evs) = 1 /\ evs' = evs \o <<Reload>>
  BY <1>2 DEF Note
<1>4. evs'[Len(evs) + 1] = Reload
  BY <1>1, <1>2, <1>3
<1> QED
  BY <1>3, <1>4, NewsIsNews DEF Tidings

LEMMA CodexServes ==
    ASSUME BusInv, ServeInv,
           \/ \E p \in Panes : Starts(p) \/ Quits(p) \/ \E t \in Threads : Shows(p, t)
           \/ \E t \in Threads : Unloads(t)
    PROVE  ServeInv'
<1>s. Shape /\ Procs /\ Places
  BY DEF BusInv, ServeInv
<1>1. UNCHANGED <<sent, wants, todo, unserved, retry, bound, link>>
  BY DEF Starts, Quits, Shows, Unloads, TuiOnly, daemon, worker, ghosts
<1>2. evs' = evs \/ evs' = Note(<<Reload>>)
  BY DEF Starts, Quits, Shows, Unloads
<1>3. Retained(evs, evs', 0, {Reload})
  <2>1. Lists(<<Reload>>, {Reload})
    BY NewsIsNews
  <2>2. CASE evs' = evs
    BY <1>s, <2>2, AllRetained DEF Shape
  <2>3. CASE evs' = Note(<<Reload>>)
    BY <1>s, <2>1, <2>3, NotedAll
  <2> QED
    BY <1>2, <2>2, <2>3
<1>4. /\ loaded' \subseteq Threads
      /\ loaded' \subseteq loaded \/ evs' = Note(<<Reload>>)
  BY <1>s DEF Starts, Quits, Shows, Unloads, Places
<1>5. ~link /\ ~Tidings' /\ ~retry => \A p \in Panes : ~Wanted(p)
  <2>0. Len(evs) \in Nat
    BY <1>s, LenProperties DEF Shape, Sequence
  <2>1. Closing => Closing'
    <3> SUFFICES ASSUME NEW i \in 1 .. Len(evs), evs[i].op = "closed" PROVE Closing'
      BY DEF Closing
    <3>1. i > 0 /\ i - 0 = i
      BY <2>0
    <3>2. i \in 1 .. Len(evs') /\ Same(evs[i], evs'[i])
      BY <1>3, <3>1 DEF Retained
    <3> QED
      BY <3>2 DEF Closing, Same
  <2> QED
    BY <2>1 DEF ServeInv, Apart, Tidings
<1>6. /\ changes' \in Nat /\ changes <= changes'
      /\ tui' = [p \in Panes |-> tui'[p]]
      /\ \A p \in Panes : /\ tui'[p] = [proc |-> tui'[p].proc, argv |-> tui'[p].argv, shows |-> tui'[p].shows]
                          /\ tui'[p].proc = 0 => tui'[p].shows = None
                          /\ tui'[p].proc \in {0, tui[p].proc, changes + 1}
                          /\ tui'[p].proc \in 0 .. changes'
  <2>1. CASE \E p \in Panes : Starts(p)
    <3>1. PICK p \in Panes, a \in Resumed \cup {None} :
              /\ tui' = [tui EXCEPT ![p] = [proc |-> changes + 1, argv |-> a, shows |-> None]]
              /\ changes' = changes + 1
      BY <2>1 DEF Starts, Change
    <3>2. tui'[p] = [proc |-> changes + 1, argv |-> a, shows |-> None]
      BY <1>s, <3>1 DEF Procs
    <3>3. \A q \in Panes : q # p => tui'[q] = tui[q]
      BY <1>s, <3>1 DEF Procs
    <3>4. tui' = [q \in Panes |-> tui'[q]]
      BY <1>s, <3>1 DEF Procs
    <3>5. changes \in Nat /\ \A q \in Panes : tui[q].proc \in 0 .. changes
      BY <1>s DEF Procs
    <3>6. changes' \in Nat /\ changes <= changes' /\ changes + 1 \in 0 .. changes' /\ 0 .. changes \subseteq 0 .. changes'
      BY <3>1, <3>5
    <3>7. ASSUME NEW q \in Panes
          PROVE  /\ tui'[q] = [proc |-> tui'[q].proc, argv |-> tui'[q].argv, shows |-> tui'[q].shows]
                 /\ tui'[q].proc = 0 => tui'[q].shows = None
                 /\ tui'[q].proc \in {0, tui[q].proc, changes + 1}
                 /\ tui'[q].proc \in 0 .. changes'
      <4>1. CASE q = p
        BY <3>2, <3>6, <4>1
      <4>2. CASE q # p
        BY <1>s, <3>3, <3>5, <3>6, <4>2 DEF Procs
      <4> QED
        BY <4>1, <4>2
    <3> QED
      BY <3>4, <3>6, <3>7
  <2>2. CASE \E p \in Panes : Quits(p)
    <3>1. PICK p \in Panes : tui' = [tui EXCEPT ![p] = NoTui] /\ changes' = changes + 1
      BY <2>2 DEF Quits, Change
    <3>2. tui' = [q \in Panes |-> IF q = p THEN NoTui ELSE tui[q]]
      BY <1>s, <3>1 DEF Procs
    <3>3. /\ NoTui = [proc |-> NoTui.proc, argv |-> NoTui.argv, shows |-> NoTui.shows]
          /\ NoTui.proc = 0 /\ NoTui.shows = None
      BY DEF NoTui
    <3>4. changes \in Nat
      BY <1>s DEF Procs
    <3> HIDE DEF NoTui
    <3> QED
      BY <1>s, <3>1, <3>2, <3>3, <3>4 DEF Procs
  <2>3. CASE \E p \in Panes, t \in Threads : Shows(p, t)
    <3>1. PICK p \in Panes, t \in Threads : /\ tui' = [tui EXCEPT ![p].shows = t] /\ changes' = changes + 1
                                            /\ tui[p].proc # 0
      BY <2>3 DEF Shows, Change
    <3>2. /\ tui' = [q \in Panes |-> tui'[q]]
          /\ \A q \in Panes : q # p => tui'[q] = tui[q]
          /\ tui'[p] = [tui[p] EXCEPT !.shows = t]
      BY <1>s, <3>1 DEF Procs
    <3>3. tui'[p] = [proc |-> tui[p].proc, argv |-> tui[p].argv, shows |-> t]
      BY <1>s, <3>2 DEF Procs
    <3>4. /\ tui'[p] = [proc |-> tui'[p].proc, argv |-> tui'[p].argv, shows |-> tui'[p].shows]
          /\ tui'[p].proc = tui[p].proc
      BY <3>3
    <3> QED
      BY <1>s, <3>1, <3>2, <3>4 DEF Procs
  <2>4. CASE \E t \in Threads : Unloads(t)
    <3>1. tui' = tui /\ changes' = changes
      BY <2>4 DEF Unloads
    <3> QED
      BY <1>s, <3>1 DEF Procs
  <2> QED
    BY <2>1, <2>2, <2>3, <2>4
<1>7. \A x \in {Reload} : ~IsWant(x)
  BY NewsIsNews DEF IsWant
<1>8. Procs'
  <2>1. \A i \in 1 .. Len(evs') : IsWant(evs'[i]) => \A p \in Panes : evs'[i].wants[p].proc \in 0 .. changes'
    <3>1. /\ changes \in Nat
          /\ \A i \in 1 .. Len(evs) : IsWant(evs[i]) => \A p \in Panes : evs[i].wants[p].proc \in 0 .. changes
      BY <1>s DEF Procs
    <3>2. changes' \in Nat /\ changes <= changes'
      BY <1>6
    <3> QED
      BY <1>3, <1>7, <1>s, <3>1, <3>2, WantsCarried
  <2>2. \A p \in Panes : wants'[p].proc \in 0 .. changes'
    BY <1>1, <1>6, <1>s DEF Procs
  <2> QED
    BY <1>6, <2>1, <2>2 DEF Procs
<1>9. \A p \in Panes : Wanted(p)' => Wanted(p)
  BY <1>1, <1>6, <1>s DEF Wanted, Procs
<1>10. Stands /\ (~link' => ~link)
  BY <1>1, <1>s, StandsSame
<1>11. loaded' \subseteq loaded \/ Tidings' \/ retry \/ \A p \in Panes : ~Wanted(p)
  BY <1>4, <1>5, <1>s, Reloaded
<1> QED
  BY <1>1, <1>3, <1>4, <1>7, <1>8, <1>9, <1>10, <1>11, <1>s, ServeKept

LEMMA RestRetains ==
    ASSUME Shape, NEW t, NEW S
    PROVE  Retained(evs, RestedAsks(t), 0, S) /\ Len(RestedAsks(t)) = Len(evs)
<1> DEFINE r == RestedAsks(t)
<1>1. Len(evs) \in Nat /\ DOMAIN evs = 1 .. Len(evs)
  BY LenProperties DEF Shape, Sequence
<1>2. Sequence(r)
  BY RestCarries DEF Carried
<1>3. Len(r) = Len(evs)
  BY <1>1 DEF RestedAsks
<1>4. ASSUME NEW i \in 1 .. Len(evs) PROVE Same(evs[i], r[i]) /\ i + 0 = i /\ i - 0 = i
  <2>1. "op" \in DOMAIN evs[i]
    BY DEF Shape, Sequence
  <2>2. r[i] = IF AskOf(evs[i], t) THEN [evs[i] EXCEPT !.idled = TRUE] ELSE evs[i]
    BY <1>1 DEF RestedAsks
  <2>3. AskOf(evs[i], t) => evs[i].op = "ask"
    BY DEF AskOf
  <2>4. i + 0 = i /\ i - 0 = i
    BY <1>1
  <2> QED
    BY <2>1, <2>2, <2>3, <2>4 DEF Same
<1> HIDE DEF r
<1>5. Retained(evs, r, 0, S)
  BY <1>1, <1>2, <1>3, <1>4 DEF Retained
<1> QED
  BY <1>3, <1>5 DEF r

\* Turns that begin and end are all the worker is told of by such a step.
LEMMA TurnsRetain ==
    ASSUME Shape, NEW t \in Threads, PersonAsks(t) \/ TakesQueued(t) \/ TurnEnds(t)
    PROVE  Retained(evs, evs', 0, TurnNews(t))
<1>1. /\ Lists(<<Busy(t)>> \o Started(t, began + 1), TurnNews(t))
      /\ Lists(Completed(t) \o Started(t, began + 1), TurnNews(t))
      /\ Lists(Completed(t) \o <<Idle(t)>>, TurnNews(t)) /\ Lists(<<>>, TurnNews(t))
  BY NewsIsNews, ListsBoth, ListsNone
<1>2. CASE \/ evs' = Note(<<Busy(t)>> \o Started(t, began + 1))
           \/ evs' = Note(Completed(t) \o Started(t, began + 1))
  BY <1>1, <1>2, NotedAll
<1>3. CASE evs' = RestedAsks(t) \o (IF link THEN Completed(t) \o <<Idle(t)>> ELSE <<>>)
  <2>1. Lists(IF link THEN Completed(t) \o <<Idle(t)>> ELSE <<>>, TurnNews(t))
    BY <1>1
  <2>2. Sequence(evs) /\ Retained(evs, RestedAsks(t), 0, TurnNews(t)) /\ Len(RestedAsks(t)) = Len(evs)
    BY RestRetains DEF Shape
  <2> QED
    BY <1>3, <2>1, <2>2, MoreRetained
<1> QED
  BY <1>2, <1>3 DEF PersonAsks, TakesQueued, Begins, TurnEnds

LEMMA TurnsServe ==
    ASSUME BusInv, ServeInv, \E t \in Threads : PersonAsks(t) \/ TakesQueued(t) \/ TurnEnds(t)
    PROVE  ServeInv'
<1>s. Shape /\ Procs /\ Places
  BY DEF BusInv, ServeInv
<1>1. UNCHANGED <<sent, wants, todo, unserved, retry, link, tui, changes, loaded>>
  BY DEF PersonAsks, TakesQueued, Begins, TurnEnds, daemon, worker, ghosts, bounds
<1>2. PICK t \in Threads : PersonAsks(t) \/ TakesQueued(t) \/ TurnEnds(t)
  OBVIOUS
<1>3. Retained(evs, evs', 0, TurnNews(t))
  BY <1>2, <1>s, TurnsRetain
<1>4. \A x \in TurnNews(t) : ~IsWant(x)
  BY NewsIsNews DEF IsWant
<1>5. Procs' /\ \A p \in Panes : Wanted(p)' => Wanted(p)
  BY <1>1, <1>3, <1>4, <1>s, ProcsSame
<1>6. Stands
  <2>1. CASE UNCHANGED bound
    BY <1>s, <2>1, StandsSame
  <2>2. CASE bound' = Rested(t)
    <3>1. bound' = [p \in Panes |-> bound'[p]]
      BY <2>2 DEF Rested
    <3>2. ASSUME NEW p \in Panes
          PROVE  \/ bound'[p] = bound[p]
                 \/ /\ HasProc(bound'[p])
                    /\ bound'[p].key = bound[p].key
                    /\ bound'[p].thread = bound[p].thread
                    /\ bound'[p].proc = bound[p].proc
      <4>1. CASE p \in BoundTo(t)
        <5>1. Fields(bound[p]) /\ HasProc(bound[p])
          BY <1>s, <4>1 DEF Shape, BoundTo, Places
        <5>2. PICK u : bound'[p] = [bound[p] EXCEPT !.subs = u]
          BY <2>2, <4>1 DEF Rested
        <5> QED
          BY <5>1, <5>2 DEF Fields, HasProc
      <4>2. CASE p \notin BoundTo(t)
        BY <2>2, <4>2 DEF Rested
      <4> QED
        BY <4>1, <4>2
    <3> QED
      BY <1>s, <3>1, <3>2, StandsAll
  <2> QED
    BY <1>2, <2>1, <2>2 DEF PersonAsks, TakesQueued, Begins, TurnEnds, worker
<1>7. loaded' \subseteq Threads /\ loaded' \subseteq loaded /\ (~link' => ~link)
  BY <1>1, <1>s DEF Places
<1> QED
  BY <1>1, <1>3, <1>4, <1>5, <1>6, <1>7, <1>s, ServeKept

LEMMA PutRetained ==
    ASSUME Shape, NEW x, "op" \in DOMAIN x, evs' = Append(evs, x)
    PROVE  /\ Retained(evs, evs', 0, {x}) /\ Len(evs) \in Nat /\ Len(evs') = Len(evs) + 1
           /\ evs'[Len(evs) + 1] = x
           /\ \A i \in 1 .. Len(evs) : i \in 1 .. Len(evs') /\ evs'[i] = evs[i]
<1>1. /\ Sequence(evs') /\ Len(evs) \in Nat /\ Len(evs') = Len(evs) + 1
      /\ \A i \in 1 .. Len(evs') : \/ i \in 1 .. Len(evs) /\ evs'[i] = evs[i]
                                   \/ i = Len(evs) + 1 /\ evs'[i] = x
  BY Put
<1>2. Len(evs) + 1 \in 1 .. Len(evs') /\ Len(evs) + 1 \notin 1 .. Len(evs)
  BY <1>1
<1>3. \A i \in 1 .. Len(evs) : /\ i \in 1 .. Len(evs') /\ i # Len(evs) + 1 /\ i - 0 = i /\ i + 0 = i
  BY <1>1
<1>4. \A i \in 1 .. Len(evs) : evs'[i] = evs[i]
  BY <1>1, <1>3
<1>5. \A i \in 1 .. Len(evs') : i + 0 \notin 1 .. Len(evs) => evs'[i] \in {x}
  BY <1>1, <1>3
<1> QED
  BY <1>1, <1>2, <1>3, <1>4, <1>5 DEF Retained, Same

LEMMA BreakServes ==
    ASSUME BusInv, ServeInv, NEW dies \in BOOLEAN, Breaks(dies)
    PROVE  ServeInv'
<1> DEFINE x == [op |-> "closed"]
<1>1. /\ evs' = Append(evs, x) /\ bound' = Unfollowed
      /\ UNCHANGED <<sent, wants, todo, unserved, retry, tui, changes>>
      /\ loaded' \subseteq loaded
  BY DEF Breaks
<1>2. "op" \in DOMAIN x /\ x.op = "closed"
  OBVIOUS
<1> HIDE DEF x
<1>s. Shape /\ Procs /\ Places
  BY DEF BusInv, ServeInv
<1>3. /\ Retained(evs, evs', 0, {x}) /\ Len(evs) \in Nat /\ Len(evs') = Len(evs) + 1
      /\ evs'[Len(evs) + 1] = x
      /\ \A i \in 1 .. Len(evs) : i \in 1 .. Len(evs') /\ evs'[i] = evs[i]
  BY <1>1, <1>2, <1>s, PutRetained
<1>4. Closing'
  <2>1. Len(evs) + 1 \in 1 .. Len(evs')
    BY <1>3
  <2> QED
    BY <1>2, <1>3, <2>1 DEF Closing
<1>5. \A y \in {x} : ~IsWant(y)
  BY <1>2 DEF IsWant
<1>6. Procs' /\ \A p \in Panes : Wanted(p)' => Wanted(p)
  BY <1>1, <1>3, <1>5, <1>s, ProcsSame
<1>7. Posted'
  <2>1. \A i \in 1 .. Len(evs') : IsWant(evs'[i]) => i \in 1 .. Len(evs)
    <3> TAKE i \in 1 .. Len(evs')
    <3>1. i = Len(evs) + 1 => ~IsWant(evs'[i])
      BY <1>2, <1>3 DEF IsWant
    <3> QED
      BY <1>3, <3>1
  <2> QED
    BY <1>1, <1>3, <2>1 DEF ServeInv, Posted
<1>8. \A p \in Panes : /\ bound'[p].key # 0 => p \in Bound /\ HasProc(bound'[p])
  <2> TAKE p \in Panes
  <2>1. CASE p \in Bound
    <3>1. bound'[p] = [bound[p] EXCEPT !.followed = FALSE] /\ Fields(bound[p]) /\ HasProc(bound[p])
      BY <1>1, <1>s, <2>1 DEF Unfollowed, Shape, Places
    <3> QED
      BY <2>1, <3>1 DEF HasProc, Fields
  <2>2. CASE p \notin Bound
    BY <1>1, <2>2 DEF Unfollowed, NoBinding
  <2> QED
    BY <2>1, <2>2
<1>9. Places'
  BY <1>1, <1>8, <1>s DEF Places, Bound
<1>10. Apart' /\ AllServed'
  BY <1>4 DEF Apart, AllServed, Tidings
<1> QED
  BY <1>6, <1>7, <1>9, <1>10 DEF ServeInv

LEMMA SendServes ==
    ASSUME BusInv, ServeInv, NEW p \in Panes, Send(p)
    PROVE  ServeInv'
<1>1. PICK f \in Frames(p) : evs' = Append(evs, f)
  BY DEF Send
<1>2. UNCHANGED <<sent, wants, todo, unserved, retry, link, tui, changes, loaded, bound>>
  BY DEF Send, daemon, worker, ghosts, world
<1>3. "op" \in DOMAIN f /\ ~IsWant(f)
  BY DEF Frames, IsWant
<1>s. Shape /\ Procs /\ Places
  BY DEF BusInv, ServeInv
<1>4. Retained(evs, evs', 0, {f}) /\ \A x \in {f} : ~IsWant(x)
  BY <1>1, <1>3, <1>s, PutRetained
<1>5. Procs' /\ \A q \in Panes : Wanted(q)' => Wanted(q)
  BY <1>2, <1>4, <1>s, ProcsSame
<1>6. Stands /\ loaded' \subseteq Threads /\ loaded' \subseteq loaded /\ (~link' => ~link)
  BY <1>2, <1>s, StandsSame DEF Places
<1> QED
  BY <1>2, <1>4, <1>5, <1>6, <1>s, ServeKept

\* L1 offers the worker another set of panes.
LEMMA OfferServes ==
    ASSUME BusInv, ServeInv, Offer
    PROVE  ServeInv'
<1> DEFINE x == [op |-> "want", wants |-> Observed]
<1>1. /\ evs' = Append(evs, x) /\ sent' = Observed
      /\ UNCHANGED <<wants, todo, unserved, retry, link, tui, changes, loaded, bound>>
  BY DEF Offer, daemon, worker, ghosts, world, bounds
<1>2. "op" \in DOMAIN x /\ x.op = "want" /\ x.wants = Observed
  OBVIOUS
<1> HIDE DEF x
<1>s. Shape /\ Procs /\ Places
  BY DEF BusInv, ServeInv
<1>3. /\ Len(evs) \in Nat /\ Len(evs') = Len(evs) + 1
      /\ evs'[Len(evs) + 1] = x
      /\ \A i \in 1 .. Len(evs) : i \in 1 .. Len(evs') /\ evs'[i] = evs[i]
  BY <1>1, <1>2, <1>s, PutRetained
<1>4. Len(evs) + 1 \in 1 .. Len(evs') /\ \A i \in 1 .. Len(evs') : i # Len(evs) + 1 => i \in 1 .. Len(evs) /\ Len(evs) + 1 > i
  BY <1>3
<1>5. Posted'
  BY <1>1, <1>2, <1>3, <1>4 DEF Posted, IsWant
<1>6. \A p \in Panes : Observed[p].proc = tui[p].proc
  BY DEF Observed
<1>7. Procs'
  <2>1. \A i \in 1 .. Len(evs') : IsWant(evs'[i]) => \A p \in Panes : evs'[i].wants[p].proc \in 0 .. changes
    <3> TAKE i \in 1 .. Len(evs')
    <3>1. CASE i = Len(evs) + 1
      BY <1>2, <1>3, <1>6, <1>s, <3>1 DEF Procs
    <3>2. CASE i # Len(evs) + 1
      BY <1>3, <1>4, <1>s, <3>2 DEF Procs
    <3> QED
      BY <3>1, <3>2
  <2> QED
    BY <1>1, <1>s, <2>1 DEF Procs
<1>8. (Closing => Closing') /\ (Tidings => Tidings')
  BY <1>3 DEF Closing, Tidings
<1>9. \A p \in Panes : (Wanted(p)' <=> Wanted(p)) /\ (Served(p) <=> Served(p)')
  BY <1>1 DEF Wanted, Served, Keeps, Has, Gets, Bound
<1>10. Apart' /\ AllServed'
  BY <1>1, <1>8, <1>9 DEF ServeInv, Apart, AllServed
<1>11. Places'
  BY <1>1, <1>s DEF Places, Bound
<1> QED
  BY <1>5, <1>7, <1>10, <1>11 DEF ServeInv

LEMMA IdleServes ==
    ASSUME BusInv, ServeInv, Tick \/ UNCHANGED vars
    PROVE  ServeInv'
<1>1. UNCHANGED <<evs, sent, wants, todo, unserved, retry, link, tui, changes, loaded, bound>>
  BY DEF Tick, vars, daemon, worker, ghosts, world, bounds
<1>s. Shape /\ Procs /\ Places
  BY DEF BusInv, ServeInv
<1>2. Retained(evs, evs', 0, {}) /\ \A x \in {} : ~IsWant(x)
  BY <1>1, <1>s, AllRetained DEF Shape
<1>3. Procs' /\ \A p \in Panes : Wanted(p)' => Wanted(p)
  BY <1>1, <1>2, <1>s, ProcsSame
<1>4. Stands /\ loaded' \subseteq Threads /\ loaded' \subseteq loaded /\ (~link' => ~link)
  BY <1>1, <1>s, StandsSame DEF Places
<1> QED
  BY <1>1, <1>2, <1>3, <1>4, <1>s, ServeKept

LEMMA TakesRest ==
    ASSUME Shape, NEW op, At(op), NEW S
    PROVE  /\ Retained(evs, evs', 1, S) /\ 1 \in 1 .. Len(evs) /\ Len(evs) \in Nat
           /\ Len(evs') = Len(evs) - 1
           /\ \A i \in 1 .. Len(evs') : i + 1 \in 1 .. Len(evs) /\ evs'[i] = evs[i + 1]
           /\ e = evs[1] /\ evs[1].op = op /\ todo = NoWork
BY RestRetained DEF Shape, At, e

\* The worker handles an event that says nothing of panes or of threads.
LEMMA HandleServes ==
    ASSUME BusInv, ServeInv, HandleStatus \/ HandleTurn \/ HandleMail \/ HandleTold \/ HandleAsk
    PROVE  ServeInv'
<1>s. Shape /\ Procs /\ Places
  BY DEF BusInv, ServeInv
<1>1. UNCHANGED <<sent, wants, todo, unserved, retry, tui, changes, loaded>>
  BY DEF HandleStatus, HandleTurn, HandleMail, HandleTold, HandleAsk, world, daemon, ghosts, bounds
<1>2. ~link' => ~link
  BY DEF HandleStatus, HandleTurn, HandleMail, HandleTold, HandleAsk, HandOver, NoCall, Call, daemon
<1>3. PICK op \in {"status", "turn", "mail", "told", "ask"} : At(op)
  BY DEF HandleStatus, HandleTurn, HandleMail, HandleTold, HandleAsk
<1>4. Retained(evs, evs', 1, {}) /\ evs[1].op = op
  BY <1>3, <1>s, TakesRest
<1>5. evs[1].op \notin {"closed", "threads"} /\ ~IsWant(evs[1]) /\ \A x \in {} : ~IsWant(x)
  BY <1>4 DEF IsWant
<1>6. Procs' /\ \A p \in Panes : Wanted(p)' => Wanted(p)
  BY <1>1, <1>4, <1>5, <1>s, ProcsSame
<1>7. \/ UNCHANGED bound
      \/ \E p \in Bound : \E x, y, z : bound' = [bound EXCEPT ![p] = [bound[p] EXCEPT !.subscribed = x, !.idle = y, !.subs = z]]
      \/ \E p \in Bound : \E x : bound' = [bound EXCEPT ![p] = [bound[p] EXCEPT !.active = x]]
      \/ \E p \in Bound : \E x : bound' = [bound EXCEPT ![p] = [bound[p] EXCEPT !.last = x]]
      \/ \E p \in Bound : \E x : bound' = [bound EXCEPT ![p] = [bound[p] EXCEPT !.followed = x]]
      \/ \E p \in Bound : \E x : bound' = [bound EXCEPT ![p] = [bound[p] EXCEPT !.subs = x]]
  <2>1. CASE HandleStatus
    <3>1. CASE UNCHANGED bound
      BY <3>1
    <3>2. CASE \E p \in BoundTo(e.thread), r \in Outcomes :
                 bound' = [bound EXCEPT ![p] = [bound[p] EXCEPT
                     !.subscribed = IF e.idle /\ ~bound[p].subscribed THEN Subscribed(e.thread, r) ELSE @,
                     !.idle = e.idle,
                     !.subs = IF e.idle /\ ~bound[p].idle THEN {} ELSE @]]
      <4>1. PICK p \in BoundTo(e.thread), r \in Outcomes :
                 bound' = [bound EXCEPT ![p] = [bound[p] EXCEPT
                     !.subscribed = IF e.idle /\ ~bound[p].subscribed THEN Subscribed(e.thread, r) ELSE bound[p].subscribed,
                     !.idle = e.idle,
                     !.subs = IF e.idle /\ ~bound[p].idle THEN {} ELSE bound[p].subs]]
        BY <3>2
      <4> DEFINE x == IF e.idle /\ ~bound[p].subscribed THEN Subscribed(e.thread, r) ELSE bound[p].subscribed
                 y == e.idle
                 z == IF e.idle /\ ~bound[p].idle THEN {} ELSE bound[p].subs
      <4>2. bound' = [bound EXCEPT ![p] = [bound[p] EXCEPT !.subscribed = x, !.idle = y, !.subs = z]]
        BY <4>1
      <4>3. p \in Bound
        BY DEF BoundTo
      <4> HIDE DEF x, y, z
      <4> QED
        BY <4>2, <4>3
    <3> QED
      BY <2>1, <3>1, <3>2 DEF HandleStatus
  <2>2. CASE HandleTurn
    BY <2>2 DEF HandleTurn, BoundTo
  <2>3. CASE HandleMail
    BY <2>3 DEF HandleMail, Key
  <2>4. CASE HandleTold
    BY <2>4 DEF HandleTold, Key
  <2>5. CASE HandleAsk
    BY <2>5 DEF HandleAsk, Key
  <2> QED
    BY <2>1, <2>2, <2>3, <2>4, <2>5
<1>8. Stands
  <2>1. CASE UNCHANGED bound
    BY <1>s, <2>1, StandsSame
  <2>2. ASSUME NEW p \in Bound, NEW b, bound' = [bound EXCEPT ![p] = b],
               \/ \E x, y, z : b = [bound[p] EXCEPT !.subscribed = x, !.idle = y, !.subs = z]
               \/ \E x : b = [bound[p] EXCEPT !.active = x]
               \/ \E x : b = [bound[p] EXCEPT !.last = x]
               \/ \E x : b = [bound[p] EXCEPT !.followed = x]
               \/ \E x : b = [bound[p] EXCEPT !.subs = x]
        PROVE  Stands
    <3>1. Fields(bound[p]) /\ HasProc(bound[p])
      BY <1>s DEF Shape, Places
    <3>2. HasProc(b) /\ b.key = bound[p].key /\ b.thread = bound[p].thread /\ b.proc = bound[p].proc
      BY <2>2, <3>1 DEF Fields, HasProc
    <3> QED
      BY <1>s, <2>2, <3>2, StandsOne
  <2> QED
    BY <1>7, <2>1, <2>2
<1>9. loaded' \subseteq Threads /\ loaded' \subseteq loaded
  BY <1>1, <1>s DEF Places
<1> QED
  BY <1>1, <1>2, <1>4, <1>5, <1>6, <1>8, <1>9, <1>s, ServeKept

LEMMA ChecksServe ==
    ASSUME BusInv, ServeInv, ChecksDue
    PROVE  ServeInv'
<1>s. Shape /\ Procs /\ Places
  BY DEF BusInv, ServeInv
<1>1. UNCHANGED <<evs, sent, wants, todo, unserved, retry, tui, changes, loaded, link>>
  BY DEF ChecksDue, world, daemon, ghosts, bounds
<1>2. Retained(evs, evs', 0, {}) /\ \A x \in {} : ~IsWant(x)
  BY <1>1, <1>s, AllRetained DEF Shape
<1>3. Procs' /\ \A p \in Panes : Wanted(p)' => Wanted(p)
  BY <1>1, <1>2, <1>s, ProcsSame
<1>4. /\ bound' = [p \in Panes |-> bound'[p]]
      /\ \A p \in Panes : \/ bound'[p] = bound[p]
                          \/ p \in Bound /\ bound'[p] = [bound[p] EXCEPT !.subs = {}]
  BY DEF ChecksDue
<1>5. ASSUME NEW p \in Panes
      PROVE  \/ bound'[p] = bound[p]
             \/ /\ HasProc(bound'[p]) /\ bound'[p].key = bound[p].key
                /\ bound'[p].thread = bound[p].thread /\ bound'[p].proc = bound[p].proc
  <2>1. p \in Bound => Fields(bound[p]) /\ HasProc(bound[p])
    BY <1>s DEF Shape, Places
  <2> QED
    BY <1>4, <2>1 DEF Fields, HasProc
<1>6. Stands
  BY <1>4, <1>5, <1>s, StandsAll
<1>7. loaded' \subseteq Threads /\ loaded' \subseteq loaded /\ (~link' => ~link)
  BY <1>1, <1>s DEF Places
<1> QED
  BY <1>1, <1>2, <1>3, <1>6, <1>7, <1>s, ServeKept

\* The end of the connection: a rescan is due.
LEMMA ClosedServes ==
    ASSUME BusInv, ServeInv, HandleClosed
    PROVE  ServeInv'
<1>s. Shape /\ Procs /\ Places
  BY DEF BusInv, ServeInv
<1>1. /\ UNCHANGED <<sent, wants, todo, unserved, tui, changes, loaded, link>> /\ retry' = TRUE
      /\ bound' = [p \in Panes |-> IF p \in Bound THEN [bound[p] EXCEPT !.subscribed = FALSE] ELSE NoBinding]
  BY DEF HandleClosed, world, daemon, ghosts, bounds, Retries
<1>2. Retained(evs, evs', 1, {}) /\ evs[1].op = "closed" /\ \A x \in {} : ~IsWant(x)
  BY <1>s, TakesRest DEF HandleClosed
<1>3. Procs'
  BY <1>1, <1>2, <1>s, ProcsSame
<1>4. Posted'
  <2>0. /\ Len(evs) \in Nat /\ Len(evs') = Len(evs) - 1 /\ 1 \in 1 .. Len(evs)
        /\ \A i \in 1 .. Len(evs') : i + 1 \in 1 .. Len(evs) /\ evs'[i] = evs[i + 1]
    BY <1>s, TakesRest DEF HandleClosed
  <2>1. \A i \in 1 .. Len(evs) : IsWant(evs[i]) => i - 1 \in 1 .. Len(evs') /\ evs'[i - 1] = evs[i]
    <3> TAKE i \in 1 .. Len(evs)
    <3> HAVE IsWant(evs[i])
    <3>1. i # 1
      BY <1>2 DEF IsWant
    <3>2. i - 1 \in 1 .. Len(evs') /\ (i - 1) + 1 = i
      BY <2>0, <3>1
    <3> QED
      BY <2>0, <3>2
  <2>2. ASSUME NEW i \in 1 .. Len(evs'), IsWant(evs'[i]),
               \A m \in 1 .. Len(evs') : m > i => ~IsWant(evs'[m])
        PROVE  evs'[i].wants = sent
    <3>1. \A m \in 1 .. Len(evs) : m > i + 1 => ~IsWant(evs[m])
      <4> TAKE m \in 1 .. Len(evs)
      <4> HAVE m > i + 1
      <4>1. m - 1 > i
        BY <2>0
      <4> QED
        BY <2>1, <2>2, <4>1
    <3>2. i + 1 \in 1 .. Len(evs) /\ evs'[i] = evs[i + 1]
      BY <2>0
    <3> QED
      BY <2>2, <3>1, <3>2 DEF ServeInv, Posted
  <2>3. (\A i \in 1 .. Len(evs') : ~IsWant(evs'[i])) => wants = sent
    BY <2>1 DEF ServeInv, Posted
  <2> QED
    BY <1>1, <2>2, <2>3 DEF Posted
<1>5. \A p \in Panes : /\ bound'[p].key # 0 => p \in Bound /\ HasProc(bound'[p])
  <2> TAKE p \in Panes
  <2>1. CASE p \in Bound
    <3>1. bound'[p] = [bound[p] EXCEPT !.subscribed = FALSE] /\ Fields(bound[p]) /\ HasProc(bound[p])
      BY <1>1, <1>s, <2>1 DEF Shape, Places
    <3> QED
      BY <2>1, <3>1 DEF HasProc, Fields
  <2>2. CASE p \notin Bound
    BY <1>1, <2>2 DEF NoBinding
  <2> QED
    BY <2>1, <2>2
<1>6. Places'
  BY <1>1, <1>5, <1>s DEF Places, Bound
<1> QED
  BY <1>1, <1>3, <1>4, <1>6 DEF ServeInv, Apart, AllServed

LEMMA ReexecServes ==
    ASSUME BusInv, ServeInv, Reexec
    PROVE  ServeInv'
<1>s. Procs /\ Places
  BY DEF ServeInv
<1>1. /\ evs' = <<>> /\ Len(evs') = 0 /\ bound' = [p \in Panes |-> NoBinding] /\ Bound' = {}
      /\ todo' = NoWork /\ wants' = NoWants /\ sent' = NoWants
      /\ UNCHANGED <<tui, changes, loaded>>
  BY DEF Reexec, NewWorker, Bound, NoBinding, world
<1>2. \A p \in Panes : NoWants[p].proc = 0
  BY DEF NoWants
<1>3. NoWork.join = {}
  BY DEF NoWork
<1>4. Procs' /\ Posted'
  BY <1>1, <1>2, <1>s DEF Procs, Posted
<1>5. Apart' /\ AllServed'
  BY <1>1, <1>2, <1>3 DEF Apart, AllServed, Wanted, Served, Gets, Keeps
<1>6. Places'
  BY <1>1, <1>3, <1>s DEF Places
<1> QED
  BY <1>4, <1>5, <1>6 DEF ServeInv

LEMMA ServedAtFirst == Init => ServeInv
<1> SUFFICES ASSUME Init PROVE ServeInv
  OBVIOUS
<1>1. /\ evs = <<>> /\ Len(evs) = 0 /\ bound = [p \in Panes |-> NoBinding] /\ Bound = {}
      /\ todo = NoWork /\ wants = NoWants /\ sent = NoWants
      /\ tui = [p \in Panes |-> NoTui] /\ changes = 0 /\ loaded = {}
  BY DEF Init, Bound, NoBinding
<1>2. \A p \in Panes : NoWants[p].proc = 0
  BY DEF NoWants
<1>3. NoWork.join = {}
  BY DEF NoWork
<1>4. Procs /\ Posted
  BY <1>1, <1>2 DEF Procs, Posted, NoTui
<1>5. Apart /\ AllServed
  BY <1>1, <1>2, <1>3 DEF Apart, AllServed, Wanted, Served, Gets, Keeps
<1>6. Places
  BY <1>1, <1>3 DEF Places
<1> QED
  BY <1>4, <1>5, <1>6 DEF ServeInv
-----------------------------------------------------------------------------
(* A rescan.                                                               *)

LEMMA AssignTitle ==
    ASSUME NEW ws, NEW live, NEW p \in Panes, p \in live, ws[p].shows # None
    PROVE  Assign(ws, live)[p] = IF ws[p].shows \in loaded THEN ws[p].shows ELSE None
BY DEF Assign

\* What is planned for a pane is bound to it already, or is to be.
Does(ws, live, p) ==
    /\ p \in Bound /\ p \notin Work(ws, live).drop =>
          p \in live /\ bound[p].proc = ws[p].proc /\ bound[p].thread = Assign(ws, live)[p]
    /\ \A j \in Work(ws, live).join : j.pane = p =>
          p \in live /\ j.thread = Assign(ws, live)[p] /\ j.thread \in loaded
    /\ p \in live /\ Assign(ws, live)[p] \in loaded =>
          \/ /\ p \in Bound /\ p \notin Work(ws, live).drop
             /\ bound[p].proc = ws[p].proc /\ bound[p].thread = Assign(ws, live)[p]
          \/ \E j \in Work(ws, live).join :
                j.pane = p /\ j.thread = Assign(ws, live)[p] /\ j.proc = ws[p].proc

LEMMA WorkDoes ==
    ASSUME NEW ws, NEW live, live \subseteq Panes, NEW p \in Panes
    PROVE  Does(ws, live, p)
<1> DEFINE plan == Assign(ws, live)
           stay == {q \in Bound \cap live : bound[q].proc = ws[q].proc /\ bound[q].thread = plan[q]}
           J == {[pane |-> q, thread |-> plan[q], proc |-> ws[q].proc] :
                    q \in {r \in live \ stay : plan[r] \in loaded}}
<1>1. Work(ws, live) = [drop |-> Bound \ stay, join |-> J]
  BY DEF Work
<1>2. \A j \in J : j.pane \in live /\ j.thread = plan[j.pane] /\ j.thread \in loaded
  OBVIOUS
<1>3. ASSUME p \in live, plan[p] \in loaded, p \notin stay
      PROVE  \E j \in J : j.pane = p /\ j.thread = plan[p] /\ j.proc = ws[p].proc
  <2> DEFINE j == [pane |-> p, thread |-> plan[p], proc |-> ws[p].proc]
  <2>1. j \in J
    BY <1>3
  <2> QED
    BY <2>1
<1>4. p \in Bound /\ p \notin Bound \ stay => p \in stay
  OBVIOUS
<1>5. p \in stay => p \in live /\ p \in Bound /\ bound[p].proc = ws[p].proc /\ bound[p].thread = plan[p]
  OBVIOUS
<1>6. Work(ws, live).drop = Bound \ stay /\ Work(ws, live).join = J
  BY <1>1
<1> HIDE DEF J, stay, plan
<1>7. p \in Bound /\ p \notin Work(ws, live).drop =>
         p \in live /\ bound[p].proc = ws[p].proc /\ bound[p].thread = plan[p]
  BY <1>4, <1>5, <1>6
<1>8. \A j \in Work(ws, live).join : j.pane = p => p \in live /\ j.thread = plan[p] /\ j.thread \in loaded
  BY <1>2, <1>6
<1>9. p \in live /\ plan[p] \in loaded =>
         \/ /\ p \in Bound /\ p \notin Work(ws, live).drop
            /\ bound[p].proc = ws[p].proc /\ bound[p].thread = plan[p]
         \/ \E j \in Work(ws, live).join : j.pane = p /\ j.thread = plan[p] /\ j.proc = ws[p].proc
  BY <1>3, <1>5, <1>6
<1> QED
  BY <1>7, <1>8, <1>9 DEF plan, Does

LEMMA WorkServes ==
    ASSUME Places, UNCHANGED <<bound, loaded, tui>>,
           NEW ws, wants' = ws,
           NEW live, live = {p \in Panes : ws[p].proc # 0 /\ ws[p].proc = tui[p].proc},
           todo' = Work(ws, live), NEW p \in Panes
    PROVE  Served(p)'
<1> DEFINE plan == Assign(ws, live)
           w == todo'
<1>1. live \subseteq Panes /\ w = Work(ws, live)
  OBVIOUS
<1>2. /\ p \in Bound /\ p \notin w.drop =>
            p \in live /\ bound[p].proc = ws[p].proc /\ bound[p].thread = plan[p]
      /\ \A j \in w.join : j.pane = p => p \in live /\ j.thread = plan[p] /\ j.thread \in loaded
      /\ p \in live /\ plan[p] \in loaded =>
            \/ /\ p \in Bound /\ p \notin w.drop
               /\ bound[p].proc = ws[p].proc /\ bound[p].thread = plan[p]
            \/ \E j \in w.join : j.pane = p /\ j.thread = plan[p] /\ j.proc = ws[p].proc
  <2>1. Does(ws, live, p)
    BY <1>1, WorkDoes
  <2> QED
    BY <1>1, <2>1 DEF Does
<1>3. p \in live <=> Wanted(p)'
  BY DEF Wanted
<1>4. Wanted(p)' => wants'[p].proc # 0
  BY DEF Wanted
<1>5. Keeps(p)' <=> p \in Bound /\ p \notin w.drop
  BY DEF Keeps, Bound
<1>6. bound' = bound /\ loaded' = loaded /\ wants' = ws
  OBVIOUS
<1>7. wants'[p].proc = 0 => Gets(p)' = {}
  BY <1>2, <1>3, <1>4, <1>5 DEF Gets
<1>8. ASSUME Wanted(p)', wants'[p].shows # None
      PROVE  /\ Gets(p)' \subseteq {wants'[p].shows}
             /\ wants'[p].shows \in loaded' => Has(p, wants[p].shows)'
  <2>1. plan[p] = IF wants'[p].shows \in loaded THEN wants'[p].shows ELSE None
    BY <1>3, <1>8, AssignTitle
  <2>2. None \notin loaded /\ (p \in Bound => bound[p].thread # None)
    BY PeerBusAssumption DEF Places, HasProc
  <2>3. Gets(p)' \subseteq {plan[p]} \ {None}
    <3>1. Keeps(p)' => bound'[p].thread = plan[p] /\ plan[p] # None
      BY <1>2, <1>5, <1>6, <2>2
    <3>2. \A j \in todo'.join : j.pane = p => j.thread = plan[p] /\ plan[p] # None
      BY <1>2, <2>2
    <3> HIDE DEF plan
    <3> QED
      BY <3>1, <3>2 DEF Gets
  <2>4. wants'[p].shows \in loaded => Has(p, wants[p].shows)'
    BY <1>2, <1>3, <1>5, <1>6, <1>8, <2>1 DEF Has
  <2> QED
    BY <1>6, <2>1, <2>3, <2>4
<1> QED
  BY <1>7, <1>8 DEF Served

LEMMA WorkPlaces ==
    ASSUME Places, UNCHANGED <<bound, loaded>>, NEW ws, NEW live, live \subseteq Panes,
           todo' = NoWork \/ todo' = Work(ws, live)
    PROVE  Places'
<1>1. NoWork.join = {}
  BY DEF NoWork
<1>2. \A j \in Work(ws, live).join : j.thread \in loaded
  BY DEF Work
<1>3. \A j \in todo'.join : j.thread \in Threads
  BY <1>1, <1>2 DEF Places
<1> QED
  BY <1>3 DEF Places, Bound

\* A rescan that could ask the daemon serves every pane; one that could not is
\* made up for.
LEMMA RefreshServes ==
    ASSUME BusInv, ServeInv, NEW armed, Refresh(wants', armed),
           UNCHANGED <<bound, loaded, tui>>
    PROVE  Places' /\ Apart' /\ AllServed'
<1> DEFINE live == {p \in Panes : wants'[p].proc # 0 /\ wants'[p].proc = tui[p].proc}
<1>1. live \subseteq Panes
  OBVIOUS
<1>2. \/ live = {} /\ NoCall /\ todo' = Work(wants', live)
      \/ \E r \in Outcomes : /\ Call(r) /\ todo' = (IF r = "ok" THEN Work(wants', live) ELSE NoWork)
                             /\ retry' = (armed \/ r # "ok")
  BY DEF Refresh, Retries
<1>3. live = {p \in Panes : Wanted(p)'}
  BY DEF Wanted
<1> HIDE DEF live
<1>4. Places'
  BY <1>1, <1>2, WorkPlaces DEF ServeInv
<1>5. CASE live = {} /\ todo' = Work(wants', live)
  <2>1. \A p \in Panes : Served(p)'
    BY <1>5, WorkServes DEF ServeInv, live
  <2>2. \A p \in Panes : ~Wanted(p)'
    BY <1>3, <1>5
  <2> QED
    BY <1>4, <2>1, <2>2 DEF Apart, AllServed
<1>6. ASSUME NEW r \in Outcomes, Call(r), todo' = (IF r = "ok" THEN Work(wants', live) ELSE NoWork),
             retry' = (armed \/ r # "ok")
      PROVE  Apart' /\ AllServed'
  <2>1. CASE r # "ok"
    <3>1. retry' = TRUE
      BY <1>6, <2>1
    <3> QED
      BY <3>1 DEF Apart, AllServed
  <2>2. CASE r = "ok"
    <3>1. link'
      BY <1>6, <2>2 DEF Call, Outcomes, Reached, BusInv, Shape
    <3>2. \A p \in Panes : Served(p)'
      BY <1>6, <2>2, WorkServes DEF ServeInv, live
    <3> QED
      BY <3>1, <3>2 DEF Apart, AllServed
  <2> QED
    BY <2>1, <2>2
<1> QED
  BY <1>2, <1>4, <1>5, <1>6

LEMMA PostedRest ==
    ASSUME Shape, Posted, Procs, NEW op, At(op), UNCHANGED <<sent, tui, changes>>,
           wants' = IF op = "want" THEN evs[1].wants ELSE wants
    PROVE  Posted' /\ Procs'
<1>1. /\ Len(evs) \in Nat /\ Len(evs') = Len(evs) - 1 /\ 1 \in 1 .. Len(evs) /\ evs[1].op = op
      /\ \A i \in 1 .. Len(evs') : i + 1 \in 1 .. Len(evs) /\ evs'[i] = evs[i + 1]
  BY TakesRest
<1>2. \A i \in 1 .. Len(evs) : i # 1 => i - 1 \in 1 .. Len(evs') /\ evs'[i - 1] = evs[i]
  <2> TAKE i \in 1 .. Len(evs)
  <2> HAVE i # 1
  <2>1. i - 1 \in 1 .. Len(evs') /\ (i - 1) + 1 = i
    BY <1>1
  <2> QED
    BY <1>1, <2>1
<1>3. ASSUME NEW i \in 1 .. Len(evs'), IsWant(evs'[i]),
             \A m \in 1 .. Len(evs') : m > i => ~IsWant(evs'[m])
      PROVE  evs'[i].wants = sent
  <2>1. \A m \in 1 .. Len(evs) : m > i + 1 => ~IsWant(evs[m])
    <3> TAKE m \in 1 .. Len(evs)
    <3> HAVE m > i + 1
    <3>1. m - 1 > i /\ m # 1
      BY <1>1
    <3> QED
      BY <1>2, <1>3, <3>1
  <2>2. i + 1 \in 1 .. Len(evs) /\ evs'[i] = evs[i + 1]
    BY <1>1
  <2> QED
    BY <1>3, <2>1, <2>2 DEF Posted
<1>4. ASSUME \A i \in 1 .. Len(evs') : ~IsWant(evs'[i]) PROVE wants' = sent
  <2>1. \A i \in 1 .. Len(evs) : i # 1 => ~IsWant(evs[i])
    BY <1>2, <1>4
  <2>2. CASE op = "want"
    <3>1. IsWant(evs[1]) /\ \A m \in 1 .. Len(evs) : m > 1 => ~IsWant(evs[m])
      BY <1>1, <2>1, <2>2 DEF IsWant
    <3> QED
      BY <1>1, <2>2, <3>1 DEF Posted
  <2>3. CASE op # "want"
    <3>1. \A i \in 1 .. Len(evs) : ~IsWant(evs[i])
      BY <1>1, <2>1, <2>3 DEF IsWant
    <3> QED
      BY <2>3, <3>1 DEF Posted
  <2> QED
    BY <2>2, <2>3
<1>5. \A i \in 1 .. Len(evs') : IsWant(evs'[i]) => \A p \in Panes : evs'[i].wants[p].proc \in 0 .. changes
  BY <1>1 DEF Procs
<1>6. \A p \in Panes : wants'[p].proc \in 0 .. changes
  BY <1>1 DEF Procs, IsWant
<1>7. Posted'
  BY <1>3, <1>4 DEF Posted
<1>8. Procs'
  BY <1>5, <1>6 DEF Procs
<1> QED
  BY <1>7, <1>8

LEMMA WantServes ==
    ASSUME BusInv, ServeInv, HandleWant
    PROVE  ServeInv'
<1>s. Shape /\ Procs /\ Places /\ Posted
  BY DEF BusInv, ServeInv
<1>1. UNCHANGED <<sent, tui, changes, loaded, bound>> /\ At("want")
  BY DEF HandleWant, world
<1>2. e = evs[1] /\ evs[1].op = "want" /\ Retained(evs, evs', 1, {})
  BY <1>1, <1>s, TakesRest
<1>3. CASE e.wants = wants /\ NoCall /\ UNCHANGED <<wants, todo, retry, unserved>>
  <2>1. Posted' /\ Procs'
    BY <1>1, <1>2, <1>3, <1>s, PostedRest
  <2>2. Stands /\ loaded' \subseteq Threads /\ loaded' \subseteq loaded /\ (~link' => ~link)
    BY <1>1, <1>3, <1>s, StandsSame DEF Places, NoCall
  <2>3. evs[1].op \notin {"closed", "threads"} /\ (IsWant(evs[1]) => evs[1].wants = wants)
    BY <1>2, <1>3
  <2>4. \A p \in Panes : Wanted(p)' => Wanted(p)
    BY <1>1, <1>3 DEF Wanted
  <2>5. \A x \in {} : ~IsWant(x)
    OBVIOUS
  <2> QED
    BY <1>1, <1>2, <1>3, <1>s, <2>1, <2>2, <2>3, <2>4, <2>5, ServeKept
<1>4. CASE wants' = e.wants /\ Refresh(e.wants, retry)
  <2>1. Posted' /\ Procs'
    BY <1>1, <1>2, <1>4, <1>s, PostedRest
  <2>2. Refresh(wants', retry)
    BY <1>4
  <2>3. Places' /\ Apart' /\ AllServed'
    BY <1>1, <2>2, RefreshServes
  <2> QED
    BY <2>1, <2>3 DEF ServeInv
<1> QED
  BY <1>3, <1>4 DEF HandleWant

LEMMA RescanServes ==
    ASSUME BusInv, ServeInv, HandleThreads \/ RetryDue
    PROVE  ServeInv'
<1>s. Shape /\ Procs /\ Places /\ Posted
  BY DEF BusInv, ServeInv
<1>1. UNCHANGED <<sent, wants, tui, changes, loaded, bound>>
  BY DEF HandleThreads, RetryDue, world
<1>2. \E armed : Refresh(wants, armed)
  BY DEF HandleThreads, RetryDue
<1>3. Places' /\ Apart' /\ AllServed'
  <2>1. PICK armed : Refresh(wants, armed)
    BY <1>2
  <2>2. Refresh(wants', armed)
    BY <1>1, <2>1
  <2> QED
    BY <1>1, <2>2, RefreshServes
<1>4. Posted' /\ Procs'
  <2>1. CASE HandleThreads
    <3>1. At("threads")
      BY <2>1 DEF HandleThreads
    <3>2. wants' = IF "threads" = "want" THEN evs[1].wants ELSE wants
      BY <1>1
    <3> QED
      BY <1>1, <1>s, <3>1, <3>2, PostedRest
  <2>2. CASE RetryDue
    <3>1. evs' = evs
      BY <2>2 DEF RetryDue
    <3> QED
      BY <1>1, <1>s, <3>1 DEF Posted, Procs
  <2> QED
    BY <2>1, <2>2
<1> QED
  BY <1>3, <1>4 DEF ServeInv

-----------------------------------------------------------------------------
(* Unbinding and binding.                                                  *)

LEMMA UnbindServes ==
    ASSUME BusInv, ServeInv, NEW p \in Panes, Unbind(p)
    PROVE  ServeInv'
<1>s. Shape /\ Procs /\ Places /\ Posted
  BY DEF BusInv, ServeInv
<1>1. /\ p \in todo.drop
      /\ UNCHANGED <<evs, sent, wants, retry, tui, changes, loaded, unserved>>
      /\ todo' = [todo EXCEPT !.drop = @ \ {p}]
      /\ bound' = [bound EXCEPT ![p] = NoBinding]
      /\ ~link' => ~link
  BY DEF Unbind, world, NoCall, Call
<1>2. /\ bound'[p].key = 0
      /\ \A q \in Panes : q # p => bound'[q] = bound[q]
  BY <1>1, <1>s DEF Shape, NoBinding
<1>3. todo' = [drop |-> todo.drop \ {p}, join |-> todo.join]
  BY <1>1, <1>s DEF Shape
<1>4. \A q \in Panes : q # p => (q \in Bound' <=> q \in Bound) /\ (q \in Bound => bound'[q] = bound[q])
  BY <1>2 DEF Bound
<1>5. p \notin Bound' /\ \A q \in Bound' : q \in Bound /\ bound'[q] = bound[q]
  BY <1>2, <1>4 DEF Bound
<1>6. Places'
  BY <1>1, <1>3, <1>5, <1>s DEF Places
<1>7. ASSUME NEW q \in Panes PROVE Served(q) => Served(q)'
  <2>1. Keeps(q)' <=> Keeps(q)
    BY <1>1, <1>3, <1>4, <1>5 DEF Keeps
  <2>2. Keeps(q) => bound'[q] = bound[q]
    BY <1>1, <1>4 DEF Keeps
  <2>3. Gets(q)' = Gets(q)
    BY <1>3, <2>1, <2>2 DEF Gets
  <2>4. \A t : Has(q, t)' <=> Has(q, t)
    BY <1>1, <1>3, <2>1, <2>2 DEF Has
  <2> QED
    BY <1>1, <2>3, <2>4 DEF Served, Wanted
<1>8. Posted' /\ Procs'
  BY <1>1, <1>s DEF Posted, Procs
<1>9. Apart' /\ AllServed'
  BY <1>1, <1>7 DEF ServeInv, Apart, AllServed, Closing, Tidings, Wanted
<1> QED
  BY <1>6, <1>8, <1>9 DEF ServeInv

LEMMA BindServes ==
    ASSUME BusInv, ServeInv, Bind
    PROVE  ServeInv'
<1>s. Shape /\ Procs /\ Places /\ Posted
  BY DEF BusInv, ServeInv
<1>1. PICK j \in First(todo.join) :
        /\ todo.drop = {}
        /\ todo' = [todo EXCEPT !.join = @ \ {j}]
        /\ \E r \in Outcomes :
              \/ /\ bound' = [Doubted(j.thread) EXCEPT ![j.pane] =
                       [key |-> NewKey(j.pane), proc |-> j.proc, thread |-> j.thread,
                        subscribed |-> Subscribed(j.thread, r), active |-> 0, idle |-> TRUE,
                        last |-> 0, subs |-> {},
                        followed |-> link' /\ Quiet(j.thread) /\ BoundTo(j.thread) = {} /\ ~Heralded(j.thread)]]
                 /\ UNCHANGED unserved
                 /\ link' = (link \/ Reached(r))
              \/ /\ bound' = Doubted(j.thread)
                 /\ unserved' = unserved \cup {j.pane}
                 /\ link' = (link \/ Reached(r))
  BY DEF Bind, Call
<1>2. UNCHANGED <<evs, sent, wants, retry, tui, changes, loaded>> /\ (~link' => ~link)
  BY <1>1 DEF Bind, world
<1> DEFINE t == j.thread
           p == j.pane
<1>3. /\ j \in todo.join /\ p \in Panes /\ p \notin Bound /\ t \in Threads
      /\ \A k \in todo.join : k.pane = p => k = j
  BY <1>1, <1>s DEF First, BusInv, Todo, Fits, Places
<1>4. todo' = [drop |-> {}, join |-> todo.join \ {j}]
  BY <1>1, <1>s DEF Shape
<1>5. \A q \in Panes : \/ Doubted(t)[q] = bound[q]
                       \/ /\ HasProc(Doubted(t)[q]) /\ Doubted(t)[q].key = bound[q].key
                          /\ Doubted(t)[q].thread = bound[q].thread
                          /\ Doubted(t)[q].proc = bound[q].proc
  <2> TAKE q \in Panes
  <2>1. q \in BoundTo(t) => Fields(bound[q]) /\ HasProc(bound[q])
    BY <1>s DEF BoundTo, Shape, Places
  <2>2. Doubted(t)[q] = IF q \in BoundTo(t) THEN [bound[q] EXCEPT !.followed = FALSE] ELSE bound[q]
    BY DEF Doubted
  <2> QED
    BY <2>1, <2>2 DEF Fields, HasProc
<1>6. /\ \A q \in Panes \ {p} : bound'[q] = Doubted(t)[q]
      /\ \/ /\ bound'[p].key # 0 /\ HasProc(bound'[p])
            /\ bound'[p].thread = t /\ bound'[p].proc = j.proc
            /\ UNCHANGED unserved
         \/ bound'[p].key = 0 /\ unserved' = unserved \cup {p}
  <2>0. DOMAIN Doubted(t) = Panes
    BY DEF Doubted
  <2>1. CASE bound' = Doubted(t) /\ unserved' = unserved \cup {p}
    BY <1>3, <1>5, <2>1 DEF Bound
  <2>2. ASSUME NEW b, bound' = [Doubted(t) EXCEPT ![p] = b], UNCHANGED unserved,
               \E s, f : b = [key |-> NewKey(p), proc |-> j.proc, thread |-> t,
                              subscribed |-> s, active |-> 0, idle |-> TRUE,
                              last |-> 0, subs |-> {}, followed |-> f]
        PROVE  /\ \A q \in Panes \ {p} : bound'[q] = Doubted(t)[q]
               /\ bound'[p].key # 0 /\ HasProc(bound'[p])
               /\ bound'[p].thread = t /\ bound'[p].proc = j.proc
               /\ UNCHANGED unserved
    <3>1. b.key # 0 /\ HasProc(b) /\ b.thread = t /\ b.proc = j.proc
      BY <1>3, <2>2 DEF NewKey, HasProc, BusInv, Keys
    <3>2. bound'[p] = b /\ \A q \in Panes \ {p} : bound'[q] = Doubted(t)[q]
      BY <1>3, <2>0, <2>2 DEF Doubted
    <3> QED
      BY <2>2, <3>1, <3>2
  <2> QED
    BY <1>1, <2>1, <2>2
<1>7. \A q \in Panes \ {p} : /\ q \in Bound' <=> q \in Bound
                             /\ q \in Bound => /\ HasProc(bound'[q]) /\ bound'[q].thread = bound[q].thread
                                               /\ bound'[q].proc = bound[q].proc
  BY <1>5, <1>6, <1>s DEF Bound, Places
<1>8. p \in Bound' => bound'[p].thread = t /\ bound'[p].proc = j.proc /\ HasProc(bound'[p])
  BY <1>6 DEF Bound
<1>9. Places'
  BY <1>2, <1>4, <1>7, <1>8, <1>s DEF Places, Bound
<1>10. ASSUME NEW q \in Panes \ {p} PROVE Served(q) => Served(q)'
  <2>1. Keeps(q)' <=> Keeps(q)
    BY <1>1, <1>4, <1>7 DEF Keeps
  <2>2. \A k \in todo.join : k.pane = q => k # j
    OBVIOUS
  <2>3. Gets(q)' = Gets(q)
    <3>1. {k \in todo'.join : k.pane = q} = {k \in todo.join : k.pane = q}
      BY <1>4, <2>2
    <3>2. {bound'[m].thread : m \in {x \in {q} : Keeps(x)'}} = {bound[m].thread : m \in {x \in {q} : Keeps(x)}}
      BY <1>7, <2>1 DEF Keeps
    <3> QED
      BY <3>1, <3>2 DEF Gets
  <2>4. \A u : Has(q, u) => Has(q, u)'
    BY <1>2, <1>4, <1>7, <2>1, <2>2 DEF Has, Keeps
  <2>5. q \in unserved => q \in unserved'
    BY <1>6
  <2> QED
    BY <1>2, <2>3, <2>4, <2>5 DEF Served, Wanted
<1>11. Served(p) => Served(p)'
  <2>1. t \in Gets(p)
    BY <1>3 DEF Gets
  <2>2. \A k \in todo'.join : k.pane # p
    BY <1>3, <1>4
  <2>3. Gets(p)' \subseteq {t}
    BY <1>8, <2>2 DEF Gets, Keeps
  <2>4. p \notin Bound => ~Keeps(p)
    BY DEF Keeps
  <2>5. \A u : Has(p, u) => u = t /\ j.proc = wants[p].proc
    BY <1>3, <2>4 DEF Has
  <2>6. p \in Bound' => Keeps(p)'
    BY <1>4 DEF Keeps
  <2>7. p \in Bound' \/ p \in unserved'
    BY <1>3, <1>6 DEF Bound
  <2>8. p \in unserved => p \in unserved'
    BY <1>6
  <2>9. \A u : Has(p, u) => p \in unserved' \/ Has(p, u)'
    BY <1>2, <1>8, <2>5, <2>6, <2>7 DEF Has
  <2> QED
    BY <1>2, <2>1, <2>3, <2>8, <2>9 DEF Served, Wanted
<1>12. Posted' /\ Procs'
  BY <1>2, <1>s DEF Posted, Procs
<1>13. Apart' /\ AllServed'
  BY <1>2, <1>10, <1>11 DEF ServeInv, Apart, AllServed, Closing, Tidings, Wanted
<1> QED
  BY <1>9, <1>12, <1>13 DEF ServeInv

LEMMA ServeKeeps == BusInv /\ ServeInv /\ [Next]_vars => ServeInv'
<1> SUFFICES ASSUME BusInv, ServeInv, [Next]_vars PROVE ServeInv'
  OBVIOUS
<1>1. CASE Codex
  BY <1>1, CodexServes, TurnsServe, BreakServes DEF Codex
<1>2. CASE Works
  BY <1>2, WantServes, RescanServes, ClosedServes, HandleServes, ChecksServe, BindServes, UnbindServes
  DEF Works, Handles
<1>3. CASE Tick \/ UNCHANGED vars
  BY <1>3, IdleServes
<1>4. CASE Offer
  BY <1>4, OfferServes
<1>5. CASE Reexec
  BY <1>5, ReexecServes
<1>6. CASE \E p \in Panes : Send(p)
  BY <1>6, SendServes
<1> QED
  BY <1>1, <1>2, <1>3, <1>4, <1>5, <1>6 DEF Next

LEMMA ServedAlways == Spec => []ServeInv
BY ServedAtFirst, ServeKeeps, Invariance, PTL DEF Spec

\* When the worker rests with nothing to come, every pane whose title names a
\* loaded thread has that thread's inbox, for the process it runs now, and no
\* other pane without Codex has one (worker.rs:163-225, lifecycle.rs:25-107).
THEOREM EveryPaneIsServed == Spec => []WantsServed
<1>1. BusInv /\ ServeInv => WantsServed
  <2> SUFFICES ASSUME BusInv, ServeInv, Waits, ~retry, sent = Observed, NEW p \in Panes
               PROVE  /\ tui[p].proc = 0 => p \notin Bound
                      /\ tui[p].shows \in loaded \ {None} =>
                            \/ p \in unserved
                            \/ p \in Bound /\ bound[p].thread = tui[p].shows /\ bound[p].proc = tui[p].proc
                      /\ p \in Bound /\ tui[p].shows # None => bound[p].thread = tui[p].shows
    BY DEF WantsServed
  <2>1. evs = <<>> /\ Len(evs) = 0 /\ todo = NoWork
    BY DEF Waits
  <2>2. wants = Observed /\ ~Tidings
    BY <2>1 DEF ServeInv, Posted, Tidings, Closing
  <2>3. wants[p].proc = tui[p].proc /\ wants[p].shows = tui[p].shows
    BY <2>2 DEF Observed
  <2>4. Served(p)
    BY <2>2 DEF ServeInv, AllServed
  <2>5. p \notin todo.drop /\ todo.join = {}
    BY <2>1 DEF NoWork
  <2>6. p \in Bound <=> Keeps(p)
    BY <2>5 DEF Keeps
  <2>7. p \in Bound => bound[p].thread \in Gets(p)
    BY <2>6 DEF Gets
  <2>8. tui[p].shows # None => tui[p].proc # 0
    BY DEF ServeInv, Procs
  <2>9. \A t : Has(p, t) => p \in Bound /\ bound[p].thread = t /\ bound[p].proc = tui[p].proc
    BY <2>3, <2>5, <2>6 DEF Has
  <2> QED
    BY <2>3, <2>4, <2>7, <2>8, <2>9 DEF Served, Wanted
<1> QED
  BY <1>1, Invariance, ServedAlways, PTL
-----------------------------------------------------------------------------
(* What the notes in a queue of events say of a thread.                    *)

\* What a note says: is the thread idle; which turn does it run?
Mine(x, op, t) == x.op = op /\ x.thread = t
Says(x) == IF x.op = "status" THEN x.idle ELSE x.turn

\* The first `n` events of `s`, handled, make `v` of what was `base`.
Shown(s, op, t, base, n, v) ==
    \/ \E k \in 1 .. n : /\ Mine(s[k], op, t) /\ Says(s[k]) = v
                         /\ \A m \in 1 .. n : m > k => ~Mine(s[m], op, t)
    \/ base = v /\ \A m \in 1 .. n : ~Mine(s[m], op, t)

\* `u` is `s` and one event more.
Grown(s, u, x) == /\ Sequence(u) /\ Len(s) \in Nat /\ Len(u) = Len(s) + 1 /\ u[Len(u)] = x
                  /\ \A i \in 1 .. Len(s) : u[i] = s[i]

LEMMA ShownNone ==
    ASSUME NEW s, NEW op, NEW t, NEW base, NEW v
    PROVE  Shown(s, op, t, base, 0, v) <=> base = v
BY DEF Shown

LEMMA ShownSame ==
    ASSUME NEW s, NEW u, NEW op, NEW t, NEW base, NEW n, NEW v,
           \A k \in 1 .. n : (Mine(u[k], op, t) <=> Mine(s[k], op, t)) /\ (Mine(s[k], op, t) => Says(u[k]) = Says(s[k])),
           Shown(s, op, t, base, n, v)
    PROVE  Shown(u, op, t, base, n, v)
BY DEF Shown

LEMMA ShownOver ==
    ASSUME NEW s, NEW op, NEW t, NEW base, NEW n \in Nat, NEW m \in Nat, NEW v, n <= m,
           \A k \in 1 .. m : k > n => ~Mine(s[k], op, t),
           Shown(s, op, t, base, n, v)
    PROVE  Shown(s, op, t, base, m, v)
<1>1. CASE base = v /\ \A k \in 1 .. n : ~Mine(s[k], op, t)
  <2>1. \A k \in 1 .. m : k \in 1 .. n \/ k > n
    OBVIOUS
  <2> QED
    BY <1>1, <2>1 DEF Shown
<1>2. ASSUME NEW k \in 1 .. n, Mine(s[k], op, t), Says(s[k]) = v,
             \A j \in 1 .. n : j > k => ~Mine(s[j], op, t)
      PROVE  Shown(s, op, t, base, m, v)
  <2>1. k \in 1 .. m /\ \A j \in 1 .. m : j > k => j \in 1 .. n \/ j > n
    OBVIOUS
  <2> QED
    BY <1>2, <2>1 DEF Shown
<1> QED
  BY <1>1, <1>2 DEF Shown

LEMMA ShownLast ==
    ASSUME NEW s, NEW op, NEW t, NEW base, NEW n \in Nat \ {0}, Mine(s[n], op, t)
    PROVE  Shown(s, op, t, base, n, Says(s[n]))
<1>1. n \in 1 .. n /\ \A m \in 1 .. n : ~(m > n)
  OBVIOUS
<1> QED
  BY <1>1 DEF Shown

LEMMA ShownRest ==
    ASSUME NEW s, NEW r, NEW op, NEW t, NEW base, NEW n \in Nat, NEW v,
           \A k \in 1 .. n : r[k] = s[k + 1],
           Shown(s, op, t, base, n + 1, v)
    PROVE  Shown(r, op, t, IF Mine(s[1], op, t) THEN Says(s[1]) ELSE base, n, v)
<1> DEFINE b == IF Mine(s[1], op, t) THEN Says(s[1]) ELSE base
<1>0. \A k \in 1 .. n : k + 1 \in 1 .. n + 1
  OBVIOUS
<1>1. CASE base = v /\ \A k \in 1 .. n + 1 : ~Mine(s[k], op, t)
  <2>1. b = v
    BY <1>1
  <2>2. \A k \in 1 .. n : ~Mine(r[k], op, t)
    BY <1>0, <1>1
  <2> QED
    BY <2>1, <2>2 DEF Shown
<1>2. ASSUME NEW k \in 1 .. n + 1, Mine(s[k], op, t), Says(s[k]) = v,
             \A j \in 1 .. n + 1 : j > k => ~Mine(s[j], op, t)
      PROVE  Shown(r, op, t, b, n, v)
  <2>1. CASE k = 1
    <3>1. \A j \in 1 .. n : j + 1 > k
      BY <2>1
    <3>2. \A j \in 1 .. n : ~Mine(r[j], op, t)
      BY <1>0, <1>2, <3>1
    <3> QED
      BY <1>2, <2>1, <3>2 DEF Shown
  <2>2. CASE k # 1
    <3>1. PICK i \in 1 .. n : k = i + 1
      BY <2>2
    <3>2. Mine(r[i], op, t) /\ Says(r[i]) = v
      BY <1>2, <3>1
    <3>3. \A j \in 1 .. n : j > i => j + 1 > k
      BY <3>1
    <3>4. \A j \in 1 .. n : j > i => ~Mine(r[j], op, t)
      BY <1>0, <1>2, <3>3
    <3> HIDE DEF b
    <3> QED
      BY <3>2, <3>4 DEF Shown
  <2> QED
    BY <2>1, <2>2
<1> QED
  BY <1>1, <1>2 DEF Shown

-----------------------------------------------------------------------------
\* A queue that tells the truth of thread `t`, of which the worker knows `idle`
\* and `active`: at its end the worker will know if a turn runs (`runs`); it
\* knows of a turn only while it knows the thread is not idle, and only if it
\* hears of the thread's turns (`hears`).
Tale(s, t, idle, active, hears, runs) ==
    /\ Shown(s, "status", t, idle, Len(s), ~runs)
    /\ ~runs \/ ~hears => Shown(s, "turn", t, active, Len(s), 0)
    /\ \A n \in 1 .. Len(s) : Mine(s[n], "turn", t) /\ s[n].turn # 0 =>
          hears /\ Shown(s, "status", t, idle, n - 1, FALSE)
    /\ \A n \in 1 .. Len(s) : Mine(s[n], "status", t) /\ s[n].idle => Shown(s, "turn", t, active, n - 1, 0)
    /\ active # 0 => hears /\ ~idle

Silent(x, t) == ~Mine(x, "status", t) /\ ~Mine(x, "turn", t)

LEMMA TaleNew ==
    ASSUME NEW s, NEW t, NEW hears, \A n \in 1 .. Len(s) : Silent(s[n], t)
    PROVE  Tale(s, t, TRUE, 0, hears, FALSE)
<1>1. /\ Shown(s, "status", t, TRUE, Len(s), TRUE) /\ Shown(s, "turn", t, 0, Len(s), 0)
  BY DEF Shown, Silent
<1> QED
  BY <1>1 DEF Tale, Silent

\* What says nothing of the thread changes nothing.
LEMMA TaleKept ==
    ASSUME NEW s, Len(s) \in Nat, NEW u, NEW t, NEW new, Retained(s, u, 0, new), \A x \in new : Silent(x, t),
           NEW idle, NEW active, NEW hears, NEW more, NEW runs,
           Tale(s, t, idle, active, hears, runs), hears => more
    PROVE  Tale(u, t, idle, active, more, runs)
<1>1. Len(u) \in Nat
  BY DEF Retained
<1>2. ASSUME NEW i \in 1 .. Len(s)
      PROVE  /\ i \in 1 .. Len(u)
             /\ \A op \in {"status", "turn"} : /\ Mine(u[i], op, t) <=> Mine(s[i], op, t)
                                               /\ Mine(s[i], op, t) => u[i] = s[i]
  <2>1. i > 0 /\ i - 0 = i
    OBVIOUS
  <2>2. i \in 1 .. Len(u) /\ Same(s[i], u[i])
    BY <2>1 DEF Retained
  <2> QED
    BY <2>2 DEF Same, Mine
<1>3. ASSUME NEW i \in 1 .. Len(u), i \notin 1 .. Len(s) PROVE Silent(u[i], t) /\ i > Len(s)
  <2>1. i + 0 = i /\ i > Len(s)
    BY <1>1, <1>3
  <2> QED
    BY <1>3, <2>1 DEF Retained
<1>4. Len(s) <= Len(u)
  <2>1. CASE Len(s) = 0
    BY <1>1, <2>1
  <2>2. CASE Len(s) # 0
    <3>1. Len(s) \in 1 .. Len(s)
      BY <2>2
    <3> QED
      BY <1>1, <1>2, <3>1
  <2> QED
    BY <2>1, <2>2
<1>5. ASSUME NEW op \in {"status", "turn"}, NEW base, NEW n \in 0 .. Len(s), NEW v, Shown(s, op, t, base, n, v)
      PROVE  Shown(u, op, t, base, n, v)
  <2>1. \A k \in 1 .. n : k \in 1 .. Len(s)
    OBVIOUS
  <2>2. \A k \in 1 .. n : /\ Mine(u[k], op, t) <=> Mine(s[k], op, t)
                          /\ Mine(s[k], op, t) => Says(u[k]) = Says(s[k])
    BY <1>2, <2>1
  <2> QED
    BY <1>5, <2>2, ShownSame
<1>6. ASSUME NEW op \in {"status", "turn"}, NEW base, NEW v, Shown(s, op, t, base, Len(s), v)
      PROVE  Shown(u, op, t, base, Len(u), v)
  <2>1. Shown(u, op, t, base, Len(s), v)
    BY <1>5, <1>6
  <2>2. \A k \in 1 .. Len(u) : k > Len(s) => ~Mine(u[k], op, t)
    BY <1>3 DEF Silent
  <2> QED
    BY <1>1, <1>4, <2>1, <2>2, ShownOver
<1>7. \A n \in 1 .. Len(u) : ~Silent(u[n], t) => n \in 1 .. Len(s) /\ u[n] = s[n] /\ n - 1 \in 0 .. Len(s)
  BY <1>2, <1>3 DEF Silent
<1>8. ASSUME NEW n \in 1 .. Len(u), Mine(u[n], "turn", t), u[n].turn # 0
      PROVE  more /\ Shown(u, "status", t, idle, n - 1, FALSE)
  <2>1. n \in 1 .. Len(s) /\ u[n] = s[n] /\ n - 1 \in 0 .. Len(s)
    BY <1>7, <1>8 DEF Silent
  <2>2. hears /\ Shown(s, "status", t, idle, n - 1, FALSE)
    BY <1>8, <2>1 DEF Tale
  <2> QED
    BY <1>5, <2>1, <2>2
<1>9. ASSUME NEW n \in 1 .. Len(u), Mine(u[n], "status", t), u[n].idle
      PROVE  Shown(u, "turn", t, active, n - 1, 0)
  <2>1. n \in 1 .. Len(s) /\ u[n] = s[n] /\ n - 1 \in 0 .. Len(s)
    BY <1>7, <1>9 DEF Silent
  <2>2. Shown(s, "turn", t, active, n - 1, 0)
    BY <1>9, <2>1 DEF Tale
  <2> QED
    BY <1>5, <2>1, <2>2
<1>10. Shown(u, "status", t, idle, Len(u), ~runs)
  BY <1>6 DEF Tale
<1>11. ~runs \/ ~more => Shown(u, "turn", t, active, Len(u), 0)
  BY <1>6 DEF Tale
<1>12. active # 0 => more /\ ~idle
  BY DEF Tale
<1> QED
  BY <1>8, <1>9, <1>10, <1>11, <1>12 DEF Tale

\* The first event, handled.
LEMMA TaleRest ==
    ASSUME NEW s, NEW r, Len(s) \in Nat \ {0}, Len(r) = Len(s) - 1,
           \A i \in 1 .. Len(r) : r[i] = s[i + 1],
           NEW t, NEW idle, NEW active, NEW hears, NEW runs, Tale(s, t, idle, active, hears, runs)
    PROVE  Tale(r, t, IF Mine(s[1], "status", t) THEN s[1].idle ELSE idle,
                IF Mine(s[1], "turn", t) THEN s[1].turn ELSE active, hears, runs)
<1> DEFINE i2 == IF Mine(s[1], "status", t) THEN s[1].idle ELSE idle
           a2 == IF Mine(s[1], "turn", t) THEN s[1].turn ELSE active
<1>1. /\ (IF Mine(s[1], "status", t) THEN Says(s[1]) ELSE idle) = i2
      /\ (IF Mine(s[1], "turn", t) THEN Says(s[1]) ELSE active) = a2
  BY DEF Mine, Says
<1> HIDE DEF i2, a2
<1>2. ASSUME NEW n \in 0 .. Len(r), NEW v
      PROVE  /\ Shown(s, "status", t, idle, n + 1, v) => Shown(r, "status", t, i2, n, v)
             /\ Shown(s, "turn", t, active, n + 1, v) => Shown(r, "turn", t, a2, n, v)
  <2>1. n \in Nat /\ \A k \in 1 .. n : r[k] = s[k + 1]
    OBVIOUS
  <2>2. ASSUME Shown(s, "status", t, idle, n + 1, v) PROVE Shown(r, "status", t, i2, n, v)
    BY <1>1, <2>1, <2>2, ShownRest
  <2>3. ASSUME Shown(s, "turn", t, active, n + 1, v) PROVE Shown(r, "turn", t, a2, n, v)
    BY <1>1, <2>1, <2>3, ShownRest
  <2> QED
    BY <2>2, <2>3
<1>3. Len(r) \in 0 .. Len(r) /\ Len(r) + 1 = Len(s)
  OBVIOUS
<1>4. \A n \in 1 .. Len(r) : /\ n + 1 \in 1 .. Len(s) /\ r[n] = s[n + 1]
                             /\ n - 1 \in 0 .. Len(r) /\ (n + 1) - 1 = (n - 1) + 1
  OBVIOUS
<1>5. Shown(r, "status", t, i2, Len(r), ~runs)
  <2>1. Shown(s, "status", t, idle, Len(r) + 1, ~runs)
    BY <1>3 DEF Tale
  <2> QED
    BY <1>2, <1>3, <2>1
<1>6. ~runs \/ ~hears => Shown(r, "turn", t, a2, Len(r), 0)
  BY <1>2, <1>3 DEF Tale
<1>7. \A n \in 1 .. Len(r) : Mine(r[n], "turn", t) /\ r[n].turn # 0 => hears /\ Shown(r, "status", t, i2, n - 1, FALSE)
  <2> TAKE n \in 1 .. Len(r)
  <2> HAVE Mine(r[n], "turn", t) /\ r[n].turn # 0
  <2>1. hears /\ Shown(s, "status", t, idle, (n + 1) - 1, FALSE)
    BY <1>4 DEF Tale
  <2>2. Shown(s, "status", t, idle, (n - 1) + 1, FALSE)
    BY <1>4, <2>1
  <2> QED
    BY <1>2, <1>4, <2>1, <2>2
<1>8. \A n \in 1 .. Len(r) : Mine(r[n], "status", t) /\ r[n].idle => Shown(r, "turn", t, a2, n - 1, 0)
  <2> TAKE n \in 1 .. Len(r)
  <2> HAVE Mine(r[n], "status", t) /\ r[n].idle
  <2>1. Shown(s, "turn", t, active, (n + 1) - 1, 0)
    BY <1>4 DEF Tale
  <2>2. Shown(s, "turn", t, active, (n - 1) + 1, 0)
    BY <1>4, <2>1
  <2> QED
    BY <1>2, <1>4, <2>2
<1>9. a2 # 0 => hears /\ ~i2
  <2>0. 1 \in 1 .. Len(s) /\ 1 - 1 = 0
    OBVIOUS
  <2>1. CASE Mine(s[1], "turn", t)
    <3>1. s[1].turn # 0 => hears /\ Shown(s, "status", t, idle, 0, FALSE)
      BY <2>0, <2>1 DEF Tale
    <3>2. s[1].turn # 0 => hears /\ idle = FALSE
      BY <3>1, ShownNone
    <3>3. ~Mine(s[1], "status", t)
      BY <2>1 DEF Mine
    <3> QED
      BY <2>1, <3>2, <3>3 DEF i2, a2
  <2>2. CASE ~Mine(s[1], "turn", t) /\ Mine(s[1], "status", t)
    <3>1. s[1].idle => Shown(s, "turn", t, active, 0, 0)
      BY <2>0, <2>2 DEF Tale
    <3>2. s[1].idle => active = 0
      BY <3>1, ShownNone
    <3> QED
      BY <2>2, <3>2 DEF i2, a2, Tale
  <2>3. CASE ~Mine(s[1], "turn", t) /\ ~Mine(s[1], "status", t)
    BY <2>3 DEF i2, a2, Tale
  <2> QED
    BY <2>1, <2>2, <2>3
<1>10. Tale(r, t, i2, a2, hears, runs)
  BY <1>5, <1>6, <1>7, <1>8, <1>9 DEF Tale
<1> QED
  BY <1>10 DEF i2, a2

\* One more event `x`, of the thread: what it must be, and what it makes true.
LEMMA TaleGrown ==
    ASSUME NEW s, NEW u, NEW x, Grown(s, u, x),
           NEW t, NEW idle, NEW active, NEW hears, NEW runs, NEW after,
           Tale(s, t, idle, active, hears, runs),
           \/ Mine(x, "status", t) /\ x.idle = ~after
           \/ Mine(x, "turn", t) /\ after = runs,
           Mine(x, "status", t) /\ x.idle => Shown(s, "turn", t, active, Len(s), 0),
           Mine(x, "status", t) /\ ~x.idle => after /\ ~runs,
           Mine(x, "turn", t) => hears /\ runs /\ after
    PROVE  /\ Tale(u, t, idle, active, hears, after)
           /\ Mine(x, "turn", t) => Shown(u, "turn", t, active, Len(u), x.turn)
<1>0. /\ Len(s) \in Nat /\ Len(u) = Len(s) + 1 /\ u[Len(u)] = x
      /\ \A i \in 1 .. Len(s) : u[i] = s[i] /\ i \in 1 .. Len(u)
      /\ \A i \in 1 .. Len(u) : i \in 1 .. Len(s) \/ i = Len(u)
      /\ Len(u) - 1 = Len(s) /\ Len(u) \in Nat \ {0} /\ Len(s) <= Len(u) /\ Len(s) \in 0 .. Len(s)
  BY DEF Grown
<1>1. ASSUME NEW op, NEW base, NEW n \in 0 .. Len(s), NEW v, Shown(s, op, t, base, n, v)
      PROVE  Shown(u, op, t, base, n, v)
  <2>1. \A k \in 1 .. n : u[k] = s[k]
    BY <1>0
  <2>2. \A k \in 1 .. n : /\ Mine(u[k], op, t) <=> Mine(s[k], op, t)
                          /\ Mine(s[k], op, t) => Says(u[k]) = Says(s[k])
    BY <2>1
  <2> QED
    BY <1>1, <2>2, ShownSame
<1>2. ASSUME NEW op, NEW base, NEW v, Shown(s, op, t, base, Len(s), v), ~Mine(x, op, t)
      PROVE  Shown(u, op, t, base, Len(u), v)
  <2>1. Shown(u, op, t, base, Len(s), v)
    BY <1>0, <1>1, <1>2
  <2>2. \A k \in 1 .. Len(u) : k > Len(s) => ~Mine(u[k], op, t)
    BY <1>0, <1>2
  <2> QED
    BY <1>0, <2>1, <2>2, ShownOver
<1>3. ASSUME NEW op, NEW base, Mine(x, op, t)
      PROVE  Shown(u, op, t, base, Len(u), Says(x))
  BY <1>0, <1>3, ShownLast
<1>4. ~(Mine(x, "status", t) /\ Mine(x, "turn", t))
  BY DEF Mine
<1>5. Shown(u, "status", t, idle, Len(u), ~after)
  <2>1. CASE Mine(x, "status", t) /\ x.idle = ~after
    <3>1. Says(x) = ~after
      BY <2>1 DEF Says, Mine
    <3> QED
      BY <1>3, <2>1, <3>1
  <2>2. CASE Mine(x, "turn", t) /\ after = runs
    <3>1. Shown(s, "status", t, idle, Len(s), ~after)
      BY <2>2 DEF Tale
    <3> QED
      BY <1>2, <1>4, <2>2, <3>1
  <2> QED
    BY <2>1, <2>2
<1>6. Mine(x, "turn", t) => Shown(u, "turn", t, active, Len(u), x.turn)
  <2>1. Mine(x, "turn", t) => Says(x) = x.turn
    BY DEF Says, Mine
  <2> QED
    BY <1>3, <2>1
<1>7. ~after \/ ~hears => Shown(u, "turn", t, active, Len(u), 0)
  <2>1. ~after \/ ~hears => Mine(x, "status", t) /\ Shown(s, "turn", t, active, Len(s), 0)
    BY DEF Tale
  <2> QED
    BY <1>2, <1>4, <2>1
<1>8. \A n \in 1 .. Len(u) : Mine(u[n], "turn", t) /\ u[n].turn # 0 => hears /\ Shown(u, "status", t, idle, n - 1, FALSE)
  <2> TAKE n \in 1 .. Len(u)
  <2> HAVE Mine(u[n], "turn", t) /\ u[n].turn # 0
  <2>1. CASE n \in 1 .. Len(s)
    <3>0. u[n] = s[n] /\ n - 1 \in 0 .. Len(s)
      BY <1>0, <2>1
    <3>1. hears /\ Shown(s, "status", t, idle, n - 1, FALSE) /\ n - 1 \in 0 .. Len(s)
      BY <2>1, <3>0 DEF Tale
    <3> QED
      BY <1>1, <3>1
  <2>2. CASE n = Len(u)
    <3>1. hears /\ runs
      BY <1>0, <2>2
    <3>2. Shown(s, "status", t, idle, Len(s), FALSE)
      BY <3>1 DEF Tale
    <3>3. Shown(u, "status", t, idle, Len(s), FALSE)
      BY <1>0, <1>1, <3>2
    <3> QED
      BY <1>0, <2>2, <3>1, <3>3
  <2> QED
    BY <1>0, <2>1, <2>2
<1>9. \A n \in 1 .. Len(u) : Mine(u[n], "status", t) /\ u[n].idle => Shown(u, "turn", t, active, n - 1, 0)
  <2> TAKE n \in 1 .. Len(u)
  <2> HAVE Mine(u[n], "status", t) /\ u[n].idle
  <2>1. CASE n \in 1 .. Len(s)
    <3>1. Shown(s, "turn", t, active, n - 1, 0) /\ n - 1 \in 0 .. Len(s)
      BY <1>0, <2>1 DEF Tale
    <3> QED
      BY <1>1, <3>1
  <2>2. CASE n = Len(u)
    <3>1. Shown(s, "turn", t, active, Len(s), 0)
      BY <1>0, <2>2
    <3>2. Shown(u, "turn", t, active, Len(s), 0)
      BY <1>0, <1>1, <3>1
    <3> QED
      BY <1>0, <2>2, <3>2
  <2> QED
    BY <1>0, <2>1, <2>2
<1>10. active # 0 => hears /\ ~idle
  BY DEF Tale
<1>11. Tale(u, t, idle, active, hears, after)
  BY <1>5, <1>7, <1>8, <1>9, <1>10 DEF Tale
<1> QED
  BY <1>6, <1>11

-----------------------------------------------------------------------------
\* A turn begins: the daemon says that the thread is busy, and which turn it is
\* to those who hear of its turns.
LEMMA TwoMore ==
    ASSUME NEW s, Sequence(s), NEW x, "op" \in DOMAIN x, NEW y, "op" \in DOMAIN y
    PROVE  /\ Grown(s, s \o <<x>>, x) /\ Grown(s \o <<x>>, s \o (<<x>> \o <<y>>), y)
<1>1. /\ Sequence(<<x>>) /\ Len(<<x>>) = 1 /\ <<x>>[1] = x
      /\ Sequence(<<y>>) /\ Len(<<y>>) = 1 /\ <<y>>[1] = y
  BY One
<1> DEFINE d == <<x>> \o <<y>>
           u == s \o <<x>>
           w == s \o d
<1>2. /\ Sequence(d) /\ Len(d) = 2 /\ d[1] = x /\ d[2] = y
  <2>1. /\ Sequence(d) /\ Len(d) = Len(<<x>>) + Len(<<y>>)
        /\ \A i \in 1 .. Len(<<x>>) : d[i] = <<x>>[i]
        /\ \A i \in 1 .. Len(d) : i \notin 1 .. Len(<<x>>) => d[i] = <<y>>[i - Len(<<x>>)]
    BY <1>1, Joined
  <2>2. 1 \in 1 .. 1 /\ 2 \in 1 .. 2 /\ 2 \notin 1 .. 1 /\ 2 - 1 = 1 /\ 1 + 1 = 2
    OBVIOUS
  <2> HIDE DEF d
  <2>3. Len(d) = 2
    BY <1>1, <2>1
  <2>4. d[1] = x
    BY <1>1, <2>1, <2>2
  <2>5. d[2] = y
    BY <1>1, <2>1, <2>2, <2>3
  <2> QED
    BY <2>1, <2>3, <2>4, <2>5
<1> HIDE DEF d
<1>3. /\ Sequence(u) /\ Len(s) \in Nat /\ Len(u) = Len(s) + 1
      /\ \A i \in 1 .. Len(s) : u[i] = s[i]
      /\ u[Len(s) + 1] = x
  <2>1. /\ Sequence(u) /\ Len(s) \in Nat /\ Len(u) = Len(s) + 1
        /\ \A i \in 1 .. Len(s) : u[i] = s[i]
        /\ \A i \in 1 .. Len(u) : i \notin 1 .. Len(s) => u[i] = <<x>>[i - Len(s)]
    BY <1>1, Joined
  <2> HIDE DEF u
  <2>2. Len(s) + 1 \in 1 .. Len(u) /\ Len(s) + 1 \notin 1 .. Len(s) /\ (Len(s) + 1) - Len(s) = 1
    BY <2>1
  <2> QED
    BY <1>1, <2>1, <2>2
<1>4. /\ Sequence(w) /\ Len(w) = Len(s) + 2
      /\ \A i \in 1 .. Len(s) : w[i] = s[i]
      /\ w[Len(s) + 1] = x /\ w[Len(s) + 2] = y
  <2>0. /\ Sequence(w) /\ Len(s) \in Nat /\ Len(w) = Len(s) + Len(d)
        /\ \A i \in 1 .. Len(s) : w[i] = s[i]
        /\ \A i \in 1 .. Len(w) : i \notin 1 .. Len(s) => w[i] = d[i - Len(s)]
    BY <1>2, Joined
  <2>1. /\ Sequence(w) /\ Len(s) \in Nat /\ Len(w) = Len(s) + 2
        /\ \A i \in 1 .. Len(s) : w[i] = s[i]
        /\ \A i \in 1 .. Len(w) : i \notin 1 .. Len(s) => w[i] = d[i - Len(s)]
    BY <1>2, <2>0
  <2> HIDE DEF w
  <2>2. /\ Len(s) + 1 \in 1 .. Len(w) /\ Len(s) + 1 \notin 1 .. Len(s) /\ (Len(s) + 1) - Len(s) = 1
        /\ Len(s) + 2 \in 1 .. Len(w) /\ Len(s) + 2 \notin 1 .. Len(s) /\ (Len(s) + 2) - Len(s) = 2
    BY <2>1
  <2> QED
    BY <1>2, <2>1, <2>2
<1> HIDE DEF u, w
<1>5. Grown(s, u, x)
  BY <1>3 DEF Grown
<1>6. Grown(u, w, y)
  <2>1. \A i \in 1 .. Len(u) : i \in 1 .. Len(s) \/ i = Len(s) + 1
    BY <1>3
  <2>2. \A i \in 1 .. Len(u) : w[i] = u[i]
    BY <1>3, <1>4, <2>1
  <2>3. Len(w) = Len(u) + 1 /\ Len(u) \in Nat /\ Len(w) = Len(s) + 2
    BY <1>3, <1>4
  <2> QED
    BY <1>4, <2>2, <2>3 DEF Grown
<1> QED
  BY <1>5, <1>6 DEF u, w, d
-----------------------------------------------------------------------------
(* What is noted of turns, checks, subscriptions and asks.                 *)

Turns == /\ loaded \subseteq Threads /\ turn \in [Threads -> Nat] /\ began \in Nat
         /\ queue \in [Threads -> Seq(Threads)]
         /\ \A t \in Threads : queue[t] # <<>> => t \in loaded
Clocks == /\ dealt \in Nat
          /\ \A c \in checks : /\ c = [pane |-> c.pane, since |-> c.since, left |-> c.left]
                               /\ c.since \in 0 .. dealt
Whole(b) == /\ {"active", "idle", "last", "subs", "followed"} \subseteq DOMAIN b
            /\ b.thread \in Threads /\ b.idle \in BOOLEAN /\ b.followed \in BOOLEAN
            /\ b.last \in 0 .. dealt
            /\ \A s \in b.subs : "idled" \in DOMAIN s
Marked(f) == /\ f.op = "status" => f.idle \in BOOLEAN
             /\ f.op = "ask" => {"idled", "key"} \subseteq DOMAIN f /\ f.key \in 1 .. nextKey - 1
Events == \A i \in 1 .. Len(evs) : Marked(evs[i])
Wholes == \A p \in Bound : Whole(bound[p])
Sorts == Turns /\ Clocks /\ Wholes /\ Events

LEMMA EventsKept ==
    ASSUME Shape, Events, NEW k \in {0, 1}, NEW new, Retained(evs, evs', k, new),
           nextKey \in Nat, nextKey' \in Nat, nextKey <= nextKey',
           \A x \in new : Marked(x)
    PROVE  Events'
<1>0. Len(evs) \in Nat
  BY LenProperties DEF Shape, Sequence
<1>1. \A f : Marked(f) => Marked(f)'
  BY DEF Marked
<1>2. ASSUME NEW i \in 1 .. Len(evs') PROVE Marked(evs'[i])
  <2>1. CASE i + k \in 1 .. Len(evs)
    <3>1. i + k > k /\ (i + k) - k = i
      BY <1>0
    <3>2. Same(evs[i + k], evs'[i]) /\ Marked(evs[i + k])
      BY <2>1, <3>1 DEF Retained, Events
    <3> QED
      BY <3>2 DEF Same, Marked
  <2>2. CASE i + k \notin 1 .. Len(evs)
    BY <2>2 DEF Retained
  <2> QED
    BY <2>1, <2>2
<1> QED
  BY <1>1, <1>2 DEF Events, Marked

LEMMA WholesOne ==
    ASSUME Shape, Wholes, Clocks, dealt' \in Nat, dealt <= dealt',
           NEW p \in Bound, NEW b, bound' = [bound EXCEPT ![p] = b], Whole(b)'
    PROVE  Wholes'
<1>1. \A q \in Bound' : q # p => q \in Bound /\ bound'[q] = bound[q]
  BY DEF Bound, Shape
<1>2. bound'[p] = b
  BY DEF Shape, Bound
<1>3. \A q \in Bound : Whole(bound[q])'
  BY DEF Wholes, Whole, Clocks
<1> QED
  BY <1>1, <1>2, <1>3 DEF Wholes, Whole

LEMMA WholesSame ==
    ASSUME Wholes, Clocks, UNCHANGED bound, dealt' \in Nat, dealt <= dealt'
    PROVE  Wholes'
BY DEF Wholes, Whole, Clocks, Bound

LEMMA WholesAll ==
    ASSUME Wholes, UNCHANGED dealt, \A p \in Panes : bound'[p].key # 0 => p \in Bound /\ Whole(bound'[p])
    PROVE  Wholes'
BY DEF Wholes, Whole, Bound

LEMMA NewsMarked ==
    /\ \A t : \A x \in TurnNews(t) : Marked(x)
    /\ Marked(Reload)
<1>1. \A t : Marked(Busy(t)) /\ Busy(t).op = "status"
  BY DEF Busy, Marked
<1>2. \A t : Marked(Idle(t)) /\ Idle(t).op = "status"
  BY DEF Idle, Marked
<1>3. \A t, n : Marked([op |-> "turn", thread |-> t, turn |-> n]) /\ [op |-> "turn", thread |-> t, turn |-> n].op = "turn"
  BY DEF Marked
<1>4. Marked(Reload)
  BY DEF Reload, Marked
<1> QED
  BY <1>1, <1>2, <1>3, <1>4 DEF TurnNews

\* A turn begins with nothing to do for whoever has begun one before.
LEMMA TurnsSort ==
    ASSUME BusInv, Sorts, NEW t \in Threads, PersonAsks(t) \/ TakesQueued(t) \/ TurnEnds(t)
    PROVE  Sorts'
<1>s. Shape /\ nextKey \in Nat
  BY DEF BusInv, Keys
<1>1. UNCHANGED <<dealt, checks, nextKey, loaded>>
  BY DEF PersonAsks, TakesQueued, Begins, TurnEnds, worker, bounds
<1>2. Clocks'
  BY <1>1 DEF Sorts, Clocks
<1>3. Turns'
  <2>0. loaded \subseteq Threads /\ began' \in Nat /\ \A x \in Threads : queue[x] # <<>> => x \in loaded
    BY DEF Sorts, Turns, PersonAsks, TakesQueued, Begins, TurnEnds
  <2>1. turn' \in [Threads -> Nat]
    <3>1. \E n \in Nat : turn' = [turn EXCEPT ![t] = n]
      <4>1. \/ turn' = [turn EXCEPT ![t] = began + 1] \/ turn' = [turn EXCEPT ![t] = 0]
        BY DEF PersonAsks, TakesQueued, Begins, TurnEnds
      <4>2. began + 1 \in Nat /\ 0 \in Nat
        BY DEF Sorts, Turns
      <4> QED
        BY <4>1, <4>2
    <3> QED
      BY <3>1 DEF Sorts, Turns
  <2>2. queue[t] # <<>> => Tail(queue[t]) \in Seq(Threads)
    BY EmptySeq, HeadTailProperties DEF Sorts, Turns
  <2>3. <<>> \in Seq(Threads)
    BY EmptySeq
  <2>4. /\ queue' \in [Threads -> Seq(Threads)]
        /\ \A x \in Threads : queue'[x] # <<>> => x \in loaded
    <3>1. CASE PersonAsks(t)
      BY <2>0, <2>3, <3>1 DEF PersonAsks, Begins, Sorts, Turns
    <3>2. CASE TakesQueued(t)
      BY <2>0, <2>2, <3>2 DEF TakesQueued, Begins, Sorts, Turns
    <3>3. CASE TurnEnds(t)
      BY <2>0, <2>2, <3>3 DEF TurnEnds, Sorts, Turns
    <3> QED
      BY <3>1, <3>2, <3>3
  <2> QED
    BY <1>1, <2>0, <2>1, <2>4 DEF Turns
<1>4. Retained(evs, evs', 0, TurnNews(t))
  BY <1>s, TurnsRetain
<1>5. Events'
  BY <1>1, <1>4, <1>s, NewsMarked, EventsKept DEF Sorts
<1>6. Wholes'
  <2>1. CASE UNCHANGED bound
    BY <1>1, <2>1, WholesSame DEF Sorts, Clocks
  <2>2. CASE bound' = Rested(t)
    <3>1. ASSUME NEW p \in Panes, bound'[p].key # 0 PROVE p \in Bound /\ Whole(bound'[p])
      <4>1. CASE p \in BoundTo(t)
        <5>1. p \in Bound /\ Whole(bound[p])
          BY <4>1 DEF BoundTo, Sorts, Wholes
        <5> DEFINE u == {[s EXCEPT !.idled = TRUE] : s \in bound[p].subs}
        <5>2. bound'[p] = [bound[p] EXCEPT !.subs = u]
          BY <2>2, <4>1 DEF Rested
        <5>3. \A s \in u : "idled" \in DOMAIN s
          BY <5>1 DEF Whole
        <5> HIDE DEF u
        <5>4. "thread" \in DOMAIN bound[p]
          BY <1>s, <5>1 DEF Shape, Fields
        <5> QED
          BY <5>1, <5>2, <5>3, <5>4 DEF Whole
      <4>2. CASE p \notin BoundTo(t)
        <5>1. bound'[p] = bound[p]
          BY <2>2, <4>2 DEF Rested
        <5> QED
          BY <3>1, <5>1 DEF Sorts, Wholes, Bound
      <4> QED
        BY <4>1, <4>2
    <3> QED
      BY <1>1, <3>1, WholesAll DEF Sorts
  <2> QED
    BY <2>1, <2>2 DEF PersonAsks, TakesQueued, Begins, TurnEnds, worker
<1> QED
  BY <1>2, <1>3, <1>5, <1>6 DEF Sorts
-----------------------------------------------------------------------------
(* What holds of a binding that is followed.                               *)

\* A note that the thread is idle, that it is busy.
Rises(x, t) == Mine(x, "status", t) /\ x.idle
Falls(x, t) == Mine(x, "status", t) /\ ~x.idle

\* It is not quiet, and no note after the i-th event says that it is idle: what
\* was said of it by then, no rest has followed.
Restless(t, i) == ~Quiet(t) /\ \A j \in 1 .. Len(evs) : j > i => ~Rises(evs[j], t)
AsksOf(x, key) == x.op = "ask" /\ x.key = key /\ ~x.idled

Alone(p) == link /\ \A q \in Bound : bound[q].thread = bound[p].thread => q = p
Knows(p) == Tale(evs, bound[p].thread, bound[p].idle, bound[p].active,
                 bound[p].thread \in heard, turn[bound[p].thread] # 0)
Coming(p) == \/ ~Quiet(bound[p].thread)
             \/ ~bound[p].idle
             \/ \E i \in 1 .. Len(evs) : Falls(evs[i], bound[p].thread)
             \/ \E c \in checks : c.pane = p /\ bound[p].last <= c.since
Awaits(p) == bound[p].subs # {} => Coming(p)
Rests(p) == \A s \in bound[p].subs : ~s.idled => Restless(bound[p].thread, 0)
Asks(p) == \A i \in 1 .. Len(evs) : AsksOf(evs[i], bound[p].key) => Restless(bound[p].thread, i)
Taken(p) == \A c \in checks :
    c.pane = p /\ c.left = 0 /\ bound[p].last <= c.since /\ queue[bound[p].thread] # <<>>
       => turn[bound[p].thread] # 0
Sound(p) == Alone(p) /\ Knows(p) /\ Awaits(p) /\ Rests(p) /\ Asks(p) /\ Taken(p)
Followed == {p \in Bound : bound[p].followed}
FollowInv == Sorts /\ \A p \in Followed : Sound(p)

LEMMA RestlessKept ==
    ASSUME Shape, NEW t, NEW k \in {0, 1}, NEW new, Retained(evs, evs', k, new),
           \A x \in new : ~Rises(x, t), ~Quiet(t)',
           NEW i \in Nat, NEW m \in Nat, i - k <= m, Restless(t, i)
    PROVE  Restless(t, m)'
<1>0. Len(evs) \in Nat
  BY LenProperties DEF Shape, Sequence
<1>1. ASSUME NEW j \in 1 .. Len(evs'), j > m PROVE ~Rises(evs'[j], t)
  <2>1. CASE j + k \in 1 .. Len(evs)
    <3>1. j + k > k /\ (j + k) - k = j /\ j + k > i
      BY <1>0, <1>1
    <3>2. Same(evs[j + k], evs'[j]) /\ ~Rises(evs[j + k], t)
      BY <2>1, <3>1 DEF Retained, Restless
    <3> QED
      BY <3>2 DEF Same, Rises, Mine
  <2>2. CASE j + k \notin 1 .. Len(evs)
    BY <2>2 DEF Retained
  <2> QED
    BY <2>1, <2>2
<1> QED
  BY <1>1 DEF Restless

\* A step that leaves the thread restless, if it was.
LEMMA SoundKept ==
    ASSUME Shape, Events, NEW p \in Bound, Sound(p), NEW t, t = bound[p].thread,
           bound'[p].key = bound[p].key, bound'[p].thread = t,
           NEW k \in {0, 1}, NEW new, Retained(evs, evs', k, new),
           \A x \in new : ~Rises(x, t) /\ (AsksOf(x, bound[p].key) => ~Quiet(t)'),
           ~Quiet(t) => ~Quiet(t)',
           \A s \in bound'[p].subs : ~s.idled => s \in bound[p].subs \/ Restless(t, k),
           Alone(p)', Knows(p)', Awaits(p)', Taken(p)'
    PROVE  Sound(p)'
<1>0. Len(evs) \in Nat
  BY LenProperties DEF Shape, Sequence
<1>1. ASSUME NEW i \in Nat, Restless(t, i + k) PROVE Restless(t, i)'
  <2>1. i + k \in Nat /\ (i + k) - k <= i /\ ~Quiet(t)'
    BY <1>1 DEF Restless
  <2> QED
    BY <1>1, <2>1, RestlessKept
<1>2. ASSUME Restless(t, 0) PROVE Restless(t, 0)'
  <2>1. 0 \in Nat /\ 0 - k <= 0 /\ ~Quiet(t)'
    BY <1>2 DEF Restless
  <2> QED
    BY <1>2, <2>1, RestlessKept
<1>3. Rests(p)'
  <2> SUFFICES ASSUME NEW s \in bound'[p].subs, ~s.idled PROVE Restless(t, 0)'
    BY DEF Rests
  <2>1. CASE s \in bound[p].subs
    BY <1>2, <2>1 DEF Sound, Rests
  <2>2. CASE Restless(t, k)
    <3>1. 0 + k = k
      OBVIOUS
    <3> QED
      BY <1>1, <2>2, <3>1
  <2> QED
    BY <2>1, <2>2
<1>4. Asks(p)'
  <2> SUFFICES ASSUME NEW i \in 1 .. Len(evs'), AsksOf(evs'[i], bound[p].key) PROVE Restless(t, i)'
    BY DEF Asks
  <2>0. Len(evs') \in Nat /\ i \in Nat
    BY DEF Retained
  <2>1. CASE i + k \in 1 .. Len(evs)
    <3>1. i + k > k /\ (i + k) - k = i
      BY <1>0, <2>0
    <3>2. Same(evs[i + k], evs'[i]) /\ Marked(evs[i + k])
      BY <2>1, <3>1 DEF Retained, Events
    <3>3. AsksOf(evs[i + k], bound[p].key)
      BY <2>0, <3>2 DEF Same, Marked, AsksOf
    <3>4. Restless(t, i + k)
      BY <2>1, <3>3 DEF Sound, Asks
    <3> QED
      BY <1>1, <2>0, <3>4
  <2>2. CASE i + k \notin 1 .. Len(evs)
    <3>1. evs'[i] \in new /\ ~Quiet(t)'
      BY <2>0, <2>2 DEF Retained
    <3>2. ASSUME NEW j \in 1 .. Len(evs'), j > i PROVE ~Rises(evs'[j], t)
      <4>1. j + k \notin 1 .. Len(evs)
        BY <1>0, <2>0, <2>2, <3>2
      <4>2. evs'[j] \in new
        BY <4>1 DEF Retained
      <4> QED
        BY <4>2
    <3> QED
      BY <3>1, <3>2 DEF Restless
  <2> QED
    BY <2>1, <2>2
<1> QED
  BY <1>3, <1>4 DEF Sound

LEMMA AloneKept ==
    ASSUME NEW p \in Bound, Alone(p), bound'[p].thread = bound[p].thread, link',
           \A q \in Bound' : q \in Bound /\ bound'[q].thread = bound[q].thread
    PROVE  Alone(p)'
BY DEF Alone

\* What is coming still comes.
LEMMA ComingKept ==
    ASSUME Shape, NEW p \in Bound, Coming(p), NEW t, t = bound[p].thread,
           bound'[p].thread = t, bound'[p].idle = bound[p].idle, bound'[p].last = bound[p].last,
           NEW k \in {0, 1}, NEW new, Retained(evs, evs', k, new), k = 1 => ~Falls(evs[1], t),
           ~Quiet(t) => ~Quiet(t)',
           \A c \in checks : c.pane = p => \E d \in checks' : d.pane = p /\ d.since = c.since
    PROVE  Coming(p)'
<1>0. Len(evs) \in Nat
  BY LenProperties DEF Shape, Sequence
<1>1. ASSUME NEW i \in 1 .. Len(evs), Falls(evs[i], t) PROVE Coming(p)'
  <2>1. i > k
    BY <1>1
  <2>2. i - k \in 1 .. Len(evs') /\ Same(evs[i], evs'[i - k])
    BY <2>1 DEF Retained
  <2>3. Falls(evs'[i - k], t)
    BY <1>1, <2>2 DEF Same, Falls, Mine
  <2> QED
    BY <2>2, <2>3 DEF Coming
<1>2. ASSUME NEW c \in checks, c.pane = p, bound[p].last <= c.since PROVE Coming(p)'
  <2>1. PICK d \in checks' : d.pane = p /\ d.since = c.since
    BY <1>2
  <2> QED
    BY <1>2, <2>1 DEF Coming
<1>3. CASE ~Quiet(t) \/ ~bound[p].idle
  BY <1>3 DEF Coming
<1> QED
  BY <1>1, <1>2, <1>3 DEF Coming

\* The notes of a queue that grows by what says nothing of the thread.
LEMMA KnowsKept ==
    ASSUME Shape, NEW p \in Bound, Knows(p), NEW t, t = bound[p].thread,
           bound'[p].thread = t, bound'[p].idle = bound[p].idle, bound'[p].active = bound[p].active,
           NEW new, Retained(evs, evs', 0, new), \A x \in new : Silent(x, t),
           turn'[t] = turn[t], t \in heard => t \in heard'
    PROVE  Knows(p)'
<1>0. Len(evs) \in Nat
  BY LenProperties DEF Shape, Sequence
<1>1. Tale(evs, t, bound[p].idle, bound[p].active, t \in heard, turn[t] # 0)
  BY DEF Knows
<1> DEFINE h == t \in heard
           more == t \in heard'
           r == turn[t] # 0
           u == evs'
<1>2. Tale(u, t, bound[p].idle, bound[p].active, more, r)
  <2>1. Tale(evs, t, bound[p].idle, bound[p].active, h, r) /\ (h => more) /\ Retained(evs, u, 0, new)
    BY <1>1
  <2> HIDE DEF h, more, r, u
  <2> QED
    BY <1>0, <2>1, TaleKept
<1> QED
  BY <1>2 DEF Knows
-----------------------------------------------------------------------------
(* What a thread's turns add to its tale.                                  *)

TurnOf(t, n) == [op |-> "turn", thread |-> t, turn |-> n]

LEMMA NotesOf ==
    ASSUME NEW t
    PROVE  /\ Mine(Busy(t), "status", t) /\ ~Busy(t).idle /\ ~Mine(Busy(t), "turn", t) /\ "op" \in DOMAIN Busy(t)
           /\ Mine(Idle(t), "status", t) /\ Idle(t).idle /\ ~Mine(Idle(t), "turn", t) /\ "op" \in DOMAIN Idle(t)
           /\ \A n : /\ Mine(TurnOf(t, n), "turn", t) /\ ~Mine(TurnOf(t, n), "status", t)
                     /\ TurnOf(t, n).turn = n /\ "op" \in DOMAIN TurnOf(t, n)
BY DEF Mine, Busy, Idle, TurnOf

LEMMA NoMore ==
    ASSUME NEW s, Sequence(s)
    PROVE  s \o <<>> = s /\ <<>> \o s = s
<1>1. s \in Seq(Range(s))
  BY DEF Sequence
<1> QED
  BY <1>1, ConcatEmptySeq

LEMMA OneMore ==
    ASSUME NEW s, Sequence(s), NEW x, "op" \in DOMAIN x
    PROVE  Grown(s, s \o <<x>>, x)
BY TwoMore

LEMMA TaleBegins ==
    ASSUME NEW s, Sequence(s), NEW t, NEW idle, NEW active, NEW hears, NEW n,
           Tale(s, t, idle, active, hears, FALSE)
    PROVE  Tale(s \o (<<Busy(t)>> \o (IF hears THEN <<TurnOf(t, n)>> ELSE <<>>)), t, idle, active, hears, TRUE)
<1> DEFINE x == Busy(t)
           y == TurnOf(t, n)
           u == s \o <<x>>
           w == s \o (<<x>> \o <<y>>)
<1>1. Mine(x, "status", t) /\ ~x.idle /\ ~Mine(x, "turn", t) /\ "op" \in DOMAIN x
  BY NotesOf
<1>2. Mine(y, "turn", t) /\ ~Mine(y, "status", t) /\ "op" \in DOMAIN y
  BY NotesOf
<1>x. x.idle = ~TRUE
  BY DEF Busy
<1>3. Grown(s, u, x) /\ Grown(u, w, y)
  BY <1>1, <1>2, TwoMore
<1>4. <<x>> \o <<>> = <<x>>
  <2>1. Sequence(<<x>>)
    BY <1>1, One
  <2> QED
    BY <2>1, NoMore
<1> HIDE DEF x, y, u, w
<1>5. Tale(u, t, idle, active, hears, TRUE)
  BY <1>1, <1>x, <1>3, TaleGrown
<1>6. ASSUME hears PROVE Tale(w, t, idle, active, hears, TRUE)
  BY <1>2, <1>3, <1>5, <1>6, TaleGrown
<1>7. CASE hears
  BY <1>6, <1>7 DEF x, y, w
<1>8. CASE ~hears
  BY <1>4, <1>5, <1>8 DEF x, u
<1> QED
  BY <1>7, <1>8

LEMMA TaleTurns ==
    ASSUME NEW s, Sequence(s), NEW t, NEW idle, NEW active, NEW hears, NEW n,
           Tale(s, t, idle, active, hears, TRUE)
    PROVE  Tale(s \o ((IF hears THEN <<TurnOf(t, 0)>> ELSE <<>>) \o (IF hears THEN <<TurnOf(t, n)>> ELSE <<>>)),
                t, idle, active, hears, TRUE)
<1> DEFINE x == TurnOf(t, 0)
           y == TurnOf(t, n)
           u == s \o <<x>>
           w == s \o (<<x>> \o <<y>>)
<1>1. Mine(x, "turn", t) /\ ~Mine(x, "status", t) /\ "op" \in DOMAIN x
  BY NotesOf
<1>2. Mine(y, "turn", t) /\ ~Mine(y, "status", t) /\ "op" \in DOMAIN y
  BY NotesOf
<1>3. Grown(s, u, x) /\ Grown(u, w, y)
  BY <1>1, <1>2, TwoMore
<1>4. s \o (<<>> \o <<>>) = s
  <2>1. Sequence(<<>>)
    BY NoNotes DEF IsNotes
  <2> QED
    BY <2>1, NoMore
<1> HIDE DEF x, y, u, w
<1>5. ASSUME hears PROVE Tale(u, t, idle, active, hears, TRUE)
  BY <1>1, <1>3, <1>5, TaleGrown
<1>6. ASSUME hears PROVE Tale(w, t, idle, active, hears, TRUE)
  BY <1>2, <1>3, <1>5, <1>6, TaleGrown
<1>7. CASE hears
  BY <1>6, <1>7 DEF x, y, w
<1>8. CASE ~hears
  BY <1>4, <1>8
<1> QED
  BY <1>7, <1>8

LEMMA TaleEnds ==
    ASSUME NEW s, Sequence(s), NEW t, NEW idle, NEW active, NEW hears,
           Tale(s, t, idle, active, hears, TRUE)
    PROVE  Tale(s \o ((IF hears THEN <<TurnOf(t, 0)>> ELSE <<>>) \o <<Idle(t)>>), t, idle, active, hears, FALSE)
<1> DEFINE x == TurnOf(t, 0)
           y == Idle(t)
           u == s \o <<x>>
           w == s \o (<<x>> \o <<y>>)
           v == s \o <<y>>
<1>1. Mine(x, "turn", t) /\ ~Mine(x, "status", t) /\ x.turn = 0 /\ "op" \in DOMAIN x
  BY NotesOf
<1>2. Mine(y, "status", t) /\ ~Mine(y, "turn", t) /\ y.idle /\ "op" \in DOMAIN y
  BY NotesOf
<1>y. y.idle = ~FALSE
  BY DEF Idle
<1>3. Grown(s, u, x) /\ Grown(u, w, y) /\ Grown(s, v, y)
  BY <1>1, <1>2, TwoMore, OneMore
<1>4. <<>> \o <<y>> = <<y>>
  <2>1. Sequence(<<y>>)
    BY <1>2, One
  <2> QED
    BY <2>1, NoMore
<1> HIDE DEF x, y, u, w, v
<1>5. ASSUME hears
      PROVE  Tale(u, t, idle, active, hears, TRUE) /\ Shown(u, "turn", t, active, Len(u), 0)
  BY <1>1, <1>3, <1>5, TaleGrown
<1>6. ASSUME hears PROVE Tale(w, t, idle, active, hears, FALSE)
  BY <1>2, <1>y, <1>3, <1>5, <1>6, TaleGrown
<1>7. ASSUME ~hears PROVE Tale(v, t, idle, active, hears, FALSE)
  <2>1. Shown(s, "turn", t, active, Len(s), 0)
    BY <1>7 DEF Tale
  <2> QED
    BY <1>2, <1>y, <1>3, <2>1, TaleGrown
<1>8. CASE hears
  BY <1>6, <1>8 DEF x, y, w
<1>9. CASE ~hears
  BY <1>4, <1>7, <1>9 DEF y, v
<1> QED
  BY <1>8, <1>9

-----------------------------------------------------------------------------
\* The first event is taken.
Pops == /\ Len(evs) \in Nat \ {0} /\ Len(evs') = Len(evs) - 1 /\ Sequence(evs')
        /\ \A i \in 1 .. Len(evs') : evs'[i] = evs[i + 1]

LEMMA KnowsRest ==
    ASSUME Pops, NEW p \in Bound, Knows(p), NEW t, t = bound[p].thread, bound'[p].thread = t,
           bound'[p].idle = (IF Mine(evs[1], "status", t) THEN evs[1].idle ELSE bound[p].idle),
           bound'[p].active = (IF Mine(evs[1], "turn", t) THEN evs[1].turn ELSE bound[p].active),
           turn'[t] = turn[t], t \in heard => t \in heard'
    PROVE  Knows(p)'
<1> DEFINE h == t \in heard
           more == t \in heard'
           r == turn[t] # 0
           u == evs'
           i2 == IF Mine(evs[1], "status", t) THEN evs[1].idle ELSE bound[p].idle
           a2 == IF Mine(evs[1], "turn", t) THEN evs[1].turn ELSE bound[p].active
<1>1. Tale(evs, t, bound[p].idle, bound[p].active, h, r)
  BY DEF Knows
<1>2. Len(evs) \in Nat \ {0} /\ Len(u) = Len(evs) - 1 /\ Sequence(u) /\ \A i \in 1 .. Len(u) : u[i] = evs[i + 1]
  BY DEF Pops
<1>3. Tale(u, t, i2, a2, h, r)
  <2> HIDE DEF h, r, u
  <2> QED
    BY <1>1, <1>2, TaleRest
<1>4. h => more
  OBVIOUS
<1>5. Tale(u, t, i2, a2, more, r)
  <2> HIDE DEF h, r, u, more, i2, a2
  <2>1. Retained(u, u, 0, {}) /\ Len(u) \in Nat
    BY <1>2, AllRetained, LenProperties DEF Sequence
  <2> QED
    BY <1>3, <1>4, <2>1, TaleKept
<1> QED
  BY <1>5 DEF Knows
-----------------------------------------------------------------------------
(* Steps that do not concern a binding.                                    *)

Unmoved(p) == /\ bound'[p].key = bound[p].key /\ bound'[p].thread = bound[p].thread
              /\ bound'[p].idle = bound[p].idle /\ bound'[p].active = bound[p].active
              /\ bound'[p].last = bound[p].last /\ bound'[p].subs = bound[p].subs

LEMMA PaneCalm ==
    ASSUME Shape, Events, NEW p \in Bound, Sound(p), NEW t, t = bound[p].thread, Unmoved(p),
           Alone(p)', NEW k \in {0, 1}, NEW new, Retained(evs, evs', k, new),
           k = 1 => Pops /\ Silent(evs[1], t),
           \A x \in new : Silent(x, t) /\ (AsksOf(x, bound[p].key) => ~Quiet(t)),
           turn'[t] = turn[t], queue'[t] = queue[t], t \in heard => t \in heard',
           \A c \in checks : c.pane = p => \E d \in checks' : d.pane = p /\ d.since = c.since,
           \A d \in checks' : d.pane = p /\ d.left = 0 =>
               \E c \in checks : c.pane = p /\ c.since = d.since /\ c.left = 0
    PROVE  Sound(p)'
<1>u. /\ bound'[p].key = bound[p].key /\ bound'[p].thread = t
      /\ bound'[p].idle = bound[p].idle /\ bound'[p].active = bound[p].active
      /\ bound'[p].last = bound[p].last /\ bound'[p].subs = bound[p].subs
  BY DEF Unmoved
<1>1. ~Quiet(t) => ~Quiet(t)'
  BY DEF Quiet
<1>2. \A x \in new : ~Rises(x, t) /\ (AsksOf(x, bound[p].key) => ~Quiet(t)')
  BY <1>1 DEF Silent, Rises
<1>3. Knows(p)'
  <2>1. CASE k = 0
    BY <1>u, <2>1, KnowsKept DEF Sound
  <2>2. CASE k = 1
    <3>1. /\ bound'[p].idle = (IF Mine(evs[1], "status", t) THEN evs[1].idle ELSE bound[p].idle)
          /\ bound'[p].active = (IF Mine(evs[1], "turn", t) THEN evs[1].turn ELSE bound[p].active)
      BY <1>u, <2>2 DEF Silent
    <3> QED
      BY <1>u, <2>2, <3>1, KnowsRest DEF Sound
  <2> QED
    BY <2>1, <2>2
<1>4. Awaits(p)'
  <2> SUFFICES ASSUME bound'[p].subs # {} PROVE Coming(p)'
    BY DEF Awaits
  <2>1. Coming(p)
    BY <1>u DEF Sound, Awaits
  <2>2. k = 1 => ~Falls(evs[1], t)
    BY DEF Silent, Falls
  <2> QED
    BY <1>u, <1>1, <2>1, <2>2, ComingKept
<1>5. Taken(p)'
  <2> SUFFICES ASSUME NEW d \in checks', d.pane = p, d.left = 0, bound[p].last <= d.since, queue[t] # <<>>
               PROVE  turn[t] # 0
    BY <1>u DEF Taken
  <2>1. PICK c \in checks : c.pane = p /\ c.since = d.since /\ c.left = 0
    OBVIOUS
  <2> QED
    BY <2>1 DEF Sound, Taken
<1>6. \A s \in bound'[p].subs : ~s.idled => s \in bound[p].subs \/ Restless(t, k)
  BY <1>u
<1> QED
  BY <1>u, <1>1, <1>2, <1>3, <1>4, <1>5, <1>6, SoundKept

LEMMA CalmSorts ==
    ASSUME BusInv, Sorts, NEW k \in {0, 1}, NEW new, Retained(evs, evs', k, new), \A x \in new : Marked(x),
           UNCHANGED <<bound, turn, queue, began, checks, dealt, nextKey>>,
           loaded' \subseteq Threads, \A t \in Threads : queue[t] # <<>> => t \in loaded'
    PROVE  Sorts'
<1>1. Shape /\ nextKey \in Nat
  BY DEF BusInv, Keys
<1>2. Turns' /\ Clocks'
  BY DEF Sorts, Turns, Clocks
<1>3. Wholes'
  BY WholesSame DEF Sorts, Clocks
<1>4. Events'
  BY <1>1, EventsKept DEF Sorts
<1> QED
  BY <1>2, <1>3, <1>4 DEF Sorts

LEMMA CalmFollows ==
    ASSUME BusInv, FollowInv, NEW k \in {0, 1}, NEW new, Retained(evs, evs', k, new),
           k = 1 => Pops /\ \A p \in Followed : Silent(evs[1], bound[p].thread),
           \A x \in new : /\ Marked(x) /\ \A t : Silent(x, t)
                          /\ \A p \in Bound : AsksOf(x, bound[p].key) => ~Quiet(bound[p].thread),
           UNCHANGED <<bound, turn, queue, began, heard, checks, dealt, nextKey>>, link => link',
           loaded' \subseteq Threads, \A t \in Threads : queue[t] # <<>> => t \in loaded'
    PROVE  FollowInv'
<1>1. Sorts'
  BY CalmSorts DEF FollowInv
<1>2. ASSUME NEW p \in Followed' PROVE Sound(p)'
  <2> DEFINE t == bound[p].thread
  <2>1. p \in Bound /\ Sound(p) /\ p \in Followed
    BY <1>2 DEF Followed, Bound, FollowInv
  <2>2. Shape /\ Events
    BY DEF BusInv, FollowInv, Sorts
  <2>3. Alone(p)'
    BY <2>1 DEF Sound, Alone, Bound
  <2>4. k = 1 => Pops /\ Silent(evs[1], t)
    BY <2>1
  <2>5. \A x \in new : Silent(x, t) /\ (AsksOf(x, bound[p].key) => ~Quiet(t))
    BY <2>1
  <2>6. /\ Unmoved(p) /\ turn'[t] = turn[t] /\ queue'[t] = queue[t] /\ (t \in heard => t \in heard')
        /\ \A c \in checks : c.pane = p => \E d \in checks' : d.pane = p /\ d.since = c.since
        /\ \A d \in checks' : d.pane = p /\ d.left = 0 =>
              \E c \in checks : c.pane = p /\ c.since = d.since /\ c.left = 0
    BY DEF Unmoved
  <2> HIDE DEF t
  <2>7. t = bound[p].thread
    BY DEF t
  <2> QED
    BY <2>1, <2>2, <2>3, <2>4, <2>5, <2>6, <2>7, PaneCalm
<1> QED
  BY <1>1, <1>2 DEF FollowInv

-----------------------------------------------------------------------------
\* Codex, but for its turns; what reaches the worker; a rescan.

LEMMA TuisFollow ==
    ASSUME BusInv, FollowInv,
           \/ \E p \in Panes : Starts(p) \/ Quits(p) \/ \E t \in Threads : Shows(p, t)
           \/ \E t \in Threads : Unloads(t)
    PROVE  FollowInv'
<1>s. Shape /\ Turns
  BY DEF BusInv, FollowInv, Sorts
<1>1. /\ UNCHANGED <<bound, turn, queue, began, heard, checks, dealt, nextKey, link>>
      /\ evs' = evs \/ evs' = Note(<<Reload>>)
  BY DEF Starts, Quits, Shows, Unloads, TuiOnly, daemon, worker
<1>2. /\ loaded' \subseteq Threads
      /\ \A t \in Threads : queue[t] # <<>> => t \in loaded'
  BY <1>s DEF Starts, Quits, Shows, Unloads, Turns, Quiet
<1>3. Retained(evs, evs', 0, {Reload})
  <2>1. Lists(<<Reload>>, {Reload})
    BY NewsIsNews
  <2>2. CASE evs' = evs
    BY <1>s, <2>2, AllRetained DEF Shape
  <2>3. CASE evs' = Note(<<Reload>>)
    BY <1>s, <2>1, <2>3, NotedAll
  <2> QED
    BY <1>1, <2>2, <2>3
<1>4. \A x \in {Reload} : /\ Marked(x) /\ \A t : Silent(x, t)
                          /\ \A p \in Bound : AsksOf(x, bound[p].key) => ~Quiet(bound[p].thread)
  BY NewsMarked DEF Reload, Silent, Mine, AsksOf
<1> QED
  BY <1>1, <1>2, <1>3, <1>4, CalmFollows

LEMMA OfferFollows ==
    ASSUME BusInv, FollowInv, Offer
    PROVE  FollowInv'
<1> DEFINE x == [op |-> "want", wants |-> Observed]
<1>1. /\ evs' = Append(evs, x)
      /\ UNCHANGED <<bound, turn, queue, began, heard, checks, dealt, nextKey, link, loaded>>
  BY DEF Offer, world, daemon, worker
<1>2. "op" \in DOMAIN x /\ x.op = "want"
  OBVIOUS
<1> HIDE DEF x
<1>3. Retained(evs, evs', 0, {x})
  BY <1>1, <1>2, PutRetained DEF BusInv
<1>4. /\ Marked(x) /\ \A t : Silent(x, t)
      /\ \A p \in Bound : AsksOf(x, bound[p].key) => ~Quiet(bound[p].thread)
  BY <1>2 DEF Silent, Mine, AsksOf, Marked
<1>5. loaded \subseteq Threads /\ \A t \in Threads : queue[t] # <<>> => t \in loaded
  BY DEF FollowInv, Sorts, Turns
<1> QED
  BY <1>1, <1>3, <1>4, <1>5, CalmFollows

LEMMA SendFollows ==
    ASSUME BusInv, FollowInv, NEW p \in Panes, Send(p)
    PROVE  FollowInv'
<1>1. PICK x \in Frames(p) : evs' = Append(evs, x)
  BY DEF Send
<1>2. /\ UNCHANGED <<bound, turn, queue, began, heard, checks, dealt, nextKey, link, loaded>>
      /\ p \in Bound
  BY DEF Send, world, daemon, worker
<1>3. /\ "op" \in DOMAIN x /\ x.op \in {"mail", "told", "ask"}
      /\ x.op = "ask" => {"idled", "key"} \subseteq DOMAIN x /\ x.key = bound[p].key /\ x.idled = Quiet(bound[p].thread)
  BY <1>1 DEF Frames
<1>4. Retained(evs, evs', 0, {x})
  BY <1>1, <1>3, PutRetained DEF BusInv
<1>5. Marked(x) /\ \A t : Silent(x, t)
  BY <1>2, <1>3 DEF Silent, Mine, Marked, BusInv, Keys
<1>6. \A q \in Bound : AsksOf(x, bound[q].key) => ~Quiet(bound[q].thread)
  BY <1>2, <1>3 DEF AsksOf, BusInv, Keys
<1>7. loaded \subseteq Threads /\ \A t \in Threads : queue[t] # <<>> => t \in loaded
  BY DEF FollowInv, Sorts, Turns
<1> QED
  BY <1>2, <1>4, <1>5, <1>6, <1>7, CalmFollows

LEMMA TakesPops ==
    ASSUME Shape, NEW op, At(op)
    PROVE  Pops /\ Retained(evs, evs', 1, {}) /\ e = evs[1] /\ evs[1].op = op
<1>1. /\ Retained(evs, evs', 1, {}) /\ 1 \in 1 .. Len(evs) /\ Len(evs) \in Nat
      /\ Len(evs') = Len(evs) - 1
      /\ \A i \in 1 .. Len(evs') : i + 1 \in 1 .. Len(evs) /\ evs'[i] = evs[i + 1]
      /\ e = evs[1] /\ evs[1].op = op
  BY TakesRest
<1>2. Len(evs) \in Nat \ {0} /\ Sequence(evs')
  BY <1>1 DEF Retained
<1> QED
  BY <1>1, <1>2 DEF Pops

LEMMA RescanFollows ==
    ASSUME BusInv, FollowInv, HandleWant \/ HandleThreads \/ RetryDue
    PROVE  FollowInv'
<1>s. Shape
  BY DEF BusInv
<1>1. UNCHANGED <<bound, turn, queue, began, heard, checks, dealt, nextKey, loaded>>
  BY DEF HandleWant, HandleThreads, RetryDue, world
<1>2. link => link'
  BY DEF HandleWant, HandleThreads, RetryDue, Refresh, NoCall, Call
<1>3. loaded \subseteq Threads /\ \A t \in Threads : queue[t] # <<>> => t \in loaded
  BY DEF FollowInv, Sorts, Turns
<1>4. CASE HandleWant \/ HandleThreads
  <2>1. PICK op \in {"want", "threads"} : At(op)
    BY <1>4 DEF HandleWant, HandleThreads
  <2>2. Pops /\ Retained(evs, evs', 1, {}) /\ evs[1].op = op
    BY <1>s, <2>1, TakesPops
  <2>3. \A t : Silent(evs[1], t)
    BY <2>2 DEF Silent, Mine
  <2>4. /\ Pops /\ \A p \in Followed : Silent(evs[1], bound[p].thread)
        /\ \A x \in {} : /\ Marked(x) /\ \A t : Silent(x, t)
                         /\ \A p \in Bound : AsksOf(x, bound[p].key) => ~Quiet(bound[p].thread)
    BY <2>2, <2>3
  <2> QED
    BY <1>1, <1>2, <1>3, <2>2, <2>4, CalmFollows
<1>5. CASE RetryDue
  <2>1. Retained(evs, evs', 0, {})
    BY <1>s, <1>5, AllRetained DEF RetryDue, Shape
  <2>2. \A x \in {} : /\ Marked(x) /\ \A t : Silent(x, t)
                      /\ \A p \in Bound : AsksOf(x, bound[p].key) => ~Quiet(bound[p].thread)
    OBVIOUS
  <2> QED
    BY <1>1, <1>2, <1>3, <2>1, <2>2, CalmFollows
<1> QED
  BY <1>4, <1>5

LEMMA StillFollow ==
    ASSUME BusInv, FollowInv, UNCHANGED vars
    PROVE  FollowInv'
<1>1. UNCHANGED <<bound, turn, queue, began, heard, checks, dealt, nextKey, link, loaded, evs>>
  BY DEF vars, world, daemon, worker
<1>2. Retained(evs, evs', 0, {})
  BY <1>1, AllRetained DEF BusInv, Shape
<1>3. \A x \in {} : /\ Marked(x) /\ \A t : Silent(x, t)
                    /\ \A p \in Bound : AsksOf(x, bound[p].key) => ~Quiet(bound[p].thread)
  OBVIOUS
<1>4. loaded \subseteq Threads /\ \A t \in Threads : queue[t] # <<>> => t \in loaded
  BY DEF FollowInv, Sorts, Turns
<1> QED
  BY <1>1, <1>2, <1>3, <1>4, CalmFollows
-----------------------------------------------------------------------------
(* Turns.                                                                  *)

\* What a turn's end changes of a binding: its subscribers have rested.
LEMMA RestedKeeps ==
    ASSUME Shape, Wholes, NEW t, UNCHANGED bound \/ bound' = Rested(t)
    PROVE  /\ Bound' = Bound
           /\ \A p \in Bound : /\ bound[p].thread # t => bound'[p] = bound[p]
                               /\ bound'[p].key = bound[p].key /\ bound'[p].thread = bound[p].thread
                               /\ bound'[p].idle = bound[p].idle /\ bound'[p].active = bound[p].active
                               /\ bound'[p].last = bound[p].last /\ bound'[p].followed = bound[p].followed
<1>1. CASE UNCHANGED bound
  BY <1>1 DEF Bound
<1>2. CASE bound' = Rested(t)
  <2>1. \A p \in Panes : p \notin BoundTo(t) => bound'[p] = bound[p]
    BY <1>2 DEF Rested
  <2>2. ASSUME NEW p \in BoundTo(t)
        PROVE  /\ bound'[p].key = bound[p].key /\ bound'[p].thread = bound[p].thread
               /\ bound'[p].idle = bound[p].idle /\ bound'[p].active = bound[p].active
               /\ bound'[p].last = bound[p].last /\ bound'[p].followed = bound[p].followed
    <3>1. p \in Bound /\ p \in Panes /\ Fields(bound[p]) /\ Whole(bound[p])
      BY <2>2 DEF BoundTo, Shape, Wholes, Bound
    <3>2. PICK u : bound'[p] = [bound[p] EXCEPT !.subs = u]
      BY <1>2, <3>1 DEF Rested
    <3> QED
      BY <3>1, <3>2 DEF Fields, Whole
  <2>3. \A p \in Panes : bound'[p].key = bound[p].key
    BY <2>1, <2>2
  <2>4. Bound' = Bound
    BY <2>3 DEF Bound
  <2>5. \A p \in Bound : p \in Panes /\ (bound[p].thread # t => p \notin BoundTo(t))
    BY DEF Bound, BoundTo
  <2> QED
    BY <2>1, <2>2, <2>4, <2>5
<1> QED
  BY <1>1, <1>2

\* A turn begins, or one follows another.
LEMMA BeginsSound ==
    ASSUME BusInv, FollowInv, NEW t \in Threads,
           PersonAsks(t) \/ TakesQueued(t) \/ (TurnEnds(t) /\ queue[t] # <<>>),
           NEW p \in Followed, bound[p].thread = t
    PROVE  Sound(p)'
<1>s. Shape /\ Events /\ Turns /\ p \in Bound /\ Sound(p)
  BY DEF BusInv, FollowInv, Sorts, Followed
<1>1. UNCHANGED <<bound, heard, link, checks>> /\ link
  BY <1>s DEF PersonAsks, TakesQueued, Begins, TurnEnds, daemon, worker, Sound, Alone
<1>2. began + 1 \in Nat \ {0} /\ turn' = [turn EXCEPT ![t] = began + 1]
  BY <1>s DEF PersonAsks, TakesQueued, Begins, TurnEnds, Turns
<1>3. turn'[t] = began + 1 /\ turn'[t] # 0
  BY <1>s, <1>2 DEF Turns
<1>4. Retained(evs, evs', 0, TurnNews(t))
  BY <1>s, TurnsRetain
<1>5. \A x \in TurnNews(t) : ~Rises(x, t) \/ x = Idle(t)
  BY DEF TurnNews, Rises, Mine, Busy, Idle
<1>6. Retained(evs, evs', 0, {Busy(t), TurnOf(t, 0), TurnOf(t, began + 1)})
  <2> DEFINE S == {Busy(t), TurnOf(t, 0), TurnOf(t, began + 1)}
  <2>1. Lists(<<Busy(t)>>, S) /\ Lists(<<TurnOf(t, 0)>>, S) /\ Lists(<<TurnOf(t, began + 1)>>, S) /\ Lists(<<>>, S)
    BY NotesOf, ListsOne, ListsNone
  <2> HIDE DEF S
  <2>2. Lists(Completed(t), S) /\ Lists(Started(t, began + 1), S)
    BY <2>1 DEF Completed, Started, TurnNote, TurnOf
  <2>3. Lists(<<Busy(t)>> \o Started(t, began + 1), S) /\ Lists(Completed(t) \o Started(t, began + 1), S)
    BY <2>1, <2>2, ListsBoth
  <2>4. \/ evs' = Note(<<Busy(t)>> \o Started(t, began + 1))
        \/ evs' = Note(Completed(t) \o Started(t, began + 1))
    BY DEF PersonAsks, TakesQueued, Begins, TurnEnds
  <2>5. Retained(evs, evs', 0, S)
    BY <1>s, <2>3, <2>4, NotedAll
  <2> QED
    BY <2>5 DEF S
<1>7. ~Quiet(t)'
  BY <1>3 DEF Quiet
<1>8. Alone(p)'
  BY <1>s, <1>1 DEF Sound, Alone, Bound
<1>9. Knows(p)'
  <2> DEFINE h == t \in heard
             n == began + 1
             i == bound[p].idle
             a == bound[p].active
  <2>1. Sequence(evs)
    BY <1>s DEF Shape
  <2>2. CASE PersonAsks(t) \/ TakesQueued(t)
    <3>1. turn[t] = 0 /\ evs' = evs \o (<<Busy(t)>> \o Started(t, n))
      BY <1>1, <2>2 DEF PersonAsks, TakesQueued, Begins, Note
    <3>2. Tale(evs, t, i, a, h, turn[t] # 0)
      BY <1>s DEF Sound, Knows
    <3>3. (turn[t] # 0) = FALSE
      BY <3>1
    <3>4. Tale(evs, t, i, a, h, FALSE)
      BY <3>2, <3>3
    <3>5. Tale(evs \o (<<Busy(t)>> \o (IF h THEN <<TurnOf(t, n)>> ELSE <<>>)), t, i, a, h, TRUE)
      <4> HIDE DEF h, n, i, a
      <4> QED
        BY <2>1, <3>4, TaleBegins
    <3>6. Tale(evs', t, i, a, h, TRUE)
      BY <3>1, <3>5 DEF Started, TurnNote, TurnOf
    <3>7. (turn'[t] # 0) = TRUE
      BY <1>3
    <3>8. Tale(evs', t, i, a, h, turn'[t] # 0)
      BY <3>6, <3>7
    <3> QED
      BY <1>1, <3>8 DEF Knows
  <2>3. CASE TurnEnds(t) /\ queue[t] # <<>>
    <3>1. turn[t] # 0 /\ evs' = evs \o (Completed(t) \o Started(t, n))
      BY <1>1, <2>3 DEF TurnEnds, Note
    <3>2. Tale(evs, t, i, a, h, turn[t] # 0)
      BY <1>s DEF Sound, Knows
    <3>3. (turn[t] # 0) = TRUE
      BY <3>1
    <3>4. Tale(evs, t, i, a, h, TRUE)
      BY <3>2, <3>3
    <3>5. Tale(evs \o ((IF h THEN <<TurnOf(t, 0)>> ELSE <<>>) \o (IF h THEN <<TurnOf(t, n)>> ELSE <<>>)), t, i, a, h, TRUE)
      <4> HIDE DEF h, n, i, a
      <4> QED
        BY <2>1, <3>4, TaleTurns
    <3>6. Tale(evs', t, i, a, h, TRUE)
      BY <3>1, <3>5 DEF Started, Completed, TurnNote, TurnOf
    <3>7. (turn'[t] # 0) = TRUE
      BY <1>3
    <3>8. Tale(evs', t, i, a, h, turn'[t] # 0)
      BY <3>6, <3>7
    <3> QED
      BY <1>1, <3>8 DEF Knows
  <2> QED
    BY <2>2, <2>3
<1>10. Awaits(p)' /\ Taken(p)'
  BY <1>1, <1>3, <1>7 DEF Awaits, Coming, Taken
<1>11. \A x \in {Busy(t), TurnOf(t, 0), TurnOf(t, began + 1)} :
          ~Rises(x, t) /\ (AsksOf(x, bound[p].key) => ~Quiet(t)')
  <2>1. ~Rises(Busy(t), t)
    BY NotesOf DEF Rises
  <2>2. \A n : ~Rises(TurnOf(t, n), t)
    BY NotesOf DEF Rises
  <2> QED
    BY <1>7, <2>1, <2>2
<1>12. /\ bound'[p].key = bound[p].key /\ bound'[p].thread = t /\ t = bound[p].thread
       /\ \A s \in bound'[p].subs : ~s.idled => s \in bound[p].subs \/ Restless(t, 0)
  BY <1>1
<1> QED
  BY <1>s, <1>6, <1>7, <1>8, <1>9, <1>10, <1>11, <1>12, SoundKept

\* A turn ends, and nothing waits: the thread rests.
LEMMA EndsSound ==
    ASSUME BusInv, FollowInv, NEW t \in Threads, TurnEnds(t), queue[t] = <<>>,
           NEW p \in Followed, bound[p].thread = t
    PROVE  Sound(p)'
<1>s. Shape /\ Events /\ Turns /\ Wholes /\ p \in Bound /\ Sound(p)
  BY DEF BusInv, FollowInv, Sorts, Followed
<1>1. /\ UNCHANGED <<heard, link, checks, queue>> /\ link /\ turn[t] # 0
      /\ turn' = [turn EXCEPT ![t] = 0] /\ bound' = Rested(t)
      /\ evs' = RestedAsks(t) \o (Completed(t) \o <<Idle(t)>>)
  BY <1>s DEF TurnEnds, daemon, Sound, Alone
<1>2. turn'[t] = 0 /\ queue'[t] = <<>>
  BY <1>s, <1>1 DEF Turns
<1>3. /\ Bound' = Bound
      /\ \A q \in Bound : bound'[q].thread = bound[q].thread
      /\ bound'[p].key = bound[p].key /\ bound'[p].thread = t
      /\ bound'[p].idle = bound[p].idle /\ bound'[p].active = bound[p].active
  BY <1>s, <1>1, RestedKeeps
<1>4. Retained(evs, evs', 0, TurnNews(t)) /\ Len(evs) \in Nat
  BY <1>s, TurnsRetain, LenProperties DEF Shape, Sequence
<1>5. Alone(p)'
  BY <1>s, <1>1, <1>3 DEF Sound, Alone
<1> DEFINE h == t \in heard
           i == bound[p].idle
           a == bound[p].active
           r == RestedAsks(t)
<1>6. Tale(evs, t, i, a, h, TRUE)
  <2>1. Tale(evs, t, i, a, h, turn[t] # 0)
    BY <1>s DEF Sound, Knows
  <2>2. (turn[t] # 0) = TRUE
    BY <1>1
  <2> QED
    BY <2>1, <2>2
<1>7. Knows(p)'
  <2>1. Retained(evs, r, 0, {}) /\ Sequence(r)
    <3>1. Retained(evs, RestedAsks(t), 0, {})
      BY <1>s, RestRetains
    <3> QED
      BY <3>1 DEF Retained
  <2>2. Tale(r, t, i, a, h, TRUE)
    <3> DEFINE new == {}
               runs == TRUE
    <3>1. /\ Len(evs) \in Nat /\ Retained(evs, r, 0, new) /\ (\A x \in new : Silent(x, t)) /\ (h => h)
          /\ Tale(evs, t, i, a, h, runs)
      BY <1>4, <1>6, <2>1
    <3> HIDE DEF h, i, a, r, new, runs
    <3>2. Tale(r, t, i, a, h, runs)
      BY <3>1, TaleKept
    <3> QED
      BY <3>2 DEF runs
  <2>3. Tale(r \o ((IF h THEN <<TurnOf(t, 0)>> ELSE <<>>) \o <<Idle(t)>>), t, i, a, h, FALSE)
    <3> HIDE DEF h, i, a, r
    <3> QED
      BY <2>1, <2>2, TaleEnds
  <2>4. Tale(evs', t, i, a, h, FALSE)
    BY <1>1, <2>3 DEF Completed, TurnNote, TurnOf
  <2>5. (turn'[t] # 0) = FALSE
    BY <1>2
  <2>6. Tale(evs', t, i, a, h, turn'[t] # 0)
    BY <2>4, <2>5
  <2> QED
    BY <1>1, <1>3, <2>6 DEF Knows
<1>8. Awaits(p)'
  <2>1. Shown(evs, "status", t, i, Len(evs), FALSE)
    BY <1>6 DEF Tale
  <2>2. CASE i = FALSE
    BY <1>3, <2>2 DEF Awaits, Coming
  <2>3. ASSUME NEW k \in 1 .. Len(evs), Mine(evs[k], "status", t), Says(evs[k]) = FALSE
        PROVE  Awaits(p)'
    <3>1. Falls(evs[k], t)
      BY <2>3 DEF Falls, Says, Mine
    <3>2. k > 0 /\ k - 0 = k
      BY <1>4
    <3>3. k \in 1 .. Len(evs') /\ Same(evs[k], evs'[k])
      BY <1>4, <3>2 DEF Retained
    <3>4. Falls(evs'[k], t)
      BY <3>1, <3>3 DEF Same, Falls, Mine
    <3> QED
      BY <1>3, <3>3, <3>4 DEF Awaits, Coming
  <2> QED
    BY <2>1, <2>2, <2>3 DEF Shown
<1>9. Rests(p)'
  <2> SUFFICES ASSUME NEW s \in bound'[p].subs, ~s.idled PROVE FALSE
    BY DEF Rests
  <2>1. p \in BoundTo(t) /\ p \in Panes /\ Whole(bound[p])
    BY <1>s DEF BoundTo, Wholes, Bound
  <2>2. bound'[p] = [bound[p] EXCEPT !.subs = {[x EXCEPT !.idled = TRUE] : x \in bound[p].subs}]
    BY <1>1, <2>1 DEF Rested
  <2>3. bound'[p].subs = {[x EXCEPT !.idled = TRUE] : x \in bound[p].subs}
    BY <2>1, <2>2 DEF Whole
  <2>4. PICK x \in bound[p].subs : s = [x EXCEPT !.idled = TRUE]
    BY <2>3
  <2>5. "idled" \in DOMAIN x
    BY <2>1 DEF Whole
  <2> QED
    BY <2>4, <2>5
<1>10. Asks(p)'
  <2> SUFFICES ASSUME NEW k \in 1 .. Len(evs'), AsksOf(evs'[k], bound[p].key) PROVE FALSE
    BY <1>3 DEF Asks
  <2>1. CASE k \in 1 .. Len(evs)
    <3>1. Sequence(r) /\ Len(r) = Len(evs) /\ DOMAIN evs = 1 .. Len(evs)
      BY <1>s, RestRetains, LenProperties DEF Retained, Shape, Sequence
    <3>2. evs'[k] = r[k]
      <4>1. Sequence(Completed(t) \o <<Idle(t)>>)
        BY NewsIsNews, ListsBoth DEF Lists
      <4> HIDE DEF r
      <4> QED
        BY <1>1, <2>1, <3>1, <4>1, Joined DEF r
    <3>3. r[k] = IF AskOf(evs[k], t) THEN [evs[k] EXCEPT !.idled = TRUE] ELSE evs[k]
      BY <2>1, <3>1 DEF RestedAsks
    <3>4. Marked(evs[k]) /\ "op" \in DOMAIN evs[k]
      BY <1>s, <2>1 DEF Events, Shape, Sequence
    <3>5. CASE AskOf(evs[k], t)
      <4>1. evs[k].op = "ask" /\ "idled" \in DOMAIN evs[k] /\ evs'[k] = [evs[k] EXCEPT !.idled = TRUE]
        BY <3>2, <3>3, <3>4, <3>5 DEF AskOf, Marked
      <4>2. evs'[k].idled
        BY <4>1
      <4> QED
        BY <4>2 DEF AsksOf
    <3>6. CASE ~AskOf(evs[k], t)
      <4>1. AsksOf(evs[k], bound[p].key) /\ p \in BoundTo(t)
        BY <1>s, <3>2, <3>3, <3>6 DEF BoundTo
      <4> QED
        BY <3>6, <4>1 DEF AsksOf, AskOf
    <3> QED
      BY <3>5, <3>6
  <2>2. CASE k \notin 1 .. Len(evs)
    <3>0. k + 0 = k
      BY <1>4 DEF Retained
    <3>1. evs'[k] \in TurnNews(t)
      BY <1>4, <2>2, <3>0 DEF Retained
    <3> QED
      BY <3>1, NewsIsNews DEF AsksOf
  <2> QED
    BY <2>1, <2>2
<1>11. Taken(p)'
  BY <1>2, <1>3 DEF Taken
<1> QED
  BY <1>5, <1>7, <1>8, <1>9, <1>10, <1>11 DEF Sound

LEMMA TurnsFollow ==
    ASSUME BusInv, FollowInv, NEW t \in Threads, PersonAsks(t) \/ TakesQueued(t) \/ TurnEnds(t)
    PROVE  FollowInv'
<1>s. Shape /\ Events /\ Turns /\ Wholes
  BY DEF BusInv, FollowInv, Sorts
<1>1. Sorts'
  BY TurnsSort DEF FollowInv
<1>2. UNCHANGED bound \/ bound' = Rested(t)
  BY DEF PersonAsks, TakesQueued, Begins, TurnEnds, worker, bounds
<1>3. /\ Bound' = Bound
      /\ \A p \in Bound : /\ bound[p].thread # t => bound'[p] = bound[p]
                          /\ bound'[p].thread = bound[p].thread
                          /\ bound'[p].followed = bound[p].followed
  BY <1>s, <1>2, RestedKeeps
<1>4. ASSUME NEW p \in Followed' PROVE Sound(p)'
  <2>1. p \in Bound /\ p \in Followed /\ Sound(p)
    BY <1>3, <1>4 DEF Followed, FollowInv
  <2>2. CASE bound[p].thread = t
    BY <2>1, <2>2, BeginsSound, EndsSound
  <2>3. CASE bound[p].thread # t
    <3> DEFINE u == bound[p].thread
    <3>1. Retained(evs, evs', 0, TurnNews(t))
      BY <1>s, TurnsRetain
    <3>2. u \in Threads /\ Unmoved(p)
      BY <1>s, <1>3, <2>1, <2>3 DEF Wholes, Whole, Unmoved
    <3>3. UNCHANGED <<heard, link, checks>> /\ turn'[u] = turn[u] /\ queue'[u] = queue[u]
      BY <1>s, <2>3, <3>2 DEF PersonAsks, TakesQueued, Begins, TurnEnds, daemon, worker, Turns
    <3>4. Alone(p)'
      BY <1>3, <2>1, <3>3 DEF Sound, Alone
    <3>5. \A x \in TurnNews(t) : Silent(x, u) /\ (AsksOf(x, bound[p].key) => ~Quiet(u))
      BY <2>3, NewsIsNews DEF Silent, Mine, AsksOf
    <3>6. /\ u \in heard => u \in heard'
          /\ \A c \in checks : c.pane = p => \E d \in checks' : d.pane = p /\ d.since = c.since
          /\ \A d \in checks' : d.pane = p /\ d.left = 0 =>
                \E c \in checks : c.pane = p /\ c.since = d.since /\ c.left = 0
      BY <3>3
    <3>7. u = bound[p].thread
      OBVIOUS
    <3> HIDE DEF u
    <3> QED
      BY <1>s, <2>1, <3>1, <3>2, <3>3, <3>4, <3>5, <3>6, <3>7, PaneCalm
  <2> QED
    BY <2>2, <2>3
<1> QED
  BY <1>1, <1>4 DEF FollowInv
-----------------------------------------------------------------------------
(* Ends and timers.                                                        *)

LEMMA NoneFollowed ==
    ASSUME Sorts', Followed' = {}
    PROVE  FollowInv'
BY DEF FollowInv

LEMMA BreakFollows ==
    ASSUME BusInv, FollowInv, NEW dies \in BOOLEAN, Breaks(dies)
    PROVE  FollowInv'
<1> DEFINE x == [op |-> "closed"]
<1>s. Shape /\ nextKey \in Nat /\ Sorts
  BY DEF BusInv, FollowInv, Keys
<1>1. /\ evs' = Append(evs, x) /\ bound' = Unfollowed
      /\ UNCHANGED <<began, checks, dealt, nextKey>>
      /\ loaded' = IF dies THEN {} ELSE loaded
      /\ turn' = IF dies THEN [t \in Threads |-> 0] ELSE turn
      /\ queue' = IF dies THEN [t \in Threads |-> <<>>] ELSE queue
  BY DEF Breaks
<1>2. "op" \in DOMAIN x /\ Marked(x)
  BY DEF Marked
<1> HIDE DEF x
<1>3. Retained(evs, evs', 0, {x})
  BY <1>1, <1>2, <1>s, PutRetained
<1>4. Turns' /\ Clocks'
  <2>1. <<>> \in Seq(Threads)
    BY EmptySeq
  <2> QED
    BY <1>1, <1>s, <2>1 DEF Sorts, Turns, Clocks
<1>5. Events'
  BY <1>1, <1>2, <1>3, <1>s, EventsKept DEF Sorts
<1>6. ASSUME NEW p \in Panes, bound'[p].key # 0
      PROVE  p \in Bound /\ Whole(bound'[p]) /\ ~bound'[p].followed
  <2>1. p \in Bound
    BY <1>1, <1>6 DEF Unfollowed, NoBinding
  <2>2. bound'[p] = [bound[p] EXCEPT !.followed = FALSE] /\ Whole(bound[p]) /\ Fields(bound[p])
    BY <1>1, <1>s, <2>1 DEF Unfollowed, Sorts, Wholes, Shape
  <2> QED
    BY <2>1, <2>2 DEF Whole, Fields
<1>7. Wholes'
  BY <1>1, <1>s, <1>6, WholesAll DEF Sorts
<1>8. Followed' = {}
  BY <1>6 DEF Followed, Bound
<1> QED
  BY <1>4, <1>5, <1>7, <1>8, NoneFollowed DEF Sorts

LEMMA ClosedFollows ==
    ASSUME BusInv, FollowInv, HandleClosed
    PROVE  FollowInv'
<1>s. Shape /\ nextKey \in Nat /\ Sorts
  BY DEF BusInv, FollowInv, Keys
<1>1. /\ UNCHANGED <<turn, queue, loaded, began, checks, dealt, nextKey>> /\ At("closed")
      /\ bound' = [p \in Panes |-> IF p \in Bound THEN [bound[p] EXCEPT !.subscribed = FALSE] ELSE NoBinding]
  BY DEF HandleClosed, world
<1>2. Retained(evs, evs', 1, {}) /\ evs[1].op = "closed" /\ 1 \in 1 .. Len(evs)
  BY <1>1, <1>s, TakesRest
<1>3. Followed = {}
  <2>1. ~link
    BY <1>2 DEF BusInv, Linked, IsClosed
  <2> QED
    BY <2>1 DEF FollowInv, Sound, Alone
<1>4. ASSUME NEW p \in Panes, bound'[p].key # 0
      PROVE  p \in Bound /\ Whole(bound'[p]) /\ bound'[p].followed = bound[p].followed
  <2>1. p \in Bound
    BY <1>1, <1>4 DEF NoBinding
  <2>2. bound'[p] = [bound[p] EXCEPT !.subscribed = FALSE] /\ Whole(bound[p]) /\ Fields(bound[p])
    BY <1>1, <1>s, <2>1 DEF Sorts, Wholes, Shape
  <2> QED
    BY <2>1, <2>2 DEF Whole, Fields
<1>5. Wholes'
  BY <1>1, <1>s, <1>4, WholesAll DEF Sorts
<1>6. Followed' = {}
  BY <1>3, <1>4 DEF Followed, Bound
<1>7. Events'
  BY <1>1, <1>2, <1>s, EventsKept DEF Sorts
<1>8. Turns' /\ Clocks'
  BY <1>1, <1>s DEF Sorts, Turns, Clocks
<1> QED
  BY <1>5, <1>6, <1>7, <1>8, NoneFollowed DEF Sorts

LEMMA ReexecFollows ==
    ASSUME BusInv, FollowInv, Reexec
    PROVE  FollowInv'
<1>1. /\ evs' = <<>> /\ Len(evs') = 0 /\ bound' = [p \in Panes |-> NoBinding] /\ Bound' = {}
      /\ UNCHANGED <<turn, queue, loaded, began>> /\ checks' = {} /\ dealt' = 0
  BY DEF Reexec, NewWorker, world, Bound, NoBinding
<1>2. Turns' /\ Clocks'
  BY <1>1 DEF FollowInv, Sorts, Turns, Clocks
<1>3. Wholes' /\ Events' /\ Followed' = {}
  BY <1>1 DEF Wholes, Events, Followed
<1> QED
  BY <1>2, <1>3, NoneFollowed DEF Sorts

LEMMA FollowedAtFirst == Init => FollowInv
<1> SUFFICES ASSUME Init PROVE FollowInv
  OBVIOUS
<1>1. /\ evs = <<>> /\ Len(evs) = 0 /\ bound = [p \in Panes |-> NoBinding] /\ Bound = {}
      /\ turn = [t \in Threads |-> 0] /\ queue = [t \in Threads |-> <<>>] /\ loaded = {} /\ began = 0
      /\ checks = {} /\ dealt = 0
  BY DEF Init, Bound, NoBinding
<1>2. <<>> \in Seq(Threads)
  BY EmptySeq
<1>3. Turns /\ Clocks
  BY <1>1, <1>2 DEF Turns, Clocks
<1>4. Wholes /\ Events /\ Followed = {}
  BY <1>1 DEF Wholes, Events, Followed
<1> QED
  BY <1>3, <1>4 DEF FollowInv, Sorts

\* QUIET_FOR has passed: the daemon has taken what was queued.
LEMMA TickFollows ==
    ASSUME BusInv, FollowInv, Tick
    PROVE  FollowInv'
<1>s. Shape /\ Sorts
  BY DEF BusInv, FollowInv
<1>1. /\ UNCHANGED <<evs, bound, turn, queue, loaded, began, heard, link, dealt, nextKey>>
      /\ checks' = {[c EXCEPT !.left = 0] : c \in checks}
      /\ \A t \in loaded : queue[t] # <<>> => turn[t] # 0
  BY DEF Tick, world, daemon
<1>2. \A c \in checks : /\ [c EXCEPT !.left = 0].pane = c.pane
                        /\ [c EXCEPT !.left = 0].since = c.since
                        /\ [c EXCEPT !.left = 0] = [pane |-> c.pane, since |-> c.since, left |-> 0]
  BY <1>s DEF Sorts, Clocks
<1>3. Clocks'
  <2> SUFFICES ASSUME NEW d \in checks'
               PROVE  d = [pane |-> d.pane, since |-> d.since, left |-> d.left] /\ d.since \in 0 .. dealt
    BY <1>1, <1>s DEF Sorts, Clocks
  <2>1. PICK c \in checks : d = [c EXCEPT !.left = 0]
    BY <1>1
  <2>2. d = [pane |-> c.pane, since |-> c.since, left |-> 0] /\ c.since \in 0 .. dealt
    BY <1>2, <1>s, <2>1 DEF Sorts, Clocks
  <2> QED
    BY <2>2
<1>4. Sorts'
  BY <1>1, <1>3, <1>s DEF Sorts, Turns, Wholes, Whole, Bound, Events, Marked
<1>5. ASSUME NEW p \in Followed' PROVE Sound(p)'
  <2> DEFINE t == bound[p].thread
  <2>1. p \in Bound /\ Sound(p) /\ t \in Threads
    BY <1>1, <1>5, <1>s DEF Followed, Bound, FollowInv, Sorts, Wholes, Whole
  <2>2. Alone(p)' /\ Knows(p)' /\ Rests(p)' /\ Asks(p)'
    BY <1>1, <2>1 DEF Sound, Alone, Knows, Rests, Asks, Restless, Quiet, Bound
  <2>3. queue[t] # <<>> => turn[t] # 0
    BY <1>1, <1>s, <2>1 DEF Sorts, Turns
  <2>4. Taken(p)'
    BY <1>1, <2>3 DEF Taken
  <2>5. Awaits(p)'
    <3> SUFFICES ASSUME bound[p].subs # {} PROVE Coming(p)'
      BY <1>1 DEF Awaits
    <3>1. Coming(p)
      BY <2>1 DEF Sound, Awaits
    <3>2. ASSUME NEW c \in checks, c.pane = p, bound[p].last <= c.since PROVE Coming(p)'
      <4>1. [c EXCEPT !.left = 0] \in checks'
        BY <1>1
      <4> QED
        BY <1>1, <1>2, <3>2, <4>1 DEF Coming
    <3>3. CASE ~Quiet(t) \/ ~bound[p].idle \/ \E i \in 1 .. Len(evs) : Falls(evs[i], t)
      BY <1>1, <3>3 DEF Coming, Quiet
    <3> QED
      BY <3>1, <3>2, <3>3 DEF Coming
  <2> QED
    BY <2>2, <2>4, <2>5 DEF Sound
<1> QED
  BY <1>4, <1>5 DEF FollowInv

\* With nothing left to handle, the worker knows how things are.
LEMMA ToldAll ==
    ASSUME NEW p \in Bound, Knows(p), evs = <<>>, Whole(bound[p])
    PROVE  /\ bound[p].idle <=> turn[bound[p].thread] = 0
           /\ bound[p].active # 0 => ~bound[p].idle
<1>1. Len(evs) = 0
  BY EmptySeq
<1>2. bound[p].idle = ~(turn[bound[p].thread] # 0)
  BY <1>1, ShownNone DEF Knows, Tale
<1>3. bound[p].active # 0 => ~bound[p].idle
  BY DEF Knows, Tale
<1> QED
  BY <1>2, <1>3

LEMMA ChecksFollow ==
    ASSUME BusInv, FollowInv, ChecksDue
    PROVE  FollowInv'
<1> DEFINE due == {c \in checks : c.left = 0}
           told(p) == \E c \in due : c.pane = p /\ NoTurnComing(bound[p], c)
<1>s. Shape /\ Sorts
  BY DEF BusInv, FollowInv
<1>1. /\ UNCHANGED <<evs, turn, queue, loaded, began, heard, link, dealt, nextKey>>
      /\ evs = <<>> /\ checks' = checks \ due
      /\ bound' = [p \in Panes |-> IF p \in Bound /\ told(p) THEN [bound[p] EXCEPT !.subs = {}] ELSE bound[p]]
  BY DEF ChecksDue, Waits, world, daemon
<1>2. \A p \in Bound : Whole(bound[p]) /\ Fields(bound[p]) /\ p \in Panes
  BY <1>s DEF Sorts, Wholes, Shape, Bound
<1> HIDE DEF told
<1>3. \A p \in Bound :
        /\ bound'[p].key = bound[p].key /\ bound'[p].thread = bound[p].thread
        /\ bound'[p].idle = bound[p].idle /\ bound'[p].active = bound[p].active
        /\ bound'[p].last = bound[p].last /\ bound'[p].followed = bound[p].followed
        /\ bound'[p].subs = (IF told(p) THEN {} ELSE bound[p].subs)
        /\ Whole(bound'[p])
  <2> TAKE p \in Bound
  <2>1. Whole(bound[p]) /\ Fields(bound[p]) /\ p \in Panes
    BY <1>2
  <2>2. CASE told(p)
    <3>1. bound'[p] = [bound[p] EXCEPT !.subs = {}]
      BY <1>1, <2>1, <2>2
    <3> QED
      BY <2>1, <2>2, <3>1 DEF Whole, Fields
  <2>3. CASE ~told(p)
    <3>1. bound'[p] = bound[p]
      BY <1>1, <2>1, <2>3
    <3> QED
      BY <2>1, <2>3, <3>1
  <2> QED
    BY <2>2, <2>3
<1>4. Bound' = Bound
  <2>1. \A p \in Panes : p \notin Bound => bound'[p] = bound[p]
    BY <1>1
  <2>2. \A p \in Panes : bound'[p].key = bound[p].key
    BY <1>3, <2>1
  <2> QED
    BY <2>2 DEF Bound
<1>5. Sorts'
  <2>1. Wholes'
    BY <1>1, <1>3, <1>4 DEF Wholes, Whole
  <2> QED
    BY <1>1, <1>s, <2>1 DEF Sorts, Turns, Clocks, Events, Marked
<1>6. ASSUME NEW p \in Followed' PROVE Sound(p)'
  <2> DEFINE t == bound[p].thread
  <2>1. p \in Bound /\ Sound(p)
    BY <1>3, <1>4, <1>6 DEF Followed, FollowInv
  <2>2. Alone(p)' /\ Knows(p)' /\ Rests(p)' /\ Asks(p)' /\ Taken(p)'
    <3>1. Alone(p)'
      <4>1. \A q \in Bound' : q \in Bound /\ bound'[q].thread = bound[q].thread
        BY <1>3, <1>4
      <4>2. link' /\ Alone(p) /\ bound'[p].thread = bound[p].thread
        BY <1>1, <1>3, <2>1 DEF Sound, Alone
      <4> QED
        BY <2>1, <4>1, <4>2, AloneKept
    <3>2. Knows(p)'
      BY <1>1, <1>3, <2>1 DEF Sound, Knows
    <3>3. Rests(p)'
      <4>1. bound'[p].subs \subseteq bound[p].subs /\ bound'[p].thread = t
        BY <1>3, <2>1
      <4> QED
        BY <1>1, <2>1, <4>1 DEF Sound, Rests, Restless, Quiet
    <3>4. Asks(p)'
      BY <1>1, <1>3, <2>1 DEF Sound, Asks, Restless, Quiet
    <3>5. Taken(p)'
      BY <1>1, <1>3, <2>1 DEF Sound, Taken
    <3> QED
      BY <3>1, <3>2, <3>3, <3>4, <3>5
  <2>3. Awaits(p)'
    <3> SUFFICES ASSUME bound'[p].subs # {} PROVE Coming(p)'
      BY DEF Awaits
    <3>1. ~told(p) /\ bound[p].subs # {} /\ Coming(p)
      BY <1>3, <2>1 DEF Sound, Awaits
    <3>2. CASE ~Quiet(t) \/ ~bound[p].idle \/ \E i \in 1 .. Len(evs) : Falls(evs[i], t)
      BY <1>1, <1>3, <2>1, <3>2 DEF Coming, Quiet
    <3>3. ASSUME NEW c \in checks, c.pane = p, bound[p].last <= c.since PROVE Coming(p)'
      <4>1. CASE c.left = 0
        <5>1. ~(bound[p].idle /\ bound[p].active = 0)
          BY <3>1, <3>3, <4>1 DEF told, NoTurnComing
        <5>2. ~bound[p].idle
          BY <1>1, <1>2, <2>1, <5>1, ToldAll DEF Sound
        <5> QED
          BY <1>3, <2>1, <5>2 DEF Coming
      <4>2. CASE c.left # 0
        <5>1. c \in checks'
          BY <1>1, <4>2
        <5> QED
          BY <1>3, <2>1, <3>3, <5>1 DEF Coming
      <4> QED
        BY <4>1, <4>2
    <3> QED
      BY <3>1, <3>2, <3>3 DEF Coming
  <2> QED
    BY <2>2, <2>3 DEF Sound
<1> QED
  BY <1>5, <1>6 DEF FollowInv
-----------------------------------------------------------------------------
(* The worker handles an event.                                            *)

\* What an event of another thread leaves of a binding.
LEMMA OthersCalm ==
    ASSUME BusInv, FollowInv, NEW q \in Followed, NEW u, u = bound[q].thread, Unmoved(q),
           Pops, Retained(evs, evs', 1, {}), Silent(evs[1], u), link => link',
           \A x \in Bound' : x \in Bound /\ bound'[x].thread = bound[x].thread,
           turn'[u] = turn[u], queue'[u] = queue[u], u \in heard => u \in heard',
           \A c \in checks : c.pane = q => c \in checks',
           \A d \in checks' : d.pane = q /\ d.left = 0 => d \in checks
    PROVE  Sound(q)'
<1>1. Shape /\ Events /\ q \in Bound /\ Sound(q)
  BY DEF BusInv, FollowInv, Sorts, Followed
<1>2. Alone(q)'
  <2>1. link' /\ Alone(q) /\ bound'[q].thread = bound[q].thread
    BY <1>1 DEF Sound, Alone, Unmoved
  <2> QED
    BY <1>1, <2>1, AloneKept
<1>3. /\ \A c \in checks : c.pane = q => \E d \in checks' : d.pane = q /\ d.since = c.since
      /\ \A d \in checks' : d.pane = q /\ d.left = 0 =>
            \E c \in checks : c.pane = q /\ c.since = d.since /\ c.left = 0
  OBVIOUS
<1>4. \A x \in {} : Silent(x, u) /\ (AsksOf(x, bound[q].key) => ~Quiet(u))
  OBVIOUS
<1>5. Pops /\ Silent(evs[1], u) /\ 1 \in {0, 1}
  OBVIOUS
<1> QED
  BY <1>1, <1>2, <1>3, <1>4, <1>5, PaneCalm

\* An event that is dropped.
LEMMA Dropped ==
    ASSUME BusInv, FollowInv, NEW op, At(op),
           \A p \in Followed : Silent(evs[1], bound[p].thread),
           UNCHANGED <<bound, turn, queue, began, heard, checks, dealt, nextKey, link, loaded>>
    PROVE  FollowInv'
<1>1. Pops /\ Retained(evs, evs', 1, {})
  BY TakesPops DEF BusInv
<1>2. \A x \in {} : /\ Marked(x) /\ \A t : Silent(x, t)
                    /\ \A p \in Bound : AsksOf(x, bound[p].key) => ~Quiet(bound[p].thread)
  OBVIOUS
<1>3. loaded \subseteq Threads /\ \A t \in Threads : queue[t] # <<>> => t \in loaded
  BY DEF FollowInv, Sorts, Turns
<1> QED
  BY <1>1, <1>2, <1>3, CalmFollows

\* An event whose binding is changed, and not in what it is.
LEMMA OneFollows ==
    ASSUME BusInv, FollowInv, NEW op, At(op), NEW p \in Bound, NEW b, bound' = [bound EXCEPT ![p] = b],
           b.key = bound[p].key, b.thread = bound[p].thread,
           Whole(b)', Turns', Clocks', dealt' \in Nat, dealt <= dealt', UNCHANGED nextKey,
           link => link', UNCHANGED turn, \A u \in Threads : u # bound[p].thread => queue'[u] = queue[u],
           heard \subseteq heard',
           \A q \in Followed : q # p => Silent(evs[1], bound[q].thread),
           \A c \in checks : c.pane # p => c \in checks',
           \A d \in checks' : d.pane # p => d \in checks,
           p \in Followed' => Sound(p)'
    PROVE  FollowInv'
<1>s. Shape /\ Sorts /\ nextKey \in Nat
  BY DEF BusInv, FollowInv, Keys
<1>1. Pops /\ Retained(evs, evs', 1, {})
  BY <1>s, TakesPops
<1>2. /\ bound'[p] = b /\ \A q \in Panes : q # p => bound'[q] = bound[q]
      /\ p \in Panes
  BY <1>s DEF Shape, Bound
<1>3. Bound' = Bound
  BY <1>2 DEF Bound
<1>4. \A q \in Bound' : q \in Bound /\ bound'[q].thread = bound[q].thread
  BY <1>2, <1>3 DEF Bound
<1>5. Wholes'
  BY <1>s, WholesOne DEF Sorts
<1>6. Events'
  BY <1>1, <1>s, EventsKept DEF Sorts
<1>7. ASSUME NEW q \in Followed', q # p PROVE Sound(q)'
  <2> DEFINE u == bound[q].thread
  <2>1. q \in Followed /\ Unmoved(q)
    BY <1>2, <1>3, <1>7 DEF Followed, Bound, Unmoved
  <2>2. u # bound[p].thread /\ u \in Threads
    BY <1>7, <1>s, <2>1 DEF FollowInv, Followed, Sound, Alone, Sorts, Wholes, Whole
  <2>3. turn'[u] = turn[u] /\ queue'[u] = queue[u] /\ (u \in heard => u \in heard')
    BY <2>2
  <2>4. /\ \A c \in checks : c.pane = q => c \in checks'
        /\ \A d \in checks' : d.pane = q /\ d.left = 0 => d \in checks
    BY <1>7
  <2>5. Silent(evs[1], u) /\ u = bound[q].thread
    BY <1>7, <2>1
  <2> HIDE DEF u
  <2> QED
    BY <1>1, <1>4, <2>1, <2>3, <2>4, <2>5, OthersCalm
<1> QED
  BY <1>5, <1>6, <1>7 DEF FollowInv, Sorts

\* A note that a binding's thread is idle, or is not.
StatusNoted(b, x, v) ==
    [b EXCEPT !.subscribed = v, !.idle = x.idle, !.subs = IF x.idle /\ ~b.idle THEN {} ELSE @]

LEMMA StatusOf ==
    ASSUME BusInv, FollowInv, At("status"),
           UNCHANGED <<turn, queue, began, checks, dealt, nextKey, loaded>>, link => link', heard \subseteq heard',
           NEW x, x = evs[1], NEW p \in Bound, NEW b, b = bound[p], NEW t, b.thread = t, x.thread = t,
           NEW v, NEW n, bound' = [bound EXCEPT ![p] = n],
           n = StatusNoted(b, x, v)
    PROVE  FollowInv'
<1>s. Shape /\ Sorts
  BY DEF BusInv, FollowInv
<1>a. UNCHANGED <<turn, queue, began, checks, dealt, nextKey, loaded>>
  OBVIOUS
<1>b. Pops /\ Retained(evs, evs', 1, {}) /\ x = evs[1] /\ evs[1].op = "status"
  BY <1>s, TakesPops
<1>c. 1 \in 1 .. Len(evs) /\ x.idle \in BOOLEAN
  BY <1>b, <1>s DEF Pops, Sorts, Events, Marked
<1>d. \A u : u # t => Silent(evs[1], u)
  BY <1>b DEF Silent, Mine
<1>1. p \in Bound /\ b.thread = t /\ Whole(b) /\ Fields(b) /\ p \in Panes
  BY <1>s DEF Sorts, Wholes, Shape, Bound
<1>2. bound' = [bound EXCEPT ![p] = n]
  OBVIOUS
<1>3. (link => link') /\ heard \subseteq heard'
  OBVIOUS
<1>4. /\ n.key = b.key /\ n.thread = t /\ n.idle = x.idle /\ n.active = b.active /\ n.last = b.last
      /\ n.followed = b.followed /\ n.subs = IF x.idle /\ ~b.idle THEN {} ELSE b.subs
      /\ DOMAIN n = DOMAIN b
  BY <1>1 DEF Whole, Fields, StatusNoted
<1>5. Whole(n)'
  BY <1>a, <1>c, <1>1, <1>4 DEF Whole
<1>6. bound'[p] = n /\ (p \in Followed' => p \in Followed)
  BY <1>s, <1>1, <1>2, <1>4 DEF Shape, Followed, Bound
<1>7. Turns' /\ Clocks' /\ dealt' \in Nat /\ dealt <= dealt'
  BY <1>a, <1>s DEF Sorts, Turns, Clocks
<1>8. ASSUME NEW q \in Followed, q # p PROVE Silent(evs[1], bound[q].thread)
  <2>1. bound[q].thread # t
    BY <1>1, <1>8 DEF FollowInv, Followed, Sound, Alone
  <2> QED
    BY <1>d, <2>1
<1>9. ASSUME p \in Followed' PROVE Sound(p)'
  <2>1. Sound(p) /\ p \in Followed
    BY <1>6, <1>9 DEF FollowInv
  <2>2. Alone(p)'
    <3>1. \A q \in Bound' : q \in Bound /\ bound'[q].thread = bound[q].thread
      BY <1>s, <1>1, <1>2, <1>4, <1>6 DEF Bound, Shape
    <3>2. link' /\ Alone(p) /\ bound'[p].thread = bound[p].thread
      BY <1>1, <1>3, <1>4, <1>6, <2>1 DEF Sound, Alone
    <3> QED
      BY <1>1, <3>1, <3>2, AloneKept
  <2>3. Knows(p)'
    <3>1. Mine(evs[1], "status", t) /\ ~Mine(evs[1], "turn", t)
      BY <1>b DEF Mine
    <3>2. /\ bound'[p].idle = (IF Mine(evs[1], "status", t) THEN evs[1].idle ELSE bound[p].idle)
          /\ bound'[p].active = (IF Mine(evs[1], "turn", t) THEN evs[1].turn ELSE bound[p].active)
          /\ bound'[p].thread = t
      BY <1>b, <1>1, <1>4, <1>6, <3>1
    <3>3. turn'[t] = turn[t] /\ (t \in heard => t \in heard') /\ t = bound[p].thread /\ Knows(p)
      BY <1>a, <1>1, <1>3, <2>1 DEF Sound
    <3> QED
      BY <1>b, <1>1, <3>2, <3>3, KnowsRest
  <2>4. bound'[p].subs \subseteq bound[p].subs
    BY <1>4, <1>6
  <2>5. Awaits(p)'
    <3> SUFFICES ASSUME bound'[p].subs # {} PROVE Coming(p)'
      BY DEF Awaits
    <3>1. Coming(p) /\ ~(x.idle /\ ~b.idle)
      BY <1>4, <1>6, <2>1, <2>4 DEF Sound, Awaits
    <3>2. CASE ~x.idle
      BY <1>4, <1>6, <3>2 DEF Coming
    <3>3. CASE x.idle
      <4>1. bound'[p].idle = bound[p].idle /\ bound'[p].last = bound[p].last /\ bound'[p].thread = t
        BY <1>c, <1>1, <1>4, <1>6, <3>1, <3>3 DEF Whole
      <4>2. ~Falls(evs[1], t)
        BY <1>b, <3>3 DEF Falls
      <4>3. ~Quiet(t) => ~Quiet(t)'
        BY <1>a DEF Quiet
      <4>4. \A c \in checks : c.pane = p => \E d \in checks' : d.pane = p /\ d.since = c.since
        BY <1>a
      <4> QED
        BY <1>b, <1>s, <1>1, <3>1, <4>1, <4>2, <4>3, <4>4, ComingKept
    <3> QED
      BY <3>2, <3>3
  <2>6. Taken(p)'
    BY <1>a, <1>1, <1>4, <1>6, <2>1 DEF Sound, Taken
  <2>7. ~Quiet(t) => ~Quiet(t)'
    BY <1>a DEF Quiet
  <2>8. /\ \A y \in {} : ~Rises(y, t) /\ (AsksOf(y, bound[p].key) => ~Quiet(t)')
        /\ \A s \in bound'[p].subs : ~s.idled => s \in bound[p].subs \/ Restless(t, 1)
        /\ bound'[p].key = bound[p].key /\ bound'[p].thread = t /\ t = bound[p].thread
    BY <1>1, <1>4, <1>6, <2>4
  <2> QED
    BY <1>b, <1>s, <1>1, <2>1, <2>2, <2>3, <2>5, <2>6, <2>7, <2>8, SoundKept DEF Sorts
<1>10. /\ \A u \in Threads : u # bound[p].thread => queue'[u] = queue[u]
       /\ \A c \in checks : c.pane # p => c \in checks'
       /\ \A d \in checks' : d.pane # p => d \in checks
       /\ UNCHANGED turn /\ UNCHANGED nextKey
       /\ n.key = bound[p].key /\ n.thread = bound[p].thread
  BY <1>a, <1>1, <1>4
<1> QED
  BY <1>a, <1>1, <1>2, <1>3, <1>5, <1>7, <1>8, <1>9, <1>10, OneFollows

LEMMA StatusFollows ==
    ASSUME BusInv, FollowInv, HandleStatus
    PROVE  FollowInv'
<1>s. Shape /\ Sorts
  BY DEF BusInv, FollowInv
<1>1. /\ At("status")
      /\ UNCHANGED <<turn, queue, began, checks, dealt, nextKey, loaded>>
  BY DEF HandleStatus, world
<1>2. e = evs[1] /\ evs[1].op = "status"
  BY <1>1, <1>s, TakesPops
<1>3. \A t : t # e.thread => Silent(evs[1], t)
  BY <1>2 DEF Silent, Mine
<1>4. CASE BoundTo(e.thread) = {} /\ NoCall /\ UNCHANGED <<heard, bound, sure>>
  <2>1. \A p \in Followed : Silent(evs[1], bound[p].thread)
    BY <1>3, <1>4 DEF Followed, BoundTo
  <2>2. UNCHANGED <<bound, turn, queue, began, heard, checks, dealt, nextKey, link, loaded>>
    BY <1>1, <1>4 DEF NoCall
  <2> QED
    BY <1>1, <2>1, <2>2, Dropped
<1>5. CASE BoundTo(e.thread) # {}
  <2>1. PICK p \in BoundTo(e.thread), r \in Outcomes :
            LET b == bound[p]
                asks == e.idle /\ ~b.subscribed
            IN  /\ IF asks THEN Call(r) /\ heard' = HeardAfter(e.thread, r) /\ sure' = SureAfter(r)
                   ELSE NoCall /\ UNCHANGED <<heard, sure>>
                /\ bound' = [bound EXCEPT ![p] = [b EXCEPT
                       !.subscribed = IF asks THEN Subscribed(e.thread, r) ELSE @,
                       !.idle = e.idle,
                       !.subs = IF e.idle /\ ~b.idle THEN {} ELSE @]]
    BY <1>5 DEF HandleStatus
  <2>2. PICK x : x = e
    OBVIOUS
  <2>3. PICK b, t : b = bound[p] /\ t = x.thread
    OBVIOUS
  <2>4. PICK v : v = IF x.idle /\ ~b.subscribed THEN Subscribed(t, r) ELSE b.subscribed
    OBVIOUS
  <2>5. PICK n : n = StatusNoted(b, x, v)
    OBVIOUS
  <2>6. bound' = [bound EXCEPT ![p] = n]
    BY <2>1, <2>2, <2>3, <2>4, <2>5 DEF StatusNoted
  <2>7. (link => link') /\ heard \subseteq heard'
    BY <2>1 DEF Call, NoCall, HeardAfter
  <2>8. p \in Bound /\ b.thread = t /\ x.thread = t /\ x = evs[1]
    BY <1>2, <2>1, <2>2, <2>3 DEF BoundTo
  <2> QED
    BY <1>1, <2>3, <2>5, <2>6, <2>7, <2>8, StatusOf
<1> QED
  BY <1>4, <1>5 DEF HandleStatus

\* What any event leaves of the binding it is for, if the thread's input only
\* grows.
LEMMA PaneOne ==
    ASSUME BusInv, FollowInv, NEW p \in Bound, Sound(p), NEW t, t = bound[p].thread,
           Pops, Retained(evs, evs', 1, {}), NEW n, bound' = [bound EXCEPT ![p] = n],
           n.key = bound[p].key, n.thread = t, link => link', turn'[t] = turn[t],
           ~Quiet(t) => ~Quiet(t)', Knows(p)', Awaits(p)', Taken(p)',
           \A s \in n.subs : ~s.idled => s \in bound[p].subs \/ Restless(t, 1)
    PROVE  Sound(p)'
<1>1. Shape /\ Events /\ p \in Panes
  BY DEF BusInv, FollowInv, Sorts, Bound
<1>2. bound'[p] = n
  BY <1>1 DEF Shape
<1>3. Alone(p)'
  <2>1. \A q \in Bound' : q \in Bound /\ bound'[q].thread = bound[q].thread
    BY <1>1, <1>2 DEF Bound, Shape
  <2>2. link' /\ Alone(p) /\ bound'[p].thread = bound[p].thread
    BY <1>2 DEF Sound, Alone
  <2> QED
    BY <2>1, <2>2, AloneKept
<1>4. /\ \A y \in {} : ~Rises(y, t) /\ (AsksOf(y, bound[p].key) => ~Quiet(t)')
      /\ \A s \in bound'[p].subs : ~s.idled => s \in bound[p].subs \/ Restless(t, 1)
      /\ bound'[p].key = bound[p].key /\ bound'[p].thread = t
  BY <1>2
<1> QED
  BY <1>1, <1>3, <1>4, SoundKept

LEMMA TurnNoteOf ==
    ASSUME BusInv, FollowInv, At("turn"),
           UNCHANGED <<turn, queue, began, checks, dealt, nextKey, loaded, heard, link>>,
           NEW x, x = evs[1], NEW p \in Bound, NEW b, b = bound[p], NEW t, b.thread = t, x.thread = t,
           NEW n, bound' = [bound EXCEPT ![p] = n], n = [b EXCEPT !.active = x.turn]
    PROVE  FollowInv'
<1>s. Shape /\ Sorts
  BY DEF BusInv, FollowInv
<1>a. UNCHANGED <<turn, queue, began, checks, dealt, nextKey, loaded, heard, link>> /\ bound' = [bound EXCEPT ![p] = n]
  OBVIOUS
<1>b. Pops /\ Retained(evs, evs', 1, {}) /\ x = evs[1] /\ evs[1].op = "turn"
  BY <1>s, TakesPops
<1>d. \A u : u # t => Silent(evs[1], u)
  BY <1>b DEF Silent, Mine
<1>1. p \in Bound /\ b.thread = t /\ Whole(b) /\ Fields(b) /\ p \in Panes
  BY <1>s DEF Sorts, Wholes, Shape, Bound
<1>4. /\ n.key = b.key /\ n.thread = t /\ n.idle = b.idle /\ n.active = x.turn /\ n.last = b.last
      /\ n.followed = b.followed /\ n.subs = b.subs /\ DOMAIN n = DOMAIN b
  BY <1>1 DEF Whole, Fields
<1>5. Whole(n)'
  BY <1>a, <1>1, <1>4 DEF Whole
<1>6. bound'[p] = n /\ (p \in Followed' => p \in Followed)
  BY <1>s, <1>a, <1>1, <1>4 DEF Shape, Followed, Bound
<1>7. Turns' /\ Clocks' /\ dealt' \in Nat /\ dealt <= dealt'
  BY <1>a, <1>s DEF Sorts, Turns, Clocks
<1>8. ASSUME NEW q \in Followed, q # p PROVE Silent(evs[1], bound[q].thread)
  <2>1. bound[q].thread # t
    BY <1>1, <1>8 DEF FollowInv, Followed, Sound, Alone
  <2> QED
    BY <1>d, <2>1
<1>9. ASSUME p \in Followed' PROVE Sound(p)'
  <2>1. Sound(p) /\ p \in Followed
    BY <1>6, <1>9 DEF FollowInv
  <2>2. turn'[t] = turn[t] /\ (~Quiet(t) => ~Quiet(t)') /\ (t \in heard => t \in heard') /\ t = bound[p].thread
    BY <1>a, <1>1 DEF Quiet
  <2>3. Knows(p)'
    <3>1. Mine(evs[1], "turn", t) /\ ~Mine(evs[1], "status", t)
      BY <1>b DEF Mine
    <3>2. /\ bound'[p].idle = (IF Mine(evs[1], "status", t) THEN evs[1].idle ELSE bound[p].idle)
          /\ bound'[p].active = (IF Mine(evs[1], "turn", t) THEN evs[1].turn ELSE bound[p].active)
          /\ bound'[p].thread = t
      BY <1>b, <1>1, <1>4, <1>6, <3>1
    <3> QED
      BY <1>b, <1>1, <2>1, <2>2, <3>2, KnowsRest DEF Sound
  <2>4. Awaits(p)'
    <3> SUFFICES ASSUME bound'[p].subs # {} PROVE Coming(p)'
      BY DEF Awaits
    <3>1. Coming(p)
      BY <1>4, <1>6, <2>1 DEF Sound, Awaits
    <3>2. bound'[p].idle = bound[p].idle /\ bound'[p].last = bound[p].last /\ bound'[p].thread = t
      BY <1>1, <1>4, <1>6
    <3>3. ~Falls(evs[1], t)
      BY <1>b DEF Falls, Mine
    <3>4. \A c \in checks : c.pane = p => \E d \in checks' : d.pane = p /\ d.since = c.since
      BY <1>a
    <3> QED
      BY <1>b, <1>s, <1>1, <2>2, <3>1, <3>2, <3>3, <3>4, ComingKept
  <2>5. Taken(p)'
    BY <1>a, <1>1, <1>4, <1>6, <2>1 DEF Sound, Taken
  <2>6. /\ \A s \in n.subs : ~s.idled => s \in bound[p].subs \/ Restless(t, 1)
        /\ n.key = bound[p].key /\ n.thread = t
    BY <1>4
  <2>7. /\ bound' = [bound EXCEPT ![p] = n] /\ (link => link') /\ Pops /\ Retained(evs, evs', 1, {})
        /\ turn'[t] = turn[t] /\ (~Quiet(t) => ~Quiet(t)') /\ t = bound[p].thread /\ p \in Bound /\ Sound(p)
    BY <1>a, <1>b, <1>1, <2>1, <2>2
  <2> QED
    BY <2>3, <2>4, <2>5, <2>6, <2>7, PaneOne
<1>10. /\ \A u \in Threads : u # bound[p].thread => queue'[u] = queue[u]
       /\ \A c \in checks : c.pane # p => c \in checks'
       /\ \A d \in checks' : d.pane # p => d \in checks
       /\ UNCHANGED turn /\ UNCHANGED nextKey /\ (link => link') /\ heard \subseteq heard'
       /\ n.key = bound[p].key /\ n.thread = bound[p].thread
  BY <1>a, <1>1, <1>4
<1> QED
  BY <1>a, <1>1, <1>5, <1>7, <1>8, <1>9, <1>10, OneFollows

LEMMA TurnNoteFollows ==
    ASSUME BusInv, FollowInv, HandleTurn
    PROVE  FollowInv'
<1>s. Shape /\ Sorts
  BY DEF BusInv, FollowInv
<1>1. /\ At("turn")
      /\ UNCHANGED <<turn, queue, began, checks, dealt, nextKey, loaded, heard, link>>
  BY DEF HandleTurn, world, daemon
<1>2. e = evs[1] /\ evs[1].op = "turn"
  BY <1>1, <1>s, TakesPops
<1>3. CASE BoundTo(e.thread) = {}
  <2>1. \A p \in Followed : Silent(evs[1], bound[p].thread)
    BY <1>2, <1>3 DEF Followed, BoundTo, Silent, Mine
  <2>2. UNCHANGED bound
    BY <1>3 DEF HandleTurn
  <2> QED
    BY <1>1, <2>1, <2>2, Dropped
<1>4. CASE BoundTo(e.thread) # {}
  <2>1. PICK p \in BoundTo(e.thread) : bound' = [bound EXCEPT ![p].active = e.turn]
    BY <1>4 DEF HandleTurn
  <2>2. PICK x : x = e
    OBVIOUS
  <2>3. PICK b, t : b = bound[p] /\ t = x.thread
    OBVIOUS
  <2>4. PICK n : n = [b EXCEPT !.active = x.turn]
    OBVIOUS
  <2>5. bound' = [bound EXCEPT ![p] = n]
    BY <2>1, <2>2, <2>3, <2>4
  <2>6. p \in Bound /\ b.thread = t /\ x.thread = t /\ x = evs[1]
    BY <1>2, <2>1, <2>2, <2>3 DEF BoundTo
  <2> QED
    BY <1>1, <2>3, <2>4, <2>5, <2>6, TurnNoteOf
<1> QED
  BY <1>3, <1>4

-----------------------------------------------------------------------------
\* Input is handed to the daemon, which queues it or gives it to the turn that
\* runs, or is not; and what the worker notes of it.
Gives(t, input) == queue' = queue \/ (t \in loaded /\ queue' = [queue EXCEPT ![t] = Append(@, input)])
Deals(n, b, t) ==
    \/ n = [b EXCEPT !.last = dealt + 1] /\ dealt' = dealt + 1 /\ (queue' = queue => turn[t] # 0)
    \/ dealt' = dealt /\ \E y \in BOOLEAN : n = [b EXCEPT !.followed = @ /\ y] /\ (y => queue' = queue)

LEMMA HandedOf ==
    ASSUME BusInv, FollowInv, NEW op \in ByMail, At(op),
           UNCHANGED <<turn, began, checks, nextKey, loaded, heard>>, link => link',
           NEW x, x = evs[1], NEW p \in Bound, bound[p].key = x.key, NEW b, b = bound[p], NEW t, b.thread = t,
           Gives(t, x.for), NEW n, bound' = [bound EXCEPT ![p] = n], Deals(n, b, t)
    PROVE  FollowInv'
<1>s. Shape /\ Sorts /\ dealt \in Nat /\ Turns
  BY DEF BusInv, FollowInv, Sorts, Clocks
<1>a. UNCHANGED <<turn, began, checks, nextKey, loaded, heard>> /\ bound' = [bound EXCEPT ![p] = n]
  OBVIOUS
<1>b. Pops /\ Retained(evs, evs', 1, {}) /\ x = evs[1] /\ evs[1].op = op /\ 1 \in 1 .. Len(evs)
  <2>1. Pops /\ Retained(evs, evs', 1, {}) /\ evs[1].op = op
    BY <1>s, TakesPops
  <2>2. Len(evs) \in Nat /\ evs # <<>>
    BY LenProperties, <1>s DEF Shape, Sequence, At
  <2>3. 1 \in 1 .. Len(evs)
    BY <1>s, <2>2, EmptySeq DEF Shape, Sequence
  <2> QED
    BY <2>1, <2>3
<1>d. \A u : Silent(evs[1], u)
  BY <1>b DEF Silent, Mine, ByMail
<1>1. p \in Bound /\ b.thread = t /\ Whole(b) /\ Fields(b) /\ p \in Panes /\ t \in Threads
  BY <1>s DEF Sorts, Wholes, Shape, Bound, Whole
<1>2. x.for = t
  BY <1>b, <1>1 DEF BusInv, Addressed, Meant
<1>3. /\ queue[t] \in Seq(Threads)
      /\ queue' = queue \/ (t \in loaded /\ queue' = [queue EXCEPT ![t] = Append(queue[t], t)])
  BY <1>s, <1>1, <1>2 DEF Turns, Gives
<1>q. /\ \A u \in Threads : u # t => queue'[u] = queue[u]
      /\ queue' = queue \/ (t \in loaded /\ queue'[t] = Append(queue[t], t))
  BY <1>s, <1>1, <1>3 DEF Turns
<1>n. Append(queue[t], t) # <<>> /\ Append(queue[t], t) \in Seq(Threads)
  BY <1>1, <1>3, AppendProperties, EmptySeq
<1>r. (~Quiet(t) => ~Quiet(t)') /\ (queue' # queue => ~Quiet(t)')
  BY <1>a, <1>q, <1>n DEF Quiet
<1>4. /\ n.key = b.key /\ n.thread = t /\ n.idle = b.idle /\ n.active = b.active /\ n.subs = b.subs
      /\ DOMAIN n = DOMAIN b
      /\ \/ n.last = dealt + 1 /\ dealt' = dealt + 1 /\ (queue' = queue => turn[t] # 0) /\ n.followed = b.followed
         \/ /\ n.last = b.last /\ dealt' = dealt
            /\ n.followed \in BOOLEAN /\ (n.followed => b.followed /\ queue' = queue)
  <2>1. CASE n = [b EXCEPT !.last = dealt + 1] /\ dealt' = dealt + 1 /\ (queue' = queue => turn[t] # 0)
    BY <1>1, <2>1 DEF Whole, Fields
  <2>2. ASSUME NEW y \in BOOLEAN, n = [b EXCEPT !.followed = @ /\ y], y => queue' = queue, dealt' = dealt
        PROVE  /\ n.key = b.key /\ n.thread = t /\ n.idle = b.idle /\ n.active = b.active /\ n.subs = b.subs
               /\ DOMAIN n = DOMAIN b /\ n.last = b.last
               /\ n.followed \in BOOLEAN /\ (n.followed => b.followed /\ queue' = queue)
    BY <1>1, <2>2 DEF Whole, Fields
  <2> QED
    BY <2>1, <2>2 DEF Deals
<1>7. Turns' /\ Clocks' /\ dealt' \in Nat /\ dealt <= dealt'
  <2>1. queue' \in [Threads -> Seq(Threads)] /\ \A u \in Threads : queue'[u] # <<>> => u \in loaded
    BY <1>s, <1>1, <1>3, <1>n DEF Turns
  <2>2. Turns'
    BY <1>a, <1>s, <2>1 DEF Turns
  <2>3. dealt' \in Nat /\ dealt <= dealt' /\ 0 .. dealt \subseteq 0 .. dealt'
    BY <1>s, <1>4
  <2> QED
    BY <1>a, <1>s, <2>2, <2>3 DEF Sorts, Clocks
<1>5. Whole(n)'
  <2>1. n.last \in 0 .. dealt'
    BY <1>s, <1>1, <1>4, <1>7 DEF Whole
  <2> QED
    BY <1>1, <1>4, <2>1 DEF Whole
<1>6. bound'[p] = n /\ (p \in Followed' => p \in Followed /\ n.followed)
  BY <1>s, <1>a, <1>1, <1>4 DEF Shape, Followed, Bound
<1>8. \A q \in Followed : q # p => Silent(evs[1], bound[q].thread)
  BY <1>d
<1>9. ASSUME p \in Followed' PROVE Sound(p)'
  <2>1. Sound(p) /\ p \in Followed /\ n.followed
    BY <1>6, <1>9 DEF FollowInv
  <2>2. turn'[t] = turn[t] /\ (t \in heard => t \in heard') /\ t = bound[p].thread
    BY <1>a, <1>1
  <2>3. Knows(p)'
    <3>1. ~Mine(evs[1], "turn", t) /\ ~Mine(evs[1], "status", t)
      BY <1>d DEF Silent
    <3>2. /\ bound'[p].idle = (IF Mine(evs[1], "status", t) THEN evs[1].idle ELSE bound[p].idle)
          /\ bound'[p].active = (IF Mine(evs[1], "turn", t) THEN evs[1].turn ELSE bound[p].active)
          /\ bound'[p].thread = t
      BY <1>1, <1>4, <1>6, <3>1
    <3> QED
      BY <1>b, <1>1, <2>1, <2>2, <3>2, KnowsRest DEF Sound
  <2>4. Awaits(p)' /\ Taken(p)'
    <3>1. CASE n.last = dealt + 1 /\ (queue' = queue => turn[t] # 0)
      <4>1. ~Quiet(t)'
        BY <1>a, <1>r, <3>1 DEF Quiet
      <4>2. Awaits(p)'
        BY <1>4, <1>6, <4>1 DEF Awaits, Coming
      <4>3. \A d \in checks' : ~(dealt + 1 <= d.since)
        BY <1>a, <1>s DEF Sorts, Clocks
      <4> QED
        BY <1>6, <3>1, <4>2, <4>3 DEF Taken
    <3>2. CASE n.last = b.last /\ queue' = queue
      <4>1. Taken(p)'
        BY <1>a, <1>4, <1>6, <2>1, <2>2, <3>2 DEF Sound, Taken
      <4>2. bound'[p].subs # {} => Coming(p)'
        <5> HAVE bound'[p].subs # {}
        <5>1. Coming(p)
          BY <1>4, <1>6, <2>1 DEF Sound, Awaits
        <5>2. bound'[p].idle = bound[p].idle /\ bound'[p].last = bound[p].last /\ bound'[p].thread = t
          BY <1>4, <1>6, <3>2
        <5>3. ~Falls(evs[1], t)
          BY <1>d DEF Falls, Silent
        <5>4. \A c \in checks : c.pane = p => \E d \in checks' : d.pane = p /\ d.since = c.since
          BY <1>a
        <5> QED
          BY <1>b, <1>r, <1>s, <1>1, <2>2, <5>1, <5>2, <5>3, <5>4, ComingKept
      <4> QED
        BY <4>1, <4>2 DEF Awaits
    <3> QED
      BY <1>4, <2>1, <3>1, <3>2
  <2>6. /\ \A s \in n.subs : ~s.idled => s \in bound[p].subs \/ Restless(t, 1)
        /\ n.key = bound[p].key /\ n.thread = t
    BY <1>4
  <2> QED
    BY <1>a, <1>b, <1>r, <1>1, <2>1, <2>2, <2>3, <2>4, <2>6, PaneOne
<1>10. /\ \A u \in Threads : u # bound[p].thread => queue'[u] = queue[u]
       /\ \A c \in checks : c.pane # p => c \in checks'
       /\ \A d \in checks' : d.pane # p => d \in checks
       /\ UNCHANGED turn /\ UNCHANGED nextKey /\ heard \subseteq heard'
       /\ n.key = bound[p].key /\ n.thread = bound[p].thread
  BY <1>a, <1>q, <1>1, <1>4
<1> QED
  BY <1>a, <1>1, <1>5, <1>7, <1>8, <1>9, <1>10, OneFollows

\* What handing over does to the input of the thread, and what it says of it.
LEMMA HandOverGives ==
    ASSUME Shape, Turns, NEW p \in Bound, bound[p].thread \in Threads, NEW t, t = bound[p].thread,
           NEW x, x = e, NEW steers \in BOOLEAN, steers => bound[p].active # 0,
           NEW r \in Outcomes, HandOver(p, steers, r)
    PROVE  /\ Gives(t, x.for)
           /\ r = "ok" /\ t \in loaded => (queue' = queue => turn[t] # 0)
           /\ ~Reached(r) => queue' = queue
           /\ link => link'
<1>1. \/ /\ queue' = queue
         /\ r = "ok" /\ t \in loaded => steers /\ turn[t] = bound[p].active
      \/ Reached(r) /\ t \in loaded /\ queue' = [queue EXCEPT ![t] = Append(@, x.for)]
  BY DEF HandOver, Reached, Outcomes
<1>2. link => link'
  BY DEF HandOver
<1>3. ASSUME r = "ok", t \in loaded, queue' = queue PROVE turn[t] # 0
  <2>1. Reached(r)
    BY <1>3 DEF Reached, Outcomes
  <2>2. queue[t] \in Seq(Threads) /\ Append(queue[t], x.for) # queue[t]
    <3>1. queue[t] \in Seq(Threads)
      BY DEF Turns
    <3>2. Len(Append(queue[t], x.for)) = Len(queue[t]) + 1 /\ Len(queue[t]) \in Nat
      BY <3>1
    <3> QED
      BY <3>1, <3>2
  <2>3. steers /\ turn[t] = bound[p].active
    BY <1>1, <1>3, <2>1, <2>2 DEF Turns
  <2> QED
    BY <2>3
<1> QED
  BY <1>1, <1>2, <1>3 DEF Gives

LEMMA MailFollows ==
    ASSUME BusInv, FollowInv, HandleMail
    PROVE  FollowInv'
<1>s. Shape /\ Sorts /\ Turns
  BY DEF BusInv, FollowInv, Sorts
<1>1. /\ At("mail") /\ "mail" \in ByMail
      /\ UNCHANGED <<turn, began, checks, nextKey, loaded, heard>>
  BY DEF HandleMail, ByMail
<1>2. e = evs[1] /\ evs[1].op = "mail"
  BY <1>1, <1>s, TakesPops
<1>3. CASE NoCall /\ UNCHANGED <<astray, queue, bound, dealt>>
  <2>1. \A p \in Followed : Silent(evs[1], bound[p].thread)
    BY <1>2 DEF Silent, Mine
  <2>2. UNCHANGED <<bound, turn, queue, began, heard, checks, dealt, nextKey, link, loaded>>
    BY <1>1, <1>3 DEF NoCall
  <2> QED
    BY <1>1, <2>1, <2>2, Dropped
<1>4. CASE \E p \in Key, r \in Outcomes :
             LET b == bound[p]
             IN  /\ HandOver(p, e.now /\ b.active # 0 /\ b.subscribed, r)
                 /\ IF r = "ok" /\ b.thread \in loaded
                    THEN dealt' = dealt + 1 /\ bound' = [bound EXCEPT ![p].last = dealt + 1]
                    ELSE /\ UNCHANGED dealt
                         /\ bound' = [bound EXCEPT ![p].followed = @ /\ ~Reached(r)]
  <2>1. PICK p \in Key, r \in Outcomes :
             LET b == bound[p]
             IN  /\ HandOver(p, e.now /\ b.active # 0 /\ b.subscribed, r)
                 /\ IF r = "ok" /\ b.thread \in loaded
                    THEN dealt' = dealt + 1 /\ bound' = [bound EXCEPT ![p].last = dealt + 1]
                    ELSE /\ UNCHANGED dealt
                         /\ bound' = [bound EXCEPT ![p].followed = @ /\ ~Reached(r)]
    BY <1>4
  <2>2. PICK x : x = e
    OBVIOUS
  <2>3. PICK b, t : b = bound[p] /\ t = b.thread
    OBVIOUS
  <2>4. PICK steers \in BOOLEAN : steers = (e.now /\ b.active # 0 /\ b.subscribed)
    OBVIOUS
  <2>5. PICK y \in BOOLEAN : y = ~Reached(r)
    OBVIOUS
  <2>6. /\ p \in Bound /\ bound[p].key = x.key /\ x = evs[1] /\ t \in Threads
    BY <1>2, <1>s, <2>1, <2>2, <2>3 DEF Key, Sorts, Wholes, Whole
  <2>7. HandOver(p, steers, r) /\ (steers => bound[p].active # 0) /\ x = e
    BY <2>1, <2>2, <2>3, <2>4
  <2>8. /\ Gives(t, x.for)
        /\ r = "ok" /\ t \in loaded => (queue' = queue => turn[t] # 0)
        /\ ~Reached(r) => queue' = queue
        /\ link => link'
    BY <1>s, <2>3, <2>6, <2>7, HandOverGives
  <2>9. \E n : /\ bound' = [bound EXCEPT ![p] = n]
               /\ Deals(n, b, t)
    <3>1. CASE r = "ok" /\ t \in loaded
      BY <2>1, <2>3, <2>8, <3>1 DEF Deals
    <3>2. CASE ~(r = "ok" /\ t \in loaded)
      BY <2>1, <2>3, <2>5, <2>8, <3>2 DEF Deals
    <3> QED
      BY <3>1, <3>2
  <2>10. PICK n : /\ bound' = [bound EXCEPT ![p] = n]
                  /\ Deals(n, b, t)
    BY <2>9
  <2>11. b = bound[p] /\ b.thread = t /\ (link => link')
         /\ Gives(t, x.for)
    BY <2>3, <2>8
  <2> QED
    BY <1>1, <2>6, <2>10, <2>11, HandedOf
<1> QED
  BY <1>3, <1>4 DEF HandleMail

LEMMA ToldFollows ==
    ASSUME BusInv, FollowInv, HandleTold
    PROVE  FollowInv'
<1>s. Shape /\ Sorts /\ Turns
  BY DEF BusInv, FollowInv, Sorts
<1>1. /\ At("told") /\ "told" \in ByMail
      /\ UNCHANGED <<turn, began, checks, nextKey, loaded, heard>> /\ dealt' = dealt
  BY DEF HandleTold, ByMail
<1>2. e = evs[1] /\ evs[1].op = "told"
  BY <1>1, <1>s, TakesPops
<1>3. CASE NoCall /\ UNCHANGED <<astray, queue, bound>>
  <2>1. \A p \in Followed : Silent(evs[1], bound[p].thread)
    BY <1>2 DEF Silent, Mine
  <2>2. UNCHANGED <<bound, turn, queue, began, heard, checks, dealt, nextKey, link, loaded>>
    BY <1>1, <1>3 DEF NoCall
  <2> QED
    BY <1>1, <2>1, <2>2, Dropped
<1>4. CASE \E p \in Key, r \in Outcomes :
             /\ HandOver(p, FALSE, r)
             /\ bound' = [bound EXCEPT ![p].followed = @ /\ ~Reached(r)]
  <2>1. PICK p \in Key, r \in Outcomes :
             /\ HandOver(p, FALSE, r)
             /\ bound' = [bound EXCEPT ![p].followed = @ /\ ~Reached(r)]
    BY <1>4
  <2>2. PICK x : x = e
    OBVIOUS
  <2>3. PICK b, t : b = bound[p] /\ t = b.thread
    OBVIOUS
  <2>4. PICK steers \in BOOLEAN : steers = FALSE
    OBVIOUS
  <2>5. PICK y \in BOOLEAN : y = ~Reached(r)
    OBVIOUS
  <2>6. /\ p \in Bound /\ bound[p].key = x.key /\ x = evs[1] /\ t \in Threads
    BY <1>2, <1>s, <2>1, <2>2, <2>3 DEF Key, Sorts, Wholes, Whole
  <2>7. HandOver(p, steers, r) /\ (steers => bound[p].active # 0) /\ x = e
    BY <2>1, <2>2, <2>4
  <2>8. /\ Gives(t, x.for)
        /\ ~Reached(r) => queue' = queue
        /\ link => link'
    BY <1>s, <2>3, <2>6, <2>7, HandOverGives
  <2>9. PICK n : n = [b EXCEPT !.followed = @ /\ y]
    OBVIOUS
  <2>10. bound' = [bound EXCEPT ![p] = n]
    BY <2>1, <2>3, <2>5, <2>9
  <2>11. Deals(n, b, t)
    BY <1>1, <2>5, <2>8, <2>9 DEF Deals
  <2>12. b = bound[p] /\ b.thread = t /\ (link => link')
         /\ Gives(t, x.for)
    BY <2>3, <2>8
  <2> QED
    BY <1>1, <2>6, <2>10, <2>11, <2>12, HandedOf
<1> QED
  BY <1>3, <1>4 DEF HandleTold

\* A peer asks to be told.
LEMMA AskedOf ==
    ASSUME BusInv, FollowInv, At("ask"),
           UNCHANGED <<turn, queue, began, dealt, nextKey, loaded, heard, link>>,
           NEW x, x = evs[1], NEW p \in Bound, bound[p].key = x.key, NEW b, b = bound[p], NEW t, b.thread = t,
           NEW others, others \subseteq b.subs,
           NEW n, bound' = [bound EXCEPT ![p] = n],
           n = [b EXCEPT !.subs = others \cup {[to |-> x.to, idled |-> x.idled]}],
           checks' = IF LooksAgain(b) THEN checks \cup {[pane |-> p, since |-> dealt, left |-> 1]} ELSE checks
    PROVE  FollowInv'
<1>s. Shape /\ Sorts /\ dealt \in Nat
  BY DEF BusInv, FollowInv, Sorts, Clocks
<1>a. /\ UNCHANGED <<turn, queue, began, dealt, nextKey, loaded, heard, link>>
      /\ bound' = [bound EXCEPT ![p] = n]
  OBVIOUS
<1>b. Pops /\ Retained(evs, evs', 1, {}) /\ x = evs[1] /\ evs[1].op = "ask"
  BY <1>s, TakesPops
<1>d. \A u : Silent(evs[1], u)
  BY <1>b DEF Silent, Mine
<1>1. p \in Bound /\ b.thread = t /\ Whole(b) /\ Fields(b) /\ p \in Panes
  BY <1>s DEF Sorts, Wholes, Shape, Bound
<1>4. /\ n.key = b.key /\ n.thread = t /\ n.idle = b.idle /\ n.active = b.active /\ n.last = b.last
      /\ n.followed = b.followed /\ n.subs = others \cup {[to |-> x.to, idled |-> x.idled]} /\ DOMAIN n = DOMAIN b
  BY <1>1 DEF Whole, Fields
<1>5. Whole(n)'
  BY <1>a, <1>1, <1>4 DEF Whole
<1>6. bound'[p] = n /\ (p \in Followed' => p \in Followed)
  BY <1>s, <1>a, <1>1, <1>4 DEF Shape, Followed, Bound
<1>c. /\ \A c \in checks : c \in checks'
      /\ \A d \in checks' : d \in checks \/ (LooksAgain(b) /\ d = [pane |-> p, since |-> dealt, left |-> 1])
  OBVIOUS
<1>7. Turns' /\ Clocks' /\ dealt' \in Nat /\ dealt <= dealt'
  <2>1. Turns'
    BY <1>a, <1>s DEF Sorts, Turns
  <2>2. \A d \in checks' : d = [pane |-> d.pane, since |-> d.since, left |-> d.left] /\ d.since \in 0 .. dealt
    BY <1>s, <1>c DEF Sorts, Clocks
  <2> QED
    BY <1>a, <1>s, <2>1, <2>2 DEF Clocks
<1>8. \A q \in Followed : q # p => Silent(evs[1], bound[q].thread)
  BY <1>d
<1>9. ASSUME p \in Followed' PROVE Sound(p)'
  <2>1. Sound(p) /\ p \in Followed
    BY <1>6, <1>9 DEF FollowInv
  <2>2. turn'[t] = turn[t] /\ (~Quiet(t) => ~Quiet(t)') /\ (t \in heard => t \in heard') /\ t = bound[p].thread
    BY <1>a, <1>1 DEF Quiet
  <2>3. Knows(p)'
    <3>1. ~Mine(evs[1], "turn", t) /\ ~Mine(evs[1], "status", t)
      BY <1>d DEF Silent
    <3>2. /\ bound'[p].idle = (IF Mine(evs[1], "status", t) THEN evs[1].idle ELSE bound[p].idle)
          /\ bound'[p].active = (IF Mine(evs[1], "turn", t) THEN evs[1].turn ELSE bound[p].active)
          /\ bound'[p].thread = t
      BY <1>1, <1>4, <1>6, <3>1
    <3> QED
      BY <1>b, <1>1, <2>1, <2>2, <3>2, KnowsRest DEF Sound
  <2>4. Awaits(p)'
    <3>1. CASE LooksAgain(b)
      <4>1. [pane |-> p, since |-> dealt, left |-> 1] \in checks'
        BY <3>1
      <4>2. bound'[p].last <= dealt
        BY <1>1, <1>4, <1>6 DEF Whole
      <4> QED
        BY <4>1, <4>2 DEF Awaits, Coming
    <3>2. CASE ~LooksAgain(b)
      <4>1. b.active # 0 => ~b.idle
        BY <2>1 DEF Sound, Knows, Tale
      <4>2. ~bound'[p].idle
        BY <1>4, <1>6, <3>2, <4>1 DEF LooksAgain
      <4> QED
        BY <4>2 DEF Awaits, Coming
    <3> QED
      BY <3>1, <3>2
  <2>5. Taken(p)'
    <3> SUFFICES ASSUME NEW d \in checks', d.pane = p, d.left = 0, bound'[p].last <= d.since,
                        queue'[bound'[p].thread] # <<>>
                 PROVE  turn'[bound'[p].thread] # 0
      BY DEF Taken
    <3>1. d \in checks
      BY <1>c
    <3>2. bound'[p].last = bound[p].last /\ bound'[p].thread = bound[p].thread
      BY <1>1, <1>4, <1>6
    <3>3. bound[p].last <= d.since /\ queue[bound[p].thread] # <<>>
      BY <1>a, <3>2
    <3> QED
      BY <1>a, <2>1, <3>1, <3>2, <3>3 DEF Sound, Taken
  <2>6. ASSUME NEW s \in n.subs, ~s.idled PROVE s \in bound[p].subs \/ Restless(t, 1)
    <3>1. CASE s \in others
      BY <3>1
    <3>2. CASE s = [to |-> x.to, idled |-> x.idled]
      <4>1. AsksOf(evs[1], bound[p].key)
        BY <1>b, <2>6, <3>2 DEF AsksOf
      <4>2. 1 \in 1 .. Len(evs)
        BY <1>b DEF Pops
      <4> QED
        BY <2>1, <2>2, <4>1, <4>2 DEF Sound, Asks
    <3> QED
      BY <1>4, <2>6, <3>1, <3>2
  <2>7. /\ bound' = [bound EXCEPT ![p] = n] /\ (link => link') /\ Pops /\ Retained(evs, evs', 1, {})
        /\ n.key = bound[p].key /\ n.thread = t
        /\ \A s \in n.subs : ~s.idled => s \in bound[p].subs \/ Restless(t, 1)
    BY <1>a, <1>b, <1>4, <2>6
  <2> QED
    BY <2>1, <2>2, <2>3, <2>4, <2>5, <2>7, PaneOne
<1>10. /\ \A u \in Threads : u # bound[p].thread => queue'[u] = queue[u]
       /\ \A c \in checks : c.pane # p => c \in checks'
       /\ \A d \in checks' : d.pane # p => d \in checks
       /\ UNCHANGED turn /\ UNCHANGED nextKey /\ (link => link') /\ heard \subseteq heard'
       /\ n.key = bound[p].key /\ n.thread = bound[p].thread
  BY <1>a, <1>c, <1>1, <1>4
<1> QED
  BY <1>a, <1>1, <1>5, <1>7, <1>8, <1>9, <1>10, OneFollows

LEMMA AskFollows ==
    ASSUME BusInv, FollowInv, HandleAsk
    PROVE  FollowInv'
<1>s. Shape /\ Sorts
  BY DEF BusInv, FollowInv
<1>1. /\ At("ask")
      /\ UNCHANGED <<turn, queue, began, dealt, nextKey, loaded, heard, link>>
  BY DEF HandleAsk, world, daemon
<1>2. e = evs[1] /\ evs[1].op = "ask"
  BY <1>1, <1>s, TakesPops
<1>3. CASE UNCHANGED <<bound, checks>>
  <2>1. \A p \in Followed : Silent(evs[1], bound[p].thread)
    BY <1>2 DEF Silent, Mine
  <2>2. UNCHANGED <<bound, turn, queue, began, heard, checks, dealt, nextKey, link, loaded>>
    BY <1>1, <1>3
  <2> QED
    BY <1>1, <2>1, <2>2, Dropped
<1>4. CASE ~UNCHANGED <<bound, checks>>
  <2>1. PICK p \in Key :
              LET b == bound[p]
                  others == {s \in b.subs : s.to # e.to}
              IN  /\ bound' = [bound EXCEPT ![p].subs = others \cup {[to |-> e.to, idled |-> e.idled]}]
                  /\ checks' = IF LooksAgain(b)
                               THEN checks \cup {[pane |-> p, since |-> dealt, left |-> 1]} ELSE checks
    BY <1>4 DEF HandleAsk
  <2>2. PICK x : x = e
    OBVIOUS
  <2>3. PICK b, t : b = bound[p] /\ t = b.thread
    OBVIOUS
  <2>4. PICK others : others = {s \in b.subs : s.to # x.to}
    OBVIOUS
  <2>5. PICK n : n = [b EXCEPT !.subs = others \cup {[to |-> x.to, idled |-> x.idled]}]
    OBVIOUS
  <2>6. bound' = [bound EXCEPT ![p] = n]
    BY <2>1, <2>2, <2>3, <2>4, <2>5
  <2>7. checks' = IF LooksAgain(b) THEN checks \cup {[pane |-> p, since |-> dealt, left |-> 1]} ELSE checks
    BY <2>1, <2>3
  <2>8. p \in Bound /\ bound[p].key = x.key /\ b = bound[p] /\ b.thread = t /\ x = evs[1] /\ others \subseteq b.subs
    BY <1>2, <2>1, <2>2, <2>3, <2>4 DEF Key
  <2> QED
    BY <1>1, <2>5, <2>6, <2>7, <2>8, AskedOf
<1> QED
  BY <1>3, <1>4
-----------------------------------------------------------------------------
(* Only what is bound is to be unbound.                                    *)

Drops == todo.drop \subseteq Bound

LEMMA DropsAtFirst == Init => Drops
BY DEF Init, Drops, NoWork

LEMMA RefreshDrops ==
    ASSUME NEW ws, NEW armed, Refresh(ws, armed), UNCHANGED bound
    PROVE  Drops'
<1>1. Bound' = Bound
  BY DEF Bound
<1>2. \A live : Work(ws, live).drop \subseteq Bound
  BY DEF Work
<1>3. NoWork.drop = {}
  BY DEF NoWork
<1>4. \/ \E live : todo' = Work(ws, live)
      \/ todo' = NoWork
  BY DEF Refresh
<1>5. CASE \E live : todo' = Work(ws, live)
  BY <1>1, <1>2, <1>5 DEF Drops
<1>6. CASE todo' = NoWork
  BY <1>3, <1>6 DEF Drops
<1> QED
  BY <1>4, <1>5, <1>6

LEMMA DropsKept ==
    ASSUME BusInv, FollowInv, Drops, [Next]_vars
    PROVE  Drops'
<1>s. Shape /\ Wholes
  BY DEF BusInv, FollowInv, Sorts
<1>n. NoWork.drop = {}
  BY DEF NoWork
<1>f. \A p \in Bound : Fields(bound[p]) /\ p \in Panes
  BY <1>s DEF Shape, Bound
<1>e. ASSUME UNCHANGED <<bound, todo>> PROVE Drops'
  BY <1>e DEF Drops, Bound
<1>w. ASSUME todo = NoWork, UNCHANGED todo PROVE Drops'
  BY <1>n, <1>w DEF Drops
<1>1. ASSUME HandleWant \/ HandleThreads \/ RetryDue PROVE Drops'
  <2>1. UNCHANGED bound
    BY <1>1 DEF HandleWant, HandleThreads, RetryDue
  <2>2. CASE \E ws, armed : Refresh(ws, armed)
    BY <2>1, <2>2, RefreshDrops
  <2>3. CASE UNCHANGED todo
    BY <1>e, <2>1, <2>3
  <2> QED
    BY <1>1, <2>2, <2>3 DEF HandleWant, HandleThreads, RetryDue
<1>2. ASSUME HandleClosed \/ HandleStatus \/ HandleTurn \/ HandleMail \/ HandleTold \/ HandleAsk \/ ChecksDue
      PROVE  Drops'
  <2>1. todo = NoWork /\ UNCHANGED todo
    BY <1>2 DEF HandleClosed, HandleStatus, HandleTurn, HandleMail, HandleTold, HandleAsk, ChecksDue, At, Waits
  <2> QED
    BY <1>w, <2>1
<1>3. ASSUME NEW p \in Panes, Unbind(p) PROVE Drops'
  <2>1. todo' = [todo EXCEPT !.drop = @ \ {p}] /\ bound' = [bound EXCEPT ![p] = NoBinding]
    BY <1>3 DEF Unbind
  <2>2. todo'.drop = todo.drop \ {p}
    BY <1>s, <2>1 DEF Shape
  <2>3. \A q \in Bound \ {p} : q \in Bound'
    BY <1>s, <2>1 DEF Shape, Bound
  <2> QED
    BY <2>2, <2>3 DEF Drops
<1>4. ASSUME Bind PROVE Drops'
  <2>1. PICK j : todo.drop = {} /\ todo' = [todo EXCEPT !.join = @ \ {j}]
    BY <1>4 DEF Bind
  <2>2. todo'.drop = {}
    BY <1>s, <2>1 DEF Shape
  <2> QED
    BY <2>2 DEF Drops
<1>5. ASSUME Codex PROVE Drops'
  <2>1. CASE \E p \in Panes : Starts(p) \/ Quits(p) \/ \E t \in Threads : Shows(p, t)
    BY <1>e, <2>1 DEF Starts, Quits, Shows, TuiOnly, worker
  <2>2. CASE \E t \in Threads : Unloads(t) \/ PersonAsks(t) \/ TakesQueued(t)
    BY <1>e, <2>2 DEF Unloads, TuiOnly, PersonAsks, TakesQueued, Begins, worker
  <2>3. CASE \E t \in Threads : TurnEnds(t)
    <3>1. PICK t \in Threads : TurnEnds(t)
      BY <2>3
    <3>2. UNCHANGED todo /\ (UNCHANGED bound \/ bound' = Rested(t))
      BY <3>1 DEF TurnEnds
    <3>3. Bound' = Bound
      BY <1>s, <3>2, RestedKeeps
    <3> QED
      BY <3>2, <3>3 DEF Drops
  <2>4. CASE \E dies \in BOOLEAN : Breaks(dies)
    <3>1. UNCHANGED todo /\ bound' = Unfollowed
      BY <2>4 DEF Breaks
    <3>2. ASSUME NEW p \in Bound PROVE p \in Bound'
      <4>1. p \in Panes /\ bound'[p] = [bound[p] EXCEPT !.followed = FALSE]
        BY <1>f, <3>1 DEF Unfollowed
      <4>2. bound'[p].key = bound[p].key
        BY <1>f, <4>1 DEF Fields
      <4> QED
        BY <4>1, <4>2 DEF Bound
    <3> QED
      BY <3>1, <3>2 DEF Drops
  <2> QED
    BY <1>5, <2>1, <2>2, <2>3, <2>4 DEF Codex
<1>6. ASSUME Tick \/ Offer \/ \E p \in Panes : Send(p) PROVE Drops'
  BY <1>e, <1>6 DEF Tick, Offer, Send, worker
<1>7. ASSUME Reexec PROVE Drops'
  BY <1>n, <1>7 DEF Reexec, NewWorker, Drops
<1>8. ASSUME UNCHANGED vars PROVE Drops'
  BY <1>e, <1>8 DEF vars, worker
<1> QED
  BY <1>1, <1>2, <1>3, <1>4, <1>5, <1>6, <1>7, <1>8 DEF Next, Works, Handles

-----------------------------------------------------------------------------
\* An inbox is closed.
LEMMA UnbindFollows ==
    ASSUME BusInv, FollowInv, Drops, NEW p \in Panes, Unbind(p)
    PROVE  FollowInv'
<1>s. Shape /\ Sorts /\ nextKey \in Nat
  BY DEF BusInv, FollowInv, Keys
<1>1. /\ UNCHANGED <<evs, turn, queue, loaded, began, checks, dealt, nextKey>>
      /\ bound' = [bound EXCEPT ![p] = NoBinding] /\ p \in Bound
  BY DEF Unbind, world, Drops
<1>2. (link => link') /\ heard \ {bound[p].thread} \subseteq heard'
  BY DEF Unbind, NoCall, Call
<1>3. /\ \A q \in Bound' : q \in Bound /\ q # p
      /\ \A q \in Panes : q # p => bound'[q] = bound[q]
  BY <1>s, <1>1 DEF Shape, Bound, NoBinding
<1>4. Retained(evs, evs', 0, {})
  BY <1>s, <1>1, AllRetained DEF Shape
<1>5. Sorts'
  <2>1. Turns' /\ Clocks' /\ dealt' = dealt
    BY <1>s, <1>1 DEF Sorts, Turns, Clocks
  <2>2. \A q \in Panes : bound'[q].key # 0 => q \in Bound /\ Whole(bound'[q])
    <3> SUFFICES ASSUME NEW q \in Panes, bound'[q].key # 0 PROVE q \in Bound /\ Whole(bound'[q])
      OBVIOUS
    <3>1. q \in Bound'
      BY DEF Bound
    <3> QED
      BY <1>s, <1>3, <3>1 DEF Sorts, Wholes
  <2>3. Wholes'
    BY <1>s, <2>1, <2>2, WholesAll DEF Sorts
  <2>4. Events'
    BY <1>s, <1>1 DEF Sorts, Events, Marked
  <2> QED
    BY <2>1, <2>3, <2>4 DEF Sorts
<1>6. ASSUME NEW q \in Followed' PROVE Sound(q)'
  <2>1. q \in Followed /\ q # p /\ q \in Panes /\ bound'[q] = bound[q] /\ q \in Bound
    BY <1>3, <1>6 DEF Followed, Bound
  <2>2. Sound(q) /\ Unmoved(q)
    BY <2>1 DEF FollowInv, Unmoved
  <2>3. bound[p].thread # bound[q].thread
    BY <1>1, <2>1, <2>2 DEF Sound, Alone
  <2>4. Alone(q)'
    <3>1. \A x \in Bound' : x \in Bound /\ bound'[x].thread = bound[x].thread
      BY <1>3 DEF Bound
    <3>2. link' /\ Alone(q) /\ bound'[q].thread = bound[q].thread
      BY <1>2, <2>1, <2>2 DEF Sound, Alone
    <3> QED
      BY <2>1, <3>1, <3>2, AloneKept
  <2>5. PICK u : u = bound[q].thread
    OBVIOUS
  <2>6. /\ turn'[u] = turn[u] /\ queue'[u] = queue[u] /\ (u \in heard => u \in heard')
        /\ \A c \in checks : c.pane = q => \E d \in checks' : d.pane = q /\ d.since = c.since
        /\ \A d \in checks' : d.pane = q /\ d.left = 0 =>
               \E c \in checks : c.pane = q /\ c.since = d.since /\ c.left = 0
    BY <1>1, <1>2, <2>3, <2>5
  <2> QED
    BY <1>s, <1>4, <2>1, <2>2, <2>4, <2>5, <2>6, PaneCalm DEF Sorts
<1> QED
  BY <1>5, <1>6 DEF FollowInv

\* Bindings of a thread that is bound once more are followed no longer.
LEMMA DoubtKeeps ==
    ASSUME Shape, Wholes, NEW t, NEW q \in Panes
    PROVE  /\ q \notin Bound => Doubted(t)[q] = bound[q]
           /\ q \in Bound => Whole(Doubted(t)[q]) /\ Doubted(t)[q].key = bound[q].key
           /\ q \in Bound /\ Doubted(t)[q].followed => bound[q].thread # t /\ Doubted(t)[q] = bound[q]
<1>1. Doubted(t)[q] = IF q \in BoundTo(t) THEN [bound[q] EXCEPT !.followed = FALSE] ELSE bound[q]
  BY DEF Doubted
<1>2. q \in Bound => Fields(bound[q]) /\ Whole(bound[q])
  BY DEF Shape, Wholes
<1>3. CASE q \in BoundTo(t)
  <2>1. q \in Bound /\ Doubted(t)[q] = [bound[q] EXCEPT !.followed = FALSE]
    BY <1>1, <1>3 DEF BoundTo
  <2> QED
    BY <1>2, <2>1 DEF Whole, Fields
<1>4. CASE q \notin BoundTo(t)
  BY <1>1, <1>2, <1>4 DEF BoundTo
<1> QED
  BY <1>3, <1>4

LEMMA BindFollows ==
    ASSUME BusInv, ServeInv, FollowInv, Bind
    PROVE  FollowInv'
<1>s. Shape /\ Sorts /\ Wholes /\ nextKey \in Nat /\ dealt \in Nat
  BY DEF BusInv, FollowInv, Keys, Sorts, Clocks
<1>1. PICK j \in First(todo.join) :
        /\ todo.drop = {}
        /\ nextKey' = nextKey + 1
        /\ \E r \in Outcomes :
              /\ link' = (link \/ Reached(r))
              /\ \/ /\ heard' = HeardAfter(j.thread, r)
                    /\ bound' = [Doubted(j.thread) EXCEPT ![j.pane] =
                          [key |-> NewKey(j.pane), proc |-> j.proc, thread |-> j.thread,
                           subscribed |-> Subscribed(j.thread, r), active |-> 0, idle |-> TRUE,
                           last |-> 0, subs |-> {},
                           followed |-> link' /\ Quiet(j.thread) /\ BoundTo(j.thread) = {} /\ ~Heralded(j.thread)]]
                 \/ /\ heard' \in {GivenUp(j.thread, HeardAfter(j.thread, r)), HeardAfter(j.thread, r)}
                    /\ bound' = Doubted(j.thread)
  BY DEF Bind, Call
<1>2. UNCHANGED <<evs, turn, queue, loaded, began, checks, dealt>>
  BY DEF Bind, world
<1>3. PICK p, t : p = j.pane /\ t = j.thread
  OBVIOUS
<1>4. p \in Panes /\ p \notin Bound /\ t \in Threads
  BY <1>1, <1>3 DEF First, BusInv, Todo, Fits, ServeInv, Places
<1>5. (link => link') /\ heard \ {t} \subseteq heard'
  BY <1>1, <1>3 DEF HeardAfter, GivenUp
<1>6. \A q \in Panes \ {p} : bound'[q] = Doubted(t)[q]
  BY <1>1, <1>3 DEF Doubted
<1>7. ASSUME p \in Bound'
      PROVE  /\ Whole(bound'[p])
             /\ bound'[p].key = nextKey /\ bound'[p].thread = t /\ bound'[p].idle = TRUE /\ bound'[p].active = 0
             /\ bound'[p].last = 0 /\ bound'[p].subs = {}
             /\ bound'[p].followed => link' /\ Quiet(t) /\ BoundTo(t) = {} /\ ~Heralded(t)
  <2>1. CASE bound' = Doubted(t)
    BY <1>4, <1>7, <2>1 DEF Bound, Doubted, BoundTo
  <2>2. CASE \E v : bound' = [Doubted(t) EXCEPT ![p] =
                      [key |-> NewKey(p), proc |-> j.proc, thread |-> t, subscribed |-> v, active |-> 0,
                       idle |-> TRUE, last |-> 0, subs |-> {},
                       followed |-> link' /\ Quiet(t) /\ BoundTo(t) = {} /\ ~Heralded(t)]]
    <3>1. PICK v, n : n = [key |-> NewKey(p), proc |-> j.proc, thread |-> t, subscribed |-> v, active |-> 0,
                           idle |-> TRUE, last |-> 0, subs |-> {},
                           followed |-> link' /\ Quiet(t) /\ BoundTo(t) = {} /\ ~Heralded(t)]
                      /\ bound' = [Doubted(t) EXCEPT ![p] = n]
      BY <2>2
    <3>2. bound'[p] = n
      BY <1>4, <3>1 DEF Doubted
    <3>3. /\ n.key = nextKey /\ n.thread = t /\ n.idle = TRUE /\ n.active = 0 /\ n.last = 0 /\ n.subs = {}
          /\ DOMAIN n = {"key", "proc", "thread", "subscribed", "active", "idle", "last", "subs", "followed"}
          /\ n.followed = (link' /\ Quiet(t) /\ BoundTo(t) = {} /\ ~Heralded(t))
      BY <3>1 DEF NewKey
    <3>4. Whole(n)
      <4>1. PICK y \in BOOLEAN : y = (link' /\ Quiet(t) /\ BoundTo(t) = {} /\ ~Heralded(t))
        OBVIOUS
      <4>2. n.followed \in BOOLEAN
        BY <3>3, <4>1
      <4>3. {"active", "idle", "last", "subs", "followed"} \subseteq DOMAIN n
        BY <3>3
      <4>4. n.last \in 0 .. dealt /\ n.thread \in Threads
        <5>1. n.last = 0 /\ n.thread = t
          BY <3>3
        <5> QED
          BY <1>s, <1>4, <5>1
      <4>5. n.idle \in BOOLEAN
        BY <3>3, Zenon
      <4> QED
        BY <3>3, <4>2, <4>3, <4>4, <4>5 DEF Whole
    <3> QED
      BY <3>2, <3>3, <3>4
  <2> QED
    BY <1>1, <1>3, <2>1, <2>2
<1>8. Retained(evs, evs', 0, {})
  BY <1>s, <1>2, AllRetained DEF Shape
<1>9. Sorts'
  <2>1. Turns' /\ Clocks' /\ dealt' = dealt
    BY <1>s, <1>2 DEF Sorts, Turns, Clocks
  <2>2. ASSUME NEW q \in Bound' PROVE Whole(bound'[q])
    <3>1. CASE q = p
      BY <1>7, <2>2, <3>1
    <3>2. CASE q # p
      <4>1. bound'[q] = Doubted(t)[q] /\ q \in Panes /\ bound'[q].key # 0
        BY <1>6, <2>2, <3>2 DEF Bound
      <4>2. q \in Bound
        BY <1>s, <4>1, DoubtKeeps DEF Bound
      <4> QED
        BY <1>s, <4>1, <4>2, DoubtKeeps
    <3> QED
      BY <3>1, <3>2
  <2>3. Wholes'
    BY <2>1, <2>2 DEF Wholes, Whole
  <2>4. Events'
    BY <1>s, <1>1, <1>8, EventsKept DEF Sorts
  <2> QED
    BY <2>1, <2>3, <2>4 DEF Sorts
<1>10. ASSUME NEW q \in Bound', q # p, bound'[q].followed
       PROVE  q \in Followed /\ bound'[q] = bound[q] /\ bound[q].thread # t
  <2>1. bound'[q] = Doubted(t)[q] /\ q \in Panes /\ bound'[q].key # 0
    BY <1>6, <1>10 DEF Bound
  <2>2. q \in Bound
    BY <1>s, <2>1, DoubtKeeps DEF Bound
  <2> QED
    BY <1>s, <1>10, <2>1, <2>2, DoubtKeeps DEF Followed
<1>11. ASSUME NEW q \in Bound' PROVE q = p \/ (q \in Bound /\ bound'[q].thread = bound[q].thread)
  <2> SUFFICES ASSUME q # p PROVE q \in Bound /\ bound'[q].thread = bound[q].thread
    OBVIOUS
  <2>1. bound'[q] = Doubted(t)[q] /\ q \in Panes /\ bound'[q].key # 0
    BY <1>6, <1>11 DEF Bound
  <2>2. q \in Bound
    BY <1>s, <2>1, DoubtKeeps DEF Bound
  <2>3. Fields(bound[q])
    BY <1>s, <2>2 DEF Shape
  <2> QED
    BY <2>1, <2>2, <2>3 DEF Doubted, Fields
<1>12. ASSUME NEW q \in Followed', q # p PROVE Sound(q)'
  <2>1. q \in Followed /\ bound'[q] = bound[q] /\ bound[q].thread # t /\ q \in Bound
    BY <1>10, <1>12 DEF Followed
  <2>2. Sound(q) /\ Unmoved(q)
    BY <2>1 DEF FollowInv, Unmoved
  <2>3. Alone(q)'
    <3>1. link' /\ bound'[q].thread = bound[q].thread
      BY <1>5, <2>1, <2>2 DEF Sound, Alone
    <3>2. ASSUME NEW x \in Bound', bound'[x].thread = bound[q].thread PROVE x = q
      <4>1. x # p
        BY <1>7, <2>1, <3>2
      <4>2. x \in Bound /\ bound[x].thread = bound[q].thread
        BY <1>11, <3>2, <4>1
      <4> QED
        BY <2>2, <4>2 DEF Sound, Alone
    <3> QED
      BY <3>1, <3>2 DEF Alone
  <2>4. PICK u : u = bound[q].thread
    OBVIOUS
  <2>5. /\ turn'[u] = turn[u] /\ queue'[u] = queue[u] /\ (u \in heard => u \in heard')
        /\ \A c \in checks : c.pane = q => \E d \in checks' : d.pane = q /\ d.since = c.since
        /\ \A d \in checks' : d.pane = q /\ d.left = 0 =>
               \E c \in checks : c.pane = q /\ c.since = d.since /\ c.left = 0
    BY <1>2, <1>5, <2>1, <2>4
  <2> QED
    BY <1>s, <1>8, <2>1, <2>2, <2>3, <2>4, <2>5, PaneCalm DEF Sorts
<1>13. ASSUME p \in Followed' PROVE Sound(p)'
  <2>1. p \in Bound' /\ link' /\ Quiet(t) /\ BoundTo(t) = {} /\ ~Heralded(t)
    BY <1>7, <1>13 DEF Followed
  <2>2. /\ bound'[p].key = nextKey /\ bound'[p].thread = t /\ bound'[p].idle = TRUE /\ bound'[p].active = 0
        /\ bound'[p].last = 0 /\ bound'[p].subs = {}
    BY <1>7, <2>1
  <2>3. Alone(p)'
    <3>1. ASSUME NEW x \in Bound', bound'[x].thread = t PROVE x = p
      BY <1>11, <2>1, <3>1 DEF BoundTo
    <3> QED
      BY <2>1, <2>2, <3>1 DEF Alone
  <2>4. Knows(p)'
    <3> DEFINE hears == t \in heard'
               u == evs'
    <3>1. \A n \in 1 .. Len(evs) : Silent(evs[n], t)
      <4>1. Len(evs) \in Nat /\ DOMAIN evs = 1 .. Len(evs)
        BY <1>s, LenProperties DEF Shape, Sequence
      <4> QED
        BY <2>1, <4>1 DEF Heralded, Silent, Mine
    <3>2. \A n \in 1 .. Len(u) : Silent(u[n], t)
      BY <1>2, <3>1
    <3>3. (turn'[t] # 0) = FALSE
      BY <1>2, <2>1 DEF Quiet
    <3> HIDE DEF hears, u
    <3>4. Tale(u, t, TRUE, 0, hears, FALSE)
      BY <3>2, TaleNew
    <3> QED
      BY <2>2, <3>3, <3>4 DEF Knows, hears, u
  <2>5. Awaits(p)' /\ Rests(p)'
    BY <2>2 DEF Awaits, Rests
  <2>6. Asks(p)'
    <3>1. ASSUME NEW i \in 1 .. Len(evs) PROVE ~AsksOf(evs[i], nextKey)
      <4>1. Marked(evs[i])
        BY <1>s DEF Sorts, Events
      <4> QED
        BY <1>s, <4>1 DEF Marked, AsksOf
    <3> QED
      BY <1>2, <2>2, <3>1 DEF Asks
  <2>7. Taken(p)'
    BY <1>2, <2>1, <2>2 DEF Taken, Quiet
  <2> QED
    BY <2>3, <2>4, <2>5, <2>6, <2>7 DEF Sound
<1> QED
  BY <1>9, <1>12, <1>13 DEF FollowInv

LEMMA FollowKeeps == BusInv /\ ServeInv /\ Drops /\ FollowInv /\ [Next]_vars => FollowInv'
<1> SUFFICES ASSUME BusInv, ServeInv, Drops, FollowInv, [Next]_vars PROVE FollowInv'
  OBVIOUS
<1>1. CASE Codex
  BY <1>1, TuisFollow, TurnsFollow, BreakFollows DEF Codex
<1>2. CASE Works
  BY <1>2, RescanFollows, ClosedFollows, StatusFollows, TurnNoteFollows, MailFollows, ToldFollows,
     AskFollows, ChecksFollow, BindFollows, UnbindFollows
  DEF Works, Handles
<1>3. CASE Tick \/ Offer \/ Reexec \/ \E p \in Panes : Send(p)
  BY <1>3, TickFollows, OfferFollows, ReexecFollows, SendFollows
<1>4. CASE UNCHANGED vars
  BY <1>4, StillFollow
<1> QED
  BY <1>1, <1>2, <1>3, <1>4 DEF Next

LEMMA FollowedAlways == Spec => [](FollowInv /\ Drops)
BY FollowedAtFirst, FollowKeeps, DropsAtFirst, DropsKept, Invariance, ServedAlways, PTL DEF Spec

\* Nobody waits for a notice that will not come (idle.rs:1-4): when the worker
\* rests with no look due, a thread that is quiet has no subscriber left, if its
\* binding began with an idle thread and has heard of it without a gap.
THEOREM NobodyWaitsInVain == Spec => []SubscriberTold
<1>1. BusInv /\ FollowInv => SubscriberTold
  <2> SUFFICES ASSUME BusInv, FollowInv, evs = <<>>, checks = {},
                      NEW p \in Bound, bound[p].followed, Quiet(bound[p].thread), bound[p].subs # {}
               PROVE  FALSE
    BY DEF SubscriberTold, Waits
  <2>1. Sound(p) /\ Whole(bound[p])
    BY DEF FollowInv, Followed, Sorts, Wholes
  <2>2. Coming(p)
    BY <2>1 DEF Sound, Awaits
  <2>3. bound[p].idle
    BY <2>1, ToldAll DEF Sound, Quiet
  <2>4. Len(evs) = 0
    BY EmptySeq
  <2> QED
    BY <2>2, <2>3, <2>4 DEF Coming
<1> QED
  BY <1>1, Invariance, FollowedAlways, PTL

-----------------------------------------------------------------------------
(* Who is told, and when.                                                  *)

\* A note that the thread is idle has been worth waiting for.
LEMMA NoteIsEarned ==
    ASSUME BusInv, FollowInv, HandleStatus, NEW p \in Panes, Tells(p), bound[p].followed
    PROVE  evs # <<>> /\ \A s \in bound[p].subs : s.idled
<1>s. Shape /\ Sorts /\ p \in Bound /\ bound'[p].subs = {} /\ bound[p].subs # {}
  BY DEF BusInv, FollowInv, Tells
<1>1. At("status")
  BY DEF HandleStatus
<1>2. e = evs[1] /\ evs[1].op = "status" /\ Pops
  BY <1>1, <1>s, TakesPops
<1>3. Fields(bound[p]) /\ Whole(bound[p]) /\ Sound(p)
  BY <1>s DEF Shape, Sorts, Wholes, FollowInv, Followed
<1>4. bound' # bound
  BY <1>s
<1>5. PICK q, v : q \in BoundTo(e.thread) /\ bound' = [bound EXCEPT ![q] = [bound[q] EXCEPT
                        !.subscribed = v,
                        !.idle = e.idle,
                        !.subs = IF e.idle /\ ~bound[q].idle THEN {} ELSE @]]
  BY <1>4 DEF HandleStatus
<1>6. p = q
  BY <1>s, <1>5 DEF Shape, Bound, BoundTo
<1>7. bound'[p].subs = IF e.idle /\ ~bound[p].idle THEN {} ELSE bound[p].subs
  <2>1. bound'[p] = [bound[p] EXCEPT !.subscribed = v, !.idle = e.idle,
                                     !.subs = IF e.idle /\ ~bound[p].idle THEN {} ELSE @]
    BY <1>s, <1>5, <1>6 DEF Shape, Bound
  <2> QED
    BY <1>3, <2>1 DEF Whole
<1>8. Rises(evs[1], bound[p].thread)
  BY <1>2, <1>5, <1>6, <1>7, <1>s DEF Rises, Mine, BoundTo
<1>9. 1 \in 1 .. Len(evs) /\ 1 > 0
  BY <1>2 DEF Pops
<1>10. ~Restless(bound[p].thread, 0)
  BY <1>8, <1>9 DEF Restless
<1> QED
  BY <1>1, <1>3, <1>10 DEF At, Sound, Rests

\* A look that finds no turn coming finds none.
LEMMA LookIsEarned ==
    ASSUME BusInv, FollowInv, ChecksDue, NEW p \in Panes, Tells(p), bound[p].followed
    PROVE  Quiet(bound[p].thread) /\ \A s \in bound[p].subs : s.idled
<1>s. Shape /\ Sorts /\ p \in Bound /\ bound'[p].subs = {} /\ bound[p].subs # {}
  BY DEF BusInv, FollowInv, Tells
<1>1. Whole(bound[p]) /\ Sound(p) /\ evs = <<>>
  BY <1>s DEF Sorts, Wholes, FollowInv, Followed, ChecksDue, Waits
<1>2. PICK c \in checks : c.left = 0 /\ c.pane = p /\ NoTurnComing(bound[p], c)
  <2>1. bound' = [q \in Panes |->
              IF q \in Bound /\ \E c \in {d \in checks : d.left = 0} : c.pane = q /\ NoTurnComing(bound[q], c)
              THEN [bound[q] EXCEPT !.subs = {}] ELSE bound[q]]
    BY DEF ChecksDue
  <2> QED
    BY <1>s, <2>1
<1>3. turn[bound[p].thread] = 0
  BY <1>s, <1>1, <1>2, ToldAll DEF Sound, NoTurnComing
<1>4. queue[bound[p].thread] = <<>>
  BY <1>1, <1>2, <1>3 DEF Sound, Taken, NoTurnComing
<1> QED
  BY <1>1, <1>3, <1>4 DEF Quiet, Sound, Rests, Restless

\* Any other step leaves the subscribers, or closes the inbox.
LEMMA NobodyElseTells ==
    ASSUME BusInv, FollowInv, Drops, [Next]_vars, ~HandleStatus, ~ChecksDue,
           NEW p \in Panes, Tells(p)
    PROVE  FALSE
<1>s. /\ Shape /\ Sorts /\ p \in Bound /\ bound'[p].subs = {} /\ bound[p].subs # {}
      /\ bound'[p].key = bound[p].key /\ bound[p].key # 0
  BY DEF BusInv, FollowInv, Tells, Bound
<1>w. Fields(bound[p]) /\ Whole(bound[p])
  BY <1>s DEF Shape, Sorts, Wholes
<1>b. bound' # bound
  BY <1>s
<1>1. CASE Codex
  <2>1. ~\E q \in Panes : Starts(q) \/ Quits(q) \/ \E t \in Threads : Shows(q, t)
    BY <1>b DEF Starts, Quits, Shows, TuiOnly, worker
  <2>2. ~\E t \in Threads : Unloads(t) \/ PersonAsks(t) \/ TakesQueued(t)
    BY <1>b DEF Unloads, TuiOnly, PersonAsks, TakesQueued, Begins, worker
  <2>3. ASSUME NEW t \in Threads, TurnEnds(t) PROVE FALSE
    <3>1. bound' = Rested(t)
      BY <1>b, <2>3 DEF TurnEnds
    <3>2. bound'[p] = IF p \in BoundTo(t)
                      THEN [bound[p] EXCEPT !.subs = {[s EXCEPT !.idled = TRUE] : s \in @}] ELSE bound[p]
      BY <3>1 DEF Rested
    <3>3. {[s EXCEPT !.idled = TRUE] : s \in bound[p].subs} # {}
      BY <1>s
    <3> QED
      BY <1>s, <1>w, <3>2, <3>3 DEF Whole
  <2>4. ASSUME NEW dies \in BOOLEAN, Breaks(dies) PROVE FALSE
    <3>1. bound' = Unfollowed
      BY <2>4 DEF Breaks
    <3>2. bound'[p] = [bound[p] EXCEPT !.followed = FALSE]
      BY <1>s, <3>1 DEF Unfollowed
    <3> QED
      BY <1>s, <1>w, <3>2 DEF Whole
  <2> QED
    BY <1>1, <2>1, <2>2, <2>3, <2>4 DEF Codex
<1>2. CASE HandleWant \/ HandleThreads \/ RetryDue
  BY <1>b, <1>2 DEF HandleWant, HandleThreads, RetryDue
<1>3. CASE HandleClosed
  <2>1. bound'[p] = [bound[p] EXCEPT !.subscribed = FALSE]
    BY <1>s, <1>3 DEF HandleClosed
  <2> QED
    BY <1>s, <1>w, <2>1 DEF Whole
<1>4. CASE HandleTurn
  <2>1. PICK q, v : q \in Panes /\ bound' = [bound EXCEPT ![q].active = v]
    BY <1>b, <1>4 DEF HandleTurn, BoundTo, Bound
  <2>2. bound'[p] = bound[p] \/ bound'[p] = [bound[p] EXCEPT !.active = v]
    BY <1>s, <2>1 DEF Shape
  <2> QED
    BY <1>s, <1>w, <2>2 DEF Whole
<1>5. CASE HandleMail \/ HandleTold
  <2>1. PICK q, v : q \in Panes /\ \/ bound' = [bound EXCEPT ![q].last = v]
                                   \/ bound' = [bound EXCEPT ![q].followed = @ /\ v]
    BY <1>b, <1>5 DEF HandleMail, HandleTold, Key, Bound
  <2>2. \/ bound'[p] = bound[p]
        \/ bound'[p] = [bound[p] EXCEPT !.last = v]
        \/ bound'[p] = [bound[p] EXCEPT !.followed = @ /\ v]
    BY <1>s, <2>1 DEF Shape
  <2> QED
    BY <1>s, <1>w, <2>2 DEF Whole
<1>6. CASE HandleAsk
  <2>0. PICK q \in Key : bound' = [bound EXCEPT ![q].subs =
                              {s \in bound[q].subs : s.to # e.to} \cup {[to |-> e.to, idled |-> e.idled]}]
    BY <1>b, <1>6 DEF HandleAsk
  <2>1. PICK others, s : q \in Panes /\ bound' = [bound EXCEPT ![q].subs = others \cup {s}]
    BY <2>0 DEF Key, Bound
  <2>2. bound'[p] = bound[p] \/ bound'[p] = [bound[p] EXCEPT !.subs = others \cup {s}]
    BY <1>s, <2>1 DEF Shape
  <2> QED
    BY <1>s, <1>w, <2>2 DEF Whole
<1>7. ASSUME NEW q \in Panes, Unbind(q) PROVE FALSE
  <2>1. bound' = [bound EXCEPT ![q] = NoBinding]
    BY <1>7 DEF Unbind
  <2>2. bound'[p] = bound[p] \/ bound'[p].key = 0
    BY <1>s, <2>1 DEF Shape, NoBinding
  <2> QED
    BY <1>s, <2>2
<1>8. CASE Bind
  <2>1. PICK j \in First(todo.join) :
            /\ todo.drop = {}
            /\ \/ bound' = Doubted(j.thread)
               \/ \E n : bound' = [Doubted(j.thread) EXCEPT ![j.pane] = n]
    BY <1>8 DEF Bind
  <2>2. j.pane \in Panes /\ j.pane \notin Bound
    BY <2>1 DEF First, BusInv, Todo, Fits
  <2>3. bound'[p] = Doubted(j.thread)[p]
    BY <1>s, <2>1, <2>2 DEF Doubted
  <2>4. bound'[p] = bound[p] \/ bound'[p] = [bound[p] EXCEPT !.followed = FALSE]
    BY <2>3 DEF Doubted
  <2> QED
    BY <1>s, <1>w, <2>4 DEF Whole
<1>9. CASE Tick \/ Offer \/ (\E q \in Panes : Send(q)) \/ UNCHANGED vars
  BY <1>b, <1>9 DEF Tick, Offer, Send, vars, worker
<1>10. CASE Reexec
  BY <1>s, <1>10 DEF Reexec, NewWorker, NoBinding
<1> QED
  BY <1>1, <1>2, <1>3, <1>4, <1>5, <1>6, <1>7, <1>8, <1>9, <1>10 DEF Next, Works, Handles

\* An idle notice is earned (idle.rs:31-41): the thread has been idle, with
\* nothing queued, since the subscription was sent; and one that no turn preceded
\* goes out only while nothing that was handed over waits to be taken.
THEOREM NoticesAreEarned == Spec => NoticeEarned
<1>1. ASSUME BusInv, FollowInv, Drops, [Next]_vars, NEW p \in Panes, Tells(p), bound[p].followed
      PROVE  /\ \A s \in bound[p].subs : s.idled
             /\ evs = <<>> => Quiet(bound[p].thread)
  <2>1. CASE HandleStatus
    BY <1>1, <2>1, NoteIsEarned
  <2>2. CASE ChecksDue
    BY <1>1, <2>2, LookIsEarned
  <2> QED
    BY <1>1, <2>1, <2>2, NobodyElseTells
<1>2. BusInv /\ FollowInv /\ Drops /\ [Next]_vars =>
          [\A p \in Panes : Tells(p) /\ bound[p].followed =>
              /\ \A s \in bound[p].subs : s.idled
              /\ evs = <<>> => Quiet(bound[p].thread)]_vars
  BY <1>1
<1> QED
  BY <1>2, Invariance, FollowedAlways, PTL DEF Spec, NoticeEarned
=============================================================================
