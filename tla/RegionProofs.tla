---------------------------- MODULE RegionProofs ----------------------------
(***************************************************************************)
(* Proofs about the region a session shares with its renderers (GridShm)   *)
(* and about the window of history that is shown in it (ViewSync).         *)
(***************************************************************************)
EXTENDS GridShm, ViewSync, SequenceTheorems, TLAPS

-----------------------------------------------------------------------------
(***************************************************************************)
(* The region, for every set of readers, every division of the frame into  *)
(* parts and every bound.  The argument is the seqlock's: while the number *)
(* is even the region is whole and carries it (WriterInv), so the parts an *)
(* attempt has loaded are that frame's for as long as the number has not   *)
(* moved (ReaderInv); what passed the second check is therefore whole      *)
(* (MirrorInv).                                                            *)
(***************************************************************************)
WriterInv ==
    /\ ~Odd(seq) => \A p \in Parts : mem[p] = seq
    /\ wpc = "idle" => ~Odd(seq)
    /\ wpc = "copy" => /\ Odd(seq)
                       /\ seq + 1 <= MaxSeq
                       /\ \A p \in Parts \ todo : mem[p] = seq + 1

ReaderInv(r) ==
    rpc[r] = "copy" =>
        /\ tries[r] > 0
        /\ s1[r] > 0
        /\ s1[r] <= seq
        /\ ~Odd(s1[r])
        /\ seq = s1[r] => \A p \in Parts \ left[r] : got[r][p] = s1[r]

MirrorInv(r) ==
    \A p \in Parts : /\ mirror[r][p] = mirror[r][Header]
                     /\ mirror[r][p] <= seq
                     /\ ~Odd(mirror[r][p])

IInv == /\ TypeOK
        /\ WriterInv
        /\ \A r \in Readers : ReaderInv(r)
        /\ \A r \in Readers : MirrorInv(r)

\* One step changes the parity.
LEMMA Parity == \A n \in Nat : Odd(n + 1) <=> ~Odd(n)
  BY DEF Odd

LEMMA InitInv == Init => IInv
  <1> SUFFICES ASSUME Init PROVE IInv
    OBVIOUS
  <1> USE HeaderAssumption, TriesAssumption, MaxSeqAssumption
  <1>1. NoFrame \in Frames
    BY DEF NoFrame, Frames, Numbers, Garbage
  <1>2. TypeOK
    BY <1>1 DEF Init, TypeOK
  <1>3. WriterInv
    BY DEF Init, WriterInv, NoFrame, Odd
  <1>4. \A r \in Readers : ReaderInv(r)
    BY DEF Init, ReaderInv
  <1>5. \A r \in Readers : MirrorInv(r)
    BY DEF Init, MirrorInv, NoFrame, Odd
  <1> QED
    BY <1>2, <1>3, <1>4, <1>5 DEF IInv

\* The number only grows, and while it is even the region keeps its frame.
LEMMA WriterStep ==
  ASSUME IInv, Write \/ Die
  PROVE  IInv'
  <1> USE HeaderAssumption, TriesAssumption, MaxSeqAssumption
  <1>1. TypeOK /\ WriterInv /\ (\A r \in Readers : ReaderInv(r)) /\ (\A r \in Readers : MirrorInv(r))
    BY DEF IInv
  <1>2. seq \in Nat /\ (Odd(seq + 1) <=> ~Odd(seq))
    BY <1>1, Parity DEF TypeOK
  <1>3. UNCHANGED readerVars
    BY DEF Write, Die, Enter, Store, Leave
  <1>4. ASSUME seq' \in Nat, seq' >= seq, TypeOK', WriterInv',
               seq' = seq \/ Odd(seq) \/ Odd(seq')
        PROVE  IInv'
    <2>1. ASSUME NEW r \in Readers PROVE ReaderInv(r)'
      BY <1>1, <1>2, <1>3, <1>4 DEF ReaderInv, readerVars, TypeOK
    <2>2. ASSUME NEW r \in Readers PROVE MirrorInv(r)'
      BY <1>1, <1>2, <1>3, <1>4 DEF MirrorInv, readerVars, TypeOK, Frames, Numbers, Garbage
    <2> QED
      BY <1>4, <2>1, <2>2 DEF IInv
  <1>5. CASE Enter
    <2>1. TypeOK'
      BY <1>1, <1>3, <1>5 DEF TypeOK, Enter, readerVars
    <2>2. WriterInv'
      BY <1>1, <1>2, <1>5 DEF WriterInv, TypeOK, Enter
    <2> QED
      BY <1>2, <1>4, <1>5, <2>1, <2>2 DEF Enter
  <1>6. ASSUME NEW p \in Parts, Store(p) PROVE IInv'
    <2>1. Odd(seq) /\ seq + 1 <= MaxSeq
      BY <1>1, <1>6 DEF WriterInv, Store
    <2>2. TypeOK'
      BY <1>1, <1>3, <1>6, <2>1 DEF TypeOK, Store, readerVars, Publishing, Frames, Numbers, Garbage
    <2>3. WriterInv'
      BY <1>1, <1>2, <1>6, <2>1 DEF WriterInv, TypeOK, Store, Publishing, Frames
    <2> QED
      BY <1>2, <1>4, <1>6, <2>2, <2>3 DEF Store
  <1>7. CASE Leave
    <2>1. Odd(seq) /\ seq + 1 <= MaxSeq
      BY <1>1, <1>7 DEF WriterInv, Leave
    <2>2. TypeOK'
      BY <1>1, <1>3, <1>7, <2>1 DEF TypeOK, Leave, readerVars, Publishing
    <2>3. WriterInv'
      BY <1>1, <1>2, <1>7 DEF WriterInv, TypeOK, Leave, Publishing
    <2> QED
      BY <1>2, <1>4, <1>7, <2>1, <2>2, <2>3 DEF Leave, Publishing
  <1>8. CASE Die
    <2>1. TypeOK'
      BY <1>1, <1>3, <1>8 DEF TypeOK, Die, readerVars
    <2>2. WriterInv'
      BY <1>1, <1>8 DEF WriterInv, Die
    <2> QED
      BY <1>2, <1>4, <1>8, <2>1, <2>2 DEF Die
  <1> QED
    BY <1>5, <1>6, <1>7, <1>8 DEF Write

\* A reader changes nothing of the writer's and nothing of another reader's.
LEMMA ReaderStep ==
  ASSUME IInv, NEW r \in Readers, Read(r)
  PROVE  IInv'
  <1> USE HeaderAssumption, TriesAssumption, MaxSeqAssumption
  <1>1. TypeOK /\ WriterInv /\ (\A q \in Readers : ReaderInv(q)) /\ (\A q \in Readers : MirrorInv(q))
    BY DEF IInv
  <1>2. UNCHANGED writerVars
    BY DEF Read, StartPoll, Begin, Spin, GiveUp, Load, Retry, Accept
  <1>3. WriterInv'
    BY <1>1, <1>2 DEF WriterInv, writerVars
  <1>4. ASSUME TypeOK', ReaderInv(r)', MirrorInv(r)',
               \A q \in Readers \ {r} : /\ rpc'[q] = rpc[q] /\ tries'[q] = tries[q] /\ s1'[q] = s1[q]
                                        /\ left'[q] = left[q] /\ got'[q] = got[q]
                                        /\ mirror'[q] = mirror[q]
        PROVE  IInv'
    <2>1. ASSUME NEW q \in Readers PROVE ReaderInv(q)'
      <3>1. CASE q = r
        BY <1>4, <3>1
      <3>2. CASE q # r
        BY <1>1, <1>2, <1>4, <3>2 DEF ReaderInv, writerVars
      <3> QED
        BY <3>1, <3>2
    <2>2. ASSUME NEW q \in Readers PROVE MirrorInv(q)'
      <3>1. CASE q = r
        BY <1>4, <3>1
      <3>2. CASE q # r
        BY <1>1, <1>2, <1>4, <3>2 DEF MirrorInv, writerVars
      <3> QED
        BY <3>1, <3>2
    <2> QED
      BY <1>3, <1>4, <2>1, <2>2 DEF IInv
  <1>5. ReaderInv(r) /\ MirrorInv(r)
    BY <1>1
  <1>6. CASE StartPoll(r)
    <2>1. TypeOK'
      BY <1>1, <1>6 DEF TypeOK, StartPoll, writerVars
    <2>2. ReaderInv(r)' /\ MirrorInv(r)'
      BY <1>1, <1>5, <1>6 DEF ReaderInv, MirrorInv, TypeOK, StartPoll, writerVars
    <2> QED
      BY <1>1, <1>4, <1>6, <2>1, <2>2 DEF StartPoll, TypeOK
  <1>7. CASE Begin(r)
    <2>1. NoFrame \in Frames
      BY DEF NoFrame, Frames, Numbers, Garbage
    <2>2. TypeOK'
      BY <1>1, <1>7, <2>1 DEF TypeOK, Begin, writerVars
    <2>3. ReaderInv(r)' /\ MirrorInv(r)'
      BY <1>1, <1>5, <1>7 DEF ReaderInv, MirrorInv, TypeOK, Begin, writerVars
    <2> QED
      BY <1>1, <1>4, <1>7, <2>2, <2>3 DEF Begin, TypeOK
  <1>8. CASE Spin(r)
    <2>1. TypeOK'
      BY <1>1, <1>8 DEF TypeOK, Spin, writerVars
    <2>2. ReaderInv(r)' /\ MirrorInv(r)'
      BY <1>1, <1>5, <1>8 DEF ReaderInv, MirrorInv, TypeOK, Spin, writerVars
    <2> QED
      BY <1>1, <1>4, <1>8, <2>1, <2>2 DEF Spin, TypeOK
  <1>9. CASE GiveUp(r)
    <2>1. TypeOK'
      BY <1>1, <1>9 DEF TypeOK, GiveUp, writerVars
    <2>2. ReaderInv(r)' /\ MirrorInv(r)'
      BY <1>1, <1>5, <1>9 DEF ReaderInv, MirrorInv, TypeOK, GiveUp, writerVars
    <2> QED
      BY <1>1, <1>4, <1>9, <2>1, <2>2 DEF GiveUp, TypeOK
  <1>10. ASSUME NEW p \in Parts, Load(r, p) PROVE IInv'
    <2>1. PICK v \in {mem[p]} \union (IF Racing THEN {Garbage} ELSE {}) :
                got' = [got EXCEPT ![r][p] = v]
      BY <1>10 DEF Load
    <2>2. v \in Numbers
      BY <1>1, <2>1 DEF TypeOK, Frames, Numbers, Garbage
    <2>3. TypeOK'
      BY <1>1, <1>10, <2>1, <2>2 DEF TypeOK, Load, writerVars, Frames
    <2>4. ~Odd(seq) => v = seq
      BY <1>1, <2>1 DEF WriterInv, Racing
    <2>5. ReaderInv(r)'
      BY <1>1, <1>5, <1>10, <2>1, <2>4 DEF ReaderInv, TypeOK, Load, writerVars, Frames
    <2>6. MirrorInv(r)'
      BY <1>5, <1>10 DEF MirrorInv, Load, writerVars
    <2> QED
      BY <1>1, <1>4, <1>10, <2>1, <2>3, <2>5, <2>6 DEF Load, TypeOK
  <1>11. CASE Retry(r)
    <2>1. TypeOK'
      BY <1>1, <1>5, <1>11 DEF TypeOK, ReaderInv, Retry, writerVars
    <2>2. ReaderInv(r)' /\ MirrorInv(r)'
      BY <1>1, <1>5, <1>11 DEF ReaderInv, MirrorInv, TypeOK, Retry, writerVars
    <2> QED
      BY <1>1, <1>4, <1>11, <2>1, <2>2 DEF Retry, TypeOK
  <1>12. CASE Accept(r)
    <2>1. \A p \in Parts : got[r][p] = seq
      BY <1>5, <1>12 DEF ReaderInv, Accept
    <2>2. TypeOK'
      BY <1>1, <1>12 DEF TypeOK, Accept, writerVars
    <2>3. ReaderInv(r)'
      BY <1>1, <1>12 DEF ReaderInv, TypeOK, Accept
    <2>4. mirror'[r] = got[r] /\ seq' = seq /\ ~Odd(seq)
      BY <1>1, <1>5, <1>12 DEF TypeOK, ReaderInv, Accept, writerVars
    <2>5. MirrorInv(r)'
      BY <1>1, <2>1, <2>4 DEF MirrorInv, TypeOK
    <2> QED
      BY <1>1, <1>4, <1>12, <2>2, <2>3, <2>5 DEF Accept, TypeOK
  <1> QED
    BY <1>6, <1>7, <1>8, <1>9, <1>10, <1>11, <1>12 DEF Read

LEMMA NextInv == IInv /\ [Next]_vars => IInv'
  <1> SUFFICES ASSUME IInv, [Next]_vars PROVE IInv'
    OBVIOUS
  <1>1. CASE Write \/ Die
    BY <1>1, WriterStep
  <1>2. ASSUME NEW r \in Readers, Read(r) PROVE IInv'
    BY <1>2, ReaderStep
  <1>3. CASE UNCHANGED vars
    BY <1>3 DEF vars, writerVars, readerVars, IInv, TypeOK, WriterInv, ReaderInv, MirrorInv
  <1> QED
    BY <1>1, <1>2, <1>3 DEF Next

LEMMA Invariance == Spec => []IInv
  BY InitInv, NextInv, PTL DEF Spec

\* Every variable keeps its type, for every set of readers and of parts.
THEOREM TypeCorrect == Spec => []TypeOK
  <1>1. IInv => TypeOK
    BY DEF IInv
  <1> QED
    BY <1>1, Invariance, PTL

\* No reader ever shows a half-written frame (grid_shm.rs:17-27).
THEOREM TearFree == Spec => []WholeFrames
  <1>1. IInv => WholeFrames
    BY HeaderAssumption DEF IInv, MirrorInv, WholeFrames
  <1> QED
    BY <1>1, Invariance, PTL

\* No reader shows a frame whose publish was not complete when it was taken.
THEOREM PublishedOnly == Spec => []OnlyPublished
  <1>1. IInv => OnlyPublished
    BY DEF IInv, MirrorInv, OnlyPublished
  <1> QED
    BY <1>1, Invariance, PTL

\* The region is a register of whole frames (FrameRegister): the even store is
\* its Publish, an accepted copy its Take, and every other step a stutter.
THEOREM Refinement == Spec => ImplementsRegister
  <1> USE HeaderAssumption, TriesAssumption, MaxSeqAssumption
  <1> DEFINE latest == IF Odd(seq) THEN seq - 1 ELSE seq
             shown == [r \in Readers |-> Shown(r)]
  <1>1. Init => Register!Init
    BY DEF Init, Register!Init, NoFrame, Odd, Shown
  <1>2. IInv /\ [Next]_vars => [Register!Next]_<<latest, shown>>
    <2> SUFFICES ASSUME IInv, [Next]_vars
                 PROVE  Register!Next \/ UNCHANGED <<latest, shown>>
      OBVIOUS
    <2>1. TypeOK /\ WriterInv /\ (\A r \in Readers : ReaderInv(r))
      BY DEF IInv
    <2>2. seq \in Nat /\ (Odd(seq + 1) <=> ~Odd(seq))
      BY <2>1, Parity DEF TypeOK
    <2>3. CASE UNCHANGED vars
      BY <2>3 DEF vars, writerVars, readerVars, Shown
    <2>4. CASE Enter
      <3>1. seq' = seq + 1 /\ mirror' = mirror /\ ~Odd(seq)
        BY <2>1, <2>4 DEF Enter, readerVars, WriterInv
      <3> QED
        BY <2>2, <3>1 DEF Shown
    <2>5. ASSUME NEW p \in Parts, Store(p) PROVE UNCHANGED <<latest, shown>>
      BY <2>5 DEF Store, readerVars, Shown
    <2>6. CASE Leave
      <3>1. seq' = seq + 1 /\ mirror' = mirror /\ Odd(seq)
        BY <2>1, <2>6 DEF Leave, Publishing, readerVars, WriterInv
      <3>2. latest' > latest /\ UNCHANGED shown
        BY <2>2, <3>1 DEF Shown
      <3> QED
        BY <3>2 DEF Register!Next, Register!Publish
    <2>7. CASE Die
      BY <2>7 DEF Die, readerVars, Shown
    <2>8. ASSUME NEW r \in Readers, Read(r), ~Accept(r) PROVE UNCHANGED <<latest, shown>>
      BY <2>8 DEF Read, StartPoll, Begin, Spin, GiveUp, Load, Retry, writerVars, Shown
    <2>9. ASSUME NEW r \in Readers, Accept(r) PROVE Register!Next
      <3>1. seq' = seq /\ mirror' = [mirror EXCEPT ![r] = got[r]]
        BY <2>9 DEF Accept, writerVars
      <3>2. ~Odd(seq) /\ seq > 0 /\ \A p \in Parts : got[r][p] = seq
        BY <2>1, <2>9 DEF ReaderInv, Accept, TypeOK
      <3>3. mirror'[r] = got[r] /\ \A q \in Readers \ {r} : mirror'[q] = mirror[q]
        BY <2>1, <3>1 DEF TypeOK
      <3>4. Shown(r)' = seq
        BY <3>2, <3>3 DEF Shown
      <3>5. ASSUME NEW q \in Readers \ {r} PROVE Shown(q)' = Shown(q)
        BY <3>3, <3>5 DEF Shown, Garbage
      <3>6. shown' = [shown EXCEPT ![r] = latest]
        BY <3>2, <3>4, <3>5
      <3> QED
        BY <3>1, <3>2, <3>6 DEF Register!Next, Register!Take
    <2> QED
      BY <2>3, <2>4, <2>5, <2>6, <2>7, <2>8, <2>9 DEF Next, Write
  <1> QED
    BY <1>1, <1>2, Invariance, PTL DEF Spec, ImplementsRegister, Register!Spec
-----------------------------------------------------------------------------
(***************************************************************************)
(* The scrolled view, for every width of the wire's numbers, every height  *)
(* of the pane and any number of lines, moves and images of the session:   *)
(* what a person reads stays where it is while output arrives.             *)
(***************************************************************************)
\* The variables the argument reads are numbers, or None.
Sizes == /\ main \in Nat /\ base \in 0 .. main /\ alt \in 0 .. MaxLines \cup {None}
         /\ off \in Nat /\ last \in Nat
         /\ wire \in Seq(Nat)
         /\ view \in Nat /\ seen.depth \in Nat

\* The region shows what the offset says, and the last turn counted all that
\* was pushed.
Current == frame = Picture(off, Depth, Pushed, OnAlt) /\ last = Count

\* The line that was asked for is where the offset points.
Anchored == anchor # None => alt = None /\ (main < W => anchor = main - Least(off, main))

ViewInv == Sizes /\ Current /\ Anchored

\* The constants are numbers.
LEMMA ViewNumbers ==
    /\ W \in Nat /\ W > 1 /\ AltCap \in Nat /\ Rows \in Nat /\ None \notin Nat
    /\ MaxLines \in Nat /\ MaxLines > 0
BY ViewAssumption

\* A difference that is not negative is a number.
LEMMA Minus == \A a, b \in Nat : (a >= b => a - b \in Nat) /\ (a > b => a - b \in Nat)
OBVIOUS

\* Least is no larger than either.
LEMMA LeastIsOne == \A a, b \in Nat : Least(a, b) \in Nat /\ Least(a, b) <= b /\ Least(a, b) <= a
BY DEF Least

\* What a u16 holds.
LEMMA Wraps == \A m \in Int : m % W \in Nat
BY ViewNumbers
LEMMA Unwrapped == \A m \in Nat : m < W => m % W = m
BY ViewNumbers

\* A pinned offset is a number.
LEMMA PinnedNat == \A o, d, m \in Nat : Pinned(o, d, m) \in Nat
BY DEF Pinned, Least

\* What was pushed is added to an offset in history, so the line at the top of
\* the window stays, also where the window had reached the oldest line.
LEMMA PinHolds ==
    ASSUME NEW o \in Nat \ {0}, NEW m \in Nat, NEW d \in Nat
    PROVE  (m + d) - Least(Pinned(o, d, m + d), m + d) = m - Least(o, m)
BY DEF Pinned, Least

\* What the program prints only adds lines.
LEMMA Fed ==
    ASSUME Sizes, NEW o \in Outputs, Feed(o)
    PROVE  /\ main' \in Nat /\ main' >= main /\ base' = base
           /\ alt' \in 0 .. MaxLines \cup {None}
           /\ Depth' \in Nat /\ Pushed' \in Nat /\ Count' \in Nat
<1>1. o.before \in 0 .. 2 /\ o.after \in 0 .. 1 /\ MaxLines \in Nat
  BY ViewAssumption DEF Outputs
<1>2. main' \in Nat /\ main' >= main
  <2>1. main \in Nat /\ o.before \in Nat /\ o.after \in Nat
    BY <1>1 DEF Sizes
  <2>2. \E a \in {0, o.before}, b \in {0, o.after} : main' = main + (a + b)
    BY Zenon DEF Feed
  <2> QED BY <2>1, <2>2
<1>3. alt' \in 0 .. MaxLines \cup {None}
  <2>1. CASE o.switch
    BY <1>1, <2>1, ViewNumbers DEF Feed
  <2>2. CASE ~o.switch
    <3>1. alt' = IF OnAlt THEN Least(alt + o.before, MaxLines) ELSE None
      BY <2>2, Zenon DEF Feed
    <3>2. OnAlt => alt + o.before \in Nat
      BY <1>1 DEF OnAlt, Sizes
    <3>3. OnAlt => Least(alt + o.before, MaxLines) \in 0 .. MaxLines
      BY <1>1, <3>2 DEF Least
    <3> QED BY <3>1, <3>3, Zenon
  <2> QED BY <2>1, <2>2
<1>4. base' = base
  BY DEF Feed
<1>5. Depth' \in Nat /\ Pushed' \in Nat /\ Count' \in Nat
  <2>0. base \in 0 .. main /\ main \in Nat
    BY DEF Sizes
  <2>a. main' - base \in Nat
    <3>1. main' >= base /\ main' \in Nat /\ base \in Nat
      BY <1>2, <2>0
    <3> QED BY <3>1, Minus
  <2>1. CASE alt' = None
    <3>1. Depth' = main' /\ Pushed' = main' /\ Count' = main' - base'
      BY <2>1 DEF Depth, Pushed, Count, OnAlt
    <3> QED BY <1>2, <1>4, <2>a, <3>1, Zenon
  <2>2. CASE alt' # None
    <3>1. Depth' = Least(alt', AltCap) /\ Pushed' = alt' /\ Count' = alt' /\ alt' \in 0 .. MaxLines
      BY <1>3, <2>2, Zenon DEF Depth, Pushed, Count, OnAlt
    <3>2. alt' \in Nat /\ Least(alt', AltCap) \in Nat
      BY <3>1, ViewNumbers, LeastIsOne
    <3> QED BY <3>1, <3>2, Zenon
  <2> QED BY <2>1, <2>2
<1> QED BY <1>2, <1>3, <1>4, <1>5

\* The offset asked for last is a number.
LEMMA AskedNat == ASSUME Sizes, NEW n \in 0 .. Len(wire) PROVE Asked(n) \in Nat /\ SubSeq(wire, n + 1, Len(wire)) \in Seq(Nat)
<1>1. wire \in Seq(Nat) /\ Len(wire) \in Nat /\ n \in Nat
  BY LenProperties DEF Sizes
<1>2. SubSeq(wire, n + 1, Len(wire)) \in Seq(Nat)
  BY <1>1, SubSeqProperties
<1>3. n # 0 => wire[n] \in Nat
  BY <1>1, ElementOfSeq
<1> QED BY <1>2, <1>3 DEF Asked, Sizes

\* A turn that shows nothing new had nothing to show.
LEMMA NothingNew ==
    ASSUME ViewInv, Feed(Quiet)
    PROVE  UNCHANGED <<main, base, alt>> /\ Count' = last
<1>1. main' = main /\ alt' = alt /\ base' = base
  <2>1. main' = main + 0
    BY DEF Feed, Quiet, ViewInv, Sizes
  <2>2. alt # None => alt' = Least(alt + 0, MaxLines)
    BY DEF Feed, Quiet, OnAlt
  <2> QED BY <2>1, <2>2, ViewNumbers DEF Feed, Quiet, ViewInv, Sizes, OnAlt, Least
<1> QED BY <1>1 DEF Count, OnAlt, ViewInv, Current

\* A turn of the session: requests, output, pin and publish, in that order.
LEMMA TurnKeeps == ASSUME ViewInv, Turn PROVE ViewInv'
<1>1. PICK n \in 0 .. Len(wire), o \in Outputs :
         /\ Feed(o)
         /\ LET delta == IF Count' > last THEN Least(Count' - last, W - 1) ELSE 0
            IN  off' = Pinned(Asked(n), delta, Depth' % W)
         /\ last' = Count'
         /\ frame' = IF o # Quiet \/ Asked(n) # off
                     THEN Picture(off', Depth', Pushed', OnAlt') ELSE frame
         /\ wire' = SubSeq(wire, n + 1, Len(wire))
         /\ anchor' = Anchor(n, o)
         /\ UNCHANGED <<view, req, seen>>
  BY DEF Turn, l2
<1>2. /\ main' \in Nat /\ main' >= main /\ base' = base
      /\ alt' \in 0 .. MaxLines \cup {None}
      /\ Depth' \in Nat /\ Pushed' \in Nat /\ Count' \in Nat
  BY <1>1, Fed DEF ViewInv
<1>c. PICK c \in Nat : c = Count'
  BY <1>2
<1>d. PICK d \in Nat : d = Depth'
  BY <1>2
<1> DEFINE delta == IF c > last THEN Least(c - last, W - 1) ELSE 0
<1>3. Asked(n) \in Nat /\ wire' \in Seq(Nat)
  BY <1>1, AskedNat DEF ViewInv
<1>4. delta \in Nat /\ off' = Pinned(Asked(n), delta, d % W)
  <2>1. last \in Nat /\ W - 1 \in Nat
    BY ViewNumbers DEF ViewInv, Sizes
  <2>2. c > last => c - last \in Nat
    BY <1>c, <2>1, Minus, Zenon
  <2>3. delta \in Nat
    BY <1>c, <2>1, <2>2, LeastIsOne
  <2>4. off' = Pinned(Asked(n), delta, d % W)
    BY <1>1, <1>c, <1>d, Zenon
  <2> QED BY <2>3, <2>4
<1>5. d % W \in Nat
  BY <1>d, Wraps
<1> HIDE DEF delta
<1>6. Sizes'
  <2>1. off' \in Nat
    BY <1>3, <1>4, <1>5, PinnedNat
  <2>2. last' \in Nat
    BY <1>1, <1>2
  <2>3. view' \in Nat /\ seen'.depth \in Nat
    BY <1>1 DEF Sizes, ViewInv
  <2>4. base' \in 0 .. main'
    BY <1>2 DEF Sizes, ViewInv
  <2> QED BY <1>2, <1>3, <2>1, <2>2, <2>3, <2>4 DEF Sizes
<1>7. Current'
  <2>1. CASE o # Quiet \/ Asked(n) # off
    BY <1>1, <2>1 DEF Current
  <2>2. CASE o = Quiet /\ Asked(n) = off
    <3>1. UNCHANGED <<main, base, alt>> /\ Count' = last
      BY <1>1, <2>2, NothingNew
    <3>2. delta = 0
      BY <1>c, <3>1 DEF delta, ViewInv, Sizes
    <3>3. off' = off
      BY <1>4, <2>2, <3>2 DEF Pinned
    <3>4. frame' = frame
      BY <1>1, <2>2
    <3> QED BY <1>1, <3>1, <3>3, <3>4 DEF Current, ViewInv, Picture, Depth, Pushed, OnAlt
  <2> QED BY <2>1, <2>2
<1>8. Anchored'
  <2> SUFFICES ASSUME anchor' # None PROVE alt' = None /\ (main' < W => anchor' = main' - Least(off', main'))
    BY DEF Anchored
  <2>1. ~OnAlt /\ ~o.switch /\ Asked(n) # 0
    <3>1. OnAlt \/ o.switch \/ Asked(n) = 0 => Anchor(n, o) = None
      BY Zenon DEF Anchor
    <3> QED BY <1>1, <3>1, Zenon
  <2>2. o.before \in 0 .. 2 /\ o.after = 0
    BY <1>1, <2>1 DEF Feed, Outputs
  <2>3. alt = None /\ alt' = None /\ main' = main + o.before
    <3>1. alt = None /\ alt' = None
      BY <1>1, <2>1 DEF Feed, OnAlt
    <3>2. main' = main + (o.before + 0)
      BY <1>1, <2>1, Zenon DEF Feed
    <3> QED BY <2>2, <3>1, <3>2
  <2>4. ASSUME main' < W PROVE anchor' = main' - Least(off', main')
    <3>1. main \in Nat /\ main < W /\ main % W = main /\ main' % W = main'
      <4>1. main \in Nat /\ main' \in Nat /\ main < W
        BY <1>2, <2>4, ViewNumbers DEF ViewInv, Sizes
      <4> QED BY <2>4, <4>1, Unwrapped
    <3>2. last = main - base /\ c = main' - base /\ d = main' /\ base \in 0 .. main
      BY <1>2, <1>c, <1>d, <2>3 DEF ViewInv, Current, Sizes, Count, Depth, OnAlt
    <3>3. delta = o.before
      <4>1. \A m, b, k \in Nat : (m + k) - b - (m - b) = k /\ ((m + k) - b > m - b <=> k > 0)
        OBVIOUS
      <4>2. main \in Nat /\ base \in Nat /\ o.before \in Nat /\ c = (main + o.before) - base /\ last = main - base
        <5>1. base \in Nat
          BY <3>1, <3>2
        <5>2. c = (main + o.before) - base
          BY <2>3, <3>2
        <5>3. o.before \in Nat
          BY <2>2
        <5>4. main \in Nat /\ last = main - base
          BY <3>1, <3>2
        <5> QED BY <5>1, <5>2, <5>3, <5>4, Zenon
      <4>3. c - last = o.before /\ (c > last <=> o.before > 0)
        <5>1. /\ (main + o.before) - base - (main - base) = o.before
              /\ (main + o.before) - base > main - base <=> o.before > 0
          BY <4>1, <4>2
        <5> QED BY <4>2, <5>1, Zenon
      <4>4. o.before < W
        <5>1. \A m, k \in Nat : m + k < W => k < W
          BY ViewNumbers
        <5> QED BY <2>3, <2>4, <4>2, <5>1, Zenon
      <4> QED BY <2>2, <4>3, <4>4, ViewNumbers DEF Least, delta
    <3>4. anchor' = main - Least(Asked(n), main)
      <4>1. CASE n = 0
        <5>1. anchor' = anchor /\ Asked(n) = off
          BY <1>1, <2>1, <4>1 DEF Anchor, Asked
        <5> QED BY <3>1, <5>1 DEF ViewInv, Anchored
      <4>2. CASE n # 0
        BY <1>1, <2>1, <3>1, <4>2 DEF Anchor
      <4> QED BY <4>1, <4>2
    <3>5. off' = Pinned(Asked(n), o.before, main + o.before)
      BY <1>4, <2>3, <3>1, <3>2, <3>3
    <3>6. Asked(n) \in Nat \ {0} /\ o.before \in Nat
      BY <1>3, <2>1, <2>2
    <3>7. (main + o.before) - Least(off', main + o.before) = main - Least(Asked(n), main)
      BY <3>1, <3>5, <3>6, PinHolds
    <3> QED BY <2>3, <3>4, <3>7
  <2> QED BY <2>3, <2>4
<1> QED BY <1>6, <1>7, <1>8 DEF ViewInv

\* The next image shows the live tail.
LEMMA ExecKeeps == ASSUME ViewInv, Exec PROVE ViewInv'
<1>1. PICK n \in 0 .. Len(wire), b \in 0 .. main :
         /\ base' = b /\ UNCHANGED <<main, alt>>
         /\ off' = 0 /\ last' = Count'
         /\ frame' = Picture(0, Depth, Pushed, OnAlt)
         /\ wire' = SubSeq(wire, n + 1, Len(wire))
         /\ anchor' = None
         /\ UNCHANGED <<view, req, seen>>
  BY DEF Exec, l2
<1>2. wire' \in Seq(Nat)
  BY <1>1, AskedNat DEF ViewInv
<1>3. Count' \in Nat
  BY <1>1, ViewNumbers DEF Count, OnAlt, ViewInv, Sizes
<1>4. Sizes'
  BY <1>1, <1>2, <1>3 DEF ViewInv, Sizes
<1>5. Depth' = Depth /\ Pushed' = Pushed /\ OnAlt' = OnAlt
  BY <1>1 DEF Depth, Pushed, OnAlt
<1> QED BY <1>1, <1>4, <1>5 DEF ViewInv, Current, Anchored

\* The renderer's steps ask for windows and look at them.
LEMMA RendererKeeps ==
    ASSUME ViewInv, UNCHANGED <<term, l3, anchor>>, wire' \in Seq(Nat), view' \in Nat, seen'.depth \in Nat
    PROVE  ViewInv'
<1>1. Sizes' /\ Anchored'
  BY DEF ViewInv, Sizes, Anchored, term, l3
<1>2. Current'
  BY DEF ViewInv, Current, Picture, Depth, Pushed, Count, OnAlt, term, l3
<1> QED BY <1>1, <1>2 DEF ViewInv

\* A request is one more offset on the wire.
LEMMA Asks ==
    ASSUME ViewInv, NEW o \in Nat, Forward(o)
    PROVE  wire' \in Seq(Nat) /\ view' \in Nat
BY AppendProperties DEF Forward, ViewInv, Sizes

\* The depth of a frame is a number.
LEMMA FrameDepth == ASSUME ViewInv PROVE frame.depth \in Nat
BY ViewNumbers DEF ViewInv, Sizes, Current, Picture, Depth, OnAlt, Least

\* What a person has scrolled to stays in the window, whatever the program prints
\* and in whatever order requests and output reach the session's turn.
THEOREM WhatIsReadStays == ViewSpec => []ReadingStays
<1>1. ViewInit => ViewInv
  <2> SUFFICES ASSUME ViewInit PROVE ViewInv
    OBVIOUS
  <2>1. 0 % W = 0
    BY Unwrapped, ViewNumbers
  <2>2. Picture(0, 0, 0, FALSE).depth = 0
    BY DEF Picture
  <2>3. Sizes
    <3>1. base \in 0 .. main /\ main \in Nat /\ off \in Nat /\ last \in Nat /\ view \in Nat
      BY DEF ViewInit
    <3>2. wire \in Seq(Nat)
      BY EmptySeq DEF ViewInit
    <3>3. seen.depth \in Nat
      <4>1. seen = Picture(0, 0, 0, FALSE)
        BY DEF ViewInit
      <4>2. seen.depth = 0
        BY <2>2, <4>1, Zenon
      <4> QED BY <4>2
    <3>4. alt = None
      BY DEF ViewInit
    <3> QED BY <3>1, <3>2, <3>3, <3>4 DEF Sizes
  <2>4. Depth = 0 /\ Pushed = 0 /\ OnAlt = FALSE /\ Count = 0
    BY DEF ViewInit, Depth, Pushed, OnAlt, Count
  <2>5. Current
    BY <2>4 DEF ViewInit, Current
  <2> QED BY <2>3, <2>5 DEF ViewInit, ViewInv, Anchored
<1>2. ViewInv /\ [ViewNext]_viewVars => ViewInv'
  <2> SUFFICES ASSUME ViewInv, [ViewNext]_viewVars PROVE ViewInv'
    OBVIOUS
  <2>0. wire \in Seq(Nat) /\ view \in Nat /\ seen.depth \in Nat
    BY DEF ViewInv, Sizes
  <2>1. CASE Turn
    BY <2>1, TurnKeeps
  <2>2. CASE Exec
    BY <2>2, ExecKeeps
  <2>3. CASE L2Poll
    <3>1. view' \in Nat
      <4>1. Least(frame.depth, W - 1) \in Nat
        BY FrameDepth, LeastIsOne, ViewNumbers
      <4>2. view' = Pinned(view, 0, Least(frame.depth, W - 1))
        BY <2>3 DEF L2Poll, MirrorPushed
      <4> QED BY <2>0, <4>1, <4>2, PinnedNat
    <3> QED BY <2>0, <2>3, <3>1, FrameDepth, RendererKeeps DEF L2Poll
  <2>4. CASE Scroll
    <3>1. PICK d \in {-2, -1, 1, 2} :
            Move /\ Forward(Clamp(view + d, Least(seen.depth, W - 1)))
      BY <2>4 DEF Scroll
    <3>2. Clamp(view + d, Least(seen.depth, W - 1)) \in Nat
      <4>1. Least(seen.depth, W - 1) \in Nat
        BY <2>0, ViewNumbers DEF Least
      <4>2. \A x \in Int, m \in Nat : Clamp(x, m) \in Nat
        BY DEF Clamp, Least
      <4>3. view + d \in Int
        BY <2>0
      <4> QED BY <4>1, <4>2, <4>3, Zenon
    <3> QED BY <2>0, <3>1, <3>2, Asks, RendererKeeps DEF Move
  <2>5. CASE Jump
    <3>1. PICK k \in 0 .. Least(seen.depth, W - 1) + Rows - 1 : Move /\ Forward(k % W)
      BY <2>5 DEF Jump
    <3>2. k % W \in Nat
      BY Wraps
    <3> QED BY <2>0, <3>1, <3>2, Asks, RendererKeeps DEF Move
  <2>6. CASE Type
    BY <2>0, <2>6, Asks, RendererKeeps DEF Type, Move
  <2>7. CASE NewCore
    BY <2>0, <2>7, RendererKeeps DEF NewCore, Picture
  <2>8. CASE UNCHANGED viewVars
    BY <2>0, <2>8, RendererKeeps DEF viewVars, l2
  <2> QED BY <2>1, <2>2, <2>3, <2>4, <2>5, <2>6, <2>7, <2>8 DEF ViewNext
<1>3. ViewInv => ReadingStays
  <2> SUFFICES ASSUME ViewInv, anchor # None, main < W PROVE frame.top = anchor
    BY DEF ReadingStays
  <2>1. Depth = main /\ Pushed = main /\ main \in Nat /\ anchor = main - Least(off, main)
    BY DEF ViewInv, Anchored, Sizes, Depth, Pushed, OnAlt
  <2>2. main % W = main
    BY <2>1, Unwrapped
  <2>3. frame = Picture(off, main, main, OnAlt)
    BY <2>1 DEF ViewInv, Current
  <2>4. frame.top = main - Least(off, main)
    BY <2>2, <2>3 DEF Picture
  <2> QED BY <2>1, <2>4
<1> QED BY <1>1, <1>2, <1>3, PTL DEF ViewSpec
=============================================================================
