---------------------------- MODULE FrameProofs ----------------------------
(***************************************************************************)
(* Proofs about the frames a session sends: the writer that queues them on *)
(* a socket (FrameWriter) and the path of a screen to a client's mirror    *)
(* (FramePath).                                                            *)
(***************************************************************************)
EXTENDS FrameWriter, FramePath, SequenceTheorems, TLAPS

-----------------------------------------------------------------------------
(***************************************************************************)
(* The bounded writer, for every cap, every set of frame sizes and any     *)
(* number of frames and images: what it accepts is delivered once and in   *)
(* order, and a backlog of nothing means delivered.                        *)
(***************************************************************************)

Frames == [n : 1 .. MaxFrames, size : Sizes]

\* n is the sum of the sizes of the frames of s: c counts them up.
SumIs(s, n) ==
    \E c \in [0 .. Len(s) -> Nat] :
        /\ c[0] = 0 /\ c[Len(s)] = n
        /\ \A i \in 1 .. Len(s) : c[i] = c[i - 1] + s[i].size
        /\ \A i, j \in 0 .. Len(s) : i <= j => c[i] <= c[j]

LEMMA FrameParts ==
    \A f \in Frames : f.size \in Nat /\ f.size > 0 /\ f.n \in 1 .. MaxFrames /\ f.n \in Nat
<1> TAKE f \in Frames
<1>1. f.size \in Sizes /\ f.n \in 1 .. MaxFrames
  BY DEF Frames
<1>2. f.size \in Nat \ {0}
  BY <1>1, SizesAssumption
<1> QED
  BY <1>1, <1>2, BoundsAssumption

LEMMA EmptySum == SumIs(<<>>, 0)
<1> DEFINE c == [i \in 0 .. 0 |-> 0]
<1>1. Len(<<>>) = 0
  OBVIOUS
<1>2. c \in [0 .. 0 -> Nat] /\ c[0] = 0
  OBVIOUS
<1> HIDE DEF c
<1>3. \A i, j \in 0 .. 0 : i <= j => c[i] <= c[j]
  BY <1>2
<1> QED
  BY <1>1, <1>2, <1>3 DEF SumIs

\* A frame queued adds its size.
LEMMA SumBehind ==
    ASSUME NEW s \in Seq(Frames), NEW f \in Frames, NEW n \in Nat, SumIs(s, n)
    PROVE  SumIs(Append(s, f), n + f.size)
<1> DEFINE t == Append(s, f)
<1>1. /\ Len(t) = Len(s) + 1 /\ Len(s) \in Nat /\ t[Len(s) + 1] = f
      /\ \A i \in 1 .. Len(s) : t[i] = s[i]
      /\ f.size \in Nat
  BY AppendProperties, FrameParts
<1>2. PICK c \in [0 .. Len(s) -> Nat] :
        /\ c[0] = 0 /\ c[Len(s)] = n
        /\ \A i \in 1 .. Len(s) : c[i] = c[i - 1] + s[i].size
        /\ \A i, j \in 0 .. Len(s) : i <= j => c[i] <= c[j]
  BY DEF SumIs
<1> DEFINE d == [i \in 0 .. Len(t) |-> IF i <= Len(s) THEN c[i] ELSE n + f.size]
<1> HIDE DEF t
<1>3. /\ d \in [0 .. Len(t) -> Nat]
      /\ \A i \in 0 .. Len(s) : d[i] = c[i]
      /\ d[Len(t)] = n + f.size
  BY <1>1
<1> HIDE DEF d
<1>4. d[0] = 0
  BY <1>1, <1>2, <1>3
<1>5. ASSUME NEW i \in 1 .. Len(t) PROVE d[i] = d[i - 1] + t[i].size
  <2>1. CASE i = Len(t)
    BY <1>1, <1>2, <1>3, <2>1
  <2>2. CASE i # Len(t)
    <3>1. i \in 1 .. Len(s) /\ i \in 0 .. Len(s) /\ i - 1 \in 0 .. Len(s)
      BY <1>1, <2>2
    <3> QED
      BY <1>1, <1>2, <1>3, <3>1
  <2> QED
    BY <2>1, <2>2
<1>6. ASSUME NEW i \in 0 .. Len(t), NEW j \in 0 .. Len(t), i <= j PROVE d[i] <= d[j]
  <2>1. CASE j # Len(t)
    <3>1. i \in 0 .. Len(s) /\ j \in 0 .. Len(s)
      BY <1>1, <1>6, <2>1
    <3> QED
      BY <1>2, <1>3, <1>6, <3>1
  <2>2. CASE j = Len(t) /\ i # Len(t)
    <3>1. i \in 0 .. Len(s) /\ Len(s) \in 0 .. Len(s) /\ i <= Len(s)
      BY <1>1, <2>2
    <3>2. c[i] <= n /\ c[i] \in Nat
      BY <1>2, <3>1
    <3> QED
      BY <1>1, <1>3, <2>2, <3>1, <3>2
  <2>3. CASE j = Len(t) /\ i = Len(t)
    BY <1>1, <1>3, <2>3
  <2> QED
    BY <2>1, <2>2, <2>3
<1>7. SumIs(t, n + f.size)
  BY <1>3, <1>4, <1>5, <1>6 DEF SumIs
<1> QED
  BY <1>7 DEF t

\* A frame taken from the front takes its size with it.
LEMMA SumInFront ==
    ASSUME NEW s \in Seq(Frames), NEW n \in Nat, SumIs(s, n), s # <<>>
    PROVE  n - Head(s).size \in Nat /\ SumIs(Tail(s), n - Head(s).size)
<1> DEFINE t == Tail(s)
           h == Head(s).size
<1>1. /\ Len(s) = Len(t) + 1 /\ Len(t) \in Nat
      /\ \A i \in 1 .. Len(t) : t[i] = s[i + 1]
      /\ h = s[1].size /\ h \in Nat
  BY HeadTailProperties, FrameParts
<1>2. PICK c \in [0 .. Len(s) -> Nat] :
        /\ c[0] = 0 /\ c[Len(s)] = n
        /\ \A i \in 1 .. Len(s) : c[i] = c[i - 1] + s[i].size
        /\ \A i, j \in 0 .. Len(s) : i <= j => c[i] <= c[j]
  BY DEF SumIs
<1> HIDE DEF t, h
<1>3. c[1] = h
  BY <1>1, <1>2
<1>4. \A i \in 0 .. Len(t) : i + 1 \in 0 .. Len(s) /\ h <= c[i + 1] /\ c[i + 1] \in Nat
  BY <1>1, <1>2, <1>3
<1> DEFINE d == [i \in 0 .. Len(t) |-> c[i + 1] - h]
<1>5. /\ d \in [0 .. Len(t) -> Nat] /\ d[0] = 0
      /\ \A i \in 0 .. Len(t) : d[i] = c[i + 1] - h
  BY <1>1, <1>3, <1>4
<1> HIDE DEF d
<1>6. d[Len(t)] = n - h /\ n - h \in Nat
  <2>1. Len(t) \in 0 .. Len(t) /\ Len(t) + 1 = Len(s)
    BY <1>1
  <2> QED
    BY <1>2, <1>5, <2>1
<1>7. ASSUME NEW i \in 1 .. Len(t) PROVE d[i] = d[i - 1] + t[i].size
  <2>1. /\ i + 1 \in 1 .. Len(s) /\ (i + 1) - 1 = i /\ (i - 1) + 1 = i
        /\ i \in 0 .. Len(t) /\ i - 1 \in 0 .. Len(t) /\ i \in 0 .. Len(s)
    BY <1>1
  <2>2. c[i + 1] = c[i] + s[i + 1].size /\ d[i] = c[i + 1] - h /\ d[i - 1] = c[i] - h
    BY <1>2, <1>5, <2>1
  <2>3. t[i] = s[i + 1] /\ s[i + 1].size \in Nat /\ c[i] \in Nat
    BY <1>1, <1>2, <2>1, ElementOfSeq, FrameParts
  <2> QED
    BY <1>1, <2>2, <2>3
<1>8. ASSUME NEW i \in 0 .. Len(t), NEW j \in 0 .. Len(t), i <= j PROVE d[i] <= d[j]
  <2>1. i + 1 <= j + 1 /\ i + 1 \in 0 .. Len(s) /\ j + 1 \in 0 .. Len(s)
    BY <1>1, <1>4, <1>8
  <2>2. c[i + 1] <= c[j + 1]
    BY <1>2, <2>1
  <2> QED
    BY <1>1, <1>4, <1>5, <2>2
<1>9. SumIs(t, n - h)
  BY <1>5, <1>6, <1>7, <1>8 DEF SumIs
<1> QED
  BY <1>6, <1>9 DEF t, h
-----------------------------------------------------------------------------
(* The invariant. *)

Types == /\ tried \in 0 .. MaxFrames /\ call \in {"idle", "add", "put"} /\ open \in BOOLEAN
         /\ call # "idle" => cur \in Frames
         /\ queue \in Seq(Frames) /\ hand \in Seq(Frames) /\ Len(hand) <= 1
         /\ left \in Nat /\ (hand = <<>> => left = 0) /\ (hand # <<>> => left <= Head(hand).size)
         /\ pending \in Nat
         /\ accepted \in Seq(Nat) /\ wire \in Seq(Nat)
         /\ torn \subseteq 1 .. MaxFrames /\ image \in 1 .. MaxImages

InHand == IF hand = <<>> THEN 0 ELSE Head(hand).size
InCall == IF call = "put" THEN cur.size ELSE 0

\* What is pending is what the thread holds, what is queued and what send()
\* has counted in and not queued yet; a frame that passed the check still fits
\* when it is counted in, since in between the thread only counts out; and a
\* writer that was closed is in no call.
Counted == /\ \E q \in Nat : SumIs(queue, q) /\ pending = InHand + q + InCall
           /\ pending <= Cap
           /\ call = "add" => pending + cur.size <= Cap
           /\ ~open => call = "idle"

IInv == Types /\ Counted

LEMMA TakeParts ==
    ASSUME NEW s \in Seq(Frames), s # <<>>
    PROVE  /\ Head(s) \in Frames /\ Tail(s) \in Seq(Frames)
           /\ Head(s).size \in Nat /\ Head(s).size > 0
           /\ Head(s).n \in 1 .. MaxFrames /\ Head(s).n \in Nat
BY HeadTailProperties, FrameParts

LEMMA LastOne ==
    ASSUME NEW s \in Seq(Frames), s # <<>>, Len(s) <= 1
    PROVE  Tail(s) = <<>>
<1>1. Len(s) \in Nat /\ Len(s) # 0
  BY EmptySeq, LenProperties
<1>2. Len(s) = 1
  <2>1. \A n \in Nat : n # 0 /\ n <= 1 => n = 1
    OBVIOUS
  <2> QED
    BY <1>1, <2>1, Zenon
<1>3. Tail(s) \in Seq(Frames) /\ Len(Tail(s)) = 0
  BY <1>2, HeadTailProperties
<1> QED
  BY <1>3, EmptySeq

LEMMA One == ASSUME NEW f \in Frames
             PROVE  /\ <<f>> \in Seq(Frames) /\ Len(<<f>>) = 1 /\ <<f>> # <<>>
                    /\ Head(<<f>>) = f
OBVIOUS

LEMMA InitInv == WriterInit => IInv
<1> SUFFICES ASSUME WriterInit PROVE IInv
  OBVIOUS
<1>1. Types
  <2>1. <<>> \in Seq(Frames) /\ <<>> \in Seq(Nat) /\ Len(<<>>) = 0
    BY EmptySeq
  <2> QED
    BY <2>1, BoundsAssumption DEF WriterInit, Types
<1>2. pending = InHand + 0 + InCall /\ SumIs(queue, 0)
  BY EmptySum DEF WriterInit, InHand, InCall
<1> QED
  BY <1>1, <1>2, BoundsAssumption DEF WriterInit, IInv, Counted

LEMMA StepInv == IInv /\ [WriterNext]_writerVars => IInv'
<1> SUFFICES ASSUME IInv, [WriterNext]_writerVars PROVE IInv'
  OBVIOUS
<1>a. Types /\ Counted
  BY DEF IInv
<1>b. PICK q \in Nat : SumIs(queue, q) /\ pending = InHand + q + InCall
  BY <1>a DEF Counted
<1>c. /\ Cap \in Nat /\ MaxFrames \in Nat /\ MaxImages \in Nat
      /\ queue \in Seq(Frames) /\ hand \in Seq(Frames) /\ pending \in Nat
  BY <1>a, BoundsAssumption DEF Types
<1>d. InHand \in Nat /\ InCall \in Nat
  <2>1. hand # <<>> => Head(hand).size \in Nat
    BY <1>c, TakeParts
  <2>2. call = "put" => cur.size \in Nat
    BY <1>a, FrameParts DEF Types
  <2> QED
    BY <2>1, <2>2 DEF InHand, InCall
<1>1. ASSUME NEW size \in Sizes, Check(size) PROVE IInv'
  <2>1. /\ call = "idle" /\ open /\ tried' = tried + 1 /\ tried < MaxFrames
        /\ UNCHANGED <<open, queue, hand, left, pending, accepted, wire, torn, image>>
    BY <1>1 DEF Check, threadVars
  <2>2. tried' \in 1 .. MaxFrames /\ Frame(tried', size) \in Frames /\ Frame(tried', size).size = size
    BY <1>a, <1>c, <2>1 DEF Types, Frame, Frames
  <2>3. \/ call' = "idle"
        \/ call' = "add" /\ cur' = Frame(tried', size) /\ pending + size <= Cap
    BY <1>1, <1>c, <2>1, SizesAssumption DEF Check
  <2>4. Types'
    BY <1>a, <2>1, <2>2, <2>3 DEF Types
  <2>5. InHand' = InHand /\ InCall = 0 /\ InCall' = 0
    BY <2>1, <2>3 DEF InHand, InCall
  <2> QED
    BY <1>a, <1>b, <2>1, <2>2, <2>3, <2>4, <2>5 DEF IInv, Counted
<1>2. CASE Add
  <2>1. /\ call = "add" /\ call' = "put" /\ pending' = pending + cur.size
        /\ UNCHANGED <<tried, cur, open, queue, hand, left, accepted, wire, torn, image>>
    BY <1>2 DEF Add, threadVars
  <2>2. cur \in Frames /\ cur.size \in Nat
    BY <1>a, <2>1, FrameParts DEF Types
  <2>3. InHand' = InHand /\ InCall = 0 /\ InCall' = cur.size
    BY <2>1 DEF InHand, InCall
  <2>4. Types'
    BY <1>a, <1>c, <2>1, <2>2 DEF Types
  <2>5. pending' = InHand' + q + InCall' /\ SumIs(queue', q)
    BY <1>b, <1>d, <2>1, <2>2, <2>3
  <2> QED
    BY <1>a, <2>1, <2>4, <2>5 DEF IInv, Counted
<1>3. CASE Put
  <2>1. /\ call = "put" /\ call' = "idle" /\ queue' = Append(queue, cur)
        /\ accepted' = Append(accepted, cur.n)
        /\ UNCHANGED <<tried, cur, open, hand, left, pending, wire, torn, image>>
    BY <1>3 DEF Put
  <2>2. cur \in Frames /\ cur.size \in Nat /\ cur.n \in Nat
    BY <1>a, <2>1, FrameParts DEF Types
  <2>3. queue' \in Seq(Frames) /\ SumIs(queue', q + cur.size)
    BY <1>b, <1>c, <2>1, <2>2, AppendProperties, SumBehind
  <2>4. accepted' \in Seq(Nat)
    BY <1>a, <2>1, <2>2, AppendProperties DEF Types
  <2>5. InHand' = InHand /\ InCall = cur.size /\ InCall' = 0
    BY <2>1 DEF InHand, InCall
  <2>6. pending' = InHand' + (q + cur.size) + InCall' /\ q + cur.size \in Nat
    BY <1>b, <1>d, <2>1, <2>2, <2>5
  <2>7. Types'
    BY <1>a, <2>1, <2>2, <2>3, <2>4 DEF Types
  <2> QED
    BY <1>a, <2>1, <2>3, <2>6, <2>7 DEF IInv, Counted
<1>4. CASE Close
  <2>1. /\ call = "idle" /\ open' = FALSE
        /\ UNCHANGED <<tried, cur, call, queue, hand, left, pending, accepted, wire, torn, image>>
    BY <1>4 DEF Close, threadVars
  <2>2. Types'
    BY <1>a, <2>1 DEF Types
  <2>3. InHand' = InHand /\ InCall' = InCall
    BY <2>1 DEF InHand, InCall
  <2> QED
    BY <1>a, <1>b, <2>1, <2>2, <2>3 DEF IInv, Counted
<1>5. CASE Replace
  <2>1. /\ ~open /\ open' = TRUE /\ image < MaxImages /\ image' = image + 1
        /\ queue' = <<>> /\ hand' = <<>> /\ left' = 0 /\ pending' = 0 /\ accepted' = wire
        /\ torn' = IF hand # <<>> /\ left < Head(hand).size
                   THEN torn \union {Head(hand).n} ELSE torn
        /\ UNCHANGED <<tried, cur, call, wire>>
    BY <1>5 DEF Replace
  <2>2. call = "idle"
    BY <1>a, <2>1 DEF Counted
  <2>3. torn' \subseteq 1 .. MaxFrames
    BY <1>a, <1>c, <2>1, TakeParts DEF Types
  <2>4. Types'
    BY <1>a, <1>c, <2>1, <2>2, <2>3, EmptySeq DEF Types
  <2>5. pending' = InHand' + 0 + InCall' /\ SumIs(queue', 0)
    BY <2>1, <2>2, EmptySum DEF InHand, InCall
  <2> QED
    BY <1>c, <2>1, <2>2, <2>4, <2>5 DEF IInv, Counted
<1>6. CASE Take
  <2>1. /\ hand = <<>> /\ queue # <<>> /\ hand' = <<Head(queue)>>
        /\ left' = Head(queue).size /\ queue' = Tail(queue)
        /\ UNCHANGED <<tried, cur, call, open, pending, accepted, wire, torn, image>>
    BY <1>6 DEF Take, callerVars
  <2> DEFINE h == Head(queue)
  <2>2. /\ h \in Frames /\ h.size \in Nat /\ queue' \in Seq(Frames)
        /\ q - h.size \in Nat /\ SumIs(queue', q - h.size)
    BY <1>b, <1>c, <2>1, TakeParts, SumInFront
  <2>3. /\ hand' \in Seq(Frames) /\ Len(hand') = 1 /\ hand' # <<>> /\ Head(hand') = h
    BY <2>1, <2>2, One
  <2>4. InHand = 0 /\ InHand' = h.size /\ InCall' = InCall
    BY <2>1, <2>3 DEF InHand, InCall
  <2>5. pending' = InHand' + (q - h.size) + InCall'
    BY <1>b, <1>d, <2>1, <2>2, <2>4
  <2>6. Types'
    BY <1>a, <2>1, <2>2, <2>3 DEF Types
  <2> QED
    BY <1>a, <2>1, <2>2, <2>5, <2>6 DEF IInv, Counted
<1>7. CASE WriteSome
  <2>1. /\ hand # <<>> /\ left > 0 /\ left' \in 0 .. left - 1
        /\ wire' = IF left' = 0 THEN Append(wire, Head(hand).n) ELSE wire
        /\ UNCHANGED <<tried, cur, call, open, queue, hand, pending, accepted, torn, image>>
    BY <1>7 DEF WriteSome, callerVars
  <2>2. Head(hand).n \in Nat /\ Head(hand).size \in Nat
    BY <1>c, <2>1, TakeParts
  <2>3. wire' \in Seq(Nat)
    BY <1>a, <2>1, <2>2, AppendProperties DEF Types
  <2>4. Types'
    BY <1>a, <2>1, <2>2, <2>3 DEF Types
  <2>5. InHand' = InHand /\ InCall' = InCall
    BY <2>1 DEF InHand, InCall
  <2> QED
    BY <1>a, <1>b, <2>1, <2>4, <2>5 DEF IInv, Counted
<1>8. CASE CountOut
  <2>1. /\ hand # <<>> /\ left = 0 /\ pending' = pending - Head(hand).size /\ hand' = <<>>
        /\ UNCHANGED <<tried, cur, call, open, queue, left, accepted, wire, torn, image>>
    BY <1>8 DEF CountOut, callerVars
  <2>2. InHand = Head(hand).size /\ InHand' = 0 /\ InCall' = InCall
    BY <2>1 DEF InHand, InCall
  <2>3. /\ pending' = InHand' + q + InCall' /\ pending' \in Nat /\ pending' <= pending
    <3>1. Head(hand).size \in Nat /\ q \in Nat /\ InCall \in Nat
      BY <1>b, <1>d, <2>2
    <3>2. pending = Head(hand).size + q + InCall
      BY <1>b, <2>2
    <3>3. pending - Head(hand).size = q + InCall
      BY <3>1, <3>2
    <3> QED
      BY <2>1, <2>2, <3>1, <3>2, <3>3
  <2>4. Types'
    BY <1>a, <2>1, <2>3, EmptySeq DEF Types
  <2>5. call = "add" => cur.size \in Nat
    BY <1>a, FrameParts DEF Types
  <2>6. pending' <= Cap /\ (call = "add" => pending' + cur.size <= Cap)
    BY <1>a, <1>c, <2>3, <2>5 DEF Counted
  <2> QED
    BY <1>a, <1>b, <2>1, <2>3, <2>4, <2>6 DEF IInv, Counted
<1>9. CASE UNCHANGED writerVars
  <2>1. Types'
    BY <1>a, <1>9 DEF Types, writerVars, callerVars, threadVars
  <2>2. UNCHANGED <<InHand, InCall, queue, pending, call, cur, open>>
    BY <1>9 DEF InHand, InCall, writerVars, callerVars, threadVars
  <2> QED
    BY <1>a, <1>b, <2>1, <2>2 DEF IInv, Counted
<1> QED
  BY <1>1, <1>2, <1>3, <1>4, <1>5, <1>6, <1>7, <1>8, <1>9 DEF WriterNext, Caller, Thread

\* Every variable keeps its type, and what is pending stays under the cap
\* however the thread's count-outs fall between a check and its count-in.
THEOREM TypeCorrect == WriterSpec => []WriterTypeOK
<1>1. IInv => WriterTypeOK
  <2> SUFFICES ASSUME IInv PROVE WriterTypeOK
    OBVIOUS
  <2>a. Types /\ Counted
    BY DEF IInv
  <2>b. PICK q \in Nat : pending = InHand + q + InCall
    BY <2>a DEF Counted
  <2>1. call = "put" => cur.size \in Nat
    BY <2>a, FrameParts DEF Types
  <2>2. hand # <<>> => Head(hand).size \in Nat
    BY <2>a, TakeParts DEF Types
  <2>3. InHand \in Nat /\ InCall \in Nat
    BY <2>1, <2>2 DEF InHand, InCall
  <2>4. left <= InHand
    BY <2>a, <2>2 DEF Types, InHand
  <2>5. left <= Cap
    BY <2>a, <2>b, <2>3, <2>4, BoundsAssumption DEF Types, Counted
  <2> QED
    BY <2>a, <2>5, BoundsAssumption DEF Types, Counted, WriterTypeOK
<1> QED
  BY <1>1, InitInv, StepInv, PTL DEF WriterSpec
-----------------------------------------------------------------------------
(* The order. *)

LEMMA NumbersTyped ==
    ASSUME NEW s \in Seq(Frames)
    PROVE  /\ Numbers(s) \in Seq(Nat) /\ Len(Numbers(s)) = Len(s) /\ Len(s) \in Nat
           /\ \A i \in 1 .. Len(s) : Numbers(s)[i] = s[i].n
<1>1. /\ DOMAIN s = 1 .. Len(s) /\ Len(s) \in Nat
      /\ \A i \in 1 .. Len(s) : s[i].n \in Nat
  BY LenProperties, ElementOfSeq, FrameParts
<1> QED
  BY <1>1 DEF Numbers

LEMMA NumbersAppend ==
    ASSUME NEW s \in Seq(Frames), NEW f \in Frames
    PROVE  Numbers(Append(s, f)) = Append(Numbers(s), f.n)
<1> DEFINE t == Append(s, f)
           u == Append(Numbers(s), f.n)
<1>1. /\ t \in Seq(Frames) /\ Len(t) = Len(s) + 1 /\ t[Len(s) + 1] = f
      /\ \A i \in 1 .. Len(s) : t[i] = s[i]
  BY AppendProperties
<1>2. /\ u \in Seq(Nat) /\ Len(u) = Len(s) + 1 /\ u[Len(s) + 1] = f.n /\ Len(s) \in Nat
      /\ \A i \in 1 .. Len(s) : u[i] = s[i].n
  BY NumbersTyped, AppendProperties, FrameParts
<1> HIDE DEF t, u
<1>3. /\ Numbers(t) \in Seq(Nat) /\ Len(Numbers(t)) = Len(u)
      /\ \A i \in 1 .. Len(u) : Numbers(t)[i] = t[i].n
  BY <1>1, <1>2, NumbersTyped
<1>4. ASSUME NEW i \in 1 .. Len(u) PROVE Numbers(t)[i] = u[i]
  <2>1. CASE i = Len(s) + 1
    BY <1>1, <1>2, <1>3, <2>1
  <2>2. CASE i # Len(s) + 1
    <3>1. i \in 1 .. Len(s)
      BY <1>2, <2>2
    <3> QED
      BY <1>1, <1>2, <1>3, <3>1
  <2> QED
    BY <2>1, <2>2
<1>5. Numbers(t) = u
  BY <1>2, <1>3, <1>4, SeqEqual
<1> QED
  BY <1>5 DEF t, u

LEMMA NumbersHead ==
    ASSUME NEW s \in Seq(Frames), s # <<>>
    PROVE  /\ Numbers(Tail(s)) \in Seq(Nat) /\ <<Head(s).n>> \in Seq(Nat)
           /\ Numbers(s) = <<Head(s).n>> \o Numbers(Tail(s))
<1> DEFINE t == Tail(s)
           h == <<Head(s).n>>
<1>1. /\ t \in Seq(Frames) /\ Len(t) = Len(s) - 1 /\ Head(s) = s[1]
      /\ \A i \in 1 .. Len(t) : t[i] = s[i + 1]
      /\ Head(s).n \in Nat
  BY HeadTailProperties, FrameParts
<1>2. h \in Seq(Nat) /\ Len(h) = 1 /\ h[1] = s[1].n
  BY <1>1
<1> HIDE DEF t, h
<1>3. /\ Numbers(t) \in Seq(Nat) /\ Len(Numbers(t)) = Len(t) /\ Len(t) \in Nat
      /\ \A i \in 1 .. Len(t) : Numbers(t)[i] = t[i].n
  BY <1>1, NumbersTyped
<1>4. /\ Numbers(s) \in Seq(Nat) /\ Len(Numbers(s)) = Len(t) + 1
      /\ \A i \in 1 .. Len(t) + 1 : Numbers(s)[i] = s[i].n
  BY <1>1, <1>3, NumbersTyped
<1> DEFINE u == h \o Numbers(t)
           v == Numbers(t)
<1> HIDE DEF v
<1>5. v \in Seq(Nat) /\ Len(v) = Len(t) /\ \A i \in 1 .. Len(t) : v[i] = t[i].n
  BY <1>3 DEF v
<1>a. h \in Seq(Nat) /\ v \in Seq(Nat)
  BY <1>2, <1>5
<1>6. /\ h \o v \in Seq(Nat) /\ Len(h \o v) = Len(h) + Len(v)
      /\ \A i \in 1 .. Len(h) + Len(v) : (h \o v)[i] = IF i <= Len(h) THEN h[i] ELSE v[i - Len(h)]
  BY <1>a, ConcatProperties
<1>7. ASSUME NEW i \in 1 .. Len(t) + 1 PROVE Numbers(s)[i] = (h \o v)[i]
  <2>1. CASE i = 1
    BY <1>2, <1>4, <1>5, <1>6, <2>1
  <2>2. CASE i # 1
    <3>1. i - 1 \in 1 .. Len(t) /\ (i - 1) + 1 = i /\ ~(i <= 1) /\ i \in 1 .. 1 + Len(t)
      BY <1>3, <2>2
    <3>2. (h \o v)[i] = v[i - 1]
      BY <1>2, <1>5, <1>6, <3>1
    <3>3. v[i - 1] = t[i - 1].n /\ t[i - 1] = s[i]
      BY <1>1, <1>5, <3>1
    <3> QED
      BY <1>4, <3>2, <3>3
  <2> QED
    BY <2>1, <2>2
<1>8. Len(h \o v) = Len(Numbers(s))
  BY <1>2, <1>3, <1>4, <1>5, <1>6
<1>9. Numbers(s) = h \o v
  BY <1>4, <1>6, <1>7, <1>8, SeqEqual
<1> QED
  BY <1>2, <1>3, <1>9 DEF t, h, v

LEMMA NumbersFew ==
    /\ Numbers(<<>>) = <<>>
    /\ \A f \in Frames : Numbers(<<f>>) = <<f.n>>
<1>1. Numbers(<<>>) = <<>>
  BY DEF Numbers
<1>2. ASSUME NEW f \in Frames PROVE Numbers(<<f>>) = <<f.n>>
  <2>1. <<>> \in Seq(Frames) /\ Append(<<>>, f) = <<f>> /\ Append(<<>>, f.n) = <<f.n>>
    BY EmptySeq
  <2> QED
    BY <1>1, <2>1, NumbersAppend
<1> QED
  BY <1>1, <1>2

\* The frame in the thread's hands, while it is not yet on the wire.
Writing == IF left > 0 THEN Numbers(hand) ELSE <<>>

LEMMA Regroup == \A a, b, c \in Seq(Nat) : (a \o b) \o c = a \o (b \o c)
BY ConcatAssociative

LEMMA EmptyNumbers == <<>> \in Seq(Nat) /\ \A a \in Seq(Nat) : a \o <<>> = a /\ <<>> \o a = a
BY ConcatEmptySeq, EmptySeq

\* What was accepted is on the wire, in the thread's hands or queued, once and
\* in order, whatever is refused in between (frame_writer.rs:13-22).
THEOREM DeliveredInOrder == WriterSpec => []AcceptedInOrder
<1>1. WriterInit => AcceptedInOrder
  <2> SUFFICES ASSUME WriterInit PROVE AcceptedInOrder
    OBVIOUS
  <2>1. <<>> \o <<>> \o <<>> = <<>>
    BY EmptyNumbers
  <2> QED
    BY <2>1, NumbersFew DEF WriterInit, AcceptedInOrder
<1>2. IInv /\ AcceptedInOrder /\ [WriterNext]_writerVars => AcceptedInOrder'
  <2> SUFFICES ASSUME IInv, AcceptedInOrder, [WriterNext]_writerVars PROVE AcceptedInOrder'
    OBVIOUS
  <2>a. /\ queue \in Seq(Frames) /\ hand \in Seq(Frames) /\ left \in Nat
        /\ wire \in Seq(Nat) /\ (hand = <<>> => left = 0)
        /\ call # "idle" => cur \in Frames
    BY DEF IInv, Types
  <2>b. accepted = wire \o Writing \o Numbers(queue)
    BY DEF AcceptedInOrder, Writing
  <2>c. Numbers(queue) \in Seq(Nat) /\ Numbers(hand) \in Seq(Nat) /\ Writing \in Seq(Nat)
    BY <2>a, NumbersTyped, EmptyNumbers DEF Writing
  <2>d. wire \o Writing \in Seq(Nat)
    BY <2>a, <2>c, ConcatProperties
  <2>1. CASE (\E size \in Sizes : Check(size)) \/ Add \/ Close \/ UNCHANGED writerVars
    <3>1. UNCHANGED <<accepted, wire, left, hand, queue>>
      BY <2>1 DEF Check, Add, Close, writerVars, threadVars
    <3> QED
      BY <2>b, <3>1 DEF AcceptedInOrder, Writing
  <2>2. CASE Put
    <3>1. /\ call = "put" /\ queue' = Append(queue, cur) /\ accepted' = Append(accepted, cur.n)
          /\ UNCHANGED <<wire, left, hand>>
      BY <2>2 DEF Put
    <3>2. cur \in Frames /\ cur.n \in Nat
      BY <2>a, <3>1, FrameParts
    <3>3. Numbers(queue') = Append(Numbers(queue), cur.n)
      BY <2>a, <3>1, <3>2, NumbersAppend
    <3> DEFINE a == wire \o Writing
               b == Numbers(queue)
               e == <<cur.n>>
    <3>4. a \in Seq(Nat) /\ b \in Seq(Nat) /\ e \in Seq(Nat) /\ a \o b \in Seq(Nat)
      BY <2>c, <2>d, <3>2, ConcatProperties
    <3>5. Append(b, cur.n) = b \o e /\ Append(a \o b, cur.n) = (a \o b) \o e
      BY <3>2, <3>4, AppendIsConcat
    <3> HIDE DEF e
    <3>6. (a \o b) \o e = a \o (b \o e)
      <4> HIDE DEF a, b
      <4> QED
        BY <3>4, Regroup
    <3>7. accepted' = a \o Numbers(queue')
      BY <2>b, <3>1, <3>3, <3>5, <3>6
    <3>8. wire' = wire /\ Writing' = Writing
      BY <3>1 DEF Writing
    <3>9. accepted' = wire' \o Writing' \o Numbers(queue')
      BY <3>7, <3>8
    <3> QED
      BY <3>9 DEF AcceptedInOrder, Writing
  <2>3. CASE Replace
    <3>1. queue' = <<>> /\ left' = 0 /\ accepted' = wire /\ wire' = wire
      BY <2>3 DEF Replace
    <3>2. wire \o <<>> \o <<>> = wire
      BY <2>a, EmptyNumbers
    <3>3. Numbers(queue') = <<>> /\ ~(left' > 0)
      BY <3>1, NumbersFew
    <3>4. wire' \o <<>> \o Numbers(queue') = wire
      BY <3>1, <3>2, <3>3
    <3> QED
      BY <3>1, <3>3, <3>4 DEF AcceptedInOrder
  <2>4. CASE Take
    <3>1. /\ hand = <<>> /\ queue # <<>> /\ hand' = <<Head(queue)>>
          /\ left' = Head(queue).size /\ queue' = Tail(queue)
          /\ UNCHANGED <<accepted, wire>>
      BY <2>4 DEF Take
    <3>2. Head(queue) \in Frames /\ Head(queue).size > 0 /\ left = 0
      BY <2>a, <3>1, TakeParts
    <3> DEFINE h == <<Head(queue).n>>
               r == Numbers(Tail(queue))
    <3>3. h \in Seq(Nat) /\ r \in Seq(Nat) /\ Numbers(queue) = h \o r
      BY <2>a, <3>1, NumbersHead
    <3>4. Numbers(hand') = h /\ Writing = <<>>
      BY <3>1, <3>2, NumbersFew DEF Writing
    <3>5. accepted = wire \o (h \o r)
      BY <2>a, <2>b, <3>3, <3>4, EmptyNumbers
    <3>6. Numbers(queue') = r /\ left' > 0
      BY <3>1, <3>2
    <3> HIDE DEF h, r
    <3>7. wire \o (h \o r) = (wire \o h) \o r
      BY <2>a, <3>3, Regroup
    <3> QED
      BY <3>1, <3>4, <3>5, <3>6, <3>7 DEF AcceptedInOrder
  <2>5. CASE WriteSome
    <3>1. /\ hand # <<>> /\ left > 0 /\ left' \in 0 .. left - 1
          /\ wire' = IF left' = 0 THEN Append(wire, Head(hand).n) ELSE wire
          /\ UNCHANGED <<accepted, hand, queue>>
      BY <2>5 DEF WriteSome
    <3>2. CASE left' # 0
      <4>1. left' > 0 /\ wire' = wire
        BY <2>a, <3>1, <3>2
      <4> QED
        BY <2>b, <3>1, <4>1 DEF AcceptedInOrder, Writing
    <3>3. CASE left' = 0
      <4>1. Head(hand) \in Frames /\ Tail(hand) = <<>> /\ Head(hand).n \in Nat
        <5>1. Len(hand) <= 1
          BY DEF IInv, Types
        <5> QED
          BY <2>a, <3>1, <5>1, LastOne, TakeParts
      <4> DEFINE e == <<Head(hand).n>>
      <4>2. e \in Seq(Nat) /\ Numbers(hand) = e
        <5>1. e \in Seq(Nat) /\ Numbers(hand) = e \o Numbers(Tail(hand))
          BY <2>a, <3>1, NumbersHead
        <5>2. Numbers(Tail(hand)) = <<>> /\ e \o <<>> = e
          BY <4>1, <5>1, NumbersFew, EmptyNumbers
        <5> QED
          BY <5>1, <5>2
      <4>3. wire' = wire \o e /\ wire' \in Seq(Nat)
        <5>1. wire' = Append(wire, Head(hand).n)
          BY <3>1, <3>3
        <5> QED
          BY <2>a, <4>1, <5>1, AppendIsConcat, AppendProperties
      <4>4. Writing = e
        BY <3>1, <4>2 DEF Writing
      <4>5. wire' \o <<>> = wire'
        BY <4>3, EmptyNumbers
      <4> QED
        BY <2>b, <3>1, <3>3, <4>3, <4>4, <4>5 DEF AcceptedInOrder
    <3> QED
      BY <3>2, <3>3
  <2>6. CASE CountOut
    <3>1. left = 0 /\ UNCHANGED <<accepted, wire, left, queue>>
      BY <2>6 DEF CountOut
    <3> QED
      BY <2>b, <3>1 DEF AcceptedInOrder, Writing
  <2> QED
    BY <2>1, <2>2, <2>3, <2>4, <2>5, <2>6 DEF WriterNext, Caller, Thread
<1> QED
  BY <1>1, <1>2, InitInv, StepInv, PTL DEF WriterSpec

\* A backlog of nothing means delivered: the execv and the reply guard wait
\* for it (frame_writer.rs:99-105).
THEOREM NoBacklogMeansDelivered == WriterSpec => []BacklogTruthful
<1>1. IInv /\ AcceptedInOrder => BacklogTruthful
  <2> SUFFICES ASSUME IInv, AcceptedInOrder, pending = 0 PROVE accepted = wire
    BY DEF BacklogTruthful
  <2>1. PICK q \in Nat : SumIs(queue, q) /\ pending = InHand + q + InCall
    BY DEF IInv, Counted
  <2>2. /\ queue \in Seq(Frames) /\ hand \in Seq(Frames) /\ wire \in Seq(Nat)
        /\ (hand = <<>> => left = 0) /\ (call # "idle" => cur \in Frames)
    BY DEF IInv, Types
  <2>3. /\ hand # <<>> => Head(hand).size \in Nat /\ Head(hand).size > 0
        /\ call = "put" => cur.size \in Nat
    BY <2>2, TakeParts, FrameParts
  <2>4. InHand \in Nat /\ InCall \in Nat /\ (InHand = 0 => hand = <<>>)
    BY <2>3 DEF InHand, InCall
  <2>5. hand = <<>> /\ q = 0 /\ left = 0
    BY <2>1, <2>2, <2>4
  <2>6. queue = <<>>
    <3>1. SUFFICES ASSUME queue # <<>> PROVE FALSE
      OBVIOUS
    <3>2. Head(queue).size \in Nat /\ Head(queue).size > 0
      BY <2>2, <3>1, TakeParts
    <3>3. 0 - Head(queue).size \in Nat
      BY <2>1, <2>2, <2>5, <3>1, SumInFront
    <3> QED
      BY <3>2, <3>3
  <2>7. wire \o <<>> \o <<>> = wire
    BY <2>2, EmptyNumbers
  <2> QED
    BY <2>5, <2>6, <2>7, NumbersFew DEF AcceptedInOrder
<1> QED
  BY <1>1, InitInv, StepInv, DeliveredInOrder, PTL DEF WriterSpec

-----------------------------------------------------------------------------
(***************************************************************************)
(* The frame path, for every set of screens, every length of the gates'    *)
(* holds and any number of clients, holds and chunks: what the gates hold  *)
(* back is owed and nothing else is, and the client the session has        *)
(* adopted is poked for as long as it runs.                                *)
(***************************************************************************)

(* What is owed. *)

\* The hash is the region's, a grid that is not held has nothing held back,
\* and a screen that was not shown is owed, while events are handled too.
DebtInv == /\ hash = region
           /\ ~hold => held = term
           /\ ~late /\ region # term.screen => syncOwed \/ blankOwed
           /\ pc = "wait" /\ ~term.sync /\ term.screen # Blank => ~syncOwed /\ ~blankOwed

\* A publish leaves exact debts, whatever turned the screen into what it is.
LEMMA PublishSettles ==
    ASSUME hash = region, Publish
    PROVE  /\ hash' = region'
           /\ region' # term'.screen => syncOwed' \/ blankOwed'
           /\ ~term'.sync /\ term'.screen # Blank => ~syncOwed' /\ ~blankOwed'
<1> DEFINE painting == Held(syncSince, term'.sync, SyncHold)
           wiped == Held(blankSince, term'.screen = Blank, BlankHold)
<1>1. CASE painting
  <2>1. syncOwed' = TRUE /\ UNCHANGED <<blankOwed, published>> /\ term'.sync
    BY <1>1 DEF Publish, Held
  <2> QED
    BY <2>1 DEF published
<1>2. CASE ~painting /\ wiped
  <2>1. blankOwed' = TRUE /\ UNCHANGED published /\ term'.screen = Blank
    BY <1>2 DEF Publish, Held
  <2> QED
    BY <2>1 DEF published
<1>3. CASE ~painting /\ ~wiped
  <2>1. syncOwed' = FALSE /\ blankOwed' = FALSE /\ Show(term'.screen)
    BY <1>3 DEF Publish
  <2>2. region' = term'.screen /\ hash' = term'.screen
    BY <2>1 DEF Show, published
  <2> QED
    BY <2>1, <2>2
<1> QED
  BY <1>1, <1>2, <1>3

\* When the loop sleeps, a screen that differs from the frame last published
\* is owed unless a hold's end made it, and nothing is owed that no gate holds
\* (main.rs:1430-1436, 679-684).
THEOREM DebtsExact == Spec => []DebtIsExact
<1>1. Init => DebtInv
  BY DEF Init, DebtInv, Shows
<1>2. DebtInv /\ [Next]_vars => DebtInv'
  <2> SUFFICES ASSUME DebtInv, [Next]_vars PROVE DebtInv'
    OBVIOUS
  <2>a. /\ hash = region /\ (~hold => held = term)
        /\ ~late /\ region # term.screen => syncOwed \/ blankOwed
        /\ pc = "wait" /\ ~term.sync /\ term.screen # Blank => ~syncOwed /\ ~blankOwed
    BY DEF DebtInv
  <2>1. CASE \/ \E c \in Chunks : Output(c)
             \/ Connect \/ \E c \in alive : L2Dies(c)
             \/ AskHold \/ Tick \/ L2Poll \/ UNCHANGED vars
    <3>1. UNCHANGED <<hash, region, hold, held, term, late, syncOwed, blankOwed, pc>>
      BY <2>1 DEF Output, Connect, L2Dies, AskHold, Tick, L2Poll, vars, terminal, gates, published
    <3> QED
      BY <2>a, <3>1 DEF DebtInv
  <2>2. CASE HandleNew
    <3>1. UNCHANGED <<hold, held, term>> /\ pc' = "batch" /\ Publish
      BY <2>2 DEF HandleNew, Handling, terminal
    <3>2. /\ hash' = region'
          /\ region' # term'.screen => syncOwed' \/ blankOwed'
      BY <2>a, <3>1, PublishSettles
    <3> QED
      BY <2>a, <3>1, <3>2 DEF DebtInv
  <2>3. CASE HandleGone
    <3>1. UNCHANGED <<hash, region, hold, held, term, late, syncOwed, blankOwed>> /\ pc' = "batch"
      BY <2>3 DEF HandleGone, Handling, terminal, gates, published
    <3> QED
      BY <2>a, <3>1 DEF DebtInv
  <2>4. CASE HandleHold
    <3>1. /\ term' = IF hold' THEN term ELSE held
          /\ late' = (late \/ term'.screen # term.screen)
          /\ UNCHANGED <<hash, region, held, syncOwed, blankOwed>> /\ pc' = "batch"
      BY <2>4 DEF HandleHold, Handling, published
    <3> QED
      BY <2>a, <3>1 DEF DebtInv
  <2>5. CASE Turn
    <3>1. PICK n \in 0 .. Len(rx) :
            /\ Pump(n) /\ hold' = hold
            /\ IF n > 0 \/ syncOwed \/ blankOwed THEN Publish
                                                 ELSE UNCHANGED <<gates, published, wake>>
      BY <2>5 DEF Turn
    <3>2. pc' = "wait"
      BY <2>5 DEF Turn
    <3>3. /\ term' = IF hold THEN term ELSE held'
          /\ n = 0 => held' = held
      BY <3>1 DEF Pump
    <3>4. ~hold' => held' = term'
      BY <3>1, <3>3
    <3>5. CASE Publish
      <4>1. /\ hash' = region'
            /\ region' # term'.screen => syncOwed' \/ blankOwed'
            /\ ~term'.sync /\ term'.screen # Blank => ~syncOwed' /\ ~blankOwed'
        BY <2>a, <3>5, PublishSettles
      <4> QED
        BY <3>4, <4>1 DEF DebtInv
    <3>6. CASE /\ ~(n > 0 \/ syncOwed \/ blankOwed)
               /\ UNCHANGED <<gates, published, wake>>
      <4>1. n = 0 /\ ~syncOwed /\ ~blankOwed
        BY <3>6
      <4>2. term' = term
        BY <2>a, <3>3, <4>1
      <4>3. UNCHANGED <<hash, region, late, syncOwed, blankOwed>>
        BY <3>6 DEF gates, published
      <4> QED
        BY <2>a, <3>4, <4>1, <4>2, <4>3 DEF DebtInv
    <3> QED
      BY <3>1, <3>5, <3>6
  <2> QED
    BY <2>1, <2>2, <2>3, <2>4, <2>5 DEF Next, Loop
<1>3. DebtInv => DebtIsExact
  BY DEF DebtInv, DebtIsExact
<1> QED
  BY <1>1, <1>2, <1>3, PTL DEF Spec

-----------------------------------------------------------------------------
(* Who is poked. *)

Events == [k : {"new", "gone", "hold"}, n : Nat]

IsNew(s, i, m) == s[i].k = "new" /\ s[i].n = m

PokeTypes == /\ evs \in Seq(Events)
             /\ client \in Nat /\ gen \in Nat /\ gen <= client
             /\ alive \subseteq 1 .. client
             /\ holds \in Nat

\* The clients not yet adopted wait in the channel, each once and in order.
Arrivals ==
    /\ \A i \in 1 .. Len(evs) : evs[i].k = "new" => evs[i].n \in gen + 1 .. client
    /\ \A m \in gen + 1 .. client : \E i \in 1 .. Len(evs) : IsNew(evs, i, m)
    /\ \A i, j \in 1 .. Len(evs) :
          evs[i].k = "new" /\ evs[j].k = "new" /\ i < j => evs[i].n < evs[j].n

\* A socket's end is of a client that is gone, and comes after its arrival:
\* the loop never takes it for the end of the client before.
Departures ==
    \A j \in 1 .. Len(evs) :
        evs[j].k = "gone" =>
            /\ evs[j].n \in 1 .. client /\ evs[j].n \notin alive
            /\ evs[j].n > gen => \E i \in 1 .. j - 1 : IsNew(evs, i, evs[j].n)

PokeInv == PokeTypes /\ Arrivals /\ Departures /\ (gen \in alive => poke = gen)

LEMMA Queued ==
    ASSUME PokeTypes, NEW e \in Events, evs' = Append(evs, e)
    PROVE  /\ evs' \in Seq(Events) /\ Len(evs) \in Nat /\ Len(evs') = Len(evs) + 1
           /\ \A i \in 1 .. Len(evs) : i \in 1 .. Len(evs') /\ evs'[i] = evs[i]
           /\ evs'[Len(evs) + 1] = e
           /\ \A i \in 1 .. Len(evs') : i # Len(evs) + 1 => i \in 1 .. Len(evs)
<1>1. /\ evs' \in Seq(Events) /\ Len(evs) \in Nat /\ Len(evs') = Len(evs) + 1
      /\ \A i \in 1 .. Len(evs) : evs'[i] = evs[i]
      /\ evs'[Len(evs) + 1] = e
  BY AppendProperties, LenProperties DEF PokeTypes
<1> QED
  BY <1>1

\* An event that is no arrival, put behind the others.
LEMMA NotNew ==
    ASSUME PokeTypes, Arrivals, NEW e \in Events, evs' = Append(evs, e), e.k # "new",
           UNCHANGED <<client, gen>>
    PROVE  Arrivals'
<1>1. /\ Len(evs) \in Nat /\ Len(evs') = Len(evs) + 1
      /\ \A i \in 1 .. Len(evs) : i \in 1 .. Len(evs') /\ evs'[i] = evs[i]
      /\ evs'[Len(evs) + 1] = e
      /\ \A i \in 1 .. Len(evs') : i # Len(evs) + 1 => i \in 1 .. Len(evs)
  BY Queued
<1>2. \A i \in 1 .. Len(evs') : evs'[i].k = "new" => i \in 1 .. Len(evs) /\ evs'[i] = evs[i]
  BY <1>1
<1>3. \A i \in 1 .. Len(evs') : evs'[i].k = "new" => evs'[i].n \in gen' + 1 .. client'
  BY <1>2 DEF Arrivals
<1>4. \A m \in gen' + 1 .. client' : \E i \in 1 .. Len(evs') : IsNew(evs', i, m)
  BY <1>1 DEF Arrivals, IsNew
<1>5. ASSUME NEW i \in 1 .. Len(evs'), NEW j \in 1 .. Len(evs'),
             evs'[i].k = "new", evs'[j].k = "new", i < j
      PROVE  evs'[i].n < evs'[j].n
  <2>1. i \in 1 .. Len(evs) /\ j \in 1 .. Len(evs) /\ evs'[i] = evs[i] /\ evs'[j] = evs[j]
    BY <1>2, <1>5
  <2> QED
    BY <1>5, <2>1 DEF Arrivals
<1> QED
  BY <1>3, <1>4, <1>5 DEF Arrivals, IsNew

\* The departures known before stay what they were.
LEMMA OldDepartures ==
    ASSUME PokeTypes, Departures, NEW e \in Events, evs' = Append(evs, e),
           client' \in Nat, client <= client', gen' = gen,
           \A c \in 1 .. client : c \notin alive => c \notin alive',
           NEW j \in 1 .. Len(evs), evs'[j].k = "gone"
    PROVE  /\ evs'[j].n \in 1 .. client' /\ evs'[j].n \notin alive'
           /\ evs'[j].n > gen' => \E i \in 1 .. j - 1 : IsNew(evs', i, evs'[j].n)
<1>1. /\ Len(evs) \in Nat
      /\ \A i \in 1 .. Len(evs) : evs'[i] = evs[i]
  BY Queued
<1>2. /\ evs[j].k = "gone" /\ evs[j].n \in 1 .. client /\ evs[j].n \notin alive
      /\ evs[j].n > gen => \E i \in 1 .. j - 1 : IsNew(evs, i, evs[j].n)
  BY <1>1 DEF Departures
<1>3. \A i \in 1 .. j - 1 : i \in 1 .. Len(evs) /\ evs'[i] = evs[i]
  BY <1>1
<1> QED
  BY <1>1, <1>2, <1>3 DEF IsNew, PokeTypes

\* An event that is no departure, put behind the others.
LEMMA NotGone ==
    ASSUME PokeTypes, Departures, NEW e \in Events, evs' = Append(evs, e), e.k # "gone",
           client' \in Nat, client <= client', gen' = gen,
           \A c \in 1 .. client : c \notin alive => c \notin alive'
    PROVE  Departures'
<1>1. /\ evs'[Len(evs) + 1] = e
      /\ \A i \in 1 .. Len(evs') : i # Len(evs) + 1 => i \in 1 .. Len(evs)
  BY Queued
<1>2. ASSUME NEW j \in 1 .. Len(evs'), evs'[j].k = "gone"
      PROVE  /\ evs'[j].n \in 1 .. client' /\ evs'[j].n \notin alive'
             /\ evs'[j].n > gen' => \E i \in 1 .. j - 1 : IsNew(evs', i, evs'[j].n)
  <2>1. j \in 1 .. Len(evs)
    BY <1>1, <1>2
  <2> QED
    BY <1>2, <2>1, OldDepartures
<1> QED
  BY <1>2 DEF Departures, IsNew

\* The event in front is taken from the channel.
LEMMA Taken ==
    ASSUME PokeTypes, evs # <<>>, evs' = Tail(evs)
    PROVE  /\ evs' \in Seq(Events) /\ Len(evs) = Len(evs') + 1 /\ Len(evs') \in Nat
           /\ \A i \in 1 .. Len(evs') : i + 1 \in 1 .. Len(evs) /\ evs'[i] = evs[i + 1]
           /\ \A i \in 1 .. Len(evs) : i # 1 => i - 1 \in 1 .. Len(evs') /\ evs[i] = evs'[i - 1]
           /\ Head(evs) = evs[1] /\ Head(evs) \in Events /\ 1 \in 1 .. Len(evs)
<1>1. evs \in Seq(Events)
  BY DEF PokeTypes
<1>2. /\ evs' \in Seq(Events) /\ Len(evs') = Len(evs) - 1
      /\ \A i \in 1 .. Len(evs') : evs'[i] = evs[i + 1]
      /\ Head(evs) = evs[1] /\ Head(evs) \in Events
      /\ Len(evs) \in Nat \ {0}
  BY <1>1, HeadTailProperties, EmptySeq
<1>3. Len(evs) = Len(evs') + 1 /\ Len(evs') \in Nat
  BY <1>2
<1>4. \A i \in 1 .. Len(evs) : i # 1 => i - 1 \in 1 .. Len(evs') /\ (i - 1) + 1 = i
  BY <1>3
<1> QED
  BY <1>2, <1>3, <1>4

\* Taking the event in front: gen is then the last client adopted or counts
\* the arrival just taken.
LEMMA TakeArrivals ==
    ASSUME PokeTypes, Arrivals, evs # <<>>, evs' = Tail(evs), client' = client,
           gen' = IF Head(evs).k = "new" THEN gen + 1 ELSE gen
    PROVE  /\ Arrivals' /\ gen' <= client
           /\ Head(evs).k = "new" => Head(evs).n = gen'
<1>1. /\ Len(evs) = Len(evs') + 1 /\ Len(evs') \in Nat
      /\ \A i \in 1 .. Len(evs') : i + 1 \in 1 .. Len(evs) /\ evs'[i] = evs[i + 1]
      /\ \A i \in 1 .. Len(evs) : i # 1 => i - 1 \in 1 .. Len(evs') /\ evs[i] = evs'[i - 1]
      /\ Head(evs) = evs[1] /\ 1 \in 1 .. Len(evs)
  BY Taken
<1>2. /\ \A i \in 1 .. Len(evs) : evs[i].k = "new" => evs[i].n \in gen + 1 .. client
      /\ \A m \in gen + 1 .. client : \E i \in 1 .. Len(evs) : IsNew(evs, i, m)
      /\ \A i, j \in 1 .. Len(evs) :
            evs[i].k = "new" /\ evs[j].k = "new" /\ i < j => evs[i].n < evs[j].n
  BY DEF Arrivals
<1>3. gen \in Nat /\ client \in Nat /\ gen <= client
  BY DEF PokeTypes
<1>4. Head(evs).k = "new" => Head(evs).n = gen + 1 /\ gen + 1 <= client
  <2> SUFFICES ASSUME Head(evs).k = "new" PROVE Head(evs).n = gen + 1 /\ gen + 1 <= client
    OBVIOUS
  <2>1. evs[1].k = "new" /\ evs[1].n \in gen + 1 .. client
    BY <1>1, <1>2
  <2>2. gen + 1 \in gen + 1 .. client
    BY <1>3, <2>1
  <2>3. PICK i \in 1 .. Len(evs) : IsNew(evs, i, gen + 1)
    BY <1>2, <2>2
  <2>4. ~(1 < i)
    BY <1>1, <1>2, <1>3, <2>1, <2>3 DEF IsNew
  <2>5. i = 1
    BY <1>1, <2>4
  <2> QED
    BY <1>1, <1>3, <2>2, <2>3, <2>5 DEF IsNew
<1>5. ASSUME NEW i \in 1 .. Len(evs'), evs'[i].k = "new"
      PROVE  evs'[i].n \in gen' + 1 .. client
  <2>1. i + 1 \in 1 .. Len(evs) /\ evs[i + 1].k = "new" /\ evs'[i] = evs[i + 1] /\ 1 < i + 1
    BY <1>1, <1>5
  <2>2. evs[i + 1].n \in gen + 1 .. client
    BY <1>2, <2>1
  <2>3. CASE Head(evs).k = "new"
    <3>1. evs[1].n < evs[i + 1].n /\ evs[1].n = gen + 1
      BY <1>1, <1>2, <1>4, <2>1, <2>3
    <3> QED
      BY <1>3, <2>1, <2>2, <2>3, <3>1
  <2> QED
    BY <2>1, <2>2, <2>3
<1>6. ASSUME NEW m \in gen' + 1 .. client PROVE \E i \in 1 .. Len(evs') : IsNew(evs', i, m)
  <2>1. m \in gen + 1 .. client /\ (Head(evs).k = "new" => m # gen + 1)
    BY <1>3
  <2>2. PICK i \in 1 .. Len(evs) : IsNew(evs, i, m)
    BY <1>2, <2>1
  <2>3. i # 1
    BY <1>1, <1>4, <2>1, <2>2 DEF IsNew
  <2>4. i - 1 \in 1 .. Len(evs') /\ evs[i] = evs'[i - 1]
    BY <1>1, <2>3
  <2> QED
    BY <2>2, <2>4 DEF IsNew
<1>7. ASSUME NEW i \in 1 .. Len(evs'), NEW j \in 1 .. Len(evs'),
             evs'[i].k = "new", evs'[j].k = "new", i < j
      PROVE  evs'[i].n < evs'[j].n
  <2>1. i + 1 < j + 1
    BY <1>1, <1>7
  <2> QED
    BY <1>1, <1>2, <1>7, <2>1
<1>8. Arrivals'
  BY <1>5, <1>6, <1>7 DEF Arrivals, IsNew
<1> QED
  BY <1>3, <1>4, <1>8

LEMMA TakeDepartures ==
    ASSUME PokeTypes, Arrivals, Departures, evs # <<>>, evs' = Tail(evs),
           UNCHANGED <<client, alive>>,
           gen' = IF Head(evs).k = "new" THEN gen + 1 ELSE gen
    PROVE  Departures'
<1>1. /\ Len(evs) = Len(evs') + 1 /\ Len(evs') \in Nat
      /\ \A i \in 1 .. Len(evs') : i + 1 \in 1 .. Len(evs) /\ evs'[i] = evs[i + 1]
      /\ \A i \in 1 .. Len(evs) : i # 1 => i - 1 \in 1 .. Len(evs') /\ evs[i] = evs'[i - 1]
      /\ Head(evs) = evs[1]
  BY Taken
<1>2. gen \in Nat /\ (Head(evs).k = "new" => Head(evs).n = gen')
  BY TakeArrivals DEF PokeTypes
<1>3. ASSUME NEW j \in 1 .. Len(evs'), evs'[j].k = "gone"
      PROVE  /\ evs'[j].n \in 1 .. client /\ evs'[j].n \notin alive
             /\ evs'[j].n > gen' => \E i \in 1 .. j - 1 : IsNew(evs', i, evs'[j].n)
  <2>1. j + 1 \in 1 .. Len(evs) /\ evs'[j] = evs[j + 1] /\ evs[j + 1].k = "gone"
    BY <1>1, <1>3
  <2>2. /\ evs[j + 1].n \in 1 .. client /\ evs[j + 1].n \notin alive
        /\ evs[j + 1].n > gen => \E i \in 1 .. (j + 1) - 1 : IsNew(evs, i, evs[j + 1].n)
    BY <2>1 DEF Departures
  <2>3. ASSUME evs[j + 1].n > gen' PROVE \E i \in 1 .. j - 1 : IsNew(evs', i, evs'[j].n)
    <3>1. evs[j + 1].n > gen /\ evs[j + 1].n \in Nat
      BY <1>2, <2>2, <2>3
    <3>2. PICK i \in 1 .. (j + 1) - 1 : IsNew(evs, i, evs[j + 1].n)
      BY <2>2, <3>1
    <3>3. i # 1
      BY <1>1, <1>2, <2>3, <3>1, <3>2 DEF IsNew
    <3>4. i - 1 \in 1 .. j - 1 /\ i \in 1 .. Len(evs)
      BY <1>1, <3>3
    <3>5. evs'[i - 1] = evs[i]
      BY <1>1, <3>3, <3>4
    <3> QED
      BY <3>2, <3>4, <3>5 DEF IsNew
  <2> QED
    BY <2>1, <2>2, <2>3
<1>4. \A j \in 1 .. Len(evs') : evs'[j] = evs[j + 1]
  BY <1>1
<1> QED
  BY <1>3, <1>4 DEF Departures, IsNew

\* While the L2 that L3 adopted runs, L3 pokes it: the end of an older one's
\* socket, whenever it is seen, changes nothing (main.rs:1641-1672).
THEOREM AdoptedIsPoked == Spec => []PokeKept
<1>1. Init => PokeInv
  <2> SUFFICES ASSUME Init PROVE PokeInv
    OBVIOUS
  <2>1. evs = <<>> /\ Len(evs) = 0 /\ gen = 1 /\ client = 1 /\ alive = {1} /\ poke = 1 /\ holds = 0
    BY DEF Init
  <2>2. evs \in Seq(Events)
    BY <2>1, EmptySeq
  <2> QED
    BY <2>1, <2>2 DEF PokeInv, PokeTypes, Arrivals, Departures
<1>2. PokeInv /\ [Next]_vars => PokeInv'
  <2> SUFFICES ASSUME PokeInv, [Next]_vars PROVE PokeInv'
    OBVIOUS
  <2>a. PokeTypes /\ Arrivals /\ Departures /\ (gen \in alive => poke = gen)
    BY DEF PokeInv
  <2>b. client \in Nat /\ gen \in Nat /\ gen <= client /\ alive \subseteq 1 .. client
        /\ evs \in Seq(Events) /\ holds \in Nat
    BY <2>a DEF PokeTypes
  <2>1. CASE Connect
    <3> DEFINE e == Event("new", client + 1)
    <3>1. /\ client' = client + 1 /\ alive' = alive \union {client + 1}
          /\ evs' = Append(evs, e) /\ UNCHANGED <<gen, poke, holds>>
      BY <2>1 DEF Connect
    <3>2. e \in Events /\ e.k = "new" /\ e.n = client + 1
      BY <2>b DEF Event, Events
    <3> HIDE DEF e
    <3>3. /\ evs' \in Seq(Events) /\ Len(evs) \in Nat /\ Len(evs') = Len(evs) + 1
          /\ \A i \in 1 .. Len(evs) : i \in 1 .. Len(evs') /\ evs'[i] = evs[i]
          /\ evs'[Len(evs) + 1] = e
          /\ \A i \in 1 .. Len(evs') : i # Len(evs) + 1 => i \in 1 .. Len(evs)
      BY <2>a, <3>1, <3>2, Queued
    <3>4. PokeTypes'
      BY <2>b, <3>1, <3>3 DEF PokeTypes
    <3>5. \A i \in 1 .. Len(evs') : evs'[i].k = "new" => evs'[i].n \in gen + 1 .. client + 1
      BY <2>a, <2>b, <3>2, <3>3 DEF Arrivals
    <3>6. ASSUME NEW m \in gen + 1 .. client + 1 PROVE \E i \in 1 .. Len(evs') : IsNew(evs', i, m)
      <4>1. CASE m = client + 1
        BY <3>2, <3>3, <4>1 DEF IsNew
      <4>2. CASE m # client + 1
        <5>1. m \in gen + 1 .. client
          BY <2>b, <4>2
        <5>2. PICK i \in 1 .. Len(evs) : IsNew(evs, i, m)
          BY <2>a, <5>1 DEF Arrivals
        <5> QED
          BY <3>3, <5>2 DEF IsNew
      <4> QED
        BY <4>1, <4>2
    <3>7. ASSUME NEW i \in 1 .. Len(evs'), NEW j \in 1 .. Len(evs'),
                 evs'[i].k = "new", evs'[j].k = "new", i < j
          PROVE  evs'[i].n < evs'[j].n
      <4>1. i \in 1 .. Len(evs) /\ evs'[i] = evs[i] /\ evs[i].n \in gen + 1 .. client
        BY <2>a, <3>3, <3>7 DEF Arrivals
      <4>2. CASE j = Len(evs) + 1
        BY <2>b, <3>2, <3>3, <4>1, <4>2
      <4>3. CASE j # Len(evs) + 1
        BY <2>a, <3>3, <3>7, <4>1, <4>3 DEF Arrivals
      <4> QED
        BY <4>2, <4>3
    <3>8. Arrivals'
      BY <3>1, <3>5, <3>6, <3>7 DEF Arrivals, IsNew
    <3>9. Departures'
      <4>1. /\ client' \in Nat /\ client <= client' /\ gen' = gen
            /\ \A c \in 1 .. client : c \notin alive => c \notin alive'
        BY <2>b, <3>1
      <4> QED
        BY <2>a, <3>1, <3>2, <4>1, NotGone
    <3>10. gen' \in alive' => poke' = gen'
      BY <2>a, <2>b, <3>1
    <3> QED
      BY <3>4, <3>8, <3>9, <3>10 DEF PokeInv
  <2>2. ASSUME NEW c \in alive, L2Dies(c) PROVE PokeInv'
    <3> DEFINE e == Event("gone", c)
    <3>1. /\ alive' = alive \ {c} /\ evs' = Append(evs, e)
          /\ UNCHANGED <<client, gen, poke, holds>>
      BY <2>2 DEF L2Dies
    <3>2. e \in Events /\ e.k = "gone" /\ e.n = c /\ c \in 1 .. client
      BY <2>b DEF Event, Events
    <3> HIDE DEF e
    <3>3. /\ evs' \in Seq(Events) /\ Len(evs) \in Nat /\ Len(evs') = Len(evs) + 1
          /\ \A i \in 1 .. Len(evs) : i \in 1 .. Len(evs') /\ evs'[i] = evs[i]
          /\ evs'[Len(evs) + 1] = e
          /\ \A i \in 1 .. Len(evs') : i # Len(evs) + 1 => i \in 1 .. Len(evs)
      BY <2>a, <3>1, <3>2, Queued
    <3>4. PokeTypes'
      BY <2>b, <3>1, <3>3 DEF PokeTypes
    <3>5. Arrivals'
      BY <2>a, <3>1, <3>2, NotNew
    <3>6. Departures'
      <4>1. /\ client' \in Nat /\ client <= client'
            /\ \A x \in 1 .. client : x \notin alive => x \notin alive'
        BY <2>b, <3>1
      <4>2. ASSUME NEW j \in 1 .. Len(evs), evs'[j].k = "gone"
            PROVE  /\ evs'[j].n \in 1 .. client' /\ evs'[j].n \notin alive'
                   /\ evs'[j].n > gen' => \E i \in 1 .. j - 1 : IsNew(evs', i, evs'[j].n)
        BY <2>a, <3>1, <3>2, <4>1, <4>2, OldDepartures
      <4>3. ASSUME c > gen PROVE \E i \in 1 .. Len(evs) : IsNew(evs', i, c)
        <5>1. c \in gen + 1 .. client
          BY <2>b, <3>2, <4>3
        <5>2. PICK i \in 1 .. Len(evs) : IsNew(evs, i, c)
          BY <2>a, <5>1 DEF Arrivals
        <5> QED
          BY <3>3, <5>2 DEF IsNew
      <4>4. ASSUME NEW j \in 1 .. Len(evs'), evs'[j].k = "gone"
            PROVE  /\ evs'[j].n \in 1 .. client' /\ evs'[j].n \notin alive'
                   /\ evs'[j].n > gen' => \E i \in 1 .. j - 1 : IsNew(evs', i, evs'[j].n)
        <5>1. CASE j = Len(evs) + 1
          <6>1. evs'[j].n = c /\ j - 1 = Len(evs)
            BY <3>2, <3>3, <5>1
          <6>2. c \in 1 .. client' /\ c \notin alive'
            BY <3>1, <3>2
          <6> QED
            BY <3>1, <4>3, <6>1, <6>2
        <5>2. CASE j # Len(evs) + 1
          <6>1. j \in 1 .. Len(evs) /\ evs'[j] = evs[j]
            BY <3>3, <5>2
          <6> QED
            BY <4>2, <4>4, <6>1
        <5> QED
          BY <5>1, <5>2
      <4> QED
        BY <4>4 DEF Departures, IsNew
    <3>7. gen' \in alive' => poke' = gen'
      BY <2>a, <3>1
    <3> QED
      BY <3>4, <3>5, <3>6, <3>7 DEF PokeInv
  <2>3. CASE AskHold
    <3> DEFINE e == Event("hold", 1 - (holds % 2))
    <3>1. /\ evs' = Append(evs, e) /\ UNCHANGED <<client, alive, gen, poke>>
          /\ holds' = holds + 1
      BY <2>3 DEF AskHold, clients
    <3>2. 1 - (holds % 2) \in Nat
      BY <2>b
    <3>3. e \in Events /\ e.k = "hold"
      BY <3>2 DEF Event, Events
    <3> HIDE DEF e
    <3>4. evs' \in Seq(Events)
      BY <2>a, <3>1, <3>3, Queued
    <3>5. PokeTypes'
      BY <2>b, <3>1, <3>4 DEF PokeTypes
    <3>6. Arrivals'
      BY <2>a, <3>1, <3>3, NotNew
    <3>7. Departures'
      <4>1. /\ client' \in Nat /\ client <= client' /\ gen' = gen
            /\ \A c \in 1 .. client : c \notin alive => c \notin alive'
        BY <2>b, <3>1
      <4> QED
        BY <2>a, <3>1, <3>3, <4>1, NotGone
    <3> QED
      BY <2>a, <3>1, <3>5, <3>6, <3>7 DEF PokeInv
  <2>4. CASE HandleNew
    <3>1. /\ evs # <<>> /\ evs' = Tail(evs) /\ Head(evs).k = "new"
          /\ gen' = gen + 1 /\ poke' = gen' /\ UNCHANGED <<client, alive, holds>>
      BY <2>4 DEF HandleNew, Handling, clients
    <3>2. gen' = IF Head(evs).k = "new" THEN gen + 1 ELSE gen
      BY <3>1
    <3>3. Arrivals' /\ gen' <= client
      BY <2>a, <3>1, <3>2, TakeArrivals
    <3>4. Departures'
      BY <2>a, <3>1, <3>2, TakeDepartures
    <3>5. evs' \in Seq(Events)
      BY <2>a, <3>1, Taken
    <3>6. PokeTypes'
      BY <2>b, <3>1, <3>3, <3>5 DEF PokeTypes
    <3> QED
      BY <3>1, <3>3, <3>4, <3>6 DEF PokeInv
  <2>5. CASE HandleGone \/ HandleHold
    <3>1. /\ evs # <<>> /\ evs' = Tail(evs) /\ Head(evs).k # "new"
          /\ UNCHANGED <<gen, client, alive, holds>>
      BY <2>5 DEF HandleGone, HandleHold, Handling, clients
    <3>2. gen' = IF Head(evs).k = "new" THEN gen + 1 ELSE gen
      BY <3>1
    <3>3. Arrivals'
      BY <2>a, <3>1, <3>2, TakeArrivals
    <3>4. Departures'
      BY <2>a, <3>1, <3>2, TakeDepartures
    <3>5. evs' \in Seq(Events)
      BY <2>a, <3>1, Taken
    <3>6. PokeTypes'
      BY <2>b, <3>1, <3>5 DEF PokeTypes
    <3>7. ASSUME gen \in alive PROVE poke' = gen
      <4>1. CASE HandleHold
        BY <2>a, <3>7, <4>1 DEF HandleHold
      <4>2. CASE HandleGone
        <5>1. Head(evs) = evs[1] /\ 1 \in 1 .. Len(evs) /\ evs[1].k = "gone"
          BY <2>a, <3>1, <4>2, Taken DEF HandleGone, Handling
        <5>2. /\ evs[1].n \in 1 .. client /\ evs[1].n \notin alive
              /\ evs[1].n > gen => \E i \in 1 .. 1 - 1 : IsNew(evs, i, evs[1].n)
          BY <2>a, <5>1 DEF Departures
        <5>3. evs[1].n < gen
          BY <2>b, <3>7, <5>2
        <5> QED
          BY <2>a, <3>7, <4>2, <5>1, <5>3 DEF HandleGone
      <4> QED
        BY <2>5, <4>1, <4>2
    <3> QED
      BY <3>1, <3>3, <3>4, <3>6, <3>7 DEF PokeInv
  <2>6. CASE (\E c \in Chunks : Output(c)) \/ Tick \/ Turn \/ L2Poll \/ UNCHANGED vars
    <3>1. UNCHANGED <<evs, client, alive, gen, poke, holds>>
      BY <2>6 DEF Output, Tick, Turn, L2Poll, vars, clients
    <3> QED
      BY <2>a, <3>1 DEF PokeInv, PokeTypes, Arrivals, Departures, IsNew
  <2> QED
    BY <2>1, <2>2, <2>3, <2>4, <2>5, <2>6 DEF Next, Loop
<1>3. PokeInv => PokeKept
  BY DEF PokeInv, PokeKept
<1> QED
  BY <1>1, <1>2, <1>3, PTL DEF Spec
=============================================================================
