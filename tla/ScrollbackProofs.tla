-------------------------- MODULE ScrollbackProofs --------------------------
(***************************************************************************)
(* A pane's history on disk, for every buffer size, channel depth, ring    *)
(* and number of lines.                                                    *)
(*                                                                         *)
(* The writer of AsyncWriter: the pipeline is one unbroken run of the      *)
(* stream, flush and truncate mean what they say, and the writer           *)
(* implements AppendLog.                                                   *)
(*                                                                         *)
(* The files of FileScrollback, each written by such a writer: a read      *)
(* never finds another line, what was cleared is gone from disk, and what  *)
(* a new process finds is an unbroken run of the last one's history,       *)
(* wherever that stopped.  The invariant says, for each point at which a   *)
(* process can stop, what the two indexes find in the two data files.      *)
(*                                                                         *)
(* The search of HistorySearch: a row it has read is the line the history  *)
(* had there when it started.  The files it has open only grow, change     *)
(* their name or are removed, as long as nobody cuts them.                 *)
(*                                                                         *)
(* The hand-over of ScrollbackRestore: a process that leaves gives all it  *)
(* has to the next one, and what is restored is in order.  The invariant   *)
(* relates the history, the files and the snapshots by the indexes of the  *)
(* lines.                                                                  *)
(***************************************************************************)
EXTENDS AsyncWriter, ScrollbackRestore, HistorySearch, SequenceTheorems,
        WellFoundedInduction, TLAPS

-----------------------------------------------------------------------------
(* The writer. *)

SyncKinds == {"barrier", "truncate", "swap"}

\* A caller that waits owns exactly one synchronous message, and nothing is
\* behind that message: neither in the channel nor in the caller's buffer.
OneCallAtATime ==
    /\ pc = "send" <=> pend.kind # "none"
    /\ pc \in {"send", "ack"} => buf.lo = buf.hi
    /\ \A i \in 1 .. Len(queue) : queue[i].kind # "none"
    /\ \A i \in 1 .. Len(queue) :
          queue[i].kind \in SyncKinds => pc = "ack" /\ i = Len(queue)
    /\ hand.kind \in SyncKinds => pc = "ack" /\ queue = <<>>

\* A run ends where it starts or later, never past the stream, and a swap
\* carries no bytes.
RunsInStream ==
    /\ file.hi <= next
    /\ buf.lo <= buf.hi
    /\ hand.kind # "none" => hand.lo <= hand.hi /\ hand.hi <= next
    /\ pend.kind # "none" => pend.lo <= pend.hi /\ pend.hi <= next
    /\ \A i \in 1 .. Len(queue) :
          queue[i].lo <= queue[i].hi /\ queue[i].hi <= next
    /\ hand.kind = "swap" => hand.lo = hand.hi
    /\ pend.kind = "swap" => pend.lo = pend.hi
    /\ \A i \in 1 .. Len(queue) :
          queue[i].kind = "swap" => queue[i].lo = queue[i].hi

IInv == TypeOK /\ Contiguous /\ OneCallAtATime /\ RunsInStream

\* The synchronous message in the thread's hand ends where the stream does.
LEMMA SyncHandEndsStream ==
    ASSUME IInv, hand.kind \in SyncKinds
    PROVE  hand.hi = next /\ buf.lo = next /\ pend.kind = "none"
BY DEF IInv, TypeOK, Contiguous, OneCallAtATime, RunsInStream, SyncKinds,
       PendEnd, QueueEnd, HandEnd, Msgs, Kinds, Runs

LEMMA RunTyped == \A lo, hi \in Nat : Run(lo, hi) \in Runs
BY DEF Run, Runs

LEMMA MsgTyped == \A kind \in Kinds, run \in Runs : Msg(kind, run) \in Msgs
BY DEF Msg, Msgs, Runs

LEMMA RunParts == \A run \in Runs : run.lo \in Nat /\ run.hi \in Nat
BY DEF Runs

LEMMA MsgParts ==
    \A m \in Msgs : m.kind \in Kinds /\ m.lo \in Nat /\ m.hi \in Nat
BY DEF Msgs

LEMMA NoMsgTyped == NoMsg \in Msgs
BY DEF NoMsg, Msg, Run, Msgs, Kinds

LEMMA TypeStep == TypeOK /\ [Next]_vars => TypeOK'
<1> SUFFICES ASSUME TypeOK, [Next]_vars PROVE TypeOK'
  OBVIOUS
<1> USE DEF TypeOK
<1>a. /\ buf.lo \in Nat /\ buf.hi \in Nat /\ file.lo \in Nat
      /\ hand.lo \in Nat /\ hand.hi \in Nat
  BY RunParts, MsgParts
<1>b. \A at \in Nat : EmptyBuf(at) \in Runs
  BY RunTyped DEF EmptyBuf
<1>1. ASSUME NEW n \in WriteSizes, Write(n) PROVE TypeOK'
  <2>1. next' \in Nat
    BY <1>1, WriteSizesAssumption DEF Write
  <2>2. Run(buf.lo, next') \in Runs /\ EmptyBuf(next') \in Runs
    BY <1>a, <1>b, <2>1, RunTyped
  <2>3. Msg("data", Run(buf.lo, next')) \in Msgs
    BY <2>2, MsgTyped DEF Kinds
  <2> QED
    BY <1>1, <2>1, <2>2, <2>3, DepthAssumption DEF Write, TakeEmpty
<1>2. CASE HandOff
  <2>1. Msg("data", buf) \in Msgs
    BY MsgTyped DEF Kinds
  <2> QED
    BY <1>2, <1>a, <1>b, <2>1, DepthAssumption DEF HandOff, TakeEmpty
<1>3. CASE HandOffRefused
  BY <1>3, DepthAssumption DEF HandOffRefused
<1>4. ASSUME NEW after \in {"idle", "swap", "joining"}, StartFlush(after)
      PROVE  TypeOK'
  <2>1. Msg("barrier", buf) \in Msgs
    BY MsgTyped DEF Kinds
  <2> QED
    BY <1>4, <1>a, <1>b, <2>1, DepthAssumption DEF StartFlush, TakeEmpty
<1>5. CASE Flush \/ SwapFile \/ DropWriter
  BY <1>5, <1>4 DEF Flush, SwapFile, DropWriter
<1>6. CASE Truncate
  <2>1. Msg("truncate", buf) \in Msgs
    BY MsgTyped DEF Kinds
  <2> QED
    BY <1>6, <1>a, <1>b, <2>1 DEF Truncate
<1>7. CASE Send
  BY <1>7, NoMsgTyped DEF Send
<1>8. CASE Join
  BY <1>8 DEF Join
<1>9. CASE Receive
  <2>1. Head(queue) \in Msgs /\ Tail(queue) \in Seq(Msgs)
    BY <1>9 DEF Receive
  <2> QED
    BY <1>9, <2>1 DEF Receive
<1>10. CASE WriteData
  BY <1>10, <1>a, RunTyped, NoMsgTyped, DepthAssumption
     DEF WriteData, ReturnBuffer
<1>11. CASE WriteBarrier
  <2>1. Msg("swap", buf) \in Msgs
    BY MsgTyped DEF Kinds
  <2> QED
    BY <1>11, <1>a, <2>1, RunTyped, NoMsgTyped, DepthAssumption
       DEF WriteBarrier, ReturnBuffer
<1>12. CASE CutFile
  BY <1>12, <1>a, RunTyped, NoMsgTyped DEF CutFile
<1>13. CASE SwapIn
  BY <1>13, <1>a, RunTyped, NoMsgTyped DEF SwapIn
<1>14. CASE UNCHANGED vars
  BY <1>14 DEF vars
<1> QED
  BY <1>1, <1>2, <1>3, <1>5, <1>6, <1>7, <1>8, <1>9, <1>10, <1>11, <1>12,
     <1>13, <1>14 DEF Next, Caller, Thread

\* Every variable stays in its range.
THEOREM TypeCorrect == Spec => []TypeOK
<1>1. Init => TypeOK
  BY DepthAssumption, RunTyped, NoMsgTyped DEF Init, TypeOK, EmptyBuf
<1> QED
  BY <1>1, TypeStep, PTL DEF Spec

LEMMA Fields ==
    /\ \A lo, hi : Run(lo, hi).lo = lo /\ Run(lo, hi).hi = hi
    /\ \A kind, run : /\ Msg(kind, run).kind = kind
                      /\ Msg(kind, run).lo = run.lo
                      /\ Msg(kind, run).hi = run.hi
    /\ NoMsg.kind = "none"
    /\ \A at : EmptyBuf(at).lo = at /\ EmptyBuf(at).hi = at
BY DEF Run, Msg, NoMsg, EmptyBuf

\* What Append and Tail do to the messages of the channel.
LEMMA QueueFacts ==
    ASSUME NEW q \in Seq(Msgs), NEW m \in Msgs
    PROVE  /\ Append(q, m) # <<>>
           /\ Len(Append(q, m)) = Len(q) + 1
           /\ Append(q, m)[Len(q) + 1] = m
           /\ \A i \in 1 .. Len(q) : Append(q, m)[i] = q[i]
           /\ q # <<>> => /\ Len(q) \in Nat \ {0}
                          /\ Head(q) = q[1]
                          /\ Len(Tail(q)) = Len(q) - 1
                          /\ \A i \in 1 .. Len(q) - 1 : Tail(q)[i] = q[i + 1]
           /\ q = <<>> => Len(q) = 0
           /\ Len(q) = 0 => q = <<>>
           /\ Len(q) \in Nat
OBVIOUS

\* The channel after one more message.
QueueGrows(m) ==
    /\ Len(queue) \in Nat
    /\ Len(queue') = Len(queue) + 1
    /\ queue' # <<>>
    /\ queue'[Len(queue) + 1] = m
    /\ \A i \in 1 .. Len(queue) : queue'[i] = queue[i]
    /\ queue = <<>> <=> Len(queue) = 0

LEMMA AppendGrows ==
    ASSUME TypeOK, NEW m \in Msgs, queue' = Append(queue, m)
    PROVE  QueueGrows(m)
BY QueueFacts DEF TypeOK, QueueGrows

\* The channel after its first message is taken.
QueueShrinks ==
    /\ Len(queue) \in Nat \ {0}
    /\ Len(queue') = Len(queue) - 1
    /\ queue' = <<>> <=> Len(queue) = 1
    /\ \A i \in 1 .. Len(queue') : queue'[i] = queue[i + 1]

LEMMA TailShrinks ==
    ASSUME NEW q \in Seq(Msgs), q # <<>>
    PROVE  /\ Head(q) = q[1]
           /\ Len(q) \in Nat \ {0}
           /\ Len(Tail(q)) = Len(q) - 1
           /\ Tail(q) = <<>> <=> Len(q) = 1
           /\ \A i \in 1 .. Len(Tail(q)) : Tail(q)[i] = q[i + 1]
<1>1. Tail(q) \in Seq(Msgs)
  OBVIOUS
<1>2. Len(Tail(q)) = 0 <=> Tail(q) = <<>>
  BY <1>1, EmptySeq
<1>3. \A i \in 1 .. Len(Tail(q)) : Tail(q)[i] = q[i + 1]
  OBVIOUS
<1>4. Head(q) = q[1] /\ Len(q) \in Nat \ {0} /\ Len(Tail(q)) = Len(q) - 1
  OBVIOUS
<1> QED
  BY <1>2, <1>3, <1>4

LEMMA InvStep == IInv /\ [Next]_vars => IInv'
<1> SUFFICES ASSUME IInv, [Next]_vars PROVE IInv'
  OBVIOUS
<1>t. TypeOK /\ TypeOK'
  BY TypeStep DEF IInv
<1>p. /\ next \in Nat /\ buf.lo \in Nat /\ buf.hi \in Nat /\ file.hi \in Nat
      /\ hand.kind \in Kinds /\ hand.lo \in Nat /\ hand.hi \in Nat
      /\ pend.kind \in Kinds /\ pend.lo \in Nat /\ pend.hi \in Nat
      /\ \A i \in 1 .. Len(queue) : /\ queue[i].kind \in Kinds
                                    /\ queue[i].lo \in Nat
                                    /\ queue[i].hi \in Nat
  <2>1. \A i \in 1 .. Len(queue) : queue[i] \in Msgs
    BY <1>t DEF TypeOK
  <2> QED
    BY <1>t, <2>1, RunParts, MsgParts DEF TypeOK
<1>i. Contiguous /\ OneCallAtATime /\ RunsInStream
  BY DEF IInv
<1> USE DEF Contiguous, OneCallAtATime, RunsInStream, SyncKinds, Kinds,
            HandEnd, QueueEnd, PendEnd
<1>1. ASSUME NEW n \in WriteSizes, Write(n) PROVE IInv'
  <2>1. n \in Nat /\ next' = next + n /\ pc = "idle" /\ pend.kind = "none"
    BY <1>1, <1>i, WriteSizesAssumption DEF Write
  <2>2. CASE next' - buf.lo < Cap
    BY SMTT(30), <1>1, <1>i, <1>p, <1>t, <2>1, <2>2, CapAssumption, Fields DEF Write, IInv
  <2>3. CASE next' - buf.lo >= Cap
    <3>1. /\ pend'.kind = "data" /\ pend'.lo = buf.lo /\ pend'.hi = next'
          /\ buf'.lo = next' /\ buf'.hi = next' /\ pc' = "send"
          /\ UNCHANGED <<queue, hand, file>>
      BY <1>1, <1>p, <2>1, <2>3, CapAssumption, Fields DEF Write
    <3> QED
      BY <1>i, <1>p, <1>t, <2>1, <3>1 DEF IInv
  <2> QED
    BY <2>1, <2>2, <2>3, <1>p, CapAssumption
<1>2. CASE HandOff
  <2>1. Msg("data", buf) \in Msgs
    BY <1>t, MsgTyped DEF TypeOK
  <2>2. /\ queue' = Append(queue, Msg("data", buf))
        /\ buf'.lo = buf.hi /\ buf'.hi = buf.hi
        /\ pc = "idle" /\ pend.kind = "none"
        /\ UNCHANGED <<next, pend, pc, hand, file>>
    BY <1>2, <1>i, Fields DEF HandOff
  <2>3. QueueGrows(Msg("data", buf))
    BY <1>t, <2>1, <2>2, AppendGrows
  <2>4. Contiguous'
    BY <1>i, <1>p, <2>2, <2>3, Fields DEF QueueGrows
  <2>5. OneCallAtATime'
    BY <1>i, <1>p, <2>2, <2>3, Fields DEF QueueGrows
  <2>6. RunsInStream'
    BY SMTT(30), <1>i, <1>p, <2>2, <2>3, Fields DEF QueueGrows
  <2> QED
    BY <1>t, <2>4, <2>5, <2>6 DEF IInv
<1>3. CASE HandOffRefused
  BY <1>3, <1>i, <1>t DEF HandOffRefused, IInv
<1>4. ASSUME NEW after \in {"idle", "swap", "joining"}, StartFlush(after)
      PROVE  IInv'
  BY <1>4, <1>i, <1>p, <1>t, Fields DEF StartFlush, IInv
<1>5. CASE Flush \/ SwapFile \/ DropWriter
  BY <1>5, <1>4 DEF Flush, SwapFile, DropWriter
<1>6. CASE Truncate
  BY <1>6, <1>i, <1>p, <1>t, Fields DEF Truncate, IInv
<1>7. CASE Send
  <2>1. /\ queue' = Append(queue, pend)
        /\ pc = "send" /\ pend.kind # "none" /\ pend'.kind = "none"
        /\ pc' = IF pend.kind = "data" THEN "idle" ELSE "ack"
        /\ UNCHANGED <<next, buf, hand, file>>
    BY <1>7, <1>i, Fields DEF Send
  <2>2. QueueGrows(pend)
    BY <1>t, <2>1, AppendGrows DEF TypeOK
  <2>3. Contiguous'
    BY <1>i, <1>p, <2>1, <2>2 DEF QueueGrows
  <2>4. OneCallAtATime'
    BY <1>i, <1>p, <2>1, <2>2 DEF QueueGrows
  <2>5. RunsInStream'
    BY <1>i, <1>p, <2>1, <2>2 DEF QueueGrows
  <2> QED
    BY <1>t, <2>3, <2>4, <2>5 DEF IInv
<1>8. CASE Join
  BY <1>8, <1>i, <1>t DEF Join, IInv
<1>9. CASE Receive
  <2>1. /\ hand.kind = "none" /\ queue # <<>>
        /\ UNCHANGED <<next, buf, pend, pc, file>>
    BY <1>9, Fields DEF Receive
  <2>a. /\ hand' = queue[1] /\ QueueShrinks
        /\ queue[1].kind # "none" /\ queue[1].lo = file.hi
    BY <1>9, <1>t, <1>i, <2>1, TailShrinks DEF Receive, TypeOK, QueueShrinks
  <2>2. Contiguous'
    <3>1. hand'.lo = file'.hi
      BY <2>1, <2>a
    <3>2. queue' # <<>> => queue'[1].lo = hand'.hi
      BY <1>i, <2>1, <2>a DEF QueueShrinks
    <3>3. \A i \in 1 .. Len(queue') - 1 : queue'[i + 1].lo = queue'[i].hi
      BY <1>i, <2>1, <2>a DEF QueueShrinks
    <3>4. QueueEnd' = QueueEnd
      BY <2>1, <2>a DEF QueueShrinks
    <3> QED
      BY <1>i, <2>1, <2>a, <3>1, <3>2, <3>3, <3>4
  <2>b. /\ 1 \in 1 .. Len(queue)
        /\ \A i \in 1 .. Len(queue') : i + 1 \in 1 .. Len(queue)
    BY <2>a DEF QueueShrinks
  <2>3. OneCallAtATime'
    <3>1. hand'.kind \in SyncKinds => pc' = "ack" /\ queue' = <<>>
      <4>1. queue[1].kind \in SyncKinds => pc = "ack" /\ 1 = Len(queue)
        BY <1>i, <2>b
      <4> QED
        BY <4>1, <2>1, <2>a DEF QueueShrinks
    <3>2. \A i \in 1 .. Len(queue') : queue'[i].kind # "none"
      BY <1>i, <2>a, <2>b DEF QueueShrinks
    <3>3. \A i \in 1 .. Len(queue') :
             queue'[i].kind \in SyncKinds => pc' = "ack" /\ i = Len(queue')
      <4> SUFFICES ASSUME NEW i \in 1 .. Len(queue'),
                          queue'[i].kind \in SyncKinds
                   PROVE  pc' = "ack" /\ i = Len(queue')
        OBVIOUS
      <4>1. queue[i + 1].kind \in SyncKinds
        BY <2>a DEF QueueShrinks
      <4>2. pc = "ack" /\ i + 1 = Len(queue)
        BY <1>i, <2>b, <4>1
      <4> QED
        BY <4>2, <2>1, <2>a DEF QueueShrinks
    <3> QED
      BY <1>i, <2>1, <3>1, <3>2, <3>3
  <2>4. RunsInStream'
    <3>1. /\ hand'.lo <= hand'.hi /\ hand'.hi <= next
          /\ hand'.kind = "swap" => hand'.lo = hand'.hi
      BY <1>i, <2>a, <2>b
    <3>2. \A i \in 1 .. Len(queue') :
             /\ queue'[i].lo <= queue'[i].hi /\ queue'[i].hi <= next
             /\ queue'[i].kind = "swap" => queue'[i].lo = queue'[i].hi
      BY <1>i, <2>a, <2>b DEF QueueShrinks
    <3> QED
      BY <1>i, <2>1, <3>1, <3>2
  <2> QED
    BY <1>t, <2>2, <2>3, <2>4 DEF IInv
<1>10. CASE WriteData
  BY <1>10, <1>i, <1>p, <1>t, Fields DEF WriteData, IInv
<1>11. CASE WriteBarrier
  <2>1. /\ pc = "ack" /\ queue = <<>> /\ pend.kind = "none"
        /\ hand.hi = next /\ buf.lo = next /\ buf.hi = next
    BY <1>11, SyncHandEndsStream DEF WriteBarrier, IInv
  <2>2. /\ file'.hi = hand.hi /\ hand'.kind = "none"
        /\ UNCHANGED <<next, buf, queue>>
    BY <1>11, Fields DEF WriteBarrier
  <2>3. CASE cont = "swap"
    <3>1. pc' = "send" /\ pend'.kind = "swap" /\ pend'.lo = next /\ pend'.hi = next
      BY <1>11, <2>1, <2>3, Fields DEF WriteBarrier
    <3> QED
      BY <1>i, <1>p, <1>t, <2>1, <2>2, <3>1 DEF IInv
  <2>4. CASE cont # "swap"
    <3>1. pc' \in {"idle", "joining"} /\ pend' = pend
      BY <1>11, <1>t, <2>4 DEF WriteBarrier, TypeOK
    <3> QED
      BY <1>i, <1>p, <1>t, <2>1, <2>2, <3>1 DEF IInv
  <2> QED
    BY <2>3, <2>4
<1>12. CASE CutFile
  BY <1>12, <1>i, <1>p, <1>t, Fields DEF CutFile, IInv
<1>13. CASE SwapIn
  BY <1>13, <1>i, <1>p, <1>t, Fields DEF SwapIn, IInv
<1>14. CASE UNCHANGED vars
  BY <1>14, <1>i, <1>t DEF vars, IInv
<1> QED
  BY <1>1, <1>2, <1>3, <1>5, <1>6, <1>7, <1>8, <1>9, <1>10, <1>11, <1>12,
     <1>13, <1>14 DEF Next, Caller, Thread

LEMMA InvInit == Init => IInv
<1> SUFFICES ASSUME Init PROVE IInv
  OBVIOUS
<1>1. TypeOK
  BY DepthAssumption, RunTyped, NoMsgTyped DEF Init, TypeOK, EmptyBuf
<1>2. /\ next = 0 /\ queue = <<>> /\ Len(queue) = 0 /\ pc = "idle"
      /\ hand.kind = "none" /\ pend.kind = "none"
      /\ buf.lo = 0 /\ buf.hi = 0 /\ file.hi = 0
  BY Fields DEF Init
<1>3. Contiguous
  BY <1>2 DEF Contiguous, HandEnd, QueueEnd, PendEnd
<1>4. OneCallAtATime /\ RunsInStream
  BY <1>2 DEF OneCallAtATime, RunsInStream, SyncKinds
<1> QED
  BY <1>1, <1>3, <1>4 DEF IInv

THEOREM Invariance == Spec => []IInv
BY InvInit, InvStep, PTL DEF Spec

\* No byte is lost, doubled or reordered between the caller and the file.
THEOREM NothingLost == Spec => []Contiguous
<1>1. IInv => Contiguous
  BY DEF IInv
<1> QED
  BY <1>1, Invariance, PTL

\* A flush that returns has put every byte written before it in the file.
THEOREM FlushWorks == Spec => FlushIsDurable
<1>1. ASSUME IInv, [Next]_vars, hand.kind = "barrier", hand'.kind = "none"
      PROVE  file'.hi = next
  <2>1. hand.hi = next
    BY <1>1, SyncHandEndsStream DEF SyncKinds
  <2>2. WriteBarrier
    BY <1>1, Fields DEF Next, Caller, Thread, Write, HandOff, HandOffRefused,
       Flush, SwapFile, DropWriter, StartFlush, Truncate, Send, Join, Receive,
       WriteData, CutFile, SwapIn, vars
  <2> QED
    BY <2>1, <2>2, Fields DEF WriteBarrier
<1>2. IInv /\ [Next]_vars
        => [hand.kind = "barrier" /\ hand'.kind = "none" => file'.hi = next]_vars
  BY <1>1
<1> QED
  BY <1>2, Invariance, PTL DEF Spec, FlushIsDurable

\* A truncate that returns has left nothing of what came before it.
THEOREM TruncateWorks == Spec => NothingOutlivesTruncate
<1>1. ASSUME IInv, [Next]_vars, hand.kind = "truncate", hand'.kind = "none"
      PROVE  file'.lo = next /\ PendEnd' = next
  <2>1. /\ hand.hi = next /\ pend.kind = "none" /\ queue = <<>>
    BY <1>1, SyncHandEndsStream DEF SyncKinds, IInv, OneCallAtATime
  <2>2. CutFile
    BY <1>1, Fields DEF Next, Caller, Thread, Write, HandOff, HandOffRefused,
       Flush, SwapFile, DropWriter, StartFlush, Truncate, Send, Join, Receive,
       WriteData, WriteBarrier, SwapIn, vars
  <2> QED
    BY <1>1, <2>1, <2>2, Fields DEF CutFile, PendEnd, QueueEnd, HandEnd
<1>2. IInv /\ [Next]_vars
        => [hand.kind = "truncate" /\ hand'.kind = "none"
              => file'.lo = next /\ PendEnd' = next]_vars
  BY <1>1
<1> QED
  BY <1>2, Invariance, PTL DEF Spec, NothingOutlivesTruncate
-----------------------------------------------------------------------------
(* Refinement: Write appends, WriteData and WriteBarrier persist, CutFile   *)
(* cuts and SwapIn retires; every other step leaves the log as it is.       *)

LEMMA LogStep == IInv /\ [Next]_vars => [Log!Next]_(Log!vars)
<1> SUFFICES ASSUME IInv, [Next]_vars PROVE [Log!Next]_(Log!vars)
  OBVIOUS
<1>p. /\ next \in Nat /\ file.hi \in Nat /\ hand.hi \in Nat
      /\ hand.kind \in Kinds /\ file.hi <= next
      /\ hand.kind # "none" => file.hi <= hand.hi /\ hand.hi <= next
  BY RunParts, MsgParts DEF IInv, TypeOK, RunsInStream, Contiguous
<1> USE DEF Log!vars, Log!Run, Run
<1>1. ASSUME NEW n \in WriteSizes, Write(n) PROVE Log!Write
  BY <1>1, <1>p, WriteSizesAssumption DEF Write, Log!Write
<1>2. CASE HandOff \/ HandOffRefused \/ Flush \/ SwapFile \/ DropWriter
           \/ Truncate \/ Send \/ Join \/ Receive
  BY <1>2 DEF HandOff, HandOffRefused, Flush, SwapFile, DropWriter,
     StartFlush, Truncate, Send, Join, Receive
<1>3. CASE WriteData \/ WriteBarrier
  <2>1. file' = Run(file.lo, hand.hi) /\ UNCHANGED <<next, closed>>
    BY <1>3 DEF WriteData, WriteBarrier
  <2>2. hand.hi \in file.hi .. next
    BY <1>3, <1>p DEF WriteData, WriteBarrier
  <2>3. Log!Persist
    BY <2>1, <2>2 DEF Log!Persist
  <2> QED
    BY <2>3 DEF Log!Next
<1>4. CASE CutFile
  <2>1. hand.hi = next
    BY <1>4, SyncHandEndsStream DEF CutFile, SyncKinds
  <2>2. Log!Cut
    BY <1>4, <2>1 DEF CutFile, Log!Cut
  <2> QED
    BY <2>2 DEF Log!Next
<1>5. CASE SwapIn
  <2>1. hand.hi = next /\ file.hi = next
    BY <1>5, SyncHandEndsStream
       DEF SwapIn, SyncKinds, IInv, Contiguous, RunsInStream
  <2>2. Log!Retire
    BY <1>5, <2>1 DEF SwapIn, Log!Retire
  <2> QED
    BY <2>2 DEF Log!Next
<1>6. CASE UNCHANGED vars
  BY <1>6 DEF vars
<1> QED
  BY <1>1, <1>2, <1>3, <1>4, <1>5, <1>6 DEF Next, Caller, Thread, Log!Next

\* The writer thread and its caller implement the append log.
THEOREM Refinement == Spec => ImplementsLog
<1>1. Init => Log!Init
  BY DEF Init, Log!Init, Run, Log!Run
<1> QED
  BY <1>1, LogStep, Invariance, PTL DEF Spec, ImplementsLog, Log!Spec

-----------------------------------------------------------------------------
(* The buffers of a queue, put one after the other. *)

\* f is what FlattenSeq has of q after each of its buffers.
Sums(q, f) == /\ f \in [1 .. Len(q) -> Seq(Nat)]
              /\ \A i \in 1 .. Len(q) : f[i] = IF i = 1 THEN q[i] ELSE f[i - 1] \o q[i]
FlatDef(q, f) == f = [i \in 1 .. Len(q) |-> IF i = 1 THEN q[i] ELSE f[i - 1] \o q[i]]

LEMMA Joins == \A a, b \in Seq(Nat) : a \o b \in Seq(Nat)
BY ConcatProperties

LEMMA Regroups == \A a, b, c \in Seq(Nat) : (a \o b) \o c = a \o (b \o c)
BY ConcatAssociative

LEMMA JoinsNothing == <<>> \in Seq(Nat) /\ \A a \in Seq(Nat) : a \o <<>> = a /\ <<>> \o a = a
BY ConcatEmptySeq, EmptySeq

LEMMA LeastOf == ASSUME NEW S, S \subseteq Nat, S # {} PROVE \E x \in S : \A y \in S : x <= y
<1> DEFINE R == {ss \in Nat \X Nat : ss[1] < ss[2]}
<1>0. IsWellFoundedOn(R, Nat)
  BY NatLessThanWellFounded DEF OpToRel
<1> HIDE DEF R
<1>1. PICK x \in S : \A y \in S : ~(<<y, x>> \in R)
  BY <1>0, WFMin
<1>2. \A y \in S : ~ (y < x)
  BY <1>1 DEF R
<1> QED BY <1>2

LEMMA SumsExist ==
    ASSUME NEW q \in Seq(Seq(Nat)), q # <<>>
    PROVE  \E f : Sums(q, f)
<1> DEFINE P(n) == \E g \in [1 .. n -> Seq(Nat)] :
                      \A i \in 1 .. n : g[i] = IF i = 1 THEN q[i] ELSE g[i - 1] \o q[i]
           S == {x \in 1 .. Len(q) : ~P(x)}
<1>1. Len(q) \in Nat /\ Len(q) > 0 /\ \A i \in 1 .. Len(q) : q[i] \in Seq(Nat)
  BY ElementOfSeq, LenProperties, EmptySeq
<1>2. P(1)
  <2> DEFINE g == [i \in 1 .. 1 |-> q[1]]
  <2>1. g \in [1 .. 1 -> Seq(Nat)] /\ \A i \in 1 .. 1 : g[i] = q[i]
    BY <1>1
  <2> HIDE DEF g
  <2>2. \A i \in 1 .. 1 : g[i] = IF i = 1 THEN q[i] ELSE g[i - 1] \o q[i]
    BY <2>1
  <2> QED BY <2>1, <2>2
<1>3. ASSUME NEW n \in 1 .. Len(q) - 1, P(n) PROVE P(n + 1)
  <2>1. PICK g \in [1 .. n -> Seq(Nat)] : \A i \in 1 .. n : g[i] = IF i = 1 THEN q[i] ELSE g[i - 1] \o q[i]
    BY <1>3
  <2>2. q[n + 1] \in Seq(Nat) /\ g[n] \in Seq(Nat)
    BY <1>1, <2>1
  <2>3. PICK r \in Seq(Nat) : r = g[n] \o q[n + 1]
    BY <2>2, Joins
  <2> DEFINE h == [i \in 1 .. n + 1 |-> IF i <= n THEN g[i] ELSE r]
  <2>a. n \in Nat /\ \A i \in 1 .. n + 1 : i <= n => i \in 1 .. n
    OBVIOUS
  <2>4. h \in [1 .. n + 1 -> Seq(Nat)] /\ h[n + 1] = r /\ \A i \in 1 .. n : h[i] = g[i]
    <3>1. n + 1 \in 1 .. n + 1 /\ ~(n + 1 <= n) /\ \A i \in 1 .. n : i \in 1 .. n + 1 /\ i <= n
      BY <2>a
    <3>2. h \in [1 .. n + 1 -> Seq(Nat)]
      BY <2>1, <2>3, <2>a
    <3> QED BY <3>1, <3>2
  <2> HIDE DEF h
  <2>5. ASSUME NEW i \in 1 .. n + 1 PROVE h[i] = IF i = 1 THEN q[i] ELSE h[i - 1] \o q[i]
    <3>1. CASE i = n + 1
      <4>1. h[i - 1] = g[n] /\ i # 1
        BY <2>4, <3>1
      <4> QED BY <2>3, <2>4, <3>1, <4>1
    <3>2. CASE i # n + 1
      <4>1. i \in 1 .. n /\ (i # 1 => i - 1 \in 1 .. n)
        BY <3>2
      <4> QED BY <2>1, <2>4, <4>1
    <3> QED BY <3>1, <3>2
  <2> QED BY <2>4, <2>5
<1> HIDE DEF P
<1>a. S \subseteq Nat /\ \A m \in 1 .. Len(q) : m \in S <=> ~P(m)
  OBVIOUS
<1> HIDE DEF S
<1>4. CASE S # {}
  <2>1. PICK m \in S : \A y \in S : m <= y
    BY <1>4, <1>a, LeastOf
  <2>2. m \in 1 .. Len(q) /\ ~P(m) /\ m # 1
    BY <1>2, <2>1 DEF S
  <2>3. m - 1 \in 1 .. Len(q) - 1 /\ ~(m <= m - 1) /\ (m - 1) + 1 = m
    BY <1>1, <2>2
  <2>4. P(m - 1)
    BY <1>1, <1>a, <2>1, <2>3
  <2>5. P((m - 1) + 1)
    BY <1>3, <2>3, <2>4
  <2> QED BY <2>2, <2>3, <2>5
<1>5. CASE S = {}
  <2>1. P(Len(q))
    BY <1>1, <1>5, <1>a
  <2> QED BY <2>1 DEF P, Sums
<1> QED BY <1>4, <1>5

LEMMA SumsGive ==
    ASSUME NEW q \in Seq(Seq(Nat)), q # <<>>, NEW f, Sums(q, f)
    PROVE  FlattenSeq(q) = f[Len(q)] /\ FlattenSeq(q) \in Seq(Nat)
<1>1. Len(q) \in Nat /\ Len(q) > 0
  BY LenProperties, EmptySeq
<1>2. FlatDef(q, f)
  BY DEF Sums, FlatDef
<1>3. PICK h : FlatDef(q, h) /\ FlattenSeq(q) = h[Len(q)]
  <2>1. FlattenSeq(q) = (CHOOSE h : FlatDef(q, h))[Len(q)]
    BY <1>1 DEF FlattenSeq, FlatDef
  <2>2. FlatDef(q, CHOOSE h : FlatDef(q, h))
    BY <1>2
  <2> QED BY <2>1, <2>2
<1>4. \A i \in 1 .. Len(q) : h[i] = IF i = 1 THEN q[i] ELSE h[i - 1] \o q[i]
  BY <1>3 DEF FlatDef
<1> DEFINE S == {i \in 1 .. Len(q) : h[i] # f[i]}
<1>a. S \subseteq Nat /\ \A m \in 1 .. Len(q) : m \in S <=> h[m] # f[m]
  OBVIOUS
<1>5. CASE S # {}
  <2> HIDE DEF S
  <2>1. PICK m \in S : \A y \in S : m <= y
    BY <1>5, <1>a, LeastOf
  <2>2. m \in 1 .. Len(q) /\ h[m] # f[m]
    BY <2>1 DEF S
  <2>3. m # 1 => m - 1 \in 1 .. Len(q) /\ ~(m <= m - 1)
    BY <1>1, <2>2
  <2>4. m # 1 => h[m - 1] = f[m - 1]
    BY <1>a, <2>1, <2>3
  <2>5. f[m] = IF m = 1 THEN q[m] ELSE f[m - 1] \o q[m]
    BY <2>2 DEF Sums
  <2> QED BY <1>4, <2>2, <2>4, <2>5
<1>6. CASE S = {}
  <2>1. Len(q) \in 1 .. Len(q)
    BY <1>1
  <2>2. h[Len(q)] = f[Len(q)]
    BY <1>6, <1>a, <2>1
  <2> QED BY <1>3, <2>1, <2>2 DEF Sums
<1> QED BY <1>5, <1>6

LEMMA FlatType == \A q \in Seq(Seq(Nat)) : FlattenSeq(q) \in Seq(Nat)
<1> SUFFICES ASSUME NEW q \in Seq(Seq(Nat)) PROVE FlattenSeq(q) \in Seq(Nat)
  OBVIOUS
<1>1. CASE q = <<>>
  BY <1>1, EmptySeq DEF FlattenSeq
<1>2. CASE q # <<>>
  BY <1>2, SumsExist, SumsGive
<1> QED BY <1>1, <1>2

LEMMA FlatNothing == FlattenSeq(<<>>) = <<>>
BY DEF FlattenSeq

\* A buffer behind the others.
LEMMA FlatBehind ==
    ASSUME NEW q \in Seq(Seq(Nat)), NEW b \in Seq(Nat)
    PROVE  FlattenSeq(Append(q, b)) = FlattenSeq(q) \o b
<1>0. PICK p : p = Append(q, b)
  OBVIOUS
<1>1. /\ p \in Seq(Seq(Nat)) /\ p # <<>> /\ Len(p) = Len(q) + 1 /\ Len(q) \in Nat
      /\ p[Len(q) + 1] = b /\ \A i \in 1 .. Len(q) : p[i] = q[i]
  BY <1>0, AppendProperties, LenProperties
<1>2. CASE q = <<>>
  <2>1. Len(p) = 1 /\ p[1] = b
    BY <1>1, <1>2
  <2> DEFINE f == [i \in 1 .. 1 |-> b]
  <2>2. Sums(p, f)
    BY <2>1 DEF Sums
  <2>3. f[Len(p)] = b
    BY <2>1
  <2> HIDE DEF f
  <2>4. FlattenSeq(p) = b
    BY <1>1, <2>2, <2>3, SumsGive
  <2> QED BY <1>0, <1>2, <2>4, FlatNothing, JoinsNothing
<1>3. CASE q # <<>>
  <2>1. PICK f : Sums(q, f)
    BY <1>3, SumsExist
  <2>2. FlattenSeq(q) = f[Len(q)] /\ FlattenSeq(q) \in Seq(Nat) /\ Len(q) > 0
    BY <1>1, <1>3, <2>1, SumsGive, EmptySeq
  <2>3. PICK r \in Seq(Nat) : r = f[Len(q)] \o b
    BY <2>2, Joins
  <2> DEFINE h == [i \in 1 .. Len(q) + 1 |-> IF i <= Len(q) THEN f[i] ELSE r]
  <2>4. h \in [1 .. Len(q) + 1 -> Seq(Nat)] /\ h[Len(q) + 1] = r /\ \A i \in 1 .. Len(q) : h[i] = f[i]
    BY <1>1, <2>1, <2>3 DEF Sums
  <2> HIDE DEF h
  <2>5. ASSUME NEW i \in 1 .. Len(q) + 1 PROVE h[i] = IF i = 1 THEN p[i] ELSE h[i - 1] \o p[i]
    <3>1. CASE i = Len(q) + 1
      <4>1. i - 1 = Len(q) /\ Len(q) \in 1 .. Len(q) /\ i # 1
        BY <1>1, <2>2, <3>1
      <4> QED BY <1>1, <2>3, <2>4, <3>1, <4>1
    <3>2. CASE i # Len(q) + 1
      <4>1. i \in 1 .. Len(q) /\ (i # 1 => i - 1 \in 1 .. Len(q))
        BY <1>1, <3>2
      <4> QED BY <1>1, <2>1, <2>4, <4>1 DEF Sums
    <3> QED BY <3>1, <3>2
  <2>6. Sums(p, h)
    BY <1>1, <2>4, <2>5 DEF Sums
  <2>7. FlattenSeq(p) = r
    BY <1>1, <2>4, <2>6, SumsGive
  <2> QED BY <1>0, <2>2, <2>3, <2>7
<1> QED BY <1>2, <1>3

\* The oldest one in front of the rest.
LEMMA FlatInFront ==
    ASSUME NEW q \in Seq(Seq(Nat)), q # <<>>
    PROVE  /\ Head(q) \in Seq(Nat) /\ Tail(q) \in Seq(Seq(Nat))
           /\ FlattenSeq(q) = Head(q) \o FlattenSeq(Tail(q))
<1>0. PICK t : t = Tail(q)
  OBVIOUS
<1>1. /\ t \in Seq(Seq(Nat)) /\ Len(t) = Len(q) - 1 /\ Head(q) = q[1] /\ Len(q) \in Nat /\ Len(q) > 0
      /\ \A i \in 1 .. Len(t) : t[i] = q[i + 1]
  BY <1>0, HeadTailProperties, LenProperties, EmptySeq
<1>2. \A i \in 1 .. Len(q) : q[i] \in Seq(Nat)
  BY ElementOfSeq
<1>3. CASE t = <<>>
  <2>1. Len(q) = 1 /\ q[1] \in Seq(Nat)
    BY <1>1, <1>2, <1>3
  <2> DEFINE f == [i \in 1 .. 1 |-> q[1]]
  <2>2. Sums(q, f)
    BY <2>1 DEF Sums
  <2>3. f[Len(q)] = q[1]
    BY <2>1
  <2> HIDE DEF f
  <2>4. FlattenSeq(q) = q[1]
    BY <2>2, <2>3, SumsGive
  <2> QED BY <1>0, <1>1, <1>3, <2>1, <2>4, FlatNothing, JoinsNothing
<1>4. CASE t # <<>>
  <2>1. PICK g : Sums(t, g)
    BY <1>1, <1>4, SumsExist
  <2>2. FlattenSeq(t) = g[Len(t)] /\ FlattenSeq(t) \in Seq(Nat) /\ Len(t) > 0
    BY <1>1, <1>4, <2>1, SumsGive, EmptySeq
  <2>3. g \in [1 .. Len(t) -> Seq(Nat)] /\ q[1] \in Seq(Nat)
    BY <1>1, <1>2, <2>1 DEF Sums
  <2> DEFINE h == [i \in 1 .. Len(q) |-> IF i = 1 THEN q[1] ELSE q[1] \o g[i - 1]]
  <2>4. \A i \in 1 .. Len(q) : i # 1 => i - 1 \in 1 .. Len(t)
    BY <1>1
  <2>5. h \in [1 .. Len(q) -> Seq(Nat)]
    BY <2>3, <2>4, Joins
  <2>a. 1 \in 1 .. Len(q)
    BY <1>1
  <2>6. h[1] = q[1] /\ \A i \in 1 .. Len(q) : i # 1 => h[i] = q[1] \o g[i - 1]
    BY <2>a
  <2> HIDE DEF h
  <2>7. ASSUME NEW i \in 1 .. Len(q), i # 1 PROVE h[i] = h[i - 1] \o q[i]
    <3>1. PICK j \in 1 .. Len(t) : j = i - 1
      BY <2>4, <2>7
    <3>2. t[j] = q[i] /\ j \in 1 .. Len(q) /\ t[j] \in Seq(Nat)
      BY <1>1, <1>2, <3>1
    <3>3. g[j] = IF j = 1 THEN t[j] ELSE g[j - 1] \o t[j]
      BY <2>1 DEF Sums
    <3>4. CASE j = 1
      BY <2>6, <2>7, <3>1, <3>2, <3>3, <3>4
    <3>5. CASE j # 1
      <4>1. j - 1 \in 1 .. Len(t) /\ g[j - 1] \in Seq(Nat)
        <5>1. \A n \in Nat : \A k \in 1 .. n : k # 1 => k - 1 \in 1 .. n
          OBVIOUS
        <5>2. Len(t) \in Nat
          BY <1>1
        <5>3. j - 1 \in 1 .. Len(t)
          BY <3>5, <5>1, <5>2
        <5> QED BY <2>3, <5>3
      <4>2. q[1] \o (g[j - 1] \o t[j]) = (q[1] \o g[j - 1]) \o t[j]
        BY <2>3, <3>2, <4>1, Regroups
      <4> QED BY <2>6, <2>7, <3>1, <3>2, <3>3, <3>5, <4>2
    <3> QED BY <3>4, <3>5
  <2>8. Sums(q, h)
    BY <2>5, <2>6, <2>7 DEF Sums
  <2>9. h[Len(q)] = q[1] \o g[Len(t)]
    <3>0. \A n \in Nat : n - 1 > 0 => n \in 1 .. n /\ n # 1
      OBVIOUS
    <3>1. Len(q) \in 1 .. Len(q) /\ Len(q) # 1 /\ Len(q) - 1 = Len(t)
      BY <1>1, <2>2, <3>0
    <3> QED BY <2>6, <3>1
  <2>10. FlattenSeq(q) = q[1] \o FlattenSeq(t)
    BY <2>2, <2>8, <2>9, SumsGive
  <2> QED BY <1>0, <1>1, <1>2, <2>3, <2>10
<1> QED BY <1>3, <1>4

-----------------------------------------------------------------------------
(* The file operations, file by file. *)

Disk(d) == DOMAIN d \subseteq FileNames /\ d \in [DOMAIN d -> Seq(Nat)]

LEMMA PutIs ==
    ASSUME NEW d, Disk(d), NEW f \in FileNames, NEW c \in Seq(Nat)
    PROVE  /\ Disk(Put(d, f, c))
           /\ DOMAIN Put(d, f, c) = DOMAIN d \union {f}
           /\ Put(d, f, c)[f] = c
           /\ \A g \in DOMAIN d : g # f => Put(d, f, c)[g] = d[g]
BY DEF Put, Disk

LEMMA WithoutIs ==
    ASSUME NEW d, Disk(d), NEW f
    PROVE  /\ Disk(Without(d, f))
           /\ DOMAIN Without(d, f) = DOMAIN d \ {f}
           /\ \A g \in DOMAIN d : g # f => Without(d, f)[g] = d[g]
BY DEF Without, Disk

LEMMA RenameIs ==
    ASSUME NEW d, Disk(d), NEW from \in DOMAIN d, NEW to \in FileNames, from # to
    PROVE  /\ Disk(Rename(d, from, to))
           /\ DOMAIN Rename(d, from, to) = (DOMAIN d \ {from}) \union {to}
           /\ Rename(d, from, to)[to] = d[from]
           /\ \A g \in DOMAIN d : g \notin {from, to} => Rename(d, from, to)[g] = d[g]
<1>1. d[from] \in Seq(Nat)
  BY DEF Disk
<1>2. PICK e : e = Without(d, from)
  OBVIOUS
<1>3. Disk(e) /\ DOMAIN e = DOMAIN d \ {from} /\ \A g \in DOMAIN d : g # from => e[g] = d[g]
  BY <1>2, WithoutIs
<1>4. /\ Disk(Put(e, to, d[from]))
      /\ DOMAIN Put(e, to, d[from]) = DOMAIN e \union {to}
      /\ Put(e, to, d[from])[to] = d[from]
      /\ \A g \in DOMAIN e : g # to => Put(e, to, d[from])[g] = e[g]
  BY <1>1, <1>3, PutIs
<1>5. Rename(d, from, to) = Put(e, to, d[from])
  BY <1>2 DEF Rename
<1> QED BY <1>3, <1>4, <1>5

LEMMA CutIs ==
    ASSUME NEW d, Disk(d), NEW f \in DOMAIN d, NEW c \in Seq(Nat)
    PROVE  LET e == [d EXCEPT ![f] = c]
           IN  /\ Disk(e) /\ DOMAIN e = DOMAIN d /\ e[f] = c
               /\ \A g \in DOMAIN d : g # f => e[g] = d[g]
BY DEF Disk

-----------------------------------------------------------------------------
(* The parts of sequences. *)

LEMMA LenOf ==
    \A s \in Seq(Nat) : /\ Len(s) \in Nat /\ DOMAIN s = 1 .. Len(s)
                        /\ \A j \in 1 .. Len(s) : s[j] \in Nat
BY LenProperties, ElementOfSeq

LEMMA PartOf ==
    ASSUME NEW s \in Seq(Nat), NEW m \in Nat, NEW n \in Nat, m >= 1, n <= Len(s), m <= n + 1
    PROVE  /\ SubSeq(s, m, n) \in Seq(Nat)
           /\ Len(SubSeq(s, m, n)) = n + 1 - m
           /\ \A j \in 1 .. n + 1 - m : SubSeq(s, m, n)[j] = s[m - 1 + j]
<1>1. \A i \in m .. n : s[i] \in Nat
  BY LenOf
<1>2. m \in Int /\ n \in Int
  OBVIOUS
<1>3. /\ SubSeq(s,m,n) \in Seq(Nat)
      /\ Len(SubSeq(s,m,n)) = IF m<=n THEN n-m+1 ELSE 0
      /\ \A i \in 1 .. n-m+1 : SubSeq(s,m,n)[i] = s[m+i-1]
  BY <1>1, <1>2, SubSeqProperties
<1>4. n - m + 1 = n + 1 - m /\ \A i \in 1 .. n + 1 - m : m + i - 1 = m - 1 + i
  OBVIOUS
<1> QED BY <1>3, <1>4

LEMMA SameSeq ==
    ASSUME NEW s \in Seq(Nat), NEW t \in Seq(Nat), Len(s) = Len(t),
           \A j \in 1 .. Len(s) : s[j] = t[j]
    PROVE  s = t
BY SeqEqual

LEMMA JoinIs ==
    \A a, b \in Seq(Nat) :
        /\ a \o b \in Seq(Nat) /\ Len(a \o b) = Len(a) + Len(b)
        /\ \A j \in 1 .. Len(a) : (a \o b)[j] = a[j]
        /\ \A j \in 1 .. Len(b) : (a \o b)[Len(a) + j] = b[j]
<1> SUFFICES ASSUME NEW a \in Seq(Nat), NEW b \in Seq(Nat)
             PROVE  /\ a \o b \in Seq(Nat) /\ Len(a \o b) = Len(a) + Len(b)
                    /\ \A j \in 1 .. Len(a) : (a \o b)[j] = a[j]
                    /\ \A j \in 1 .. Len(b) : (a \o b)[Len(a) + j] = b[j]
  OBVIOUS
<1>0. Len(a) \in Nat /\ Len(b) \in Nat
  BY LenOf
<1>1. /\ a \o b \in Seq(Nat) /\ Len(a \o b) = Len(a) + Len(b)
      /\ \A i \in 1 .. Len(a) + Len(b) : (a \o b)[i] = IF i <= Len(a) THEN a[i] ELSE b[i - Len(a)]
  BY ConcatProperties
<1>2. \A x, y \in Nat : /\ \A j \in 1 .. x : j \in 1 .. x + y /\ j <= x
                        /\ \A j \in 1 .. y : x + j \in 1 .. x + y /\ ~(x + j <= x) /\ x + j - x = j
  OBVIOUS
<1> QED BY <1>0, <1>1, <1>2

LEMMA AddedIs ==
    \A a \in Seq(Nat), x \in Nat :
        /\ Append(a, x) \in Seq(Nat) /\ Len(Append(a, x)) = Len(a) + 1
        /\ Append(a, x)[Len(a) + 1] = x
        /\ \A j \in 1 .. Len(a) : Append(a, x)[j] = a[j]
BY AppendProperties

LEMMA AddedBehind ==
    ASSUME NEW a \in Seq(Nat), NEW b \in Seq(Nat), NEW x \in Nat
    PROVE  a \o Append(b, x) = Append(a \o b, x)
<1>1. a \o b \in Seq(Nat) /\ <<x>> \in Seq(Nat)
  BY Joins
<1>2. Append(b, x) = b \o <<x>> /\ Append(a \o b, x) = (a \o b) \o <<x>>
  BY <1>1, AppendIsConcat
<1> QED BY <1>1, <1>2, Regroups

LEMMA MaxIn ==
    ASSUME NEW S, NEW n \in Nat, S \subseteq 0 .. n, S # {}
    PROVE  Max(S) \in S /\ \A y \in S : Max(S) >= y
<1> DEFINE T == {n - x : x \in S}
<1>1. T \subseteq Nat /\ T # {}
  <2>1. \A x \in S : x \in 0 .. n /\ n - x \in Nat
    OBVIOUS
  <2>2. T \subseteq Nat
    BY <2>1
  <2>3. T # {}
    OBVIOUS
  <2> QED BY <2>2, <2>3
<1>2. PICK m \in T : \A y \in T : m <= y
  <2> HIDE DEF T
  <2> QED BY <1>1, LeastOf
<1>3. PICK x \in S : m = n - x
  BY <1>2
<1>4. \A y \in S : x >= y
  <2>1. \A y \in S : n - y \in T
    OBVIOUS
  <2> QED BY <2>1, <1>2, <1>3
<1> QED BY <1>4 DEF Max

LEMMA MinOfTwo ==
    ASSUME NEW m \in Nat, NEW n \in Nat
    PROVE  Min({m, n}) = IF m <= n THEN m ELSE n
BY DEF Min

\* The last n of s are the whole of s when n is its length or more.
LEMMA LastNIs ==
    ASSUME NEW s \in Seq(Nat), NEW n \in Nat
    PROVE  \E k \in 0 .. Len(s) :
              /\ k = (IF n <= Len(s) THEN n ELSE Len(s)) /\ LastN(s, n) \in Seq(Nat)
              /\ LastN(s, n) = SubSeq(s, Len(s) - k + 1, Len(s)) /\ Len(LastN(s, n)) = k
              /\ \A j \in 1 .. k : LastN(s, n)[j] = s[Len(s) - k + j]
<1>1. Len(s) \in Nat
  BY LenOf
<1>2. PICK k \in 0 .. Len(s) : k = (IF n <= Len(s) THEN n ELSE Len(s))
  BY <1>1
<1>3. LastN(s, n) = SubSeq(s, Len(s) - k + 1, Len(s))
  BY <1>1, <1>2, MinOfTwo DEF LastN
<1>0. \A l \in Nat : \A j \in 0 .. l : l - j + 1 \in Nat
  OBVIOUS
<1>4. PICK m \in Nat : m = Len(s) - k + 1
  BY <1>0, <1>1
<1>5. m >= 1 /\ m <= Len(s) + 1 /\ Len(s) + 1 - m = k /\ m - 1 = Len(s) - k
  BY <1>1, <1>4
<1>6. /\ SubSeq(s, m, Len(s)) \in Seq(Nat) /\ Len(SubSeq(s, m, Len(s))) = k
      /\ \A j \in 1 .. k : SubSeq(s, m, Len(s))[j] = s[Len(s) - k + j]
  BY SMTT(30), <1>1, <1>5, PartOf
<1> QED BY <1>2, <1>3, <1>4, <1>6

LEMMA LastNAll == \A s \in Seq(Nat) : LastN(s, Len(s)) = s
<1> SUFFICES ASSUME NEW s \in Seq(Nat) PROVE LastN(s, Len(s)) = s
  OBVIOUS
<1>1. Len(s) \in Nat
  BY LenOf
<1>2. PICK k \in 0 .. Len(s) : k = Len(s) /\ LastN(s, Len(s)) = SubSeq(s, Len(s) - k + 1, Len(s))
  BY <1>1, LastNIs
<1>3. LastN(s, Len(s)) = SubSeq(s, 1, Len(s))
  BY <1>1, <1>2
<1> QED BY <1>3, SubSeqFull

\* Two parts that meet are one part.
LEMMA PartsMeet ==
    ASSUME NEW s \in Seq(Nat), NEW a \in Nat, NEW b \in Nat, NEW c \in Nat,
           a <= b, b <= c, c <= Len(s)
    PROVE  SubSeq(s, a + 1, b) \o SubSeq(s, b + 1, c) = SubSeq(s, a + 1, c)
<1>1. Len(s) \in Nat
  BY LenOf
<1>2. a + 1 \in 1 .. Len(s) + 1 /\ b \in a + 1 - 1 .. Len(s) /\ c \in b .. Len(s)
  BY <1>1
<1> QED BY <1>2, ConcatAdjacentSubSeq

-----------------------------------------------------------------------------
(* An index and its data file, whole or as a crash leaves them. *)

\* An index goes up and points at records of its file.
Points(b, x) == /\ \A j \in 1 .. Len(x) : x[j] \in 1 .. Len(b)
                /\ \A i, j \in 1 .. Len(x) : i < j => x[i] < x[j]
\* It finds the lines of v after the first n there.
Indexes(b, x, v, n) == /\ Points(b, x)
                       /\ n + Len(x) = Len(v)
                       /\ \A j \in 1 .. Len(x) : b[x[j]] = v[n + j]
\* y is the start of x; d is what is left of b, the last record perhaps torn.
Begins(y, x) == Len(y) <= Len(x) /\ \A j \in 1 .. Len(y) : y[j] = x[j]
Left(d, b) == /\ Len(d) <= Len(b)
              /\ \A p \in 1 .. Len(d) : d[p] = b[p] \/ (p = Len(d) /\ d[p] = Torn)
\* Every line of s is later than c; every record of s is, or is torn.
Proper(s) == \A p \in 1 .. Len(s) : s[p] > 0
AllIn(s, L) == \A p \in 1 .. Len(s) : s[p] \in L
Clean(s, L) == \A p \in 1 .. Len(s) : s[p] = Torn \/ s[p] \in L

LEMMA BeginsJoin == \A a, b \in Seq(Nat) : Begins(a, a \o b)
<1> SUFFICES ASSUME NEW a \in Seq(Nat), NEW b \in Seq(Nat) PROVE Begins(a, a \o b)
  OBVIOUS
<1>1. Len(a) \in Nat /\ Len(b) \in Nat /\ Len(a \o b) = Len(a) + Len(b) /\ \A j \in 1 .. Len(a) : (a \o b)[j] = a[j]
  BY LenOf, JoinIs
<1> QED BY <1>1 DEF Begins

LEMMA BeginsLeft == \A d, b \in Seq(Nat) : Begins(d, b) => Left(d, b)
BY DEF Begins, Left

LEMMA BeginsItself == \A x \in Seq(Nat) : Begins(x, x)
BY LenOf DEF Begins

LEMMA LeftLonger ==
    ASSUME NEW d \in Seq(Nat), NEW h \in Seq(Nat), NEW r \in Seq(Nat), Left(d, h)
    PROVE  Left(d, h \o r)
<1>1. Len(d) \in Nat /\ Len(h) \in Nat /\ Len(r) \in Nat /\ Len(h \o r) = Len(h) + Len(r)
  BY LenOf, JoinIs
<1>2. \A j \in 1 .. Len(h) : (h \o r)[j] = h[j]
  BY JoinIs
<1>3. \A p \in 1 .. Len(d) : p \in 1 .. Len(h)
  BY <1>1 DEF Left
<1> QED BY <1>1, <1>2, <1>3 DEF Left

LEMMA LeftBehind ==
    ASSUME NEW a \in Seq(Nat), NEW d \in Seq(Nat), NEW b \in Seq(Nat), Left(d, b)
    PROVE  Left(a \o d, a \o b)
<1>1. Len(a) \in Nat /\ Len(b) \in Nat /\ Len(d) \in Nat
  BY LenOf
<1>2. Len(a \o d) = Len(a) + Len(d) /\ Len(a \o b) = Len(a) + Len(b)
  BY JoinIs
<1>3. /\ \A j \in 1 .. Len(a) : (a \o d)[j] = a[j] /\ (a \o b)[j] = a[j]
      /\ \A j \in 1 .. Len(d) : (a \o d)[Len(a) + j] = d[j]
      /\ \A j \in 1 .. Len(b) : (a \o b)[Len(a) + j] = b[j]
  BY JoinIs
<1>4. Len(a \o d) <= Len(a \o b)
  BY <1>1, <1>2 DEF Left
<1>5. ASSUME NEW p \in 1 .. Len(a \o d)
      PROVE  (a \o d)[p] = (a \o b)[p] \/ (p = Len(a \o d) /\ (a \o d)[p] = Torn)
  <2>1. CASE p \in 1 .. Len(a)
    BY <1>3, <2>1
  <2>2. CASE p \notin 1 .. Len(a)
    <3>0. \A x, y \in Nat : \A q \in 1 .. x + y : q \notin 1 .. x => q - x \in 1 .. y /\ x + (q - x) = q
      OBVIOUS
    <3>a. p \in 1 .. Len(a) + Len(d)
      BY <1>2
    <3>b. p - Len(a) \in 1 .. Len(d) /\ Len(a) + (p - Len(a)) = p
      BY <1>1, <2>2, <3>0, <3>a
    <3>1. PICK q \in 1 .. Len(d) : p = Len(a) + q
      BY <3>b
    <3>2. q \in 1 .. Len(b)
      BY <1>1 DEF Left
    <3>3. (a \o d)[p] = d[q] /\ (a \o b)[p] = b[q]
      BY <1>3, <3>1, <3>2
    <3>4. d[q] = b[q] \/ (q = Len(d) /\ d[q] = Torn)
      BY DEF Left
    <3> QED BY <1>2, <3>1, <3>3, <3>4
  <2> QED BY <2>1, <2>2
<1> QED BY <1>4, <1>5 DEF Left

\* A buffer that was being written when the process died.
LEMMA TornLeft ==
    ASSUME NEW a \in Seq(Nat), NEW h \in Seq(Nat), NEW t \in Seq(Nat), NEW c \in Seq(Nat),
           NEW k \in 0 .. Len(h) - 1
    PROVE  LET d == a \o Append(SubSeq(h, 1, k), Torn)
           IN  d \in Seq(Nat) /\ Left(d, a \o (h \o t) \o c)
<1>0. Len(h) \in Nat /\ k \in Nat /\ k < Len(h)
  BY LenOf
<1>1. PICK s : s = SubSeq(h, 1, k)
  OBVIOUS
<1>2. s \in Seq(Nat) /\ Len(s) = k /\ \A j \in 1 .. k : s[j] = h[j]
  <2>1. 1 \in Nat /\ 1 >= 1 /\ k <= Len(h) /\ 1 <= k + 1 /\ k + 1 - 1 = k /\ \A j \in 1 .. k : 1 - 1 + j = j
    BY <1>0
  <2>2. /\ SubSeq(h, 1, k) \in Seq(Nat) /\ Len(SubSeq(h, 1, k)) = k + 1 - 1
        /\ \A j \in 1 .. k + 1 - 1 : SubSeq(h, 1, k)[j] = h[1 - 1 + j]
    BY ONLY <1>0, <2>1, PartOf, h \in Seq(Nat)
  <2> QED BY <1>1, <2>1, <2>2
<1>3. PICK e : e = Append(s, Torn)
  OBVIOUS
<1>4. e \in Seq(Nat) /\ Len(e) = k + 1 /\ e[k + 1] = Torn /\ \A j \in 1 .. k : e[j] = h[j]
  BY <1>2, <1>3, AddedIs DEF Torn
<1>5. Left(e, h)
  <2>1. k + 1 <= Len(h)
    BY <1>0
  <2>2. \A p \in 1 .. k + 1 : p \in 1 .. k \/ p = k + 1
    BY <1>0
  <2> QED BY <1>4, <2>1, <2>2 DEF Left
<1>6. Left(e, h \o (t \o c))
  BY <1>4, <1>5, Joins, LeftLonger
<1>7. Left(a \o e, a \o (h \o (t \o c)))
  BY <1>4, <1>6, Joins, LeftBehind
<1>8. a \o (h \o t) \o c = a \o (h \o (t \o c))
  <2>1. h \o t \in Seq(Nat)
    BY Joins
  <2>2. (a \o (h \o t)) \o c = a \o ((h \o t) \o c)
    BY SMTT(30), <2>1, Regroups
  <2>3. (h \o t) \o c = h \o (t \o c)
    BY Regroups
  <2> QED BY <2>2, <2>3
<1> QED BY <1>1, <1>3, <1>4, <1>7, <1>8, Joins

\* What a read finds of a line is the line, or nothing.
LEMMA ReadHot ==
    ASSUME NEW b \in Seq(Nat), NEW x \in Seq(Nat), NEW v \in Seq(Nat), NEW n \in Nat,
           NEW d \in Seq(Nat), NEW y \in Seq(Nat),
           Indexes(b, x, v, n), Left(d, b), Begins(y, x), NEW j
    PROVE  RecordAt(d, y, j) \in {None, v[n + j]}
<1>1. CASE ~ (j \in DOMAIN y /\ y[j] \in DOMAIN d)
  BY <1>1 DEF RecordAt
<1>2. CASE j \in DOMAIN y /\ y[j] \in DOMAIN d
  <2>1. j \in 1 .. Len(y) /\ y[j] \in 1 .. Len(d) /\ Len(y) \in Nat /\ Len(x) \in Nat
    BY <1>2, LenOf
  <2>2. j \in 1 .. Len(x) /\ y[j] = x[j]
    BY <2>1 DEF Begins
  <2>3. b[y[j]] = v[n + j]
    BY <2>2 DEF Indexes
  <2>4. d[y[j]] = b[y[j]] \/ d[y[j]] = Torn
    BY <2>1 DEF Left
  <2> QED BY <1>2, <2>3, <2>4 DEF RecordAt, Torn, None
<1> QED BY <1>1, <1>2

\* z finds in d the m lines of v after the first n.
Keeps(d, z, v, n, m) == /\ z \in Seq(Nat) /\ Len(z) = m /\ Points(d, z)
                        /\ \A j \in 1 .. m : d[z[j]] = v[n + j] /\ d[z[j]] # None
                        /\ n + m <= Len(v)

\* What a process that opens the files finds in them: a start of the lines
\* that were there, and all of them when nothing is missing.
LEMMA FoundHot ==
    ASSUME NEW b \in Seq(Nat), NEW x \in Seq(Nat), NEW v \in Seq(Nat), NEW n \in Nat,
           NEW d \in Seq(Nat), NEW y \in Seq(Nat),
           Indexes(b, x, v, n), Left(d, b), Begins(y, x), Proper(v)
    PROVE  \E m \in Nat : /\ Keeps(d, Trimmed(d, y), v, n, m)
                          /\ d = b /\ y = x => n + m = Len(v)
<1> DEFINE good == {i \in DOMAIN y : RecordAt(d, y, i) # None}
<1>0. Len(y) \in Nat /\ Len(x) \in Nat /\ Len(v) \in Nat /\ DOMAIN y = 1 .. Len(y) /\ Len(d) \in Nat
  BY LenOf
<1>1. PICK m \in 0 .. Len(y) : /\ m = (IF good = {} THEN 0 ELSE Max(good))
                               /\ m # 0 => m \in good
                               /\ \A i \in good : i <= m
  <2>1. good \subseteq 0 .. Len(y)
    BY <1>0
  <2>2. good # {} => Max(good) \in good /\ \A i \in good : Max(good) >= i
    <3> HIDE DEF good
    <3> QED BY <1>0, <2>1, MaxIn
  <2>3. good # {} => Max(good) \in 0 .. Len(y)
    BY <2>1, <2>2
  <2> HIDE DEF good
  <2>a. 0 \in 0 .. Len(y)
    BY <1>0
  <2>4. CASE good = {}
    BY <2>4, <2>a
  <2>5. CASE good # {}
    <3>1. PICK k \in 0 .. Len(y) : k = Max(good)
      BY <2>3, <2>5
    <3>2. k \in good /\ \A i \in good : k >= i
      BY <2>2, <2>5, <3>1
    <3>3. \A i \in good : i <= k
      BY <2>1, <3>2
    <3> QED BY <2>5, <3>1, <3>2, <3>3
  <2> QED BY <2>4, <2>5
<1>2. PICK z : z = Trimmed(d, y)
  OBVIOUS
<1>3. z = SubSeq(y, 1, m) /\ z \in Seq(Nat) /\ Len(z) = m /\ \A j \in 1 .. m : z[j] = y[j]
  <2>1. z = SubSeq(y, 1, m)
    BY <1>1, <1>2 DEF Trimmed
  <2>2. 1 \in Nat /\ 1 >= 1 /\ m \in Nat /\ m <= Len(y) /\ 1 <= m + 1 /\ m + 1 - 1 = m /\ \A j \in 1 .. m : 1 - 1 + j = j
    BY <1>0
  <2>3. /\ SubSeq(y, 1, m) \in Seq(Nat) /\ Len(SubSeq(y, 1, m)) = m + 1 - 1
        /\ \A j \in 1 .. m + 1 - 1 : SubSeq(y, 1, m)[j] = y[1 - 1 + j]
    BY ONLY <2>2, PartOf, y \in Seq(Nat)
  <2> QED BY <2>1, <2>2, <2>3
<1>4. \A j \in 1 .. m : j \in 1 .. Len(x) /\ z[j] = x[j] /\ b[z[j]] = v[n + j] /\ z[j] \in Nat
  <2>1. \A j \in 1 .. m : j \in 1 .. Len(y) /\ j \in 1 .. Len(x)
    BY SMTT(30), <1>0 DEF Begins
  <2>2. \A j \in 1 .. m : z[j] = x[j]
    BY <1>3, <2>1 DEF Begins
  <2>3. \A j \in 1 .. m : b[z[j]] = v[n + j]
    BY <2>1, <2>2 DEF Indexes
  <2>4. \A j \in 1 .. m : z[j] \in Nat
    BY <1>3, LenOf
  <2> QED BY <2>1, <2>2, <2>3, <2>4
<1>5. \A i, j \in 1 .. m : i < j => z[i] < z[j]
  BY <1>4 DEF Indexes, Points
<1>6. m # 0 => z[m] \in 1 .. Len(d) /\ d[z[m]] # None
  <2>1. m # 0 => m \in DOMAIN y /\ RecordAt(d, y, m) # None
    BY <1>1
  <2>2. m # 0 => y[m] \in DOMAIN d /\ d[y[m]] # None
    BY <2>1 DEF RecordAt, None
  <2>3. m # 0 => m \in 1 .. m /\ y[m] = z[m]
    BY <1>0, <1>3
  <2> QED BY <2>2, <2>3, LenOf
<1>7. ASSUME NEW j \in 1 .. m PROVE z[j] \in 1 .. Len(d) /\ d[z[j]] = v[n + j] /\ d[z[j]] # None
  <2>0. m \in Nat /\ m # 0 /\ m \in 1 .. m /\ j \in 1 .. Len(x)
    <3>1. \A l \in Nat : \A k \in 0 .. l : \A i \in 1 .. k : k \in Nat /\ k # 0 /\ k \in 1 .. k
      OBVIOUS
    <3>2. m \in Nat /\ m # 0 /\ m \in 1 .. m
      BY <1>0, <3>1
    <3> QED BY <1>4, <3>2
  <2>1. z[j] >= 1 /\ z[j] \in Nat
    <3>1. x[j] \in 1 .. Len(b)
      BY <2>0 DEF Indexes, Points
    <3>2. z[j] = x[j] /\ z[j] \in Nat
      BY <1>4
    <3>3. Len(b) \in Nat
      BY LenOf
    <3> QED BY <3>1, <3>2, <3>3
  <2>2. z[j] <= z[m] /\ (j # m => z[j] < z[m])
    <3>1. CASE j = m
      BY <1>4, <2>0, <3>1
    <3>2. CASE j # m
      <4>1. j < m
        BY <2>0, <3>2
      <4>2. z[j] < z[m] /\ z[j] \in Nat /\ z[m] \in Nat
        BY <1>4, <1>5, <2>0, <4>1
      <4> QED BY <4>2
    <3> QED BY <3>1, <3>2
  <2>3. z[j] \in 1 .. Len(d)
    <3>1. z[m] \in 1 .. Len(d) /\ z[m] \in Nat /\ Len(d) \in Nat
      BY <1>0, <1>4, <1>6, <2>0
    <3>2. \A p, q, l \in Nat : q \in 1 .. l /\ p >= 1 /\ p <= q => p \in 1 .. l
      OBVIOUS
    <3> QED BY <2>1, <2>2, <3>1, <3>2
  <2>4. v[n + j] # None
    <3>1. n + j \in 1 .. Len(v)
      BY <1>0, <1>4, <2>0 DEF Indexes
    <3>2. v[n + j] > 0 /\ v[n + j] \in Nat
      BY <3>1, LenOf DEF Proper
    <3> QED BY <3>2 DEF None
  <2>5. d[z[j]] = b[z[j]] \/ (z[j] = Len(d) /\ d[z[j]] = Torn)
    BY <2>3 DEF Left
  <2>6. CASE d[z[j]] = b[z[j]]
    BY <1>4, <2>3, <2>4, <2>6
  <2>7. CASE z[j] = Len(d) /\ d[z[j]] = Torn
    <3>a. z[m] \in 1 .. Len(d) /\ z[m] \in Nat /\ Len(d) \in Nat
      BY <1>0, <1>4, <1>6, <2>0
    <3>b. \A p, q, l \in Nat : q \in 1 .. l /\ p = l => ~ (p < q)
      OBVIOUS
    <3>1. j = m
      BY <2>1, <2>2, <2>7, <3>a, <3>b
    <3> QED BY <1>6, <2>0, <2>7, <3>1 DEF Torn, None
  <2> QED BY <2>5, <2>6, <2>7
<1>8. Points(d, z)
  BY <1>3, <1>5, <1>7 DEF Points
<1>9. n + m <= Len(v)
  BY <1>0 DEF Begins, Indexes
<1>10. ASSUME d = b, y = x PROVE n + m = Len(v)
  <2>1. m = Len(y)
    <3>1. CASE Len(y) = 0
      BY <3>1
    <3>2. CASE Len(y) # 0
      <4>1. Len(y) \in 1 .. Len(y)
        BY <1>0, <3>2
      <4>2. y[Len(y)] \in 1 .. Len(d) /\ d[y[Len(y)]] = v[n + Len(y)] /\ n + Len(y) = Len(v)
        BY <1>10, <4>1 DEF Indexes, Points
      <4>3. v[Len(v)] # None
        <5>1. Len(v) \in 1 .. Len(v)
          BY <1>0, <3>2, <4>2
        <5>2. v[Len(v)] > 0 /\ v[Len(v)] \in Nat
          BY <5>1, LenOf DEF Proper
        <5> QED BY <5>2 DEF None
      <4>4. RecordAt(d, y, Len(y)) # None
        BY <1>0, <4>1, <4>2, <4>3, LenOf DEF RecordAt
      <4>5. Len(y) <= m
        <5>1. Len(y) \in good
          BY <1>0, <4>1, <4>4
        <5> HIDE DEF good
        <5> QED BY <1>1, <5>1
      <4>6. m \in 0 .. Len(y)
        OBVIOUS
      <4>7. \A l \in Nat : \A k \in 0 .. l : l <= k => k = l
        OBVIOUS
      <4> QED BY <1>0, <4>5, <4>6, <4>7
    <3> QED BY <3>1, <3>2
  <2> QED BY <1>10, <2>1 DEF Indexes
<1> HIDE DEF good
<1>11. Keeps(d, z, v, n, m)
  <2>1. z \in Seq(Nat) /\ Len(z) = m
    BY <1>3
  <2>2. \A j \in 1 .. m : d[z[j]] = v[n + j] /\ d[z[j]] # None
    BY <1>7
  <2> QED BY <1>8, <1>9, <2>1, <2>2 DEF Keeps
<1>12. m \in Nat
  <2>1. \A l \in Nat : \A k \in 0 .. l : k \in Nat
    OBVIOUS
  <2> QED BY <1>0, <2>1
<1> QED BY <1>2, <1>10, <1>11, <1>12

-----------------------------------------------------------------------------
(* The invariant. *)

\* What OpenFrom finds in the files of d.
HasCold(d) == Exists(d, "cold.bin") /\ Exists(d, "cold.idx")
ColdOf(d)  == IF HasCold(d) THEN Tier(d["cold.bin"], d["cold.idx"]) ELSE <<>>
BinOf(d)   == IF Exists(d, "bin") THEN d["bin"] ELSE <<>>
IdxOf(d)   == Trimmed(BinOf(d), IF Exists(d, "idx") THEN d["idx"] ELSE <<>>)
Found(d)   == ColdOf(d) \o Tier(BinOf(d), IdxOf(d))

CleanDisk(d, L) == \A f \in {"bin", "cold.bin"} \cap DOMAIN d : Clean(d[f], L)
\* Every entry of a tier has a line: of the cold one, of the hot one.
ColdWhole(d) == HasCold(d) => \A j \in 1 .. Len(d["cold.idx"]) :
                                 RecordAt(d["cold.bin"], d["cold.idx"], j) # None
HotWhole(d) == /\ IdxOf(d) \in Seq(Nat) /\ Points(BinOf(d), IdxOf(d))
               /\ \A j \in 1 .. Len(IdxOf(d)) : BinOf(d)[IdxOf(d)[j]] # None

Types ==
    /\ Disk(disk)
    /\ buffer \in [Files -> Seq(Nat)] /\ queued \in [Files -> Seq(Seq(Nat))]
    /\ ring \in Seq(Nat) /\ todo \in Seq(Nat) /\ view \in Seq(Nat) /\ owed \in Seq(Nat)
    /\ total \in Nat /\ hotFirst \in Nat /\ coldFirst \in Nat /\ tail \in Nat
    /\ coldOpen \in BOOLEAN
    /\ pushed \in 0 .. MaxPush /\ cleared \in 0 .. pushed
    /\ stage \in Stages

\* L holds the blank line, and of a line also the front.
Lined(L) == L \subseteq Nat \ {0} /\ Blank \in L /\ \A n \in L : CutShort(n) \in L

LEMMA LinedIs == \A L : Lined(L) => L \subseteq Nat \ {0} /\ Blank \in L
BY DEF Lined

\* Only lines of L are on disk or about to be pushed back.
Fresh(L) == Lined(L) /\ AllIn(todo, L) /\ CleanDisk(disk, L)
\* A line the shell makes is one of L.
Makes(L) == pushed' = pushed \/ pushed' \in L

\* The ring r holds the last lines of the history v, of which the first h
\* are not in the hot files.
InMemory(v, r, t, h, L) ==
    /\ t = Len(v) /\ AllIn(v, L) /\ h <= t /\ Len(r) <= t
    /\ \A j \in 1 .. Len(r) : r[j] = v[t - Len(r) + j]
Buffered == buffer = NoBuffers /\ queued = NoBuffers

\* The cold tier holds the lines before the hot ones.
ColdHolds(d, cf, hf, v) ==
    IF HasCold(d)
    THEN /\ cf + Len(d["cold.idx"]) = hf
         /\ \A j \in 1 .. Len(d["cold.idx"]) :
               RecordAt(d["cold.bin"], d["cold.idx"], j) = v[cf + j]
    ELSE hf = cf

Running(L) ==
    /\ InMemory(view, ring, total, hotFirst, L)
    /\ {"bin", "idx"} \subseteq DOMAIN disk
    /\ Indexes(Flushed("bin"), Flushed("idx"), view, hotFirst)
    /\ Len(Flushed("bin")) = tail /\ Clean(Flushed("bin"), L)
    /\ coldOpen = HasCold(disk) /\ ColdHolds(disk, coldFirst, hotFirst, view)

\* Where a rotation is between two of its file operations.
Rotating(L) ==
    /\ InMemory(view, ring, total, hotFirst, L) /\ Buffered /\ coldOpen = FALSE
    /\ stage = "flushed" => ColdHolds(disk, coldFirst, hotFirst, view)
    /\ stage \in {"coldBinGone", "coldGone"} => "cold.bin" \notin DOMAIN disk
    /\ stage \in {"coldGone", "binRenamed"} => "cold.idx" \notin DOMAIN disk
    /\ stage \in {"flushed", "coldBinGone", "coldGone"} =>
          /\ {"bin", "idx"} \subseteq DOMAIN disk
          /\ Indexes(disk["bin"], disk["idx"], view, hotFirst)
    /\ stage = "binRenamed" =>
          /\ {"cold.bin", "idx"} \subseteq DOMAIN disk /\ "bin" \notin DOMAIN disk
          /\ Indexes(disk["cold.bin"], disk["idx"], view, hotFirst)
    /\ stage \in {"renamed", "binCreated"} =>
          /\ {"cold.bin", "cold.idx"} \subseteq DOMAIN disk /\ "idx" \notin DOMAIN disk
          /\ Indexes(disk["cold.bin"], disk["cold.idx"], view, hotFirst)
    /\ stage = "renamed" => "bin" \notin DOMAIN disk
    /\ stage = "binCreated" => "bin" \in DOMAIN disk /\ disk["bin"] = <<>>

Clearing ==
    /\ {"bin", "idx"} \subseteq DOMAIN disk /\ disk["bin"] = <<>>
    /\ buffer["bin"] = <<>> /\ queued["bin"] = <<>>
    /\ view = <<>> /\ ring = <<>> /\ todo = <<>> /\ total = 0 /\ hotFirst = 0 /\ tail = 0
    /\ ColdWhole(disk)
    /\ stage \in {"hotCut", "coldBinCut"} =>
          disk["idx"] = <<>> /\ buffer["idx"] = <<>> /\ queued["idx"] = <<>>
    /\ stage = "coldBinCut" =>
          "cold.bin" \notin DOMAIN disk /\ coldFirst = 0 /\ coldOpen = FALSE

\* What lies there for the next process: an unbroken run of the history, and
\* what the last one owed.
Unbroken(s, v) == v # <<>> => \E a \in 1 .. Len(v) + 1, b \in 0 .. Len(v) : s = SubSeq(v, a, b)
Down == /\ HotWhole(disk) /\ ColdWhole(disk) /\ Buffered /\ todo = <<>>
        /\ Unbroken(Found(disk), view)
        /\ ~BetweenRenames => owed = LastN(Found(disk), Len(owed))

FileInv(L) ==
    /\ Types /\ Fresh(L)
    /\ stage = "run" => Running(L)
    /\ stage \in RotationStages => Rotating(L)
    /\ stage \in ClearStages => Clearing
    /\ stage = "down" => Down

-----------------------------------------------------------------------------
(* Writing. *)

\* The content of f once its writer has flushed.
Chain(s, q, b) == s \o FlattenSeq(q) \o b
Whole(d, q, b, f) == Chain(d[f], q[f], b[f])

LEMMA WholeIs ==
    ASSUME NEW d, Disk(d), NEW q \in [Files -> Seq(Seq(Nat))], NEW b \in [Files -> Seq(Nat)],
           NEW f \in Files, f \in DOMAIN d
    PROVE  /\ d[f] \in Seq(Nat) /\ FlattenSeq(q[f]) \in Seq(Nat) /\ b[f] \in Seq(Nat)
           /\ Whole(d, q, b, f) \in Seq(Nat)
           /\ Begins(d[f], Whole(d, q, b, f))
           /\ q[f] = <<>> /\ b[f] = <<>> => Whole(d, q, b, f) = d[f]
<1>1. d[f] \in Seq(Nat) /\ FlattenSeq(q[f]) \in Seq(Nat) /\ b[f] \in Seq(Nat)
  BY FlatType DEF Disk
<1>2. Whole(d, q, b, f) = d[f] \o (FlattenSeq(q[f]) \o b[f])
  BY <1>1, Regroups DEF Whole, Chain
<1>3. FlattenSeq(q[f]) \o b[f] \in Seq(Nat)
  BY <1>1, Joins
<1>4. Whole(d, q, b, f) \in Seq(Nat) /\ Begins(d[f], Whole(d, q, b, f))
  BY <1>1, <1>2, <1>3, Joins, BeginsJoin
<1>5. ASSUME q[f] = <<>>, b[f] = <<>> PROVE Whole(d, q, b, f) = d[f]
  BY <1>1, <1>5, FlatNothing, JoinsNothing DEF Whole, Chain
<1> QED BY <1>1, <1>4, <1>5

LEMMA NoBuffersIs ==
    /\ NoBuffers \in [Files -> Seq(Nat)] /\ NoBuffers \in [Files -> Seq(Seq(Nat))]
    /\ \A f \in Files : NoBuffers[f] = <<>>
<1>1. \A S : <<>> \in Seq(S)
  BY EmptySeq
<1> QED BY <1>1 DEF NoBuffers

\* The item is behind what is in the file, the queue q and the buffer b,
\* whether the buffer is full and goes to the queue or not.
LEMMA Written ==
    ASSUME NEW q \in Seq(Seq(Nat)), NEW b \in Seq(Nat), NEW item \in Nat, NEW d \in Seq(Nat)
    PROVE  /\ Append(b, item) \in Seq(Nat) /\ Append(q, Append(b, item)) \in Seq(Seq(Nat))
           /\ Chain(d, q, Append(b, item)) = Append(Chain(d, q, b), item)
           /\ Chain(d, Append(q, Append(b, item)), <<>>) = Append(Chain(d, q, b), item)
<1>2. Append(b, item) \in Seq(Nat)
  BY AddedIs
<1>3. FlattenSeq(q) \in Seq(Nat) /\ d \o FlattenSeq(q) \in Seq(Nat)
  BY FlatType, Joins
<1>4. (d \o FlattenSeq(q)) \o Append(b, item) = Append((d \o FlattenSeq(q)) \o b, item)
  BY <1>3, AddedBehind
<1>5. Append(q, Append(b, item)) \in Seq(Seq(Nat))
  BY <1>2, AppendProperties
<1>6. FlattenSeq(Append(q, Append(b, item))) = FlattenSeq(q) \o Append(b, item)
  BY <1>2, FlatBehind
<1>7. d \o (FlattenSeq(q) \o Append(b, item)) = (d \o FlattenSeq(q)) \o Append(b, item)
  BY <1>2, <1>3, Regroups
<1>8. d \o (FlattenSeq(q) \o Append(b, item)) \in Seq(Nat)
  BY <1>2, <1>3, Joins
<1>9. (d \o (FlattenSeq(q) \o Append(b, item))) \o <<>> = d \o (FlattenSeq(q) \o Append(b, item))
  BY <1>8, JoinsNothing
<1> QED BY <1>2, <1>4, <1>5, <1>6, <1>7, <1>9 DEF Chain

LEMMA IndexesMore ==
    ASSUME NEW b \in Seq(Nat), NEW x \in Seq(Nat), NEW v \in Seq(Nat), NEW n \in Nat,
           NEW line \in Nat, NEW p \in Nat, p = Len(b) + 1, Indexes(b, x, v, n)
    PROVE  Indexes(Append(b, line), Append(x, p), Append(v, line), n)
<1>0. Len(b) \in Nat /\ Len(x) \in Nat /\ Len(v) \in Nat
  BY LenOf
<1>1. PICK bb \in Seq(Nat), xx \in Seq(Nat), vv \in Seq(Nat) :
         bb = Append(b, line) /\ xx = Append(x, p) /\ vv = Append(v, line)
  BY AddedIs
<1>2. /\ Len(bb) = Len(b) + 1 /\ bb[Len(b) + 1] = line /\ \A j \in 1 .. Len(b) : bb[j] = b[j]
      /\ Len(xx) = Len(x) + 1 /\ xx[Len(x) + 1] = p /\ \A j \in 1 .. Len(x) : xx[j] = x[j]
      /\ Len(vv) = Len(v) + 1 /\ vv[Len(v) + 1] = line /\ \A j \in 1 .. Len(v) : vv[j] = v[j]
  BY <1>1, AddedIs
<1>3. n + Len(xx) = Len(vv)
  BY <1>0, <1>2 DEF Indexes
<1>4. \A j \in 1 .. Len(xx) : j \in 1 .. Len(x) \/ j = Len(x) + 1
  BY <1>0, <1>2
<1>5. \A j \in 1 .. Len(x) : xx[j] \in 1 .. Len(b) /\ bb[xx[j]] = v[n + j]
  <2>1. \A j \in 1 .. Len(x) : x[j] \in 1 .. Len(b) /\ b[x[j]] = v[n + j]
    BY DEF Indexes, Points
  <2> QED BY <1>2, <2>1
<1>6. \A j \in 1 .. Len(x) : n + j \in 1 .. Len(v)
  BY <1>0 DEF Indexes
<1>7. ASSUME NEW j \in 1 .. Len(xx) PROVE xx[j] \in 1 .. Len(bb) /\ bb[xx[j]] = vv[n + j]
  <2>1. CASE j \in 1 .. Len(x)
    <3>1. vv[n + j] = v[n + j] /\ xx[j] \in 1 .. Len(b) /\ bb[xx[j]] = v[n + j]
      BY <1>2, <1>5, <1>6, <2>1
    <3>2. \A l \in Nat : \A k \in 1 .. l : k \in 1 .. l + 1
      OBVIOUS
    <3> QED BY <1>0, <1>2, <3>1, <3>2
  <2>2. CASE j = Len(x) + 1
    <3>1. n + j = Len(v) + 1
      <4>1. PICK c \in Nat, e \in Nat : c = Len(x) /\ e = Len(v)
        BY <1>0
      <4>2. n + c = e
        BY <4>1 DEF Indexes
      <4>3. n + (c + 1) = e + 1
        BY <4>2
      <4> QED BY <2>2, <4>1, <4>3
    <3>2. p \in 1 .. Len(bb)
      BY <1>0, <1>2
    <3> QED BY <1>2, <2>2, <3>1, <3>2
  <2> QED BY <1>4, <2>1, <2>2
<1>8. ASSUME NEW i \in 1 .. Len(xx), NEW j \in 1 .. Len(xx), i < j PROVE xx[i] < xx[j]
  <2>1. i \in 1 .. Len(x)
    BY <1>0, <1>2, <1>8
  <2>2. CASE j \in 1 .. Len(x)
    BY <1>2, <1>8, <2>1, <2>2 DEF Indexes, Points
  <2>3. CASE j = Len(x) + 1
    <3>1. xx[i] \in 1 .. Len(b)
      BY <1>5, <2>1
    <3> QED BY <1>0, <1>2, <2>3, <3>1
  <2> QED BY <1>4, <2>2, <2>3
<1> QED BY <1>1, <1>3, <1>7, <1>8 DEF Indexes, Points

LEMMA CleanMore ==
    ASSUME NEW s \in Seq(Nat), NEW L, NEW line \in Nat, line \in L
    PROVE  /\ Clean(s, L) => Clean(Append(s, line), L)
           /\ AllIn(s, L) => AllIn(Append(s, line), L)
<1>1. Len(s) \in Nat
  BY LenOf
<1>2. /\ Len(Append(s, line)) = Len(s) + 1 /\ Append(s, line)[Len(s) + 1] = line
      /\ \A j \in 1 .. Len(s) : Append(s, line)[j] = s[j]
  BY AddedIs
<1>3. \A p \in 1 .. Len(Append(s, line)) : p \in 1 .. Len(s) \/ p = Len(s) + 1
  BY <1>1, <1>2
<1> QED BY <1>2, <1>3 DEF Clean, AllIn

LEMMA MemoryMore ==
    ASSUME NEW v \in Seq(Nat), NEW r \in Seq(Nat), NEW t \in Nat, NEW h \in Nat, NEW L,
           NEW line \in Nat, line \in L, InMemory(v, r, t, h, L)
    PROVE  /\ LastN(Append(r, line), RingCap) \in Seq(Nat)
           /\ InMemory(Append(v, line), LastN(Append(r, line), RingCap), t + 1, h, L)
           /\ InMemory(Append(v, line), LastN(Append(r, line), RingCap), t + 1, t, L)
<1>0. Len(v) \in Nat /\ Len(r) \in Nat /\ t = Len(v) /\ Len(r) <= t /\ h <= t /\ AllIn(v, L)
  BY LenOf DEF InMemory
<1>1. PICK vv \in Seq(Nat), rr \in Seq(Nat) : vv = Append(v, line) /\ rr = Append(r, line)
  BY AddedIs
<1>2. /\ Len(rr) = Len(r) + 1 /\ rr[Len(r) + 1] = line /\ \A j \in 1 .. Len(r) : rr[j] = r[j]
      /\ Len(vv) = t + 1 /\ vv[t + 1] = line /\ \A j \in 1 .. t : vv[j] = v[j]
  BY <1>0, <1>1, AddedIs
<1>3. AllIn(vv, L)
  BY <1>0, <1>1, CleanMore
<1>4. \A j \in 1 .. Len(rr) : rr[j] = vv[t + 1 - Len(rr) + j]
  <2>1. SUFFICES ASSUME NEW j \in 1 .. Len(rr) PROVE rr[j] = vv[t + 1 - Len(rr) + j]
    OBVIOUS
  <2>2. CASE j \in 1 .. Len(r)
    <3>1. r[j] = v[t - Len(r) + j]
      BY <2>2 DEF InMemory
    <3>2. t - Len(r) + j \in 1 .. t /\ t + 1 - Len(rr) + j = t - Len(r) + j
      BY <1>0, <1>2, <2>2
    <3> QED BY <1>2, <2>2, <3>1, <3>2
  <2>3. CASE j \notin 1 .. Len(r)
    <3>1. j = Len(r) + 1 /\ t + 1 - Len(rr) + j = t + 1
      BY <1>0, <1>2, <2>3
    <3> QED BY <1>2, <3>1
  <2> QED BY <2>2, <2>3
<1>5. RingCap \in Nat
  BY FileScrollbackAssumption
<1>6. PICK k \in 0 .. Len(rr) : /\ LastN(rr, RingCap) \in Seq(Nat) /\ Len(LastN(rr, RingCap)) = k
                                /\ \A j \in 1 .. k : LastN(rr, RingCap)[j] = rr[Len(rr) - k + j]
  BY <1>5, LastNIs
<1>7. ASSUME NEW j \in 1 .. k PROVE LastN(rr, RingCap)[j] = vv[t + 1 - k + j]
  <2>1. \A a, b \in Nat : \A kk \in 0 .. a : \A i \in 1 .. kk :
            a - kk + i \in 1 .. a /\ b + 1 - a + (a - kk + i) = b + 1 - kk + i
    OBVIOUS
  <2>2. Len(rr) \in Nat
    BY LenOf
  <2>3. Len(rr) - k + j \in 1 .. Len(rr) /\ t + 1 - Len(rr) + (Len(rr) - k + j) = t + 1 - k + j
    BY <2>1, <2>2
  <2>4. rr[Len(rr) - k + j] = vv[t + 1 - Len(rr) + (Len(rr) - k + j)]
    BY <1>4, <2>3
  <2> QED BY <1>6, <2>3, <2>4
<1>8. k <= t + 1
  BY <1>0, <1>2
<1>9. h <= t + 1 /\ t <= t + 1
  BY <1>0
<1>10. PICK z \in Seq(Nat) : z = LastN(rr, RingCap)
  BY <1>6
<1>11. Len(z) = k /\ \A j \in 1 .. k : z[j] = vv[t + 1 - k + j]
  BY <1>6, <1>7, <1>10
<1>12. InMemory(vv, z, t + 1, h, L) /\ InMemory(vv, z, t + 1, t, L)
  BY <1>2, <1>3, <1>8, <1>9, <1>11 DEF InMemory
<1> QED BY <1>1, <1>10, <1>12

-----------------------------------------------------------------------------
(* Opening. *)

LEMMA TierIs ==
    ASSUME NEW b \in Seq(Nat), NEW x \in Seq(Nat)
    PROVE  /\ Tier(b, x) \in Seq(Nat) /\ Len(Tier(b, x)) = Len(x)
           /\ \A j \in 1 .. Len(x) : Tier(b, x)[j] = RecordAt(b, x, j)
<1>1. DOMAIN x = 1 .. Len(x) /\ Len(x) \in Nat
  BY LenOf
<1>2. \A j : RecordAt(b, x, j) \in Nat
  BY LenOf DEF RecordAt, None
<1>3. Tier(b, x) \in [1 .. Len(x) -> Nat] /\ \A j \in 1 .. Len(x) : Tier(b, x)[j] = RecordAt(b, x, j)
  BY <1>1, <1>2 DEF Tier
<1>4. Tier(b, x) \in Seq(Nat)
  BY <1>1, <1>3, SeqDef
<1>5. Len(Tier(b, x)) = Len(x)
  BY <1>1, <1>3, <1>4
<1> QED BY <1>3, <1>4, <1>5

\* A tier whose index is whole is a part of the history.
PartAt(b, x, v, n, m) == /\ n + m <= Len(v) /\ Len(x) = m
                         /\ \A j \in 1 .. m : RecordAt(b, x, j) = v[n + j]

LEMMA TierPart ==
    ASSUME NEW b \in Seq(Nat), NEW x \in Seq(Nat), NEW v \in Seq(Nat), NEW n \in Nat, NEW m \in Nat,
           PartAt(b, x, v, n, m)
    PROVE  Tier(b, x) = SubSeq(v, n + 1, n + m)
<1>0. n + m <= Len(v) /\ Len(x) = m /\ \A j \in 1 .. m : RecordAt(b, x, j) = v[n + j]
  BY DEF PartAt
<1>1. Len(v) \in Nat
  BY LenOf
<1>2. n + 1 \in Nat /\ n + 1 >= 1 /\ n + m \in Nat /\ n + 1 <= n + m + 1 /\ n + m + 1 - (n + 1) = m /\ n + 1 - 1 = n
  OBVIOUS
<1>3. /\ SubSeq(v, n + 1, n + m) \in Seq(Nat) /\ Len(SubSeq(v, n + 1, n + m)) = m
      /\ \A j \in 1 .. m : SubSeq(v, n + 1, n + m)[j] = v[n + j]
  <2>1. /\ SubSeq(v, n + 1, n + m) \in Seq(Nat) /\ Len(SubSeq(v, n + 1, n + m)) = n + m + 1 - (n + 1)
        /\ \A j \in 1 .. n + m + 1 - (n + 1) : SubSeq(v, n + 1, n + m)[j] = v[n + 1 - 1 + j]
    BY ONLY <1>0, <1>2, PartOf, v \in Seq(Nat)
  <2> QED BY <1>2, <2>1
<1>4. /\ Tier(b, x) \in Seq(Nat) /\ Len(Tier(b, x)) = m
      /\ \A j \in 1 .. m : Tier(b, x)[j] = RecordAt(b, x, j)
  BY <1>0, TierIs
<1> QED BY SMTT(30), <1>0, <1>3, <1>4, SameSeq

LEMMA PointsAt ==
    ASSUME NEW b \in Seq(Nat), NEW x \in Seq(Nat), Points(b, x), NEW j \in 1 .. Len(x)
    PROVE  RecordAt(b, x, j) = b[x[j]]
BY LenOf DEF RecordAt, Points

LEMMA NothingHot ==
    ASSUME NEW d, Disk(d), BinOf(d) = <<>>
    PROVE  IdxOf(d) = <<>> /\ HotWhole(d) /\ Tier(BinOf(d), IdxOf(d)) = <<>>
<1>0. <<>> \in Seq(Nat) /\ Len(<<>>) = 0 /\ 1 .. 0 = {}
  BY EmptySeq
<1>1. DOMAIN <<>> = {}
  BY <1>0, LenOf
<1>2. PICK y \in Seq(Nat) : y = IF Exists(d, "idx") THEN d["idx"] ELSE <<>>
  BY <1>0 DEF Disk, Exists
<1>3. {i \in DOMAIN y : RecordAt(<<>>, y, i) # None} = {}
  BY <1>1 DEF RecordAt
<1>4. Trimmed(<<>>, y) = SubSeq(y, 1, 0)
  BY <1>3 DEF Trimmed
<1>5. SubSeq(y, 1, 0) = <<>>
  BY SubSeqEmpty
<1>6. IdxOf(d) = <<>>
  BY <1>2, <1>4, <1>5 DEF IdxOf
<1>7. Tier(<<>>, <<>>) = <<>>
  BY <1>0, TierIs, EmptySeq
<1>8. HotWhole(d)
  BY <1>0, <1>6 DEF HotWhole, Points
<1> QED BY <1>6, <1>7, <1>8

LEMMA BinTyped == ASSUME NEW d, Disk(d) PROVE BinOf(d) \in Seq(Nat)
BY EmptySeq DEF Disk, BinOf, Exists

LEMMA FoundIs ==
    ASSUME NEW d, Disk(d), HotWhole(d), ColdWhole(d), NEW L, CleanDisk(d, L)
    PROVE  /\ ColdOf(d) \in Seq(Nat) /\ Tier(BinOf(d), IdxOf(d)) \in Seq(Nat) /\ Found(d) \in Seq(Nat)
           /\ AllIn(Found(d), L)
           /\ Indexes(BinOf(d), IdxOf(d), Found(d), Len(ColdOf(d)))
           /\ \A j \in 1 .. Len(Tier(BinOf(d), IdxOf(d))) :
                 Found(d)[Len(ColdOf(d)) + j] = Tier(BinOf(d), IdxOf(d))[j]
           /\ Len(Found(d)) = Len(ColdOf(d)) + Len(Tier(BinOf(d), IdxOf(d)))
           /\ ColdHolds(d, 0, Len(ColdOf(d)), Found(d))
<1>1. PICK b \in Seq(Nat), z \in Seq(Nat) : b = BinOf(d) /\ z = IdxOf(d)
  BY BinTyped DEF HotWhole
<1>2. PICK hot \in Seq(Nat) : hot = Tier(b, z)
  BY TierIs
<1>3. Len(hot) = Len(z) /\ \A j \in 1 .. Len(z) : hot[j] = b[z[j]] /\ z[j] \in 1 .. Len(b) /\ b[z[j]] # None
  <2>1. Points(b, z) /\ \A j \in 1 .. Len(z) : b[z[j]] # None
    BY <1>1 DEF HotWhole
  <2>2. Len(hot) = Len(z) /\ \A j \in 1 .. Len(z) : hot[j] = RecordAt(b, z, j)
    BY <1>2, TierIs
  <2>3. \A j \in 1 .. Len(z) : RecordAt(b, z, j) = b[z[j]]
    BY <2>1, PointsAt
  <2>4. \A j \in 1 .. Len(z) : z[j] \in 1 .. Len(b)
    BY <2>1 DEF Points
  <2> QED BY <2>1, <2>2, <2>3, <2>4
<1>4. Clean(b, L)
  <2>1. CASE Exists(d, "bin")
    BY <1>1, <2>1 DEF CleanDisk, BinOf, Exists
  <2>2. CASE ~Exists(d, "bin")
    <3>1. b = <<>> /\ Len(b) = 0
      BY <1>1, <2>2, EmptySeq DEF BinOf
    <3> QED BY <3>1 DEF Clean
  <2> QED BY <2>1, <2>2
<1>5. AllIn(hot, L)
  BY <1>3, <1>4 DEF AllIn, Clean, Torn, None
<1>6. PICK cold : cold = ColdOf(d)
  OBVIOUS
<1>7. /\ cold \in Seq(Nat) /\ AllIn(cold, L)
      /\ HasCold(d) => /\ Len(cold) = Len(d["cold.idx"])
                       /\ \A j \in 1 .. Len(cold) : cold[j] = RecordAt(d["cold.bin"], d["cold.idx"], j)
      /\ ~HasCold(d) => cold = <<>>
  <2>1. CASE ~HasCold(d)
    <3>1. cold = <<>> /\ cold \in Seq(Nat) /\ Len(cold) = 0
      BY <1>6, <2>1, EmptySeq DEF ColdOf
    <3> QED BY <2>1, <3>1 DEF AllIn
  <2>2. CASE HasCold(d)
    <3>1. PICK cb \in Seq(Nat), cx \in Seq(Nat) : cb = d["cold.bin"] /\ cx = d["cold.idx"]
      BY <2>2 DEF HasCold, Disk, Exists
    <3>2. cold = Tier(cb, cx)
      BY <1>6, <2>2, <3>1 DEF ColdOf
    <3>3. /\ cold \in Seq(Nat) /\ Len(cold) = Len(cx)
          /\ \A j \in 1 .. Len(cold) : cold[j] = RecordAt(cb, cx, j)
      BY <3>2, TierIs
    <3>4. \A j \in 1 .. Len(cold) : cold[j] # None
      BY <2>2, <3>1, <3>3 DEF ColdWhole
    <3>5. Clean(cb, L)
      BY <2>2, <3>1 DEF CleanDisk, HasCold, Exists
    <3>6. ASSUME NEW j \in 1 .. Len(cold) PROVE cold[j] \in L
      <4>1. RecordAt(cb, cx, j) # None
        BY <3>3, <3>4
      <4>2. cx[j] \in DOMAIN cb /\ RecordAt(cb, cx, j) = cb[cx[j]]
        BY <4>1 DEF RecordAt
      <4>3. cb[cx[j]] # Torn /\ cx[j] \in 1 .. Len(cb)
        BY <4>1, <4>2, LenOf DEF Torn, None
      <4>4. cb[cx[j]] \in L
        BY <3>5, <4>3 DEF Clean
      <4> QED BY <3>3, <4>2, <4>4
    <3> QED BY <2>2, <3>1, <3>3, <3>6 DEF AllIn
  <2> QED BY <2>1, <2>2
<1>8. PICK v : v = Found(d)
  OBVIOUS
<1>9. v = cold \o hot
  BY <1>1, <1>2, <1>6, <1>8 DEF Found
<1>10. /\ v \in Seq(Nat) /\ Len(v) = Len(cold) + Len(hot)
       /\ \A j \in 1 .. Len(cold) : v[j] = cold[j]
       /\ \A j \in 1 .. Len(hot) : v[Len(cold) + j] = hot[j]
       /\ Len(cold) \in Nat /\ Len(hot) \in Nat
  BY <1>7, <1>9, JoinIs, LenOf
<1>11. AllIn(v, L)
  <2>1. \A x, y \in Nat : \A q \in 1 .. x + y : q \notin 1 .. x => q - x \in 1 .. y /\ x + (q - x) = q
    OBVIOUS
  <2>2. SUFFICES ASSUME NEW q \in 1 .. Len(cold) + Len(hot) PROVE v[q] \in L
    BY <1>10 DEF AllIn
  <2>3. CASE q \in 1 .. Len(cold)
    BY <1>7, <1>10, <2>3 DEF AllIn
  <2>4. CASE q \notin 1 .. Len(cold)
    <3>1. q - Len(cold) \in 1 .. Len(hot) /\ Len(cold) + (q - Len(cold)) = q
      BY <1>10, <2>1, <2>4
    <3>2. v[Len(cold) + (q - Len(cold))] = hot[q - Len(cold)] /\ hot[q - Len(cold)] \in L
      BY <1>5, <1>10, <3>1 DEF AllIn
    <3> QED BY <3>1, <3>2
  <2> QED BY <2>3, <2>4
<1>12. Indexes(b, z, v, Len(cold))
  BY <1>1, <1>3, <1>10 DEF Indexes, HotWhole
<1>13. ColdHolds(d, 0, Len(cold), v)
  <2>1. CASE HasCold(d)
    <3>1. 0 + Len(d["cold.idx"]) = Len(cold) /\ Len(d["cold.idx"]) = Len(cold)
      BY <1>7, <1>10, <2>1
    <3>2. \A j \in 1 .. Len(cold) : RecordAt(d["cold.bin"], d["cold.idx"], j) = v[0 + j]
      BY <1>7, <1>10, <2>1
    <3> QED BY <2>1, <3>1, <3>2 DEF ColdHolds
  <2>2. CASE ~HasCold(d)
    <3>1. Len(cold) = 0
      BY <1>7, <2>2, EmptySeq
    <3> QED BY <2>2, <3>1 DEF ColdHolds
  <2> QED BY <2>1, <2>2
<1> QED BY <1>1, <1>2, <1>6, <1>7, <1>8, <1>10, <1>11, <1>12, <1>13

LEMMA AfterNothing ==
    ASSUME NEW v \in Seq(Nat), NEW L, L \subseteq Nat \ {0}, AllIn(v, L)
    PROVE  Proper(v)
BY LenOf DEF AllIn, Proper

\* The hot files of d are what is left of b and x, or all of them.
Leaves(d, b, x) == /\ "bin" \in DOMAIN d /\ "idx" \in DOMAIN d
                   /\ Left(d["bin"], b) /\ Begins(d["idx"], x)
LeavesAll(d, b, x) == d["bin"] = b /\ d["idx"] = x
\* A process that opens d finds v from behind the first cf lines to m lines
\* behind the first hf.
FoundTo(d, v, cf, hf, m) == /\ hf + m <= Len(v) /\ cf <= hf
                            /\ Found(d) = SubSeq(v, cf + 1, hf + m)

\* What a process leaves in the files is a part of its history.
LEMMA FoundPart ==
    ASSUME NEW d, Disk(d),
           NEW b \in Seq(Nat), NEW x \in Seq(Nat), NEW v \in Seq(Nat), NEW cf \in Nat, NEW hf \in Nat,
           Indexes(b, x, v, hf), Leaves(d, b, x), Proper(v), ColdHolds(d, cf, hf, v)
    PROVE  /\ HotWhole(d) /\ ColdWhole(d)
           /\ \E m \in Nat : FoundTo(d, v, cf, hf, m) /\ (LeavesAll(d, b, x) => hf + m = Len(v))
<1>0. Len(v) \in Nat /\ Len(x) \in Nat
  BY LenOf
<1>1. PICK e \in Seq(Nat), y \in Seq(Nat) :
         e = d["bin"] /\ y = d["idx"] /\ Left(e, b) /\ Begins(y, x)
  BY DEF Disk, Leaves
<1>2. BinOf(d) = e /\ IdxOf(d) = Trimmed(e, y)
  BY <1>1 DEF BinOf, IdxOf, Exists, Leaves
<1>a. PICK z : z = Trimmed(e, y)
  OBVIOUS
<1>3. PICK m \in Nat : Keeps(e, z, v, hf, m) /\ (e = b /\ y = x => hf + m = Len(v))
  BY SMTT(30), <1>1, <1>a, FoundHot
<1>b. /\ z \in Seq(Nat) /\ Len(z) = m /\ Points(e, z) /\ hf + m <= Len(v)
      /\ \A j \in 1 .. m : e[z[j]] = v[hf + j] /\ e[z[j]] # None
  BY <1>3 DEF Keeps
<1>4. HotWhole(d)
  BY <1>2, <1>a, <1>b DEF HotWhole
<1>5. m \in Nat
  OBVIOUS
<1>6. Tier(e, z) = SubSeq(v, hf + 1, hf + m)
  <2>1. \A j \in 1 .. m : RecordAt(e, z, j) = v[hf + j]
    BY <1>b, PointsAt
  <2>2. PartAt(e, z, v, hf, m)
    BY <1>b, <2>1 DEF PartAt
  <2>3. z \in Seq(Nat)
    BY <1>b
  <2> QED BY ONLY <1>5, <2>2, <2>3, TierPart, e \in Seq(Nat), v \in Seq(Nat), hf \in Nat
<1>7. hf <= Len(v)
  BY <1>0 DEF Indexes
<1>8. ColdWhole(d) /\ cf <= hf /\ ColdOf(d) = SubSeq(v, cf + 1, hf)
  <2>1. CASE HasCold(d)
    <3>1. PICK cb \in Seq(Nat), cx \in Seq(Nat) : cb = d["cold.bin"] /\ cx = d["cold.idx"]
      BY <2>1 DEF HasCold, Disk, Exists
    <3>2. PICK k \in Nat : k = Len(cx)
      BY LenOf
    <3>3. cf + k = hf /\ \A j \in 1 .. k : RecordAt(cb, cx, j) = v[cf + j]
      BY <2>1, <3>1, <3>2 DEF ColdHolds
    <3>a. cf + k <= Len(v)
      BY <1>7, <3>3
    <3>4. Tier(cb, cx) = SubSeq(v, cf + 1, cf + k)
      <4>1. PartAt(cb, cx, v, cf, k)
        BY <3>2, <3>3, <3>a DEF PartAt
      <4> QED BY SMTT(30), <4>1, TierPart
    <3>5. \A j \in 1 .. k : v[cf + j] # None
      <4>1. \A j \in 1 .. k : cf + j \in 1 .. Len(v)
        BY <1>0, <3>2, <3>a
      <4>2. \A p \in 1 .. Len(v) : v[p] \in Nat /\ v[p] > 0
        BY LenOf DEF Proper
      <4>3. \A p \in 1 .. Len(v) : v[p] # None
        BY <4>2 DEF None
      <4> QED BY <4>1, <4>3
    <3>6. ColdOf(d) = SubSeq(v, cf + 1, hf)
      BY <2>1, <3>1, <3>3, <3>4 DEF ColdOf
    <3>7. ColdWhole(d)
      BY <3>1, <3>2, <3>3, <3>5 DEF ColdWhole
    <3>8. cf <= hf
      BY <3>2, <3>3
    <3> QED BY <3>6, <3>7, <3>8
  <2>2. CASE ~HasCold(d)
    <3>1. cf = hf /\ ColdOf(d) = <<>> /\ ColdWhole(d)
      BY <2>2 DEF ColdHolds, ColdOf, ColdWhole
    <3>2. SubSeq(v, cf + 1, hf) = <<>>
      BY <3>1, SubSeqEmpty
    <3> QED BY <3>1, <3>2
  <2> QED BY <2>1, <2>2
<1>9. Found(d) = SubSeq(v, cf + 1, hf + m)
  <2>1. hf <= hf + m /\ hf + m \in Nat
    BY <1>5
  <2>a. cf <= hf /\ hf + m <= Len(v)
    BY <1>b, <1>8
  <2>2. SubSeq(v, cf + 1, hf) \o SubSeq(v, hf + 1, hf + m) = SubSeq(v, cf + 1, hf + m)
    BY ONLY <2>1, <2>a, PartsMeet, v \in Seq(Nat), cf \in Nat, hf \in Nat
  <2> QED BY <1>2, <1>a, <1>6, <1>8, <2>2 DEF Found
<1>10. LeavesAll(d, b, x) => hf + m = Len(v)
  BY <1>1, <1>3 DEF LeavesAll
<1>11. FoundTo(d, v, cf, hf, m)
  BY <1>b, <1>8, <1>9 DEF FoundTo
<1> QED BY <1>4, <1>8, <1>10, <1>11

-----------------------------------------------------------------------------
(* The process at work. *)

LEMMA CapTyped == MaxPush \in Nat /\ RingCap \in Nat
BY FileScrollbackAssumption

LEMMA Counts == Types => cleared \in Nat /\ pushed \in Nat /\ cleared <= pushed /\ pushed <= MaxPush
BY CapTyped DEF Types

LEMMA CleanLeft ==
    ASSUME NEW d \in Seq(Nat), NEW b \in Seq(Nat), Left(d, b), NEW L, Clean(b, L)
    PROVE  Clean(d, L)
<1>1. Len(d) \in Nat /\ Len(b) \in Nat
  BY LenOf
<1>2. \A p \in 1 .. Len(d) : p \in 1 .. Len(b)
  BY <1>1 DEF Left
<1> QED BY <1>2 DEF Left, Clean

LEMMA FlushedIs ==
    ASSUME Types, NEW f \in Files, f \in DOMAIN disk
    PROVE  /\ Flushed(f) = Whole(disk, queued, buffer, f) /\ Flushed(f) \in Seq(Nat)
           /\ Begins(disk[f], Flushed(f)) /\ Left(disk[f], Flushed(f)) /\ disk[f] \in Seq(Nat)
           /\ queued[f] = <<>> /\ buffer[f] = <<>> => Flushed(f) = disk[f]
<1>1. Flushed(f) = Whole(disk, queued, buffer, f)
  BY DEF Flushed, Whole, Chain
<1>2. /\ disk[f] \in Seq(Nat) /\ Whole(disk, queued, buffer, f) \in Seq(Nat)
      /\ Begins(disk[f], Whole(disk, queued, buffer, f))
      /\ queued[f] = <<>> /\ buffer[f] = <<>> => Whole(disk, queued, buffer, f) = disk[f]
  BY WholeIs DEF Types
<1> QED BY <1>1, <1>2, BeginsLeft

\* The cold files are the same in d and e.
ColdSame(d, e) == \A f \in {"cold.bin", "cold.idx"} :
                     /\ f \in DOMAIN d <=> f \in DOMAIN e
                     /\ f \in DOMAIN d => e[f] = d[f]

LEMMA ColdStays ==
    ASSUME NEW d, NEW e, ColdSame(d, e)
    PROVE  /\ HasCold(d) = HasCold(e) /\ (ColdWhole(d) <=> ColdWhole(e)) /\ ColdOf(d) = ColdOf(e)
           /\ \A cf, hf, v : ColdHolds(d, cf, hf, v) <=> ColdHolds(e, cf, hf, v)
<1>1. HasCold(d) = HasCold(e)
  BY DEF HasCold, Exists, ColdSame
<1>2. HasCold(d) => d["cold.bin"] = e["cold.bin"] /\ d["cold.idx"] = e["cold.idx"]
  BY DEF HasCold, Exists, ColdSame
<1> QED BY <1>1, <1>2 DEF ColdWhole, ColdOf, ColdHolds

LEMMA FlushedDiskIs ==
    ASSUME Types, {"bin", "idx"} \subseteq DOMAIN disk
    PROVE  /\ Disk(FlushedDisk) /\ DOMAIN FlushedDisk = DOMAIN disk
           /\ FlushedDisk["bin"] = Flushed("bin") /\ FlushedDisk["idx"] = Flushed("idx")
           /\ ColdSame(disk, FlushedDisk)
<1>1. PICK b \in Seq(Nat), x \in Seq(Nat) : b = Flushed("bin") /\ x = Flushed("idx")
  BY FlushedIs DEF Files
<1>2. PICK d : d = Put(disk, "bin", b)
  OBVIOUS
<1>3. "bin" \in FileNames /\ "idx" \in FileNames /\ "bin" # "idx" /\ Disk(disk)
  BY DEF FileNames, Files, Types
<1>4. /\ Disk(d) /\ DOMAIN d = DOMAIN disk \union {"bin"} /\ d["bin"] = b
      /\ \A g \in DOMAIN disk : g # "bin" => d[g] = disk[g]
  <2>1. /\ Disk(Put(disk, "bin", b)) /\ DOMAIN Put(disk, "bin", b) = DOMAIN disk \union {"bin"}
        /\ Put(disk, "bin", b)["bin"] = b
        /\ \A g \in DOMAIN disk : g # "bin" => Put(disk, "bin", b)[g] = disk[g]
    <3>1. PICK k \in FileNames : k = "bin"
      BY <1>3
    <3>2. Disk(disk)
      BY <1>3
    <3>3. /\ Disk(Put(disk, k, b)) /\ DOMAIN Put(disk, k, b) = DOMAIN disk \union {k}
          /\ Put(disk, k, b)[k] = b
          /\ \A g \in DOMAIN disk : g # k => Put(disk, k, b)[g] = disk[g]
      BY <3>2, PutIs
    <3> QED BY <3>1, <3>3
  <2> QED BY <1>2, <2>1
<1>5. PICK e : e = Put(d, "idx", x)
  OBVIOUS
<1>6. /\ Disk(e) /\ DOMAIN e = DOMAIN d \union {"idx"} /\ e["idx"] = x
      /\ \A g \in DOMAIN d : g # "idx" => e[g] = d[g]
  <2>1. PICK k \in FileNames : k = "idx"
    BY <1>3
  <2>2. Disk(d)
    BY <1>4
  <2>3. /\ Disk(Put(d, k, x)) /\ DOMAIN Put(d, k, x) = DOMAIN d \union {k}
        /\ Put(d, k, x)[k] = x
        /\ \A g \in DOMAIN d : g # k => Put(d, k, x)[g] = d[g]
    BY ONLY <2>2, k \in FileNames, x \in Seq(Nat), PutIs
  <2> QED BY <1>5, <2>1, <2>3
<1>7. DOMAIN e = DOMAIN disk /\ "bin" \in DOMAIN d
  BY <1>4, <1>6
<1>8. ColdSame(disk, e)
  BY <1>4, <1>6, <1>7 DEF ColdSame
<1>9. FlushedDisk = e
  BY <1>1, <1>2, <1>5 DEF FlushedDisk
<1> QED BY <1>1, <1>3, <1>4, <1>6, <1>7, <1>8, <1>9

LEMMA AppendIs ==
    ASSUME Types, NEW line \in Nat, NEW eof \in Nat, NEW e, Disk(e), {"bin", "idx"} \subseteq DOMAIN e,
           AppendLine(line, eof)
    PROVE  /\ buffer' \in [Files -> Seq(Nat)] /\ queued' \in [Files -> Seq(Seq(Nat))]
           /\ Whole(e, queued', buffer', "bin") = Append(Whole(e, queued, buffer, "bin"), line)
           /\ Whole(e, queued', buffer', "idx") = Append(Whole(e, queued, buffer, "idx"), eof + 1)
           /\ tail' = eof + 1 /\ total' = total + 1 /\ view' = Append(view, line)
           /\ ring' = LastN(Append(ring, line), RingCap)
<1>1. PICK bb, bq, ib, iq :
         /\ buffer' = [buffer EXCEPT !["bin"] = bb, !["idx"] = ib]
         /\ queued' = [queued EXCEPT !["bin"] = bq, !["idx"] = iq]
         /\ \/ bq = queued["bin"] /\ bb = Append(buffer["bin"], line)
            \/ bq = Append(queued["bin"], Append(buffer["bin"], line)) /\ bb = <<>>
         /\ \/ iq = queued["idx"] /\ ib = Append(buffer["idx"], eof + 1)
            \/ iq = Append(queued["idx"], Append(buffer["idx"], eof + 1)) /\ ib = <<>>
  <2>1. PICK binFull \in BOOLEAN :
           LET b == WriteTo("bin", line, binFull)
               i == WriteTo("idx", eof + 1, Len(buffer["idx"]) + 1 >= IdxCap)
           IN  /\ buffer' = [buffer EXCEPT !["bin"] = b.b, !["idx"] = i.b]
               /\ queued' = [queued EXCEPT !["bin"] = b.q, !["idx"] = i.q]
    BY DEF AppendLine
  <2>2. PICK b : b = WriteTo("bin", line, binFull)
    OBVIOUS
  <2>3. PICK i : i = WriteTo("idx", eof + 1, Len(buffer["idx"]) + 1 >= IdxCap)
    OBVIOUS
  <2>4. /\ buffer' = [buffer EXCEPT !["bin"] = b.b, !["idx"] = i.b]
        /\ queued' = [queued EXCEPT !["bin"] = b.q, !["idx"] = i.q]
    BY <2>1, <2>2, <2>3
  <2>5. \/ b.q = queued["bin"] /\ b.b = Append(buffer["bin"], line)
        \/ b.q = Append(queued["bin"], Append(buffer["bin"], line)) /\ b.b = <<>>
    BY <2>2 DEF WriteTo
  <2>6. \/ i.q = queued["idx"] /\ i.b = Append(buffer["idx"], eof + 1)
        \/ i.q = Append(queued["idx"], Append(buffer["idx"], eof + 1)) /\ i.b = <<>>
    BY <2>3 DEF WriteTo
  <2> QED BY <2>4, <2>5, <2>6
<1>4. e["bin"] \in Seq(Nat) /\ e["idx"] \in Seq(Nat) /\ eof + 1 \in Nat
  BY DEF Disk
<1>5. "bin" \in Files /\ "idx" \in Files /\ \A f \in Files : f = "bin" \/ f = "idx"
  BY DEF Files
<1>a. /\ buffer["bin"] \in Seq(Nat) /\ queued["bin"] \in Seq(Seq(Nat))
      /\ buffer["idx"] \in Seq(Nat) /\ queued["idx"] \in Seq(Seq(Nat))
  BY <1>5 DEF Types
<1>6. /\ bb \in Seq(Nat) /\ bq \in Seq(Seq(Nat))
      /\ Chain(e["bin"], bq, bb) = Append(Chain(e["bin"], queued["bin"], buffer["bin"]), line)
  <2>1. PICK q \in Seq(Seq(Nat)), b \in Seq(Nat), d \in Seq(Nat), item \in Nat :
           q = queued["bin"] /\ b = buffer["bin"] /\ d = e["bin"] /\ item = line
    BY <1>4, <1>a
  <2>2. \/ bq = q /\ bb = Append(b, item)
        \/ bq = Append(q, Append(b, item)) /\ bb = <<>>
    BY <1>1, <2>1
  <2>3. /\ Append(b, item) \in Seq(Nat) /\ Append(q, Append(b, item)) \in Seq(Seq(Nat))
        /\ Chain(d, q, Append(b, item)) = Append(Chain(d, q, b), item)
        /\ Chain(d, Append(q, Append(b, item)), <<>>) = Append(Chain(d, q, b), item)
    BY Written
  <2> QED BY <2>1, <2>2, <2>3, EmptySeq
<1>7. /\ ib \in Seq(Nat) /\ iq \in Seq(Seq(Nat))
      /\ Chain(e["idx"], iq, ib) = Append(Chain(e["idx"], queued["idx"], buffer["idx"]), eof + 1)
  <2>1. PICK q \in Seq(Seq(Nat)), b \in Seq(Nat), d \in Seq(Nat), item \in Nat :
           q = queued["idx"] /\ b = buffer["idx"] /\ d = e["idx"] /\ item = eof + 1
    BY <1>4, <1>a
  <2>2. \/ iq = q /\ ib = Append(b, item)
        \/ iq = Append(q, Append(b, item)) /\ ib = <<>>
    BY <1>1, <2>1
  <2>3. /\ Append(b, item) \in Seq(Nat) /\ Append(q, Append(b, item)) \in Seq(Seq(Nat))
        /\ Chain(d, q, Append(b, item)) = Append(Chain(d, q, b), item)
        /\ Chain(d, Append(q, Append(b, item)), <<>>) = Append(Chain(d, q, b), item)
    BY Written
  <2> QED BY <2>1, <2>2, <2>3, EmptySeq
<1>8. /\ buffer' \in [Files -> Seq(Nat)] /\ queued' \in [Files -> Seq(Seq(Nat))]
      /\ buffer'["bin"] = bb /\ buffer'["idx"] = ib /\ queued'["bin"] = bq /\ queued'["idx"] = iq
  BY <1>1, <1>5, <1>6, <1>7 DEF Types
<1>9. /\ tail' = eof + 1 /\ total' = total + 1 /\ view' = Append(view, line)
      /\ ring' = LastN(Append(ring, line), RingCap)
  BY DEF AppendLine
<1> QED BY <1>6, <1>7, <1>8, <1>9 DEF Whole

LEMMA TakeIs ==
    ASSUME NEW L, Types, Fresh(L), NEW line \in Lines, TakeLine(line), Makes(L)
    PROVE  /\ line \in Nat /\ line \in L
           /\ todo' \in Seq(Nat) /\ AllIn(todo', L)
           /\ pushed' \in 0 .. MaxPush /\ cleared \in 0 .. pushed'
<1>1. line \in Nat
  BY CapTyped DEF Lines, Blank
<1>2. CASE todo # <<>> /\ line = Head(todo) /\ todo' = Tail(todo) /\ pushed' = pushed
  <2>1. PICK t \in Seq(Nat), l \in Seq(Nat) : t = todo /\ l = Tail(todo)
    BY <1>2, HeadTailProperties DEF Types
  <2>2. Len(l) = Len(t) - 1 /\ \A j \in 1 .. Len(l) : l[j] = t[j + 1]
    BY <1>2, <2>1, HeadTailProperties
  <2>3. Len(t) \in Nat /\ Len(t) > 0 /\ Head(t) = t[1]
    BY <1>2, <2>1, LenOf, EmptySeq
  <2>4. AllIn(t, L)
    BY <2>1 DEF Fresh
  <2>5. line \in L
    BY <1>2, <2>1, <2>3, <2>4 DEF AllIn
  <2>6. AllIn(l, L)
    <3>1. \A j \in 1 .. Len(l) : j + 1 \in 1 .. Len(t)
      BY <2>2, <2>3
    <3> QED BY <2>2, <2>4, <3>1 DEF AllIn
  <2> QED BY <1>1, <1>2, <2>1, <2>5, <2>6 DEF Types
<1>3. CASE todo = <<>> /\ pushed < MaxPush /\ line = pushed + 1 /\ pushed' = line /\ todo' = todo
  <2>1. /\ cleared \in Nat /\ pushed \in Nat /\ cleared <= pushed
        /\ todo \in Seq(Nat) /\ AllIn(todo, L) /\ MaxPush \in Nat
    BY Counts, CapTyped DEF Types, Fresh
  <2>2. line \in L
    BY <1>3, <2>1 DEF Makes
  <2> QED BY <1>3, <2>1, <2>2
<1> QED BY <1>2, <1>3 DEF TakeLine

LEMMA StagesApart ==
    /\ "run" \notin RotationStages \union ClearStages \union {"down"}
    /\ "down" \notin RotationStages \union ClearStages \union {"run"}
    /\ RotationStages \cap (ClearStages \union {"run", "down"}) = {}
    /\ ClearStages \cap (RotationStages \union {"run", "down"}) = {}
BY DEF RotationStages, ClearStages

LEMMA PushStep == ASSUME NEW L, FileInv(L), PushLine, Makes(L) PROVE FileInv(L)'
<1>0. /\ stage = "run" /\ stage' = "run" /\ Types /\ Fresh(L) /\ Running(L)
      /\ disk' = disk /\ hotFirst' = hotFirst /\ coldFirst' = coldFirst /\ coldOpen' = coldOpen
      /\ cleared' = cleared /\ owed' = owed
  BY DEF FileInv, PushLine
<1>1. PICK line \in Lines : TakeLine(line) /\ AppendLine(line, tail)
  BY DEF PushLine
<1>2. /\ line \in Nat /\ line \in L
      /\ todo' \in Seq(Nat) /\ AllIn(todo', L)
      /\ pushed' \in 0 .. MaxPush /\ cleared \in 0 .. pushed'
  BY <1>0, <1>1, TakeIs
<1>3. /\ Disk(disk) /\ {"bin", "idx"} \subseteq DOMAIN disk /\ tail \in Nat /\ total \in Nat
      /\ hotFirst \in Nat /\ view \in Seq(Nat) /\ ring \in Seq(Nat) /\ cleared \in Nat
  BY <1>0, Counts DEF Types, Running
<1>4. /\ buffer' \in [Files -> Seq(Nat)] /\ queued' \in [Files -> Seq(Seq(Nat))]
      /\ Whole(disk, queued', buffer', "bin") = Append(Whole(disk, queued, buffer, "bin"), line)
      /\ Whole(disk, queued', buffer', "idx") = Append(Whole(disk, queued, buffer, "idx"), tail + 1)
      /\ tail' = tail + 1 /\ total' = total + 1 /\ view' = Append(view, line)
      /\ ring' = LastN(Append(ring, line), RingCap)
  BY <1>0, <1>1, <1>2, <1>3, AppendIs
<1>5. PICK b \in Seq(Nat), x \in Seq(Nat) :
         b = Flushed("bin") /\ x = Flushed("idx")
         /\ Flushed("bin")' = Append(b, line) /\ Flushed("idx")' = Append(x, tail + 1)
  <2>1. "bin" \in Files /\ "idx" \in Files
    BY DEF Files
  <2>2. Flushed("bin") \in Seq(Nat) /\ Flushed("idx") \in Seq(Nat)
    BY <1>0, <1>3, <2>1, FlushedIs
  <2>3. /\ Flushed("bin") = Whole(disk, queued, buffer, "bin")
        /\ Flushed("idx") = Whole(disk, queued, buffer, "idx")
        /\ Flushed("bin")' = Whole(disk', queued', buffer', "bin")
        /\ Flushed("idx")' = Whole(disk', queued', buffer', "idx")
    BY DEF Flushed, Whole, Chain
  <2> QED BY <1>0, <1>4, <2>2, <2>3
<1>6. Indexes(b, x, view, hotFirst) /\ Len(b) = tail /\ Clean(b, L)
      /\ InMemory(view, ring, total, hotFirst, L)
  BY <1>0, <1>5 DEF Running
<1>7. Indexes(Append(b, line), Append(x, tail + 1), view', hotFirst) /\ view' \in Seq(Nat)
  <2>1. tail + 1 \in Nat /\ tail + 1 = Len(b) + 1
    BY <1>3, <1>6
  <2> QED BY <1>2, <1>3, <1>4, <1>6, <2>1, IndexesMore, AddedIs
<1>8. Len(Append(b, line)) = tail + 1 /\ Clean(Append(b, line), L)
  BY <1>2, <1>3, <1>6, AddedIs, CleanMore
<1>9. ring' \in Seq(Nat) /\ InMemory(view', ring', total', hotFirst, L)
  BY <1>2, <1>3, <1>4, <1>6, MemoryMore
<1>10. ColdHolds(disk, coldFirst, hotFirst, view')
  <2>1. ColdHolds(disk, coldFirst, hotFirst, view) /\ coldFirst \in Nat /\ hotFirst <= Len(view) /\ Len(view) \in Nat
    BY <1>0, <1>3, LenOf DEF Running, InMemory, Types
  <2>2. CASE HasCold(disk)
    <3>1. PICK cx \in Seq(Nat) : cx = disk["cold.idx"]
      BY <1>3, <2>2 DEF HasCold, Exists, Disk
    <3>2. /\ coldFirst + Len(cx) = hotFirst /\ Len(cx) \in Nat
          /\ \A j \in 1 .. Len(cx) : RecordAt(disk["cold.bin"], cx, j) = view[coldFirst + j]
      BY <2>1, <2>2, <3>1, LenOf DEF ColdHolds
    <3>3. \A j \in 1 .. Len(cx) : coldFirst + j \in 1 .. Len(view)
      BY <2>1, <3>2
    <3>4. \A j \in 1 .. Len(view) : view'[j] = view[j]
      BY <1>2, <1>3, <1>4, AddedIs
    <3> QED BY <2>2, <3>1, <3>2, <3>3, <3>4 DEF ColdHolds
  <2>3. CASE ~HasCold(disk)
    BY <2>1, <2>3 DEF ColdHolds
  <2> QED BY <2>2, <2>3
<1>11. Types'
  BY SMTT(30), <1>0, <1>2, <1>3, <1>4, <1>7, <1>9 DEF Types
<1>12. Fresh(L)'
  BY <1>0, <1>2 DEF Fresh
<1>13. Running(L)'
  <2>1. coldOpen = HasCold(disk)
    BY <1>0 DEF Running
  <2> QED BY <1>0, <1>3, <1>4, <1>5, <1>7, <1>8, <1>9, <1>10, <2>1 DEF Running
<1> QED BY <1>0, <1>11, <1>12, <1>13, StagesApart DEF FileInv

LEMMA FilesAre == "bin" \in Files /\ "idx" \in Files /\ \A f \in Files : f = "bin" \/ f = "idx"
BY DEF Files

LEMMA BothThere ==
    ASSUME Types, {"bin", "idx"} \subseteq DOMAIN disk
    PROVE  /\ Disk(disk) /\ "bin" \in DOMAIN disk /\ "idx" \in DOMAIN disk
           /\ disk["bin"] \in Seq(Nat) /\ disk["idx"] \in Seq(Nat)
           /\ Flushed("bin") \in Seq(Nat) /\ Flushed("idx") \in Seq(Nat)
           /\ Flushed("bin") = Whole(disk, queued, buffer, "bin")
           /\ Flushed("idx") = Whole(disk, queued, buffer, "idx")
           /\ Begins(disk["idx"], Flushed("idx")) /\ Left(disk["bin"], Flushed("bin"))
<1>1. "bin" \in DOMAIN disk /\ "idx" \in DOMAIN disk /\ Disk(disk)
  BY DEF Types
<1>2. \A f \in Files : f \in DOMAIN disk =>
         /\ Flushed(f) = Whole(disk, queued, buffer, f) /\ Flushed(f) \in Seq(Nat)
         /\ Begins(disk[f], Flushed(f)) /\ Left(disk[f], Flushed(f)) /\ disk[f] \in Seq(Nat)
  BY FlushedIs
<1> QED BY <1>1, <1>2, FilesAre

\* The files are written to, and what they will hold stays.
Same == /\ ring' = ring /\ total' = total /\ hotFirst' = hotFirst /\ coldFirst' = coldFirst
        /\ coldOpen' = coldOpen /\ tail' = tail /\ stage' = stage /\ todo' = todo
        /\ view' = view /\ pushed' = pushed /\ cleared' = cleared /\ owed' = owed

LEMMA Rewritten ==
    ASSUME NEW L, FileInv(L), stage = "run", Same, Disk(disk'), DOMAIN disk' = DOMAIN disk, ColdSame(disk, disk'),
           buffer' \in [Files -> Seq(Nat)], queued' \in [Files -> Seq(Seq(Nat))],
           Whole(disk', queued', buffer', "bin") = Flushed("bin"),
           Whole(disk', queued', buffer', "idx") = Flushed("idx")
    PROVE  FileInv(L)'
<1>1. Types /\ Fresh(L) /\ Running(L)
  BY DEF FileInv
<1>2. Types'
  BY <1>1 DEF Types, Same
<1>3. Flushed("bin")' = Flushed("bin") /\ Flushed("idx")' = Flushed("idx")
  BY DEF Flushed, Whole, Chain
<1>4. /\ HasCold(disk) = HasCold(disk')
      /\ \A cf, hf, v : ColdHolds(disk, cf, hf, v) <=> ColdHolds(disk', cf, hf, v)
  BY ColdStays
<1>5. Running(L)'
  BY <1>1, <1>3, <1>4 DEF Running, Same
<1>6. Clean(disk'["bin"], L)
  <2>1. {"bin", "idx"} \subseteq DOMAIN disk'
    BY <1>1 DEF Running
  <2>2. PICK d \in Seq(Nat), q \in [Files -> Seq(Seq(Nat))], b \in [Files -> Seq(Nat)] :
           d = disk'["bin"] /\ q = queued' /\ b = buffer'
    BY <2>1 DEF Disk
  <2>3. PICK e : e = disk'
    OBVIOUS
  <2>4. PICK k \in Files : k = "bin"
    BY FilesAre
  <2>5. Whole(e, q, b, k) \in Seq(Nat) /\ Begins(e[k], Whole(e, q, b, k))
    BY <2>1, <2>3, <2>4, WholeIs
  <2>6. PICK w \in Seq(Nat) : w = Flushed("bin")
    BY <2>2, <2>3, <2>4, <2>5
  <2>7. Begins(d, w) /\ Clean(w, L)
    BY <1>1, <2>2, <2>3, <2>4, <2>5, <2>6 DEF Running
  <2>8. Clean(d, L)
    BY <2>7, BeginsLeft, CleanLeft
  <2> QED BY <2>2, <2>8
<1>7. Fresh(L)'
  BY <1>1, <1>6 DEF Fresh, CleanDisk, ColdSame, Same
<1>8. stage' = "run"
  BY DEF Same
<1> QED BY <1>2, <1>5, <1>7, <1>8, StagesApart DEF FileInv

LEMMA EmptyWhole ==
    ASSUME NEW d, Disk(d), NEW q \in [Files -> Seq(Seq(Nat))], NEW b \in [Files -> Seq(Nat)],
           NEW f \in Files, f \in DOMAIN d, q[f] = <<>>, b[f] = <<>>
    PROVE  Whole(d, q, b, f) = d[f]
BY WholeIs

\* Both files are flushed.
LEMMA FlushesBoth ==
    ASSUME NEW L, FileInv(L), stage = "run", Same, disk' = FlushedDisk, buffer' = NoBuffers, queued' = NoBuffers
    PROVE  FileInv(L)'
<1>1. Types /\ Running(L)
  BY DEF FileInv
<1>2. {"bin", "idx"} \subseteq DOMAIN disk
  BY <1>1 DEF Running
<1>3. PICK bf \in Files, xf \in Files : bf = "bin" /\ xf = "idx" /\ bf # xf
  BY FilesAre
<1>4. /\ Disk(disk') /\ DOMAIN disk' = DOMAIN disk /\ ColdSame(disk, disk')
      /\ disk'["bin"] = Flushed("bin") /\ disk'["idx"] = Flushed("idx")
  BY <1>1, <1>2, FlushedDiskIs
<1>5. buffer' \in [Files -> Seq(Nat)] /\ queued' \in [Files -> Seq(Seq(Nat))]
  BY NoBuffersIs
<1>6. \A f \in Files : buffer'[f] = <<>> /\ queued'[f] = <<>>
  BY NoBuffersIs
<1>7. PICK d : d = disk'
  OBVIOUS
<1>8. PICK q \in [Files -> Seq(Seq(Nat))], b \in [Files -> Seq(Nat)] : q = queued' /\ b = buffer'
  BY <1>5
<1>9. Whole(d, q, b, bf) = d[bf] /\ Whole(d, q, b, xf) = d[xf]
  BY <1>2, <1>3, <1>4, <1>6, <1>7, <1>8, EmptyWhole
<1>10. Whole(disk', queued', buffer', "bin") = Flushed("bin") /\ Whole(disk', queued', buffer', "idx") = Flushed("idx")
  BY <1>3, <1>4, <1>7, <1>8, <1>9
<1> QED BY <1>4, <1>5, <1>10, Rewritten

LEMMA FlushStep == ASSUME NEW L, FileInv(L), EnsureFlushed \/ FlushForHandoff PROVE FileInv(L)'
<1>1. stage = "run" /\ Types /\ Running(L) /\ Same
  BY DEF EnsureFlushed, FlushForHandoff, Idle, FileInv, Same, ghosts
<1>2. {"bin", "idx"} \subseteq DOMAIN disk
  BY <1>1 DEF Running
<1>3. PICK bf \in Files, xf \in Files : bf = "bin" /\ xf = "idx" /\ bf # xf
  BY FilesAre
<1>4. CASE EnsureFlushed
  BY <1>1, <1>4, FlushesBoth DEF EnsureFlushed
<1>5. CASE FlushForHandoff
  <2>1. /\ disk' = Put(disk, "bin", Flushed("bin"))
        /\ buffer' = [buffer EXCEPT !["bin"] = <<>>] /\ queued' = [queued EXCEPT !["bin"] = <<>>]
    BY <1>5 DEF FlushForHandoff
  <2>2. PICK w \in Seq(Nat), bn \in FileNames : w = Flushed("bin") /\ bn = "bin"
    BY <1>1, <1>2, BothThere DEF FileNames, Files
  <2>3. /\ Disk(Put(disk, bn, w)) /\ DOMAIN Put(disk, bn, w) = DOMAIN disk \union {bn}
        /\ Put(disk, bn, w)[bn] = w
        /\ \A g \in DOMAIN disk : g # bn => Put(disk, bn, w)[g] = disk[g]
    <3>1. Disk(disk)
      BY <1>1 DEF Types
    <3> QED BY <3>1, PutIs
  <2>4. /\ Disk(disk') /\ DOMAIN disk' = DOMAIN disk /\ disk'["bin"] = Flushed("bin")
        /\ \A g \in DOMAIN disk : g # "bin" => disk'[g] = disk[g]
    BY <1>2, <2>1, <2>2, <2>3
  <2>5. ColdSame(disk, disk')
    BY <2>4 DEF ColdSame
  <2>6. /\ buffer' \in [Files -> Seq(Nat)] /\ queued' \in [Files -> Seq(Seq(Nat))]
        /\ buffer'["bin"] = <<>> /\ queued'["bin"] = <<>>
        /\ buffer'["idx"] = buffer["idx"] /\ queued'["idx"] = queued["idx"]
    <3>1. \A S : <<>> \in Seq(S)
      BY EmptySeq
    <3>2. buffer \in [Files -> Seq(Nat)] /\ queued \in [Files -> Seq(Seq(Nat))]
      BY <1>1 DEF Types
    <3> QED BY <2>1, <3>1, <3>2, FilesAre
  <2>a. PICK d : d = disk'
    OBVIOUS
  <2>7. PICK q \in [Files -> Seq(Seq(Nat))], b \in [Files -> Seq(Nat)] : q = queued' /\ b = buffer'
    BY <2>6
  <2>8. Whole(d, q, b, bf) = d[bf]
    BY <1>2, <1>3, <2>4, <2>6, <2>7, <2>a, EmptyWhole
  <2>9. Whole(disk', queued', buffer', "bin") = Flushed("bin")
    BY <1>3, <2>4, <2>7, <2>8, <2>a
  <2>10. Whole(disk', queued', buffer', "idx") = Flushed("idx")
    <3>1. disk'["idx"] = disk["idx"]
      BY <1>2, <2>4
    <3> QED BY <2>6, <3>1 DEF Whole, Chain, Flushed
  <2> QED BY <1>1, <2>4, <2>5, <2>6, <2>9, <2>10, Rewritten
<1> QED BY <1>4, <1>5

\* The oldest full buffer goes from the queue to the file.
LEMMA ChainSpills ==
    ASSUME NEW s \in Seq(Nat), NEW q \in Seq(Seq(Nat)), NEW b \in Seq(Nat), q # <<>>
    PROVE  /\ Head(q) \in Seq(Nat) /\ Tail(q) \in Seq(Seq(Nat)) /\ s \o Head(q) \in Seq(Nat)
           /\ Chain(s \o Head(q), Tail(q), b) = Chain(s, q, b)
<1>1. PICK h \in Seq(Nat), t \in Seq(Seq(Nat)) :
         h = Head(q) /\ t = Tail(q) /\ FlattenSeq(q) = h \o FlattenSeq(t)
  BY FlatInFront
<1>2. PICK ft \in Seq(Nat) : ft = FlattenSeq(t)
  BY FlatType
<1>3. (s \o h) \o ft = s \o (h \o ft)
  BY Regroups
<1> QED BY <1>1, <1>2, <1>3, Joins DEF Chain

LEMMA SpillIs ==
    ASSUME Types, NEW f \in Files, f \in DOMAIN disk, Spill(f)
    PROVE  /\ Disk(disk') /\ DOMAIN disk' = DOMAIN disk /\ queued' \in [Files -> Seq(Seq(Nat))]
           /\ \A g \in DOMAIN disk : g # f => disk'[g] = disk[g]
           /\ \A g \in Files : g # f => queued'[g] = queued[g]
           /\ Whole(disk', queued', buffer, f) = Whole(disk, queued, buffer, f)
<1>1. /\ queued[f] # <<>> /\ disk' = [disk EXCEPT ![f] = disk[f] \o Head(queued[f])]
      /\ queued' = [queued EXCEPT ![f] = Tail(queued[f])]
  BY DEF Spill
<1>2. PICK s \in Seq(Nat), q \in Seq(Seq(Nat)), b \in Seq(Nat) : s = disk[f] /\ q = queued[f] /\ b = buffer[f]
  BY DEF Types, Disk
<1>3. /\ Head(q) \in Seq(Nat) /\ Tail(q) \in Seq(Seq(Nat)) /\ s \o Head(q) \in Seq(Nat)
      /\ Chain(s \o Head(q), Tail(q), b) = Chain(s, q, b)
  BY <1>1, <1>2, ChainSpills
<1>4. /\ Disk(disk') /\ DOMAIN disk' = DOMAIN disk /\ disk'[f] = s \o Head(q)
      /\ \A g \in DOMAIN disk : g # f => disk'[g] = disk[g]
  <2>1. Disk(disk)
    BY DEF Types
  <2> QED BY <1>1, <1>2, <1>3, <2>1 DEF Disk
<1>5. /\ queued' \in [Files -> Seq(Seq(Nat))] /\ queued'[f] = Tail(q)
      /\ \A g \in Files : g # f => queued'[g] = queued[g]
  BY <1>1, <1>2, <1>3 DEF Types
<1>6. Whole(disk', queued', buffer, f) = Whole(disk, queued, buffer, f)
  BY <1>2, <1>3, <1>4, <1>5 DEF Whole
<1> QED BY <1>4, <1>5, <1>6

LEMMA SpillStep == ASSUME NEW L, FileInv(L), NEW f \in Files, Spill(f) PROVE FileInv(L)'
<1>0. Types /\ Fresh(L) /\ Same /\ buffer' = buffer /\ queued[f] # <<>> /\ stage # "down"
  BY DEF FileInv, Spill, Same, ghosts
<1>1. CASE stage = "run"
  <2>1. Running(L) /\ {"bin", "idx"} \subseteq DOMAIN disk /\ f \in DOMAIN disk
    BY <1>1, FilesAre DEF FileInv, Running
  <2>2. /\ Disk(disk') /\ DOMAIN disk' = DOMAIN disk /\ queued' \in [Files -> Seq(Seq(Nat))]
        /\ \A g \in DOMAIN disk : g # f => disk'[g] = disk[g]
        /\ \A g \in Files : g # f => queued'[g] = queued[g]
        /\ Whole(disk', queued', buffer, f) = Whole(disk, queued, buffer, f)
    BY <1>0, <2>1, SpillIs
  <2>3. \A g \in Files : Whole(disk', queued', buffer, g) = Whole(disk, queued, buffer, g)
    <3>1. \A g \in Files : g \in DOMAIN disk
      BY <2>1, FilesAre
    <3> QED BY <2>2, <3>1 DEF Whole
  <2>4. Flushed("bin") = Whole(disk, queued, buffer, "bin") /\ Flushed("idx") = Whole(disk, queued, buffer, "idx")
    BY <1>0, <2>1, BothThere
  <2>5. Whole(disk', queued', buffer', "bin") = Flushed("bin") /\ Whole(disk', queued', buffer', "idx") = Flushed("idx")
    BY <1>0, <2>3, <2>4, FilesAre
  <2>6. ColdSame(disk, disk')
    BY <2>2, FilesAre DEF ColdSame
  <2>7. buffer' \in [Files -> Seq(Nat)]
    BY <1>0 DEF Types
  <2> QED BY <1>0, <1>1, <2>2, <2>5, <2>6, <2>7, Rewritten
<1>2. CASE stage \in RotationStages
  <2>1. queued = NoBuffers
    BY <1>2 DEF FileInv, Rotating, Buffered
  <2> QED BY <1>0, <2>1, NoBuffersIs
<1>3. CASE stage \in ClearStages
  <2>1. Clearing /\ {"bin", "idx"} \subseteq DOMAIN disk /\ f \in DOMAIN disk
    BY <1>3, FilesAre DEF FileInv, Clearing
  <2>2. /\ Disk(disk') /\ DOMAIN disk' = DOMAIN disk /\ queued' \in [Files -> Seq(Seq(Nat))]
        /\ \A g \in DOMAIN disk : g # f => disk'[g] = disk[g]
        /\ \A g \in Files : g # f => queued'[g] = queued[g]
    BY <1>0, <2>1, SpillIs
  <2>3. f = "idx" /\ stage = "binCut"
    BY <1>0, <1>3, <2>1, FilesAre DEF Clearing, ClearStages
  <2>4. ColdSame(disk, disk')
    BY <2>2, <2>3 DEF ColdSame
  <2>5. disk'["bin"] = disk["bin"] /\ queued'["bin"] = queued["bin"]
    BY <2>1, <2>2, <2>3, FilesAre
  <2>6. Types'
    BY <1>0, <2>2 DEF Types, Same
  <2>7. Fresh(L)'
    BY <1>0, <2>2, <2>3 DEF Fresh, CleanDisk, Same
  <2>8. ColdWhole(disk')
    BY <2>1, <2>4, ColdStays DEF Clearing
  <2>9. Clearing'
    BY <1>0, <2>1, <2>2, <2>3, <2>5, <2>8 DEF Clearing, Same
  <2> QED BY <1>0, <2>3, <2>6, <2>7, <2>9, StagesApart DEF FileInv, Same, ClearStages, RotationStages
<1> QED BY <1>0, <1>1, <1>2, <1>3 DEF Types, Stages

-----------------------------------------------------------------------------
(* Rotation. *)

LEMMA StartStep == ASSUME NEW L, FileInv(L), StartRotation PROVE FileInv(L)'
<1>1. /\ stage = "run" /\ stage' = "flushed" /\ disk' = FlushedDisk /\ buffer' = NoBuffers /\ queued' = NoBuffers
      /\ coldOpen' = FALSE /\ ring' = ring /\ total' = total /\ hotFirst' = hotFirst /\ coldFirst' = coldFirst
      /\ tail' = tail /\ todo' = todo /\ view' = view /\ pushed' = pushed /\ cleared' = cleared /\ owed' = owed
  BY DEF StartRotation, ghosts
<1>2. Types /\ Fresh(L) /\ Running(L) /\ {"bin", "idx"} \subseteq DOMAIN disk
  BY <1>1 DEF FileInv, Running
<1>3. /\ Disk(disk') /\ DOMAIN disk' = DOMAIN disk /\ ColdSame(disk, disk')
      /\ disk'["bin"] = Flushed("bin") /\ disk'["idx"] = Flushed("idx")
  BY <1>1, <1>2, FlushedDiskIs
<1>4. \A cf, hf, v : ColdHolds(disk, cf, hf, v) <=> ColdHolds(disk', cf, hf, v)
  BY <1>3, ColdStays
<1>5. Types'
  <2>1. buffer' \in [Files -> Seq(Nat)] /\ queued' \in [Files -> Seq(Seq(Nat))]
    BY <1>1, NoBuffersIs
  <2>2. stage' \in Stages
    BY <1>1 DEF Stages, RotationStages
  <2> QED BY <1>1, <1>2, <1>3, <2>1, <2>2 DEF Types
<1>6. Fresh(L)'
  <2>1. Clean(disk'["bin"], L)
    BY <1>2, <1>3 DEF Running
  <2> QED BY <1>1, <1>2, <1>3, <2>1 DEF Fresh, CleanDisk, ColdSame
<1>7. Rotating(L)'
  <2>1. InMemory(view, ring, total, hotFirst, L) /\ Indexes(disk'["bin"], disk'["idx"], view, hotFirst)
    BY <1>2, <1>3 DEF Running
  <2>2. ColdHolds(disk', coldFirst, hotFirst, view)
    BY <1>2, <1>4 DEF Running
  <2>3. {"bin", "idx"} \subseteq DOMAIN disk'
    BY <1>2, <1>3
  <2> QED BY <1>1, <2>1, <2>2, <2>3 DEF Rotating, Buffered
<1> QED BY <1>1, <1>5, <1>6, <1>7, StagesApart DEF FileInv, RotationStages

\* A step that changes the files only.
LEMMA StepTypes ==
    ASSUME NEW L, Types, Fresh(L), NEW from \in Stages, NEW to \in RotationStages, NEW d,
           RotationStep(from, to, d), Disk(d), CleanDisk(d, L)
    PROVE  /\ Types' /\ Fresh(L)' /\ stage = from /\ stage' = to /\ disk' = d
           /\ ring' = ring /\ total' = total /\ hotFirst' = hotFirst /\ coldFirst' = coldFirst
           /\ coldOpen' = coldOpen /\ view' = view /\ cleared' = cleared
           /\ buffer' = buffer /\ queued' = queued
<1>1. to \in Stages
  BY DEF Stages
<1>2. /\ stage = from /\ stage' = to /\ disk' = d
      /\ ring' = ring /\ total' = total /\ hotFirst' = hotFirst /\ coldFirst' = coldFirst
      /\ coldOpen' = coldOpen /\ view' = view /\ cleared' = cleared
      /\ buffer' = buffer /\ queued' = queued
      /\ tail' = tail /\ todo' = todo /\ pushed' = pushed /\ owed' = owed
  BY DEF RotationStep, memory, ghosts
<1>3. Types'
  BY <1>1, <1>2 DEF Types
<1>4. Fresh(L)'
  BY <1>2 DEF Fresh
<1> QED BY <1>2, <1>3, <1>4

LEMMA RemoveStep == ASSUME NEW L, FileInv(L), RemoveColdBin \/ RemoveColdIdx PROVE FileInv(L)'
<1>1. Types /\ Fresh(L) /\ Disk(disk)
  BY DEF FileInv, Types
<1>2. \A f \in {"cold.bin", "cold.idx"} :
         /\ Disk(Without(disk, f)) /\ DOMAIN Without(disk, f) = DOMAIN disk \ {f}
         /\ \A g \in DOMAIN disk : g # f => Without(disk, f)[g] = disk[g]
         /\ CleanDisk(Without(disk, f), L)
  <2>1. SUFFICES ASSUME NEW f \in {"cold.bin", "cold.idx"}
                 PROVE  /\ Disk(Without(disk, f)) /\ DOMAIN Without(disk, f) = DOMAIN disk \ {f}
                        /\ \A g \in DOMAIN disk : g # f => Without(disk, f)[g] = disk[g]
                        /\ CleanDisk(Without(disk, f), L)
    OBVIOUS
  <2>2. /\ Disk(Without(disk, f)) /\ DOMAIN Without(disk, f) = DOMAIN disk \ {f}
        /\ \A g \in DOMAIN disk : g # f => Without(disk, f)[g] = disk[g]
    BY <1>1, WithoutIs
  <2>3. CleanDisk(Without(disk, f), L)
    BY <1>1, <2>2 DEF Fresh, CleanDisk
  <2> QED BY <2>2, <2>3
<1>3. CASE RemoveColdBin
  <2>2. RotationStep("flushed", "coldBinGone", Without(disk, "cold.bin"))
    BY <1>3 DEF RemoveColdBin
  <2>3. PICK e : e = Without(disk, "cold.bin")
    OBVIOUS
  <2>4. /\ Disk(e) /\ DOMAIN e = DOMAIN disk \ {"cold.bin"} /\ CleanDisk(e, L)
        /\ \A g \in DOMAIN disk : g # "cold.bin" => e[g] = disk[g]
    BY <1>2, <2>3
  <2>5. PICK from \in Stages, to \in RotationStages : from = "flushed" /\ to = "coldBinGone"
    BY DEF Stages, RotationStages
  <2>6. RotationStep(from, to, e)
    BY <2>2, <2>3, <2>5
  <2>7. /\ Types' /\ Fresh(L)' /\ stage = from /\ stage' = to /\ disk' = e
        /\ ring' = ring /\ total' = total /\ hotFirst' = hotFirst /\ coldFirst' = coldFirst
        /\ coldOpen' = coldOpen /\ view' = view /\ cleared' = cleared
        /\ buffer' = buffer /\ queued' = queued
    BY <1>1, <2>4, <2>6, StepTypes
  <2>8. Rotating(L)
    BY <2>5, <2>7 DEF FileInv, RotationStages
  <2>9. Rotating(L)'
    BY <2>4, <2>5, <2>7, <2>8 DEF Rotating, Buffered
  <2> QED BY <2>5, <2>7, <2>9, StagesApart DEF FileInv, RotationStages
<1>4. CASE RemoveColdIdx
  <2>2. RotationStep("coldBinGone", "coldGone", Without(disk, "cold.idx"))
    BY <1>4 DEF RemoveColdIdx
  <2>3. PICK e : e = Without(disk, "cold.idx")
    OBVIOUS
  <2>4. /\ Disk(e) /\ DOMAIN e = DOMAIN disk \ {"cold.idx"} /\ CleanDisk(e, L)
        /\ \A g \in DOMAIN disk : g # "cold.idx" => e[g] = disk[g]
    BY <1>2, <2>3
  <2>5. PICK from \in Stages, to \in RotationStages : from = "coldBinGone" /\ to = "coldGone"
    BY DEF Stages, RotationStages
  <2>6. RotationStep(from, to, e)
    BY <2>2, <2>3, <2>5
  <2>7. /\ Types' /\ Fresh(L)' /\ stage = from /\ stage' = to /\ disk' = e
        /\ ring' = ring /\ total' = total /\ hotFirst' = hotFirst /\ coldFirst' = coldFirst
        /\ coldOpen' = coldOpen /\ view' = view /\ cleared' = cleared
        /\ buffer' = buffer /\ queued' = queued
    BY <1>1, <2>4, <2>6, StepTypes
  <2>8. Rotating(L)
    BY <2>5, <2>7 DEF FileInv, RotationStages
  <2>9. Rotating(L)'
    BY <2>4, <2>5, <2>7, <2>8 DEF Rotating, Buffered
  <2> QED BY <2>5, <2>7, <2>9, StagesApart DEF FileInv, RotationStages
<1> QED BY <1>3, <1>4

LEMMA RenameStep == ASSUME NEW L, FileInv(L), RenameBin \/ RenameIdx PROVE FileInv(L)'
<1>1. Types /\ Fresh(L) /\ Disk(disk)
  BY DEF FileInv, Types
<1>2. {"cold.bin", "cold.idx", "bin", "idx"} = FileNames
  BY DEF FileNames, Files
<1>3. CASE RenameBin
  <2>1. RotationStep("coldGone", "binRenamed", Rename(disk, "bin", "cold.bin"))
    BY <1>3 DEF RenameBin
  <2>2. stage = "coldGone" /\ Rotating(L)
    BY <2>1 DEF RotationStep, FileInv, RotationStages
  <2>3. /\ "bin" \in DOMAIN disk /\ "idx" \in DOMAIN disk
        /\ "cold.bin" \notin DOMAIN disk /\ "cold.idx" \notin DOMAIN disk
        /\ Indexes(disk["bin"], disk["idx"], view, hotFirst)
    BY <2>2 DEF Rotating
  <2>4. PICK f \in DOMAIN disk, g \in FileNames : f = "bin" /\ g = "cold.bin" /\ f # g
    BY <1>2, <2>3
  <2>5. PICK e : e = Rename(disk, f, g)
    OBVIOUS
  <2>6. /\ Disk(e) /\ DOMAIN e = (DOMAIN disk \ {f}) \union {g} /\ e[g] = disk[f]
        /\ \A k \in DOMAIN disk : k \notin {f, g} => e[k] = disk[k]
    BY <1>1, <2>4, <2>5, RenameIs
  <2>7. CleanDisk(e, L)
    BY <1>1, <2>3, <2>4, <2>6 DEF Fresh, CleanDisk
  <2>8. PICK from \in Stages, to \in RotationStages : from = "coldGone" /\ to = "binRenamed"
    BY DEF Stages, RotationStages
  <2>9. RotationStep(from, to, e)
    BY <2>1, <2>4, <2>5, <2>8
  <2>10. /\ Types' /\ Fresh(L)' /\ stage = from /\ stage' = to /\ disk' = e
         /\ ring' = ring /\ total' = total /\ hotFirst' = hotFirst /\ coldFirst' = coldFirst
         /\ coldOpen' = coldOpen /\ view' = view /\ cleared' = cleared
         /\ buffer' = buffer /\ queued' = queued
    BY <1>1, <2>6, <2>7, <2>9, StepTypes
  <2>11. /\ "cold.bin" \in DOMAIN e /\ "idx" \in DOMAIN e /\ "bin" \notin DOMAIN e /\ "cold.idx" \notin DOMAIN e
         /\ e["cold.bin"] = disk["bin"] /\ e["idx"] = disk["idx"]
    BY <2>3, <2>4, <2>6
  <2>12. Rotating(L)'
    BY <2>2, <2>3, <2>8, <2>10, <2>11 DEF Rotating, Buffered
  <2> QED BY <2>8, <2>10, <2>12, StagesApart DEF FileInv, RotationStages
<1>4. CASE RenameIdx
  <2>1. RotationStep("binRenamed", "renamed", Rename(disk, "idx", "cold.idx"))
    BY <1>4 DEF RenameIdx
  <2>2. stage = "binRenamed" /\ Rotating(L)
    BY <2>1 DEF RotationStep, FileInv, RotationStages
  <2>3. /\ "bin" \notin DOMAIN disk /\ "idx" \in DOMAIN disk
        /\ "cold.bin" \in DOMAIN disk /\ "cold.idx" \notin DOMAIN disk
        /\ Indexes(disk["cold.bin"], disk["idx"], view, hotFirst)
    BY <2>2 DEF Rotating
  <2>4. PICK f \in DOMAIN disk, g \in FileNames : f = "idx" /\ g = "cold.idx" /\ f # g
    BY <1>2, <2>3
  <2>5. PICK e : e = Rename(disk, f, g)
    OBVIOUS
  <2>6. /\ Disk(e) /\ DOMAIN e = (DOMAIN disk \ {f}) \union {g} /\ e[g] = disk[f]
        /\ \A k \in DOMAIN disk : k \notin {f, g} => e[k] = disk[k]
    BY <1>1, <2>4, <2>5, RenameIs
  <2>7. CleanDisk(e, L)
    BY <1>1, <2>3, <2>4, <2>6 DEF Fresh, CleanDisk
  <2>8. PICK from \in Stages, to \in RotationStages : from = "binRenamed" /\ to = "renamed"
    BY DEF Stages, RotationStages
  <2>9. RotationStep(from, to, e)
    BY <2>1, <2>4, <2>5, <2>8
  <2>10. /\ Types' /\ Fresh(L)' /\ stage = from /\ stage' = to /\ disk' = e
         /\ ring' = ring /\ total' = total /\ hotFirst' = hotFirst /\ coldFirst' = coldFirst
         /\ coldOpen' = coldOpen /\ view' = view /\ cleared' = cleared
         /\ buffer' = buffer /\ queued' = queued
    BY <1>1, <2>6, <2>7, <2>9, StepTypes
  <2>11. /\ "cold.bin" \in DOMAIN e /\ "cold.idx" \in DOMAIN e /\ "bin" \notin DOMAIN e /\ "idx" \notin DOMAIN e
         /\ e["cold.bin"] = disk["cold.bin"] /\ e["cold.idx"] = disk["idx"]
    BY <2>3, <2>4, <2>6
  <2>12. Rotating(L)'
    BY <2>2, <2>3, <2>8, <2>10, <2>11 DEF Rotating, Buffered
  <2> QED BY <2>8, <2>10, <2>12, StagesApart DEF FileInv, RotationStages
<1> QED BY <1>3, <1>4

LEMMA CreateStep == ASSUME NEW L, FileInv(L), CreateBin PROVE FileInv(L)'
<1>1. Types /\ Fresh(L) /\ Disk(disk)
  BY DEF FileInv, Types
<1>2. RotationStep("renamed", "binCreated", Put(disk, "bin", <<>>))
  BY DEF CreateBin
<1>3. stage = "renamed" /\ Rotating(L)
  BY <1>2 DEF RotationStep, FileInv, RotationStages
<1>4. /\ "bin" \notin DOMAIN disk /\ "idx" \notin DOMAIN disk
      /\ "cold.bin" \in DOMAIN disk /\ "cold.idx" \in DOMAIN disk
      /\ Indexes(disk["cold.bin"], disk["cold.idx"], view, hotFirst)
  BY <1>3 DEF Rotating
<1>5. PICK f \in FileNames, c \in Seq(Nat) : f = "bin" /\ c = <<>>
  BY EmptySeq DEF FileNames, Files
<1>6. PICK e : e = Put(disk, f, c)
  OBVIOUS
<1>7. /\ Disk(e) /\ DOMAIN e = DOMAIN disk \union {f} /\ e[f] = c
      /\ \A g \in DOMAIN disk : g # f => e[g] = disk[g]
  <2>1. /\ Disk(Put(disk, f, c)) /\ DOMAIN Put(disk, f, c) = DOMAIN disk \union {f}
        /\ Put(disk, f, c)[f] = c
        /\ \A g \in DOMAIN disk : g # f => Put(disk, f, c)[g] = disk[g]
    BY <1>1, PutIs
  <2> QED BY <1>6, <2>1
<1>8. Clean(<<>>, L)
  BY EmptySeq DEF Clean
<1>9. CleanDisk(e, L)
  BY <1>1, <1>4, <1>5, <1>7, <1>8 DEF Fresh, CleanDisk
<1>10. PICK from \in Stages, to \in RotationStages : from = "renamed" /\ to = "binCreated"
  BY DEF Stages, RotationStages
<1>11. RotationStep(from, to, e)
  BY <1>2, <1>5, <1>6, <1>10
<1>12. /\ Types' /\ Fresh(L)' /\ stage = from /\ stage' = to /\ disk' = e
       /\ ring' = ring /\ total' = total /\ hotFirst' = hotFirst /\ coldFirst' = coldFirst
       /\ coldOpen' = coldOpen /\ view' = view /\ cleared' = cleared
       /\ buffer' = buffer /\ queued' = queued
  BY <1>1, <1>7, <1>9, <1>11, StepTypes
<1>13. /\ "cold.bin" \in DOMAIN e /\ "cold.idx" \in DOMAIN e /\ "bin" \in DOMAIN e /\ "idx" \notin DOMAIN e
       /\ e["cold.bin"] = disk["cold.bin"] /\ e["cold.idx"] = disk["cold.idx"] /\ e["bin"] = <<>>
  BY <1>4, <1>5, <1>7
<1>14. Rotating(L)'
  BY <1>3, <1>4, <1>10, <1>12, <1>13 DEF Rotating, Buffered
<1> QED BY <1>10, <1>12, <1>14, StagesApart DEF FileInv, RotationStages

LEMMA NothingIndexed ==
    ASSUME NEW v \in Seq(Nat)
    PROVE  Indexes(<<>>, <<>>, v, Len(v))
BY EmptySeq, LenOf DEF Indexes, Points

LEMMA FinishStep == ASSUME NEW L, FileInv(L), FinishRotation, Makes(L) PROVE FileInv(L)'
<1>1. /\ stage = "binCreated" /\ stage' = "run" /\ disk' = Put(disk, "idx", <<>>)
      /\ coldFirst' = hotFirst /\ hotFirst' = total /\ coldOpen' = TRUE
      /\ cleared' = cleared /\ owed' = owed
  BY DEF FinishRotation, Renumber
<1>2. Types /\ Fresh(L) /\ Rotating(L) /\ Disk(disk)
  BY <1>1 DEF FileInv, RotationStages, Types
<1>3. /\ InMemory(view, ring, total, hotFirst, L) /\ buffer = NoBuffers /\ queued = NoBuffers
      /\ "cold.bin" \in DOMAIN disk /\ "cold.idx" \in DOMAIN disk
      /\ "idx" \notin DOMAIN disk /\ "bin" \in DOMAIN disk /\ disk["bin"] = <<>>
      /\ Indexes(disk["cold.bin"], disk["cold.idx"], view, hotFirst)
  BY <1>1, <1>2 DEF Rotating, Buffered
<1>4. PICK f \in FileNames, c \in Seq(Nat) : f = "idx" /\ c = <<>>
  BY EmptySeq DEF FileNames, Files
<1>5. PICK e : e = Put(disk, f, c)
  OBVIOUS
<1>6. /\ Disk(e) /\ DOMAIN e = DOMAIN disk \union {f} /\ e[f] = c
      /\ \A g \in DOMAIN disk : g # f => e[g] = disk[g]
  <2>1. /\ Disk(Put(disk, f, c)) /\ DOMAIN Put(disk, f, c) = DOMAIN disk \union {f}
        /\ Put(disk, f, c)[f] = c
        /\ \A g \in DOMAIN disk : g # f => Put(disk, f, c)[g] = disk[g]
    BY <1>2, PutIs
  <2> QED BY <1>5, <2>1
<1>7. /\ disk' = e /\ {"bin", "idx"} \subseteq DOMAIN e /\ e["bin"] = <<>> /\ e["idx"] = <<>>
      /\ "cold.bin" \in DOMAIN e /\ "cold.idx" \in DOMAIN e
      /\ e["cold.bin"] = disk["cold.bin"] /\ e["cold.idx"] = disk["cold.idx"]
  BY <1>1, <1>3, <1>4, <1>5, <1>6
<1>8. PICK line \in Lines : TakeLine(line) /\ AppendLine(line, 0)
  BY DEF FinishRotation
<1>9. /\ line \in Nat /\ line \in L
      /\ todo' \in Seq(Nat) /\ AllIn(todo', L)
      /\ pushed' \in 0 .. MaxPush /\ cleared \in 0 .. pushed'
  BY <1>1, <1>2, <1>8, TakeIs
<1>10. PICK eof \in Nat : eof = 0
  OBVIOUS
<1>11. /\ buffer' \in [Files -> Seq(Nat)] /\ queued' \in [Files -> Seq(Seq(Nat))]
       /\ Whole(e, queued', buffer', "bin") = Append(Whole(e, queued, buffer, "bin"), line)
       /\ Whole(e, queued', buffer', "idx") = Append(Whole(e, queued, buffer, "idx"), eof + 1)
       /\ tail' = eof + 1 /\ total' = total + 1 /\ view' = Append(view, line)
       /\ ring' = LastN(Append(ring, line), RingCap)
  BY <1>2, <1>6, <1>7, <1>8, <1>9, <1>10, AppendIs
<1>12. Whole(e, queued, buffer, "bin") = <<>> /\ Whole(e, queued, buffer, "idx") = <<>>
  <2>1. PICK q \in [Files -> Seq(Seq(Nat))], b \in [Files -> Seq(Nat)] : q = queued /\ b = buffer
    BY <1>2 DEF Types
  <2>2. \A g \in Files : q[g] = <<>> /\ b[g] = <<>>
    BY <1>3, <2>1, NoBuffersIs
  <2>3. \A g \in Files : g \in DOMAIN e => Whole(e, q, b, g) = e[g]
    BY <1>6, <2>2, EmptyWhole
  <2> QED BY <1>7, <2>1, <2>3, FilesAre
<1>13. PICK b \in Seq(Nat) : b = <<>> /\ Len(b) = 0
  BY EmptySeq
<1>14. PICK one \in Nat : one = eof + 1 /\ one = Len(b) + 1 /\ one = 1
  BY <1>10, <1>13
<1>15. /\ Flushed("bin")' = Append(b, line) /\ Flushed("idx")' = Append(b, one)
  BY <1>7, <1>11, <1>12, <1>13, <1>14 DEF Flushed, Whole, Chain
<1>16. /\ total \in Nat /\ hotFirst \in Nat /\ view \in Seq(Nat) /\ ring \in Seq(Nat) /\ cleared \in Nat
       /\ total = Len(view)
  BY <1>2, <1>3, Counts DEF Types, InMemory
<1>17. Indexes(Append(b, line), Append(b, one), view', total) /\ view' \in Seq(Nat)
  <2>1. Indexes(b, b, view, total)
    BY <1>13, <1>16, NothingIndexed
  <2> QED BY <1>9, <1>11, <1>14, <1>16, <2>1, IndexesMore, AddedIs
<1>18. Len(Append(b, line)) = tail' /\ Clean(Append(b, line), L)
  <2>1. Clean(b, L)
    BY <1>13 DEF Clean
  <2>2. Len(Append(b, line)) = one
    BY <1>9, <1>14, AddedIs
  <2> QED BY <1>9, <1>11, <1>14, <1>16, <2>1, <2>2, CleanMore
<1>19. ring' \in Seq(Nat) /\ InMemory(view', ring', total', total, L)
  BY <1>3, <1>9, <1>11, <1>16, MemoryMore
<1>20. ColdHolds(e, hotFirst, total, view')
  <2>1. PICK cb \in Seq(Nat), cx \in Seq(Nat) : cb = disk["cold.bin"] /\ cx = disk["cold.idx"]
    BY <1>2, <1>3 DEF Disk
  <2>2. Points(cb, cx) /\ hotFirst + Len(cx) = total /\ \A j \in 1 .. Len(cx) : cb[cx[j]] = view[hotFirst + j]
    BY <1>3, <1>16, <2>1 DEF Indexes
  <2>3. \A j \in 1 .. Len(cx) : RecordAt(cb, cx, j) = view[hotFirst + j]
    BY <2>2, PointsAt
  <2>4. \A j \in 1 .. Len(cx) : hotFirst + j \in 1 .. Len(view)
    BY <1>16, <2>2, LenOf
  <2>5. \A j \in 1 .. Len(view) : view'[j] = view[j]
    BY <1>9, <1>11, <1>16, AddedIs
  <2>6. \A j \in 1 .. Len(cx) : RecordAt(cb, cx, j) = view'[hotFirst + j]
    BY <2>3, <2>4, <2>5
  <2>7. HasCold(e) /\ e["cold.bin"] = cb /\ e["cold.idx"] = cx
    BY <1>7, <2>1 DEF HasCold, Exists
  <2>8. hotFirst + Len(cx) = total
    BY <2>2
  <2> QED BY <2>6, <2>7, <2>8 DEF ColdHolds
<1>21. total' \in Nat /\ tail' \in Nat /\ stage' \in Stages
  BY <1>1, <1>11, <1>16 DEF Stages
<1>22. Types'
  BY <1>1, <1>2, <1>6, <1>7, <1>9, <1>11, <1>16, <1>17, <1>19, <1>21 DEF Types
<1>23. Fresh(L)'
  <2>1. CleanDisk(e, L)
    <3>1. Clean(<<>>, L)
      BY <1>13 DEF Clean
    <3> QED BY <1>2, <1>3, <1>7, <3>1 DEF Fresh, CleanDisk
  <2> QED BY <1>1, <1>2, <1>7, <1>9, <2>1 DEF Fresh
<1>24. HasCold(e) = TRUE
  BY <1>7 DEF HasCold, Exists
<1>25. Running(L)'
  BY <1>1, <1>7, <1>15, <1>17, <1>18, <1>19, <1>20, <1>24 DEF Running
<1> QED BY <1>1, <1>22, <1>23, <1>25, StagesApart DEF FileInv

-----------------------------------------------------------------------------
(* Clearing. *)

LEMMA EmptyClean == \A L : Clean(<<>>, L) /\ AllIn(<<>>, L)
BY EmptySeq DEF Clean, AllIn

LEMMA EmptyColdWhole ==
    ASSUME NEW L, Types, Fresh(L), Running(L)
    PROVE  ColdWhole(disk)
<1>1. /\ ColdHolds(disk, coldFirst, hotFirst, view) /\ InMemory(view, ring, total, hotFirst, L)
      /\ Disk(disk) /\ view \in Seq(Nat) /\ coldFirst \in Nat /\ hotFirst \in Nat /\ L \subseteq Nat \ {0}
  BY LinedIs DEF Types, Running, Fresh
<1>2. CASE HasCold(disk)
  <2>1. PICK cx \in Seq(Nat) : cx = disk["cold.idx"]
    BY <1>1, <1>2 DEF HasCold, Exists, Disk
  <2>2. coldFirst + Len(cx) = hotFirst /\ \A j \in 1 .. Len(cx) : RecordAt(disk["cold.bin"], cx, j) = view[coldFirst + j]
    BY <1>1, <1>2, <2>1 DEF ColdHolds
  <2>3. hotFirst <= Len(view) /\ Len(view) \in Nat /\ Len(cx) \in Nat
    BY <1>1, LenOf DEF InMemory
  <2>4. \A j \in 1 .. Len(cx) : coldFirst + j \in 1 .. Len(view)
    BY <1>1, <2>2, <2>3
  <2>5. \A p \in 1 .. Len(view) : view[p] # None
    <3>1. \A p \in 1 .. Len(view) : view[p] \in Nat \ {0}
      BY <1>1, LenOf DEF InMemory, AllIn
    <3> QED BY <1>1, <3>1 DEF None
  <2> QED BY <2>1, <2>2, <2>4, <2>5 DEF ColdWhole
<1>3. CASE ~HasCold(disk)
  BY <1>3 DEF ColdWhole
<1> QED BY <1>2, <1>3

\* Once a clear has finished there is no line to be held.
LEMMA EndClearStep ==
    ASSUME NEW L, FileInv(L), FinishClear, NEW M, Lined(M)
    PROVE  FileInv(M)'
<1>0. Types /\ Disk(disk) /\ \A S : <<>> \in Seq(S)
  BY EmptySeq DEF FileInv, Types
<1>1. /\ stage = "coldBinCut" /\ stage' = "run" /\ disk' = Without(disk, "cold.idx")
      /\ buffer' = buffer /\ queued' = queued
      /\ ring' = ring /\ total' = total /\ hotFirst' = hotFirst /\ tail' = tail /\ view' = view
      /\ coldFirst' = coldFirst /\ coldOpen' = coldOpen /\ todo' = todo /\ pushed' = pushed
      /\ cleared' = pushed /\ owed' = owed
  BY DEF FinishClear, ghosts
<1>2. Clearing /\ "bin" \in DOMAIN disk /\ "idx" \in DOMAIN disk
  BY <1>1 DEF FileInv, Clearing, ClearStages
<1>3. PICK f : f = "cold.idx"
  OBVIOUS
<1>4. /\ Disk(Without(disk, f)) /\ DOMAIN Without(disk, f) = DOMAIN disk \ {f}
      /\ \A g \in DOMAIN disk : g # f => Without(disk, f)[g] = disk[g]
  BY <1>0, WithoutIs
<1>5. /\ Disk(disk') /\ DOMAIN disk' = DOMAIN disk \ {"cold.idx"}
      /\ \A g \in DOMAIN disk : g # "cold.idx" => disk'[g] = disk[g]
  BY <1>1, <1>3, <1>4
<1>6. /\ "cold.bin" \notin DOMAIN disk /\ coldFirst = 0 /\ coldOpen = FALSE
      /\ disk["bin"] = <<>> /\ disk["idx"] = <<>> /\ view = <<>> /\ ring = <<>> /\ todo = <<>>
      /\ total = 0 /\ hotFirst = 0 /\ tail = 0
      /\ buffer["bin"] = <<>> /\ queued["bin"] = <<>> /\ buffer["idx"] = <<>> /\ queued["idx"] = <<>>
  BY <1>1, <1>2 DEF Clearing
<1>7. /\ "bin" \in DOMAIN disk' /\ "idx" \in DOMAIN disk' /\ disk'["bin"] = <<>> /\ disk'["idx"] = <<>>
      /\ "cold.bin" \notin DOMAIN disk'
  BY <1>2, <1>5, <1>6
<1>8. Types'
  <2>1. stage' \in Stages /\ pushed' \in 0 .. MaxPush /\ cleared' \in 0 .. pushed'
    BY <1>0, <1>1, Counts DEF Stages, Types
  <2> QED BY <1>0, <1>1, <1>5, <2>1 DEF Types
<1>9. Fresh(M)'
  BY <1>1, <1>6, <1>7, EmptyClean DEF Fresh, CleanDisk
<1>10. Flushed("bin")' = <<>> /\ Flushed("idx")' = <<>>
  <2>1. PICK d : d = disk'
    OBVIOUS
  <2>2. PICK q \in [Files -> Seq(Seq(Nat))], b \in [Files -> Seq(Nat)] : q = queued' /\ b = buffer'
    BY <1>8 DEF Types
  <2>3. \A g \in Files : g \in DOMAIN d /\ d[g] = <<>> /\ q[g] = <<>> /\ b[g] = <<>>
    BY <1>1, <1>6, <1>7, <2>1, <2>2, FilesAre
  <2>4. \A g \in Files : Whole(d, q, b, g) = <<>>
    BY <1>5, <2>1, <2>3, EmptyWhole
  <2>5. Whole(d, q, b, "bin") = <<>> /\ Whole(d, q, b, "idx") = <<>>
    BY <2>4, FilesAre
  <2> QED BY <2>1, <2>2, <2>5 DEF Flushed, Whole, Chain
<1>11. Indexes(<<>>, <<>>, <<>>, 0) /\ Len(<<>>) = 0
  <2>1. Len(<<>>) = 0
    BY EmptySeq
  <2> QED BY <1>0, <2>1, NothingIndexed
<1>12. InMemory(<<>>, <<>>, 0, 0, M)
  BY <1>11, EmptyClean DEF InMemory
<1>13. HasCold(disk') = FALSE
  BY <1>7 DEF HasCold, Exists
<1>14. ColdHolds(disk', 0, 0, <<>>)
  BY <1>13 DEF ColdHolds
<1>15. Running(M)'
  BY <1>1, <1>6, <1>7, <1>10, <1>11, <1>12, <1>13, <1>14, EmptyClean DEF Running
<1> QED BY <1>1, <1>8, <1>9, <1>15, StagesApart DEF FileInv

LEMMA ClearStep == ASSUME NEW L, FileInv(L), Clear PROVE FileInv(L)'
<1>0. Types /\ Fresh(L) /\ Disk(disk) /\ \A S : <<>> \in Seq(S)
  BY EmptySeq DEF FileInv, Types
<1>1. CASE StartClear
  <2>1. /\ stage = "run" /\ todo = <<>> /\ stage' = "binCut" /\ disk' = [disk EXCEPT !["bin"] = <<>>]
        /\ buffer' = [buffer EXCEPT !["bin"] = <<>>] /\ queued' = [queued EXCEPT !["bin"] = <<>>]
        /\ ring' = <<>> /\ total' = 0 /\ hotFirst' = 0 /\ tail' = 0 /\ view' = <<>>
        /\ coldFirst' = coldFirst /\ coldOpen' = coldOpen /\ todo' = todo /\ pushed' = pushed
        /\ cleared' = cleared /\ owed' = owed
    BY <1>1 DEF StartClear, Idle
  <2>2. Running(L) /\ "bin" \in DOMAIN disk /\ "idx" \in DOMAIN disk
    BY <2>1 DEF FileInv, Running
  <2>3. /\ Disk(disk') /\ DOMAIN disk' = DOMAIN disk /\ disk'["bin"] = <<>>
        /\ \A g \in DOMAIN disk : g # "bin" => disk'[g] = disk[g]
    BY <1>0, <2>1, <2>2 DEF Disk
  <2>4. ColdSame(disk, disk')
    BY <2>3 DEF ColdSame
  <2>5. ColdWhole(disk')
    BY <1>0, <2>2, <2>4, EmptyColdWhole, ColdStays
  <2>6. /\ buffer' \in [Files -> Seq(Nat)] /\ queued' \in [Files -> Seq(Seq(Nat))]
        /\ buffer'["bin"] = <<>> /\ queued'["bin"] = <<>>
    BY <1>0, <2>1, FilesAre DEF Types
  <2>7. Types'
    <3>1. stage' \in Stages /\ total' \in Nat /\ hotFirst' \in Nat /\ tail' \in Nat
      BY <2>1 DEF Stages, ClearStages
    <3>2. ring' \in Seq(Nat) /\ view' \in Seq(Nat)
      BY <1>0, <2>1
    <3> QED BY <1>0, <2>1, <2>3, <2>6, <3>1, <3>2 DEF Types
  <2>8. Fresh(L)'
    BY <1>0, <2>1, <2>3, EmptyClean DEF Fresh, CleanDisk
  <2>9. Clearing'
    BY <2>1, <2>2, <2>3, <2>5, <2>6 DEF Clearing
  <2> QED BY <2>1, <2>7, <2>8, <2>9, StagesApart DEF FileInv, ClearStages
<1>2. CASE CutIdx
  <2>1. /\ stage = "binCut" /\ stage' = "hotCut" /\ disk' = [disk EXCEPT !["idx"] = <<>>]
        /\ buffer' = [buffer EXCEPT !["idx"] = <<>>] /\ queued' = [queued EXCEPT !["idx"] = <<>>]
        /\ ring' = ring /\ total' = total /\ hotFirst' = hotFirst /\ tail' = tail /\ view' = view
        /\ coldFirst' = coldFirst /\ coldOpen' = coldOpen /\ todo' = todo /\ pushed' = pushed
        /\ cleared' = cleared /\ owed' = owed
    BY <1>2 DEF CutIdx, ghosts
  <2>2. Clearing /\ "bin" \in DOMAIN disk /\ "idx" \in DOMAIN disk
    BY <2>1 DEF FileInv, Clearing, ClearStages
  <2>3. /\ Disk(disk') /\ DOMAIN disk' = DOMAIN disk /\ disk'["idx"] = <<>>
        /\ \A g \in DOMAIN disk : g # "idx" => disk'[g] = disk[g]
    BY <1>0, <2>1, <2>2 DEF Disk
  <2>4. ColdSame(disk, disk')
    BY <2>3 DEF ColdSame
  <2>5. ColdWhole(disk')
    BY <2>2, <2>4, ColdStays DEF Clearing
  <2>6. /\ buffer' \in [Files -> Seq(Nat)] /\ queued' \in [Files -> Seq(Seq(Nat))]
        /\ buffer'["idx"] = <<>> /\ queued'["idx"] = <<>>
        /\ buffer'["bin"] = buffer["bin"] /\ queued'["bin"] = queued["bin"]
    BY <1>0, <2>1, FilesAre DEF Types
  <2>7. Types'
    <3>1. stage' \in Stages
      BY <2>1 DEF Stages, ClearStages
    <3> QED BY <1>0, <2>1, <2>3, <2>6, <3>1 DEF Types
  <2>8. Fresh(L)'
    BY <1>0, <2>1, <2>3 DEF Fresh, CleanDisk
  <2>9. Clearing'
    BY <2>1, <2>2, <2>3, <2>5, <2>6 DEF Clearing
  <2> QED BY <2>1, <2>7, <2>8, <2>9, StagesApart DEF FileInv, ClearStages
<1>3. CASE CutColdBin
  <2>1. /\ stage = "hotCut" /\ stage' = "coldBinCut" /\ disk' = Without(disk, "cold.bin")
        /\ buffer' = buffer /\ queued' = queued
        /\ ring' = ring /\ total' = total /\ hotFirst' = hotFirst /\ tail' = tail /\ view' = view
        /\ coldFirst' = 0 /\ coldOpen' = FALSE /\ todo' = todo /\ pushed' = pushed
        /\ cleared' = cleared /\ owed' = owed
    BY <1>3 DEF CutColdBin, ghosts
  <2>2. Clearing /\ "bin" \in DOMAIN disk /\ "idx" \in DOMAIN disk
    BY <2>1 DEF FileInv, Clearing, ClearStages
  <2>3. PICK f : f = "cold.bin"
    OBVIOUS
  <2>4. /\ Disk(Without(disk, f)) /\ DOMAIN Without(disk, f) = DOMAIN disk \ {f}
        /\ \A g \in DOMAIN disk : g # f => Without(disk, f)[g] = disk[g]
    BY <1>0, WithoutIs
  <2>5. /\ Disk(disk') /\ DOMAIN disk' = DOMAIN disk \ {"cold.bin"}
        /\ \A g \in DOMAIN disk : g # "cold.bin" => disk'[g] = disk[g]
    BY <2>1, <2>3, <2>4
  <2>6. ColdWhole(disk')
    BY <2>5 DEF ColdWhole, HasCold, Exists
  <2>7. Types'
    <3>1. stage' \in Stages /\ coldFirst' \in Nat
      BY <2>1 DEF Stages, ClearStages
    <3> QED BY <1>0, <2>1, <2>5, <3>1 DEF Types
  <2>8. Fresh(L)'
    BY <1>0, <2>1, <2>5 DEF Fresh, CleanDisk
  <2>9. Clearing'
    BY <2>1, <2>2, <2>5, <2>6 DEF Clearing
  <2> QED BY <2>1, <2>7, <2>8, <2>9, StagesApart DEF FileInv, ClearStages
<1>4. CASE FinishClear
  <2>1. Lined(L)
    BY <1>0 DEF Fresh
  <2> QED BY <1>4, <2>1, EndClearStep
<1> QED BY <1>1, <1>2, <1>3, <1>4 DEF Clear

-----------------------------------------------------------------------------
(* The end of a process. *)

LEMMA LastNNone == \A s \in Seq(Nat) : LastN(s, 0) = <<>>
<1> SUFFICES ASSUME NEW s \in Seq(Nat) PROVE LastN(s, 0) = <<>>
  OBVIOUS
<1>1. Len(s) \in Nat
  BY LenOf
<1>2. PICK k \in 0 .. Len(s) : k = (IF 0 <= Len(s) THEN 0 ELSE Len(s))
                               /\ LastN(s, 0) \in Seq(Nat) /\ Len(LastN(s, 0)) = k
  BY LastNIs
<1>3. PICK z \in Seq(Nat) : z = LastN(s, 0) /\ Len(z) = 0
  BY <1>1, <1>2
<1> QED BY <1>3, EmptySeq

LEMMA LastOfPart ==
    ASSUME NEW v \in Seq(Nat), NEW c \in Nat, NEW h \in Nat, NEW t \in Nat, c <= h, h <= t, t <= Len(v)
    PROVE  /\ SubSeq(v, h + 1, t) \in Seq(Nat)
           /\ SubSeq(v, h + 1, t) = LastN(SubSeq(v, c + 1, t), Len(SubSeq(v, h + 1, t)))
<1>0. Len(v) \in Nat
  BY LenOf
<1>1. \A n \in Nat : n <= t =>
         /\ SubSeq(v, n + 1, t) \in Seq(Nat) /\ Len(SubSeq(v, n + 1, t)) = t - n
         /\ \A j \in 1 .. t - n : SubSeq(v, n + 1, t)[j] = v[n + j]
  <2>1. SUFFICES ASSUME NEW n \in Nat, n <= t
                 PROVE  /\ SubSeq(v, n + 1, t) \in Seq(Nat) /\ Len(SubSeq(v, n + 1, t)) = t - n
                        /\ \A j \in 1 .. t - n : SubSeq(v, n + 1, t)[j] = v[n + j]
    OBVIOUS
  <2>2. n + 1 \in Nat /\ n + 1 >= 1 /\ n + 1 <= t + 1 /\ t + 1 - (n + 1) = t - n /\ n + 1 - 1 = n
    BY <2>1
  <2>3. /\ SubSeq(v, n + 1, t) \in Seq(Nat) /\ Len(SubSeq(v, n + 1, t)) = t + 1 - (n + 1)
        /\ \A j \in 1 .. t + 1 - (n + 1) : SubSeq(v, n + 1, t)[j] = v[n + 1 - 1 + j]
    BY ONLY <2>2, PartOf, v \in Seq(Nat), t \in Nat, t <= Len(v)
  <2> QED BY <2>2, <2>3
<1>2. PICK p, s : p = SubSeq(v, h + 1, t) /\ s = SubSeq(v, c + 1, t)
  OBVIOUS
<1>a. p \in Seq(Nat) /\ Len(p) = t - h /\ \A j \in 1 .. t - h : p[j] = v[h + j]
  BY <1>1, <1>2
<1>b. s \in Seq(Nat) /\ Len(s) = t - c /\ \A j \in 1 .. t - c : s[j] = v[c + j]
  <2>1. c <= t
    OBVIOUS
  <2> QED BY <1>1, <1>2, <2>1
<1>3. /\ Len(p) = t - h /\ \A j \in 1 .. t - h : p[j] = v[h + j]
      /\ Len(s) = t - c /\ \A j \in 1 .. t - c : s[j] = v[c + j]
      /\ p \in Seq(Nat) /\ s \in Seq(Nat)
  BY <1>a, <1>b
<1>4. PICK k \in 0 .. Len(s) : /\ k = (IF Len(p) <= Len(s) THEN Len(p) ELSE Len(s)) /\ LastN(s, Len(p)) \in Seq(Nat)
                               /\ Len(LastN(s, Len(p))) = k
                               /\ \A j \in 1 .. k : LastN(s, Len(p))[j] = s[Len(s) - k + j]
  <2>1. Len(p) \in Nat
    BY <1>3, LenOf
  <2> QED BY <1>3, <2>1, LastNIs
<1>5. k = t - h
  BY <1>3, <1>4
<1>6. PICK l \in Seq(Nat) : l = LastN(s, Len(p))
  BY <1>4
<1>7. Len(l) = t - h /\ \A j \in 1 .. t - h : l[j] = s[Len(s) - (t - h) + j]
  BY <1>4, <1>5, <1>6
<1>8. \A j \in 1 .. t - h : Len(s) - (t - h) + j \in 1 .. t - c /\ c + (Len(s) - (t - h) + j) = h + j
  BY <1>3
<1>9. \A j \in 1 .. t - h : l[j] = p[j]
  BY <1>3, <1>7, <1>8
<1>10. l = p
  BY <1>3, <1>7, <1>9, SameSeq
<1> QED BY <1>2, <1>6, <1>10

LEMMA EndsDown ==
    ASSUME NEW L, Types, Fresh(L), NEW d, Disk(d), CleanDisk(d, L), disk' = d, stage' = "down", Gone,
           HotWhole(d), ColdWhole(d), Unbroken(Found(d), view), NEW o \in Seq(Nat), owed' = o,
           ~ ("idx" \in DOMAIN d /\ "bin" \notin DOMAIN d) => o = LastN(Found(d), Len(o))
    PROVE  FileInv(L)'
<1>1. /\ buffer' = NoBuffers /\ queued' = NoBuffers /\ ring' = <<>> /\ total' = 0 /\ hotFirst' = 0
      /\ coldFirst' = 0 /\ coldOpen' = FALSE /\ tail' = 0 /\ todo' = <<>>
      /\ view' = view /\ pushed' = pushed /\ cleared' = cleared
  BY DEF Gone
<1>2. Types'
  <2>1. buffer' \in [Files -> Seq(Nat)] /\ queued' \in [Files -> Seq(Seq(Nat))]
    BY <1>1, NoBuffersIs
  <2>2. ring' \in Seq(Nat) /\ todo' \in Seq(Nat)
    BY <1>1, EmptySeq
  <2>3. /\ total' \in Nat /\ hotFirst' \in Nat /\ coldFirst' \in Nat /\ tail' \in Nat
        /\ coldOpen' \in BOOLEAN /\ stage' \in Stages
    BY <1>1 DEF Stages
  <2> QED BY <1>1, <2>1, <2>2, <2>3 DEF Types
<1>3. Fresh(L)'
  BY <1>1, EmptyClean DEF Fresh
<1>4. Down'
  BY <1>1 DEF Down, Buffered, BetweenRenames
<1> QED BY <1>2, <1>3, <1>4, StagesApart DEF FileInv

LEMMA CloseStep == ASSUME NEW L, FileInv(L), Close PROVE FileInv(L)'
<1>1. /\ stage = "run" /\ disk' = FlushedDisk /\ stage' = "down" /\ Gone
      /\ owed' = SubSeq(view, coldFirst + 1, total)
  BY DEF Close, Idle
<1>2. Types /\ Fresh(L) /\ Running(L) /\ {"bin", "idx"} \subseteq DOMAIN disk
  BY <1>1 DEF FileInv, Running
<1>3. PICK d : d = FlushedDisk
  OBVIOUS
<1>4. /\ Disk(d) /\ DOMAIN d = DOMAIN disk /\ ColdSame(disk, d)
      /\ d["bin"] = Flushed("bin") /\ d["idx"] = Flushed("idx")
  BY <1>2, <1>3, FlushedDiskIs
<1>5. PICK b \in Seq(Nat), x \in Seq(Nat), v \in Seq(Nat), cf \in Nat, hf \in Nat :
         b = Flushed("bin") /\ x = Flushed("idx") /\ v = view /\ cf = coldFirst /\ hf = hotFirst
  BY <1>2, BothThere DEF Types
<1>6. /\ Indexes(b, x, v, hf) /\ ColdHolds(d, cf, hf, v) /\ total = Len(v) /\ Proper(v)
      /\ Clean(b, L)
  <2>1. \A a, h, w : ColdHolds(disk, a, h, w) <=> ColdHolds(d, a, h, w)
    BY <1>4, ColdStays
  <2>2. L \subseteq Nat \ {0}
    BY <1>2, LinedIs DEF Fresh
  <2>3. /\ Indexes(b, x, v, hf) /\ ColdHolds(disk, cf, hf, v) /\ InMemory(v, ring, total, hf, L)
        /\ Clean(b, L)
    BY <1>2, <1>5 DEF Running
  <2>4. AllIn(v, L) /\ total = Len(v)
    BY <2>3 DEF InMemory
  <2> QED BY <2>1, <2>2, <2>3, <2>4, AfterNothing
<1>7. /\ HotWhole(d) /\ ColdWhole(d)
      /\ \E m \in Nat : FoundTo(d, v, cf, hf, m) /\ (LeavesAll(d, b, x) => hf + m = Len(v))
  <2>1. Leaves(d, b, x)
    BY <1>2, <1>4, <1>5, BeginsItself, BeginsLeft DEF Leaves
  <2> QED BY <1>4, <1>6, <2>1, FoundPart
<1>8. Found(d) = SubSeq(v, cf + 1, Len(v)) /\ cf <= hf /\ hf <= Len(v)
  <2>1. PICK m \in Nat : FoundTo(d, v, cf, hf, m) /\ (LeavesAll(d, b, x) => hf + m = Len(v))
    BY <1>7
  <2>2. hf + m = Len(v)
    BY <1>4, <1>5, <2>1 DEF LeavesAll
  <2>3. hf <= Len(v)
    BY <2>2
  <2> QED BY <2>1, <2>2, <2>3 DEF FoundTo
<1>9. CleanDisk(d, L)
  BY <1>2, <1>4, <1>5, <1>6 DEF Fresh, CleanDisk, ColdSame
<1>10. Found(d) \in Seq(Nat)
  BY <1>4, <1>6, <1>7, <1>9, FoundIs
<1>11. Unbroken(Found(d), view)
  <2>1. cf + 1 \in 1 .. Len(v) + 1 /\ Len(v) \in 0 .. Len(v)
    BY <1>8, LenOf
  <2> QED BY <1>5, <1>8, <2>1 DEF Unbroken
<1>12. PICK o \in Seq(Nat) : o = Found(d) /\ owed' = o
  BY <1>1, <1>5, <1>6, <1>8, <1>10
<1>13. o = LastN(Found(d), Len(o))
  BY <1>12, LastNAll
<1> QED BY <1>1, <1>2, <1>3, <1>4, <1>7, <1>9, <1>11, <1>12, <1>13, EndsDown

-----------------------------------------------------------------------------
(* A crash. *)

\* Whatever was being written, the data file is left a part of what it would
\* have become, and nothing else is touched.
LEMMA TornIs ==
    ASSUME Types, {"bin", "idx"} \subseteq DOMAIN disk, NEW d \in TornWrites
    PROVE  /\ Disk(d) /\ DOMAIN d = DOMAIN disk /\ ColdSame(disk, d) /\ d["idx"] = disk["idx"]
           /\ d["bin"] \in Seq(Nat) /\ Left(d["bin"], Flushed("bin"))
           /\ queued["bin"] = <<>> => d = disk
<1>1. CASE d = disk
  BY <1>1, BothThere DEF ColdSame
<1>2. CASE d # disk
  <2>0. PICK k \in 0 .. Len(Head(queued["bin"])) - 1 :
           /\ queued["bin"] # <<>>
           /\ d = [disk EXCEPT !["bin"] = disk["bin"] \o Append(SubSeq(Head(queued["bin"]), 1, k), Torn)]
    BY <1>2 DEF TornWrites
  <2>1. PICK a \in Seq(Nat), q \in Seq(Seq(Nat)), c \in Seq(Nat) :
           a = disk["bin"] /\ q = queued["bin"] /\ c = buffer["bin"] /\ q # <<>>
    BY <2>0, BothThere, FilesAre DEF Types
  <2>2. PICK h \in Seq(Nat), t \in Seq(Seq(Nat)) :
           h = Head(q) /\ t = Tail(q) /\ FlattenSeq(q) = h \o FlattenSeq(t)
    BY <2>1, FlatInFront
  <2>3. PICK r \in Seq(Nat) : r = FlattenSeq(t)
    BY FlatType
  <2>4. PICK e : e = a \o Append(SubSeq(h, 1, k), Torn)
    OBVIOUS
  <2>5. k \in 0 .. Len(h) - 1
    BY <2>1, <2>2
  <2>6. e \in Seq(Nat) /\ Left(e, a \o (h \o r) \o c)
    BY <2>4, <2>5, TornLeft
  <2>7. Flushed("bin") = a \o (h \o r) \o c
    BY <2>1, <2>2, <2>3 DEF Flushed
  <2>8. d = [disk EXCEPT !["bin"] = e]
    BY <2>0, <2>1, <2>2, <2>4
  <2>9. PICK f \in DOMAIN disk : f = "bin"
    OBVIOUS
  <2>10. /\ Disk(d) /\ DOMAIN d = DOMAIN disk /\ d[f] = e
         /\ \A g \in DOMAIN disk : g # f => d[g] = disk[g]
    BY <2>6, <2>8, <2>9, BothThere, CutIs
  <2>11. ColdSame(disk, d) /\ d["idx"] = disk["idx"]
    BY <2>9, <2>10, BothThere DEF ColdSame
  <2> QED BY <2>0, <2>6, <2>7, <2>9, <2>10, <2>11
<1> QED BY <1>1, <1>2

\* Any end of s is what a process that finds s has.
LEMMA OwedAll ==
    ASSUME NEW s \in Seq(Nat), NEW o, o = s
    PROVE  o = LastN(s, Len(o))
BY LastNAll

\* A process that is killed at work leaves a start of its history in d, but
\* for the lines that two rotations have pushed out.
LEMMA CrashFinds ==
    ASSUME NEW L, FileInv(L), stage = "run", NEW d \in TornWrites
    PROVE  /\ Disk(d) /\ DOMAIN d = DOMAIN disk /\ CleanDisk(d, L) /\ HotWhole(d) /\ ColdWhole(d)
           /\ coldOpen = HasCold(d)
           /\ \E h \in Nat : /\ coldFirst <= h /\ h <= Len(view)
                            /\ Found(d) = SubSeq(view, coldFirst + 1, h)
<1>1. Types /\ Fresh(L) /\ Running(L) /\ {"bin", "idx"} \subseteq DOMAIN disk
  BY DEF FileInv, Running
<1>3. /\ Disk(d) /\ DOMAIN d = DOMAIN disk /\ ColdSame(disk, d) /\ d["idx"] = disk["idx"]
      /\ d["bin"] \in Seq(Nat) /\ Left(d["bin"], Flushed("bin"))
  BY <1>1, TornIs
<1>5. PICK b \in Seq(Nat), x \in Seq(Nat), v \in Seq(Nat), cf \in Nat, hf \in Nat :
         b = Flushed("bin") /\ x = Flushed("idx") /\ v = view /\ cf = coldFirst /\ hf = hotFirst
  BY <1>1, BothThere DEF Types
<1>6. /\ Indexes(b, x, v, hf) /\ ColdHolds(d, cf, hf, v) /\ Proper(v)
      /\ Clean(b, L) /\ coldOpen = HasCold(d)
  <2>1. /\ \A a, h, w : ColdHolds(disk, a, h, w) <=> ColdHolds(d, a, h, w)
        /\ HasCold(disk) = HasCold(d)
    BY <1>3, ColdStays
  <2>2. L \subseteq Nat \ {0}
    BY <1>1, LinedIs DEF Fresh
  <2>3. /\ Indexes(b, x, v, hf) /\ ColdHolds(disk, cf, hf, v) /\ InMemory(v, ring, total, hf, L)
        /\ Clean(b, L) /\ coldOpen = HasCold(disk)
    BY <1>1, <1>5 DEF Running
  <2>4. AllIn(v, L)
    BY <2>3 DEF InMemory
  <2> QED BY <2>1, <2>2, <2>3, <2>4, AfterNothing
<1>7. /\ HotWhole(d) /\ ColdWhole(d)
      /\ \E m \in Nat : FoundTo(d, v, cf, hf, m)
  <2>1. Leaves(d, b, x)
    BY <1>1, <1>3, <1>5, BothThere DEF Leaves
  <2> QED BY <1>3, <1>6, <2>1, FoundPart
<1>8. PICK m \in Nat : hf + m <= Len(v) /\ cf <= hf /\ Found(d) = SubSeq(v, cf + 1, hf + m)
  BY <1>7 DEF FoundTo
<1>9. CleanDisk(d, L)
  <2>1. Clean(d["bin"], L)
    BY <1>3, <1>5, <1>6, CleanLeft
  <2> QED BY <1>1, <1>3, <2>1 DEF Fresh, CleanDisk, ColdSame
<1>10. PICK h \in Nat : h = hf + m
  OBVIOUS
<1>11. cf <= h /\ h <= Len(v) /\ Found(d) = SubSeq(v, cf + 1, h)
  BY <1>8, <1>10
<1> QED BY <1>3, <1>5, <1>6, <1>7, <1>9, <1>11

LEMMA CrashRunning == ASSUME NEW L, FileInv(L), Crash /\ stage = "run" PROVE FileInv(L)'
<1>1. Types /\ Fresh(L) /\ Running(L) /\ {"bin", "idx"} \subseteq DOMAIN disk /\ stage' = "down" /\ Gone
  BY DEF FileInv, Running, Crash
<1>2. PICK d \in TornWrites : disk' = d /\ owed' = Durable(d)
  BY DEF Crash
<1>3. /\ Disk(d) /\ DOMAIN d = DOMAIN disk /\ CleanDisk(d, L) /\ HotWhole(d) /\ ColdWhole(d)
      /\ coldOpen = HasCold(d)
      /\ \E h \in Nat : coldFirst <= h /\ h <= Len(view) /\ Found(d) = SubSeq(view, coldFirst + 1, h)
  BY CrashFinds
<1>5. PICK v \in Seq(Nat), cf \in Nat : v = view /\ cf = coldFirst
  BY <1>1 DEF Types
<1>8. PICK h \in Nat : cf <= h /\ h <= Len(v) /\ Found(d) = SubSeq(v, cf + 1, h)
  BY <1>3, <1>5
<1>10. Found(d) \in Seq(Nat)
  BY <1>3, FoundIs
<1>11. Unbroken(Found(d), view)
  <2>0. Len(v) \in Nat
    BY LenOf
  <2>1. cf + 1 \in 1 .. Len(v) + 1 /\ h \in 0 .. Len(v)
    BY <1>8, <2>0
  <2> QED BY <1>5, <1>8, <2>1 DEF Unbroken
<1>12. owed' = Found(d)
  <2>1. Durable(d) = (IF coldOpen THEN Tier(d["cold.bin"], d["cold.idx"]) ELSE <<>>)
                     \o Tier(d["bin"], Trimmed(d["bin"], d["idx"]))
    <3>1. stage = "run" /\ stage \notin RotationStages
      BY StagesApart
    <3> QED BY <3>1 DEF Durable
  <2>2. BinOf(d) = d["bin"] /\ IdxOf(d) = Trimmed(d["bin"], d["idx"])
    BY <1>1, <1>3 DEF BinOf, IdxOf, Exists
  <2>3. ColdOf(d) = IF coldOpen THEN Tier(d["cold.bin"], d["cold.idx"]) ELSE <<>>
    BY <1>3 DEF ColdOf
  <2> QED BY <1>2, <2>1, <2>2, <2>3 DEF Found
<1>13. PICK o \in Seq(Nat) : o = Found(d) /\ owed' = o
  BY <1>10, <1>12
<1>14. o = LastN(Found(d), Len(o))
  BY <1>13, LastNAll
<1> QED BY <1>1, <1>2, <1>3, <1>11, <1>13, <1>14, EndsDown

LEMMA NothingTorn == queued["bin"] = <<>> => TornWrites = {disk}
BY DEF TornWrites

\* What a crash leaves in d for the next process, which is owed o.
Leftover(d, v, o) ==
    /\ HotWhole(d) /\ ColdWhole(d) /\ Unbroken(Found(d), v) /\ o \in Seq(Nat)
    /\ ~ ("idx" \in DOMAIN d /\ "bin" \notin DOMAIN d) => o = LastN(Found(d), Len(o))

\* Before the renames the hot files are whole, whatever is left of the cold.
LEMMA BeforeRenames ==
    ASSUME NEW d, Disk(d), "bin" \in DOMAIN d, "idx" \in DOMAIN d, NEW v \in Seq(Nat), Proper(v),
           NEW cf \in Nat, NEW hf \in Nat, Indexes(d["bin"], d["idx"], v, hf), ColdHolds(d, cf, hf, v)
    PROVE  Leftover(d, v, SubSeq(v, hf + 1, Len(v)))
<1>0. PICK b \in Seq(Nat), x \in Seq(Nat) : b = d["bin"] /\ x = d["idx"]
  BY DEF Disk
<1>1. Leaves(d, b, x) /\ LeavesAll(d, b, x)
  BY <1>0, BeginsItself, BeginsLeft DEF Leaves, LeavesAll
<1>2. /\ HotWhole(d) /\ ColdWhole(d)
      /\ \E m \in Nat : FoundTo(d, v, cf, hf, m) /\ (LeavesAll(d, b, x) => hf + m = Len(v))
  BY <1>0, <1>1, FoundPart
<1>3. PICK m \in Nat : hf + m = Len(v) /\ FoundTo(d, v, cf, hf, m)
  BY <1>1, <1>2
<1>4. PICK t \in Nat : t = Len(v)
  BY LenOf
<1>5. cf <= hf /\ hf <= t /\ Found(d) = SubSeq(v, cf + 1, t)
  BY <1>3, <1>4 DEF FoundTo
<1>6. /\ SubSeq(v, hf + 1, t) \in Seq(Nat)
      /\ SubSeq(v, hf + 1, t) = LastN(SubSeq(v, cf + 1, t), Len(SubSeq(v, hf + 1, t)))
  <2>1. t <= Len(v)
    BY <1>4
  <2>2. cf <= hf
    BY <1>5
  <2>3. hf <= t
    BY <1>5
  <2> QED BY ONLY <2>1, <2>2, <2>3, v \in Seq(Nat), cf \in Nat, hf \in Nat, t \in Nat, LastOfPart, ZenonT(20)
<1>7. Unbroken(Found(d), v)
  <2>1. cf + 1 \in 1 .. t + 1 /\ t \in 0 .. t
    BY <1>5
  <2> QED BY <1>4, <1>5, <2>1 DEF Unbroken
<1>8. PICK o \in Seq(Nat) : o = SubSeq(v, hf + 1, t)
  BY <1>6
<1>9. o = LastN(Found(d), Len(o))
  BY <1>5, <1>6, <1>8
<1> QED BY <1>2, <1>4, <1>7, <1>8, <1>9 DEF Leftover

\* Between the renames there is nothing to be found.
LEMMA InRenames ==
    ASSUME NEW d, Disk(d), "bin" \notin DOMAIN d, "idx" \in DOMAIN d, "cold.idx" \notin DOMAIN d,
           NEW v \in Seq(Nat), NEW o \in Seq(Nat)
    PROVE  Leftover(d, v, o)
<1>1. BinOf(d) = <<>>
  BY DEF BinOf, Exists
<1>2. HotWhole(d) /\ Tier(BinOf(d), IdxOf(d)) = <<>>
  BY <1>1, NothingHot
<1>3. ~HasCold(d)
  BY DEF HasCold, Exists
<1>4. ColdWhole(d) /\ ColdOf(d) = <<>>
  BY <1>3 DEF ColdWhole, ColdOf
<1>5. Found(d) = <<>>
  BY <1>2, <1>4, JoinsNothing DEF Found
<1>6. Unbroken(Found(d), v)
  <2>1. SubSeq(v, 1, 0) = <<>>
    BY SubSeqEmpty
  <2>2. 1 \in 1 .. Len(v) + 1 /\ 0 \in 0 .. Len(v)
    BY LenOf
  <2> QED BY <1>5, <2>1, <2>2 DEF Unbroken
<1> QED BY <1>2, <1>4, <1>6 DEF Leftover

\* After them everything is in the cold tier.
LEMMA AfterRenames ==
    ASSUME NEW d, Disk(d), BinOf(d) = <<>>, "cold.bin" \in DOMAIN d, "cold.idx" \in DOMAIN d,
           NEW v \in Seq(Nat), Proper(v), NEW hf \in Nat,
           Indexes(d["cold.bin"], d["cold.idx"], v, hf)
    PROVE  Leftover(d, v, SubSeq(v, hf + 1, Len(v)))
<1>1. HotWhole(d) /\ Tier(BinOf(d), IdxOf(d)) = <<>>
  BY NothingHot
<1>2. PICK b \in Seq(Nat), x \in Seq(Nat) : b = d["cold.bin"] /\ x = d["cold.idx"]
  BY DEF Disk
<1>3. HasCold(d)
  BY DEF HasCold, Exists
<1>4. PICK m \in Nat, t \in Nat : m = Len(x) /\ t = Len(v)
  BY LenOf
<1>5. Points(b, x) /\ hf + m = t /\ \A j \in 1 .. m : b[x[j]] = v[hf + j]
  BY <1>2, <1>4 DEF Indexes
<1>6. \A j \in 1 .. m : RecordAt(b, x, j) = v[hf + j]
  BY <1>4, <1>5, PointsAt
<1>7. PartAt(b, x, v, hf, m)
  BY <1>4, <1>5, <1>6 DEF PartAt
<1>8. ColdOf(d) = SubSeq(v, hf + 1, t)
  BY SMTT(30), <1>2, <1>3, <1>5, <1>7, TierPart DEF ColdOf
<1>9. ColdWhole(d)
  <2>1. \A j \in 1 .. m : hf + j \in 1 .. t
    BY <1>5
  <2>2. \A p \in 1 .. t : v[p] \in Nat /\ v[p] > 0
    BY <1>4, LenOf DEF Proper
  <2>3. \A p \in 1 .. t : v[p] # None
    BY <2>2 DEF None
  <2> QED BY <1>2, <1>4, <1>6, <2>1, <2>3 DEF ColdWhole
<1>10. PICK s \in Seq(Nat) : s = SubSeq(v, hf + 1, t)
  <2>1. hf <= t /\ t <= Len(v) /\ hf <= hf
    BY <1>4, <1>5
  <2> QED BY <2>1, LastOfPart
<1>11. Found(d) = s
  BY <1>1, <1>8, <1>10, JoinsNothing DEF Found
<1>12. Unbroken(Found(d), v)
  <2>1. hf + 1 \in 1 .. t + 1 /\ t \in 0 .. t
    BY <1>5
  <2> QED BY <1>4, <1>10, <1>11, <2>1 DEF Unbroken
<1>13. s = LastN(Found(d), Len(s))
  BY <1>11, LastNAll
<1> QED BY <1>1, <1>4, <1>9, <1>10, <1>12, <1>13 DEF Leftover

LEMMA LeftoverDown ==
    ASSUME NEW L, Types, Fresh(L), disk' = disk, stage' = "down", Gone, NEW o, owed' = o, Leftover(disk, view, o)
    PROVE  FileInv(L)'
<1>1. PICK d : d = disk
  OBVIOUS
<1>2. Disk(d) /\ CleanDisk(d, L)
  BY <1>1 DEF Types, Fresh
<1>3. PICK p \in Seq(Nat) : p = o
  BY DEF Leftover
<1>4. /\ HotWhole(d) /\ ColdWhole(d) /\ Unbroken(Found(d), view)
      /\ ~ ("idx" \in DOMAIN d /\ "bin" \notin DOMAIN d) => p = LastN(Found(d), Len(p))
  BY <1>1, <1>3 DEF Leftover
<1>5. disk' = d /\ owed' = p
  BY <1>1, <1>3
<1> QED BY <1>2, <1>4, <1>5, EndsDown

LEMMA CrashRotating == ASSUME NEW L, FileInv(L), Crash /\ stage \in RotationStages PROVE FileInv(L)'
<1>1. Types /\ Fresh(L) /\ Rotating(L) /\ stage' = "down" /\ Gone
  BY DEF FileInv, Crash
<1>2. /\ InMemory(view, ring, total, hotFirst, L) /\ queued = NoBuffers /\ "bin" \in Files
  BY <1>1, FilesAre DEF Rotating, Buffered
<1>3. TornWrites = {disk}
  BY <1>2, NothingTorn, NoBuffersIs
<1>4. disk' = disk /\ owed' = Durable(disk)
  BY <1>3 DEF Crash
<1>a. PICK d : d = disk
  OBVIOUS
<1>b. PICK v \in Seq(Nat), hf \in Nat : v = view /\ hf = hotFirst
  BY <1>1 DEF Types
<1>5. d = disk /\ v = view /\ hf = hotFirst
  BY <1>a, <1>b
<1>6. owed' = SubSeq(v, hf + 1, Len(v))
  <2>1. stage # "run"
    BY StagesApart
  <2>2. total = Len(v)
    BY <1>2, <1>5 DEF InMemory
  <2> QED BY <1>4, <1>5, <2>1, <2>2 DEF Durable
<1>7. Disk(d) /\ Proper(v) /\ hf <= Len(v)
  <2>1. AllIn(v, L) /\ L \subseteq Nat \ {0}
    BY <1>1, <1>2, <1>5, LinedIs DEF InMemory, Fresh
  <2>2. total = Len(v) /\ hotFirst <= total
    BY <1>2, <1>5 DEF InMemory
  <2> QED BY <1>1, <1>5, <2>1, <2>2, AfterNothing DEF Types
<1>8. Leftover(d, v, SubSeq(v, hf + 1, Len(v)))
  <2>1. CASE stage \in {"flushed", "coldBinGone", "coldGone"}
    <3>1. "bin" \in DOMAIN d /\ "idx" \in DOMAIN d /\ Indexes(d["bin"], d["idx"], v, hf)
      BY <1>1, <1>5, <2>1 DEF Rotating
    <3>2. \E cf \in Nat : ColdHolds(d, cf, hf, v)
      <4>1. CASE stage = "flushed"
        BY <1>1, <1>5, <4>1 DEF Rotating, Types
      <4>2. CASE stage \in {"coldBinGone", "coldGone"}
        <5>1. "cold.bin" \notin DOMAIN d
          BY <1>1, <1>5, <4>2 DEF Rotating
        <5>2. ~HasCold(d)
          BY <5>1 DEF HasCold, Exists
        <5> QED BY <5>2 DEF ColdHolds
      <4> QED BY <2>1, <4>1, <4>2
    <3> QED BY <1>7, <3>1, <3>2, BeforeRenames
  <2>2. CASE stage = "binRenamed"
    <3>1. "bin" \notin DOMAIN d /\ "idx" \in DOMAIN d /\ "cold.idx" \notin DOMAIN d
      BY <1>1, <1>5, <2>2 DEF Rotating
    <3>2. PICK o \in Seq(Nat) : o = SubSeq(v, hf + 1, Len(v))
      <4>1. PICK t \in Nat : t = Len(v)
        BY LenOf
      <4>2. hf <= t /\ t <= Len(v) /\ hf <= hf
        BY <1>7, <4>1
      <4> QED BY <4>1, <4>2, LastOfPart
    <3> QED BY <1>7, <3>1, <3>2, InRenames
  <2>3. CASE stage \in {"renamed", "binCreated"}
    <3>1. /\ "cold.bin" \in DOMAIN d /\ "cold.idx" \in DOMAIN d
          /\ Indexes(d["cold.bin"], d["cold.idx"], v, hf)
          /\ "bin" \in DOMAIN d => d["bin"] = <<>>
      BY <1>1, <1>5, <2>3 DEF Rotating
    <3>2. BinOf(d) = <<>>
      BY <3>1 DEF BinOf, Exists
    <3> QED BY <1>7, <3>1, <3>2, AfterRenames
  <2> QED BY <2>1, <2>2, <2>3 DEF RotationStages
<1> QED BY <1>1, <1>4, <1>5, <1>6, <1>8, LeftoverDown

LEMMA CrashClearing == ASSUME NEW L, FileInv(L), Crash /\ stage \in ClearStages PROVE FileInv(L)'
<1>1. Types /\ Fresh(L) /\ Clearing /\ stage' = "down" /\ Gone
  BY DEF FileInv, Crash
<1>3. TornWrites = {disk}
  BY <1>1, NothingTorn DEF Clearing
<1>4. disk' = disk /\ owed' = Durable(disk)
  BY <1>3 DEF Crash
<1>5. PICK d : d = disk
  OBVIOUS
<1>6. owed' = <<>>
  <2>1. stage # "run" /\ stage \notin RotationStages
    BY StagesApart
  <2> QED BY <1>4, <2>1 DEF Durable
<1>7. Disk(d) /\ CleanDisk(d, L) /\ ColdWhole(d) /\ view = <<>> /\ BinOf(d) = <<>>
  BY <1>1, <1>5 DEF Types, Fresh, Clearing, BinOf
<1>8. HotWhole(d)
  BY <1>7, NothingHot
<1>9. PICK s \in Seq(Nat) : s = Found(d)
  BY <1>7, <1>8, FoundIs
<1>10. LastN(s, Len(<<>>)) = <<>> /\ <<>> \in Seq(Nat)
  BY LastNNone, EmptySeq
<1>11. Leftover(d, view, <<>>)
  BY <1>7, <1>8, <1>9, <1>10 DEF Leftover, Unbroken
<1> QED BY <1>1, <1>4, <1>5, <1>6, <1>11, LeftoverDown

LEMMA CrashStep == ASSUME NEW L, FileInv(L), Crash PROVE FileInv(L)'
<1>1. stage \in {"run"} \union RotationStages \union ClearStages
  BY DEF FileInv, Crash, Types, Stages
<1> QED BY <1>1, CrashRunning, CrashRotating, CrashClearing

-----------------------------------------------------------------------------
(* Opening the files, and pushing the lines back. *)

LEMMA OpensWith ==
    ASSUME NEW d, OpenFrom(d)
    PROVE  /\ disk' = Put(Put(d, "bin", BinOf(d)), "idx", IdxOf(d))
           /\ buffer' = NoBuffers /\ queued' = NoBuffers
           /\ ring' = LastN(Tier(BinOf(d), IdxOf(d)), RingCap)
           /\ coldFirst' = 0 /\ hotFirst' = Len(ColdOf(d))
           /\ total' = Len(ColdOf(d)) + Len(Tier(BinOf(d), IdxOf(d)))
           /\ coldOpen' = HasCold(d) /\ tail' = Len(BinOf(d)) /\ view' = Found(d)
BY DEF OpenFrom, BinOf, IdxOf, ColdOf, Found, HasCold

\* The ring is filled from the end of the hot tier, and so of the history.
LEMMA RingFilled ==
    ASSUME NEW v \in Seq(Nat), NEW h \in Seq(Nat), NEW n \in Nat, Len(v) = n + Len(h),
           \A j \in 1 .. Len(h) : v[n + j] = h[j], NEW L, AllIn(v, L)
    PROVE  LastN(h, RingCap) \in Seq(Nat) /\ InMemory(v, LastN(h, RingCap), n + Len(h), n, L)
<1>1. PICK l \in Nat : l = Len(h)
  BY LenOf
<1>2. RingCap \in Nat
  BY CapTyped
<1>3. PICK k \in 0 .. l : /\ LastN(h, RingCap) \in Seq(Nat) /\ Len(LastN(h, RingCap)) = k
                          /\ \A j \in 1 .. k : LastN(h, RingCap)[j] = h[l - k + j]
  BY <1>1, <1>2, LastNIs
<1>4. PICK z \in Seq(Nat) : z = LastN(h, RingCap)
  BY <1>3
<1>5. \A a, b \in Nat : \A kk \in 0 .. a : \A i \in 1 .. kk :
          a - kk + i \in 1 .. a /\ b + (a - kk + i) = b + a - kk + i
  OBVIOUS
<1>6. ASSUME NEW j \in 1 .. k PROVE z[j] = v[n + l - k + j]
  <2>1. l - k + j \in 1 .. l /\ n + (l - k + j) = n + l - k + j
    BY <1>5
  <2>2. v[n + (l - k + j)] = h[l - k + j]
    BY <1>1, <2>1
  <2> QED BY <1>3, <1>4, <2>1, <2>2
<1>7. n <= n + l /\ k <= n + l
  OBVIOUS
<1>8. n + l = Len(v) /\ Len(z) = k /\ \A j \in 1 .. Len(z) : z[j] = v[n + l - Len(z) + j]
  BY <1>1, <1>3, <1>4, <1>6
<1>9. InMemory(v, z, n + l, n, L)
  <2>1. PICK t \in Nat : t = n + l
    OBVIOUS
  <2>2. /\ t = Len(v) /\ n <= t /\ Len(z) <= t
        /\ \A j \in 1 .. Len(z) : z[j] = v[t - Len(z) + j]
    BY <1>7, <1>8, <2>1
  <2>3. InMemory(v, z, t, n, L)
    BY <2>2 DEF InMemory
  <2> QED BY <2>1, <2>3
<1> QED BY <1>1, <1>4, <1>9

LEMMA OpenFromIs ==
    ASSUME NEW d, Disk(d), HotWhole(d), ColdWhole(d), NEW L, CleanDisk(d, L),
           OpenFrom(d)
    PROVE  /\ Disk(disk') /\ CleanDisk(disk', L) /\ Running(L)' /\ view' = Found(d) /\ view' \in Seq(Nat)
           /\ buffer' \in [Files -> Seq(Nat)] /\ queued' \in [Files -> Seq(Seq(Nat))]
           /\ ring' \in Seq(Nat) /\ total' \in Nat /\ hotFirst' \in Nat /\ coldFirst' \in Nat
           /\ tail' \in Nat /\ coldOpen' \in BOOLEAN
<1>1. /\ disk' = Put(Put(d, "bin", BinOf(d)), "idx", IdxOf(d))
      /\ buffer' = NoBuffers /\ queued' = NoBuffers
      /\ ring' = LastN(Tier(BinOf(d), IdxOf(d)), RingCap)
      /\ coldFirst' = 0 /\ hotFirst' = Len(ColdOf(d))
      /\ total' = Len(ColdOf(d)) + Len(Tier(BinOf(d), IdxOf(d)))
      /\ coldOpen' = HasCold(d) /\ tail' = Len(BinOf(d)) /\ view' = Found(d)
  BY OpensWith
<1>2. PICK b \in Seq(Nat), x \in Seq(Nat) : b = BinOf(d) /\ x = IdxOf(d)
  BY BinTyped DEF HotWhole
<1>3. PICK cold \in Seq(Nat), hot \in Seq(Nat), v \in Seq(Nat) :
         /\ cold = ColdOf(d) /\ hot = Tier(b, x) /\ v = Found(d)
         /\ AllIn(v, L) /\ Indexes(b, x, v, Len(cold)) /\ Len(v) = Len(cold) + Len(hot)
         /\ \A j \in 1 .. Len(hot) : v[Len(cold) + j] = hot[j]
         /\ ColdHolds(d, 0, Len(cold), v)
  BY <1>2, FoundIs
<1>4. PICK n \in Nat, t \in Nat : n = Len(cold) /\ t = n + Len(hot)
  BY LenOf
<1>5. LastN(hot, RingCap) \in Seq(Nat) /\ InMemory(v, LastN(hot, RingCap), t, n, L)
  BY <1>3, <1>4, RingFilled
<1>6. PICK p \in FileNames, q \in FileNames : p = "bin" /\ q = "idx" /\ p # q
  BY DEF FileNames, Files
<1>7. PICK e1 : e1 = Put(d, p, b)
  OBVIOUS
<1>8. Disk(e1) /\ DOMAIN e1 = DOMAIN d \union {p} /\ e1[p] = b /\ \A g \in DOMAIN d : g # p => e1[g] = d[g]
  <2>1. /\ Disk(Put(d, p, b)) /\ DOMAIN Put(d, p, b) = DOMAIN d \union {p}
        /\ Put(d, p, b)[p] = b /\ \A g \in DOMAIN d : g # p => Put(d, p, b)[g] = d[g]
    BY DEF Put, Disk
  <2> QED BY <1>7, <2>1
<1>9. PICK e : e = Put(e1, q, x)
  OBVIOUS
<1>10. Disk(e) /\ DOMAIN e = DOMAIN e1 \union {q} /\ e[q] = x /\ \A g \in DOMAIN e1 : g # q => e[g] = e1[g]
  <2>1. /\ Disk(Put(e1, q, x)) /\ DOMAIN Put(e1, q, x) = DOMAIN e1 \union {q}
        /\ Put(e1, q, x)[q] = x /\ \A g \in DOMAIN e1 : g # q => Put(e1, q, x)[g] = e1[g]
    BY <1>8, PutIs
  <2> QED BY <1>9, <2>1
<1>11. /\ disk' = e /\ "bin" \in DOMAIN e /\ "idx" \in DOMAIN e /\ e["bin"] = b /\ e["idx"] = x
  BY <1>1, <1>2, <1>6, <1>7, <1>8, <1>9, <1>10
<1>12. ColdSame(d, e)
  BY <1>6, <1>8, <1>10 DEF ColdSame
<1>13. HasCold(d) = HasCold(e) /\ ColdHolds(e, 0, n, v)
  BY <1>3, <1>4, <1>12, ColdStays
<1>14. Clean(b, L)
  <2>1. CASE Exists(d, "bin")
    BY <1>2, <2>1 DEF CleanDisk, BinOf, Exists
  <2>2. CASE ~Exists(d, "bin")
    <3>1. b = <<>> /\ Len(b) = 0
      BY <1>2, <2>2, EmptySeq DEF BinOf
    <3> QED BY <3>1 DEF Clean
  <2> QED BY <2>1, <2>2
<1>15. CleanDisk(e, L)
  <2>1. "cold.bin" \in DOMAIN e => "cold.bin" \in DOMAIN d /\ e["cold.bin"] = d["cold.bin"]
    BY <1>12 DEF ColdSame
  <2> QED BY <1>11, <1>14, <2>1 DEF CleanDisk
<1>16. Flushed("bin")' = b /\ Flushed("idx")' = x
  <2>1. PICK qq \in [Files -> Seq(Seq(Nat))], bb \in [Files -> Seq(Nat)] : qq = queued' /\ bb = buffer'
    BY <1>1, NoBuffersIs
  <2>2. \A g \in Files : qq[g] = <<>> /\ bb[g] = <<>>
    BY <1>1, <2>1, NoBuffersIs
  <2>3. \A g \in Files : g \in DOMAIN e => Whole(e, qq, bb, g) = e[g]
    BY <1>10, <2>2, EmptyWhole
  <2>4. Whole(e, qq, bb, "bin") = b /\ Whole(e, qq, bb, "idx") = x
    BY <1>11, <2>3, FilesAre
  <2> QED BY <1>11, <2>1, <2>4 DEF Flushed, Whole, Chain
<1>17. /\ ring' = LastN(hot, RingCap) /\ coldFirst' = 0 /\ hotFirst' = n /\ total' = t
       /\ coldOpen' = HasCold(e) /\ tail' = Len(b) /\ view' = v
  BY <1>1, <1>2, <1>3, <1>4, <1>13
<1>18. Running(L)'
  <2>1. InMemory(view', ring', total', hotFirst', L)
    BY <1>5, <1>17
  <2>2. Indexes(b, x, v, n)
    BY <1>3, <1>4
  <2>3. ColdHolds(disk', coldFirst', hotFirst', view')
    BY <1>11, <1>13, <1>17
  <2> QED BY <1>11, <1>14, <1>16, <1>17, <2>1, <2>2, <2>3 DEF Running
<1>19. buffer' \in [Files -> Seq(Nat)] /\ queued' \in [Files -> Seq(Seq(Nat))]
  BY <1>1, NoBuffersIs
<1>20. coldOpen' \in BOOLEAN
  BY <1>17 DEF HasCold
<1>21. tail' \in Nat /\ coldFirst' \in Nat /\ hotFirst' \in Nat /\ total' \in Nat /\ ring' \in Seq(Nat)
  BY <1>5, <1>17, LenOf
<1>22. view' = Found(d) /\ view' \in Seq(Nat)
  BY <1>3, <1>17
<1> QED BY <1>10, <1>11, <1>15, <1>18, <1>19, <1>20, <1>21, <1>22

\* However the lines pushed back are chosen from L.
LEMMA OpenStep ==
    ASSUME NEW L, FileInv(L), OpenFiles, todo' \in Seq(Nat), AllIn(todo', L)
    PROVE  FileInv(L)' /\ view' = Found(disk) /\ total' = Len(Found(disk)) /\ Found(disk) \in Seq(Nat)
<1>1. /\ stage = "down" /\ stage' = "run" /\ OpenFrom(disk) /\ pushed' = pushed /\ cleared' = cleared
      /\ owed' = owed
  BY DEF OpenFiles
<1>2. Types /\ Fresh(L) /\ HotWhole(disk) /\ ColdWhole(disk)
  BY <1>1 DEF FileInv, Down
<1>3. PICK d : d = disk
  OBVIOUS
<1>4. Disk(d) /\ CleanDisk(d, L)
  BY <1>2, <1>3 DEF Types, Fresh
<1>5. /\ Disk(disk') /\ CleanDisk(disk', L) /\ Running(L)' /\ view' \in Seq(Nat) /\ view' = Found(d)
      /\ buffer' \in [Files -> Seq(Nat)] /\ queued' \in [Files -> Seq(Seq(Nat))]
      /\ ring' \in Seq(Nat) /\ total' \in Nat /\ hotFirst' \in Nat /\ coldFirst' \in Nat
      /\ tail' \in Nat /\ coldOpen' \in BOOLEAN
  BY <1>1, <1>2, <1>3, <1>4, OpenFromIs
<1>6. Types'
  BY <1>1, <1>2, <1>5 DEF Types, Stages
<1>7. Fresh(L)'
  BY <1>1, <1>2, <1>3, <1>5 DEF Fresh
<1>8. FileInv(L)'
  BY <1>1, <1>5, <1>6, <1>7, StagesApart DEF FileInv
<1>9. total' = Len(view')
  BY <1>5 DEF Running, InMemory
<1> QED BY <1>3, <1>5, <1>8, <1>9

-----------------------------------------------------------------------------
(* Reading. *)

\* Where a line is read: the files the data of a read comes from, the arms
\* of read_line.
ReadFiles == IF unflushed THEN FlushedDisk ELSE disk
LEMMA ReadsFrom ==
    ASSUME NEW i \in 1 .. total
    PROVE  /\ i > total - Len(ring) => ReadLine(i) = InRing(i)
           /\ ~ (i > total - Len(ring)) /\ i \in 1 .. coldFirst /\ i \notin coldFirst + 1 .. hotFirst
                 => ReadLine(i) = None
           /\ ~ (i > total - Len(ring)) /\ i \notin 1 .. coldFirst /\ i \in coldFirst + 1 .. hotFirst
                 => ReadLine(i) = IF coldOpen
                                  THEN RecordAt(disk["cold.bin"], disk["cold.idx"], i - coldFirst)
                                  ELSE None
           /\ ~ (i > total - Len(ring)) /\ i \notin 1 .. coldFirst /\ i \notin coldFirst + 1 .. hotFirst
                 => ReadLine(i) = RecordAt(ReadFiles["bin"], ReadFiles["idx"], i - hotFirst)
<1>1. ASSUME i > total - Len(ring) PROVE ReadLine(i) = InRing(i)
  BY <1>1, Zenon DEF ReadLine
<1>2. ASSUME ~ (i > total - Len(ring)), i \in 1 .. coldFirst, i \notin coldFirst + 1 .. hotFirst
      PROVE  ReadLine(i) = None
  BY <1>2, Zenon DEF ReadLine
<1>3. ASSUME ~ (i > total - Len(ring)), i \notin 1 .. coldFirst, i \in coldFirst + 1 .. hotFirst
      PROVE  ReadLine(i) = IF coldOpen
                           THEN RecordAt(disk["cold.bin"], disk["cold.idx"], i - coldFirst)
                           ELSE None
  BY <1>3, Zenon DEF ReadLine
<1>4. ASSUME ~ (i > total - Len(ring)), i \notin 1 .. coldFirst, i \notin coldFirst + 1 .. hotFirst
      PROVE  ReadLine(i) = RecordAt(ReadFiles["bin"], ReadFiles["idx"], i - hotFirst)
  BY <1>4, Zenon DEF ReadLine, ReadFiles
<1> QED BY <1>1, <1>2, <1>3, <1>4

\* What a read of line i finds in the history v.
Finds(i, v) == \/ ReadLine(i) \in {None, v[i]}
               \/ /\ i \in clipped /\ i > total - Len(ring)
                  /\ ReadLine(i) = CutShort(v[i])

LEMMA ReadIs ==
    ASSUME NEW L, Types, Fresh(L), Running(L), NEW i \in 1 .. total
    PROVE  Finds(i, view)
<1>1. /\ InMemory(view, ring, total, hotFirst, L) /\ {"bin", "idx"} \subseteq DOMAIN disk
      /\ coldOpen = HasCold(disk) /\ ColdHolds(disk, coldFirst, hotFirst, view)
  BY DEF Running
<1>2. PICK v \in Seq(Nat), r \in Seq(Nat), t \in Nat, hf \in Nat, cf \in Nat :
         v = view /\ r = ring /\ t = total /\ hf = hotFirst /\ cf = coldFirst
  BY DEF Types
<1>3. PICK m \in Nat : m = Len(r)
  BY LenOf
<1>4. i \in 1 .. t /\ m <= t /\ i \in Nat /\ t = Len(v) /\ \A j \in 1 .. m : r[j] = v[t - m + j]
  <2>1. i \in 1 .. t
    BY <1>2
  <2>2. m <= t /\ t = Len(v) /\ \A j \in 1 .. m : r[j] = v[t - m + j]
    BY <1>1, <1>2, <1>3 DEF InMemory
  <2> QED BY <2>1, <2>2
<1>5. CASE i > t - m
  <2>1. i - (t - m) \in 1 .. m /\ t - m + (i - (t - m)) = i
    BY <1>4, <1>5
  <2>2. r[i - (t - m)] = v[i]
    BY <1>4, <2>1
  <2>3. ReadLine(i) = InRing(i) /\ i > total - Len(ring)
    BY <1>2, <1>3, <1>5, ReadsFrom
  <2>4. InRing(i) = IF i \in clipped THEN CutShort(v[i]) ELSE v[i]
    BY <1>2, <1>3, <2>2 DEF InRing
  <2> QED BY <1>2, <2>3, <2>4 DEF Finds
<1>6. CASE i <= t - m /\ ~ (i > t - m)
  <2>1. CASE i \in 1 .. cf
    <3>1. i \notin cf + 1 .. hf
      BY <2>1
    <3> QED BY <1>2, <1>3, <1>6, <2>1, <3>1, ReadsFrom DEF Finds
  <2>2. CASE i \notin 1 .. cf /\ i \in cf + 1 .. hf
    <3>1. ReadLine(i) = IF coldOpen THEN RecordAt(disk["cold.bin"], disk["cold.idx"], i - cf) ELSE None
      BY <1>2, <1>3, <1>6, <2>2, ReadsFrom
    <3>2. CASE coldOpen
      <4>1. HasCold(disk)
        BY <1>1, <3>2
      <4>2. PICK cx \in Seq(Nat) : cx = disk["cold.idx"]
        BY <4>1 DEF Types, Disk, HasCold, Exists
      <4>3. PICK k \in Nat : k = Len(cx)
        BY LenOf
      <4>4. cf + k = hf /\ \A j \in 1 .. k : RecordAt(disk["cold.bin"], cx, j) = v[cf + j]
        BY <1>1, <1>2, <4>1, <4>2, <4>3 DEF ColdHolds
      <4>5. i - cf \in 1 .. k /\ cf + (i - cf) = i
        BY <1>4, <2>2, <4>4
      <4>6. RecordAt(disk["cold.bin"], cx, i - cf) = v[i]
        BY <4>4, <4>5
      <4> QED BY <1>2, <3>1, <3>2, <4>2, <4>6 DEF Finds
    <3> QED BY <3>1, <3>2 DEF Finds
  <2>3. CASE i \notin 1 .. cf /\ i \notin cf + 1 .. hf
    <3>1. ReadLine(i) = RecordAt(ReadFiles["bin"], ReadFiles["idx"], i - hf)
      BY <1>2, <1>3, <1>6, <2>3, ReadsFrom
    <3>2. PICK b \in Seq(Nat), x \in Seq(Nat) : b = Flushed("bin") /\ x = Flushed("idx")
      BY <1>1, BothThere
    <3>3. /\ ReadFiles["bin"] \in Seq(Nat) /\ ReadFiles["idx"] \in Seq(Nat)
          /\ Left(ReadFiles["bin"], b) /\ Begins(ReadFiles["idx"], x)
      <4>1. CASE unflushed
        BY <1>1, <3>2, <4>1, FlushedDiskIs, BeginsItself, BeginsLeft DEF ReadFiles
      <4>2. CASE ~unflushed
        BY <1>1, <3>2, <4>2, BothThere DEF ReadFiles
      <4> QED BY <4>1, <4>2
    <3>a. PICK e \in Seq(Nat), y \in Seq(Nat) : e = ReadFiles["bin"] /\ y = ReadFiles["idx"]
      BY <3>3
    <3>b. PICK j : j = i - hf
      OBVIOUS
    <3>4. e = ReadFiles["bin"] /\ y = ReadFiles["idx"] /\ j = i - hf
      BY <3>a, <3>b
    <3>5. Indexes(b, x, v, hf)
      BY <1>2, <3>2 DEF Running
    <3>6. RecordAt(e, y, j) \in {None, v[hf + j]}
      BY <3>3, <3>4, <3>5, ReadHot
    <3>7. hf + j = i
      BY <1>4, <3>4
    <3> QED BY <1>2, <3>1, <3>4, <3>6, <3>7 DEF Finds
  <2> QED BY <2>1, <2>2, <2>3
<1>7. i > t - m \/ (i <= t - m /\ ~ (i > t - m))
  BY <1>4
<1> QED BY <1>5, <1>6, <1>7

LEMMA ReflowStep == ASSUME NEW L, FileInv(L), Reflow PROVE FileInv(L)'
<1>1. /\ stage = "run" /\ stage' = stage /\ pushed' = pushed /\ cleared' = cleared /\ owed' = owed
      /\ todo' = [i \in 1 .. total |-> IF ReadLine(i) = None THEN Blank ELSE ReadLine(i)]
      /\ OpenFrom(Put(Put(FlushedDisk, "bin", <<>>), "idx", <<>>))
  BY DEF Reflow, Idle
<1>2. Types /\ Fresh(L) /\ Running(L) /\ {"bin", "idx"} \subseteq DOMAIN disk
  BY <1>1 DEF FileInv, Running
<1>3. Blank \in Nat /\ Blank \in L /\ L \subseteq Nat /\ \A n \in L : CutShort(n) \in L
  BY <1>2, CapTyped DEF Blank, Fresh, Lined
<1>4. PICK v \in Seq(Nat), t \in Nat : v = view /\ t = total
  BY <1>2 DEF Types
<1>5. t = Len(v) /\ AllIn(v, L)
  BY <1>2, <1>4 DEF Running, InMemory
<1>6. todo' \in Seq(Nat) /\ AllIn(todo', L)
  <2>1. ASSUME NEW i \in 1 .. t
        PROVE  todo'[i] \in Nat /\ todo'[i] \in L
    <3>1. ReadLine(i) \in {None, v[i], CutShort(v[i])}
      BY <1>2, <1>4, ReadIs DEF Finds
    <3>2. v[i] \in Nat /\ v[i] \in L
      BY <1>5, LenOf DEF AllIn
    <3>3. todo'[i] = IF ReadLine(i) = None THEN Blank ELSE ReadLine(i)
      BY <1>1, <1>4
    <3> QED BY <1>3, <1>4, <3>1, <3>2, <3>3
  <2>2. PICK s : s = todo'
    OBVIOUS
  <2>3. s \in [1 .. t -> Nat]
    <3>1. s = [i \in 1 .. t |-> s[i]]
      BY <1>1, <1>4, <2>2
    <3> QED BY <2>1, <2>2, <3>1
  <2>4. s \in Seq(Nat)
    BY <2>3, SeqDef
  <2>5. Len(s) = t
    BY <2>3, <2>4, LenOf, LenProperties
  <2> QED BY <2>1, <2>2, <2>4, <2>5 DEF AllIn
<1>7. PICK e0 : e0 = FlushedDisk
  OBVIOUS
<1>8. Disk(e0) /\ ColdSame(disk, e0)
  BY <1>2, <1>7, FlushedDiskIs
<1>a. PICK p \in FileNames, q \in FileNames : p = "bin" /\ q = "idx" /\ p # q
  BY DEF FileNames, Files
<1>b. PICK n \in Seq(Nat) : n = <<>>
  BY JoinsNothing
<1>9. p = "bin" /\ q = "idx" /\ p # q /\ n = <<>>
  BY <1>a, <1>b
<1>10. PICK e1 : e1 = Put(e0, p, n)
  OBVIOUS
<1>11. Disk(e1) /\ DOMAIN e1 = DOMAIN e0 \union {p} /\ e1[p] = n /\ \A g \in DOMAIN e0 : g # p => e1[g] = e0[g]
  <2>1. /\ Disk(Put(e0, p, n)) /\ DOMAIN Put(e0, p, n) = DOMAIN e0 \union {p}
        /\ Put(e0, p, n)[p] = n /\ \A g \in DOMAIN e0 : g # p => Put(e0, p, n)[g] = e0[g]
    BY <1>8, PutIs
  <2> QED BY <1>10, <2>1
<1>12. PICK e : e = Put(e1, q, n)
  OBVIOUS
<1>13. Disk(e) /\ DOMAIN e = DOMAIN e1 \union {q} /\ e[q] = n /\ \A g \in DOMAIN e1 : g # q => e[g] = e1[g]
  <2>1. /\ Disk(Put(e1, q, n)) /\ DOMAIN Put(e1, q, n) = DOMAIN e1 \union {q}
        /\ Put(e1, q, n)[q] = n /\ \A g \in DOMAIN e1 : g # q => Put(e1, q, n)[g] = e1[g]
    BY <1>11, PutIs
  <2> QED BY <1>12, <2>1
<1>14. OpenFrom(e) /\ "bin" \in DOMAIN e /\ e["bin"] = <<>> /\ BinOf(e) = <<>>
  BY <1>1, <1>7, <1>9, <1>10, <1>11, <1>12, <1>13 DEF BinOf, Exists
<1>15. ColdSame(disk, e)
  BY <1>8, <1>9, <1>11, <1>13 DEF ColdSame
<1>16. ColdWhole(e)
  <2>1. ColdWhole(disk)
    BY <1>2, EmptyColdWhole
  <2>2. ColdWhole(disk) <=> ColdWhole(e)
    BY <1>15, ColdStays
  <2> QED BY <2>1, <2>2
<1>17. HotWhole(e)
  BY <1>13, <1>14, NothingHot
<1>18. CleanDisk(e, L)
  <2>1. "cold.bin" \in DOMAIN e => "cold.bin" \in DOMAIN disk /\ e["cold.bin"] = disk["cold.bin"]
    BY <1>15 DEF ColdSame
  <2>2. Clean(<<>>, L)
    BY EmptyClean
  <2> QED BY <1>2, <1>4, <1>14, <2>1, <2>2 DEF Fresh, CleanDisk
<1>19. /\ Disk(disk') /\ CleanDisk(disk', L) /\ Running(L)' /\ view' \in Seq(Nat)
       /\ buffer' \in [Files -> Seq(Nat)] /\ queued' \in [Files -> Seq(Seq(Nat))]
       /\ ring' \in Seq(Nat) /\ total' \in Nat /\ hotFirst' \in Nat /\ coldFirst' \in Nat
       /\ tail' \in Nat /\ coldOpen' \in BOOLEAN
  BY <1>1, <1>4, <1>13, <1>14, <1>16, <1>17, <1>18, OpenFromIs
<1>20. Types'
  BY <1>1, <1>2, <1>6, <1>19 DEF Types
<1>21. Fresh(L)'
  BY <1>1, <1>2, <1>4, <1>6, <1>19 DEF Fresh
<1>22. stage' = "run"
  BY <1>1
<1> QED BY <1>19, <1>20, <1>21, <1>22, StagesApart DEF FileInv

-----------------------------------------------------------------------------
(* The theorems of the files. *)

LEMMA Begin ==
    ASSUME FileInit, NEW L, Lined(L)
    PROVE  FileInv(L)
<1>a. PICK n \in Seq(Nat) : n = <<>>
  BY JoinsNothing
<1>b. Len(n) = 0
  BY <1>a, EmptySeq
<1>0. n = <<>> /\ Len(n) = 0 /\ 1 .. Len(n) = {}
  BY <1>a, <1>b
<1>1. /\ disk = [f \in Files |-> n] /\ buffer = NoBuffers /\ queued = NoBuffers /\ ring = n
      /\ total = 0 /\ hotFirst = 0 /\ coldFirst = 0 /\ coldOpen = FALSE /\ tail = 0
      /\ stage = "run" /\ todo = n /\ view = n /\ pushed = 0 /\ cleared = 0 /\ owed = n
  BY <1>0 DEF FileInit
<1>2. PICK d : d = disk
  OBVIOUS
<1>3. Disk(d) /\ DOMAIN d = {"bin", "idx"} /\ d["bin"] = n /\ d["idx"] = n
  BY <1>1, <1>2 DEF Disk, Files, FileNames
<1>4. Types
  <2>1. buffer \in [Files -> Seq(Nat)] /\ queued \in [Files -> Seq(Seq(Nat))]
    BY <1>1, NoBuffersIs
  <2>2. pushed \in 0 .. MaxPush /\ cleared \in 0 .. pushed
    BY <1>1, CapTyped
  <2>3. ring \in Seq(Nat) /\ todo \in Seq(Nat) /\ view \in Seq(Nat) /\ owed \in Seq(Nat) /\ Disk(disk)
    BY <1>1, <1>2, <1>3
  <2>4. /\ total \in Nat /\ hotFirst \in Nat /\ coldFirst \in Nat /\ tail \in Nat
        /\ coldOpen \in BOOLEAN /\ stage \in Stages
    BY <1>1 DEF Stages
  <2> QED BY <2>1, <2>2, <2>3, <2>4 DEF Types
<1>5. Clean(n, L) /\ AllIn(n, L)
  BY <1>0, EmptyClean
<1>6. Fresh(L)
  BY <1>1, <1>2, <1>3, <1>5 DEF Fresh, CleanDisk
<1>7. Flushed("bin") = n /\ Flushed("idx") = n
  <2>1. PICK qq \in [Files -> Seq(Seq(Nat))], bb \in [Files -> Seq(Nat)] : qq = queued /\ bb = buffer
    BY <1>4 DEF Types
  <2>2. \A g \in Files : qq[g] = <<>> /\ bb[g] = <<>>
    BY <1>1, <2>1, NoBuffersIs
  <2>3. \A g \in Files : g \in DOMAIN d => Whole(d, qq, bb, g) = d[g]
    BY <1>3, <2>2, EmptyWhole
  <2>4. Whole(d, qq, bb, "bin") = n /\ Whole(d, qq, bb, "idx") = n
    BY <1>3, <2>3, FilesAre
  <2> QED BY <1>2, <2>1, <2>4 DEF Flushed, Whole, Chain
<1>8. ~HasCold(disk)
  BY <1>2, <1>3 DEF HasCold, Exists
<1>9. Running(L)
  <2>1. InMemory(view, ring, total, hotFirst, L)
    BY <1>0, <1>1, <1>5 DEF InMemory
  <2>2. Indexes(n, n, view, hotFirst)
    BY <1>0, <1>1 DEF Indexes, Points
  <2>3. ColdHolds(disk, coldFirst, hotFirst, view)
    BY <1>1, <1>8 DEF ColdHolds
  <2>4. coldOpen = HasCold(disk)
    BY <1>1, <1>8, <1>3, <1>2, Zenon DEF HasCold, Exists
  <2> QED BY <1>0, <1>1, <1>2, <1>3, <1>5, <1>7, <2>1, <2>2, <2>3, <2>4 DEF Running
<1> QED BY <1>1, <1>4, <1>6, <1>9, StagesApart DEF FileInv

LEMMA NothingHappens == ASSUME NEW L, FileInv(L), UNCHANGED fileVars PROVE FileInv(L)'
<1>1. /\ disk' = disk /\ buffer' = buffer /\ queued' = queued /\ ring' = ring /\ total' = total
      /\ hotFirst' = hotFirst /\ coldFirst' = coldFirst /\ coldOpen' = coldOpen /\ tail' = tail
      /\ stage' = stage /\ todo' = todo /\ view' = view /\ pushed' = pushed /\ cleared' = cleared
      /\ owed' = owed
  BY DEF fileVars, memory, ghosts
<1>2. Types => Types'
  BY <1>1 DEF Types
<1>3. Fresh(L) => Fresh(L)'
  BY <1>1 DEF Fresh
<1>4. Flushed("bin")' = Flushed("bin") /\ Flushed("idx")' = Flushed("idx")
  BY <1>1 DEF Flushed
<1>5. Running(L) => Running(L)'
  BY <1>1, <1>4 DEF Running
<1>6. Rotating(L) => Rotating(L)'
  BY <1>1 DEF Rotating, Buffered
<1>7. Clearing => Clearing'
  BY <1>1 DEF Clearing
<1>8. Down => Down'
  BY <1>1 DEF Down, Buffered, BetweenRenames
<1> QED BY <1>1, <1>2, <1>3, <1>5, <1>6, <1>7, <1>8 DEF FileInv

LEMMA FileSteps == ASSUME NEW L, FileInv(L), FileNext, Makes(L) PROVE FileInv(L)'
<1>1. Rotate => FileInv(L)'
  BY StartStep, RemoveStep, RenameStep, CreateStep, FinishStep DEF Rotate
<1>2. ReflowOneTier => FileInv(L)'
  BY ReflowStep DEF ReflowOneTier
<1>3. Open => FileInv(L)'
  <2> SUFFICES ASSUME Open PROVE FileInv(L)'
    OBVIOUS
  <2>1. OpenFiles /\ todo' = todo /\ stage = "down"
    BY DEF Open, OpenFiles
  <2>2. todo \in Seq(Nat) /\ AllIn(todo, L)
    BY DEF FileInv, Types, Fresh
  <2> QED BY <2>1, <2>2, OpenStep
<1> QED BY <1>1, <1>2, <1>3, PushStep, SpillStep, FlushStep, ClearStep, CloseStep, CrashStep DEF FileNext

\* Of the lines that were ever made, those behind the last clear are held.
Behind(c) == {n \in Nat : LineOf(n) > c}
Uncleared(L) == L = Behind(cleared)
Held == \E L : Uncleared(L) /\ FileInv(L)

LEMMA BehindIs == ASSUME NEW c \in Nat, c <= MaxPush PROVE Lined(Behind(c))
BY CapTyped DEF Behind, Lined, LineOf, CutShort, Blank

LEMMA LineItself == \A n \in Nat : n <= MaxPush => LineOf(n) = n
BY CapTyped DEF LineOf, Blank

LEMMA LinesCount ==
    ASSUME FileNext
    PROVE  /\ FinishClear \/ cleared' = cleared
           /\ FinishClear => cleared' = pushed
           /\ pushed' = pushed \/ (pushed' = pushed + 1 /\ pushed < MaxPush)
BY DEF FileNext, PushLine, TakeLine, Rotate, StartRotation, RemoveColdBin, RemoveColdIdx, RenameBin,
       RenameIdx, CreateBin, RotationStep, FinishRotation, Spill, EnsureFlushed, FlushForHandoff,
       Clear, StartClear, CutIdx, CutColdBin, FinishClear, Close, Crash, Gone, Open, OpenFiles,
       ReflowOneTier, Reflow, ghosts

LEMMA MadeInBounds == ASSUME FileNext, pushed \in Nat, pushed <= MaxPush PROVE pushed' \in Nat /\ pushed' <= MaxPush
BY CapTyped, LinesCount

LEMMA HeldFirst == FileInit => Held
<1> SUFFICES ASSUME FileInit PROVE Held
  OBVIOUS
<1>1. PICK L : L = Behind(0)
  OBVIOUS
<1>2. Lined(L) /\ cleared = 0
  BY <1>1, CapTyped, BehindIs DEF FileInit
<1> QED BY <1>1, <1>2, Begin DEF Held, Uncleared

LEMMA HeldStep == Held /\ [FileNext]_fileVars => Held'
<1> SUFFICES ASSUME Held, [FileNext]_fileVars PROVE Held'
  OBVIOUS
<1>1. PICK L : Uncleared(L) /\ FileInv(L)
  BY DEF Held
<1>2. Types
  BY <1>1 DEF FileInv
<1>3. cleared \in Nat /\ pushed \in Nat /\ cleared <= pushed /\ pushed <= MaxPush
  BY <1>2, Counts
<1>4. CASE FileNext /\ cleared' = cleared
  <2>1. pushed' \in Nat /\ pushed' <= MaxPush /\ (pushed' = pushed \/ pushed' = pushed + 1)
    BY <1>3, <1>4, LinesCount, MadeInBounds
  <2>2. Makes(L)
    <3>1. LineOf(pushed') = pushed'
      BY <2>1, LineItself
    <3>2. pushed' = pushed \/ pushed' > cleared
      BY <1>3, <2>1
    <3> QED BY <1>1, <2>1, <3>1, <3>2 DEF Makes, Uncleared, Behind
  <2> QED BY <1>1, <1>4, <2>2, FileSteps DEF Held, Uncleared
<1>5. CASE FinishClear
  <2>1. PICK M : M = Behind(pushed)
    OBVIOUS
  <2>2. Lined(M)
    BY <1>3, <2>1, BehindIs
  <2>3. cleared' = pushed
    BY <1>5 DEF FinishClear
  <2> QED BY <1>1, <1>5, <2>1, <2>2, <2>3, EndClearStep DEF Held, Uncleared
<1>6. CASE UNCHANGED fileVars
  <2>1. cleared' = cleared
    BY <1>6 DEF fileVars, ghosts
  <2> QED BY <1>1, <1>6, <2>1, NothingHappens DEF Held, Uncleared
<1> QED BY <1>4, <1>5, <1>6, LinesCount

LEMMA FileInvariant == FileSpec => []Held
BY HeldFirst, HeldStep, PTL DEF FileSpec

\* A read finds the line that was pushed there, or nothing, never another: only
\* a line that filled the ring after a clear, and is still there, may be cut.
THEOREM NoOtherLineIsRead == FileSpec => []NeverAnotherLine
<1>1. Held => NeverAnotherLine
  <2> SUFFICES ASSUME Held, stage = "run"
               PROVE  total = Len(view) /\ \A i \in 1 .. total : Finds(i, view)
    BY DEF NeverAnotherLine, Finds
  <2>1. PICK L : FileInv(L)
    BY DEF Held
  <2>2. Types /\ Fresh(L) /\ Running(L)
    BY <2>1 DEF FileInv
  <2>3. total = Len(view)
    BY <2>2 DEF Running, InMemory
  <2> QED BY <2>2, <2>3, ReadIs
<1> QED BY <1>1, FileInvariant, PTL

\* Once a clear has finished, no earlier line is ever on disk or in the history.
THEOREM WhatIsClearedIsGone == FileSpec => []ClearedStaysCleared
<1>1. Held => ClearedStaysCleared
  <2> SUFFICES ASSUME Held PROVE ClearedStaysCleared
    OBVIOUS
  <2>1. PICK L : Uncleared(L) /\ FileInv(L)
    BY DEF Held
  <2>2. Types /\ Fresh(L) /\ \A n \in L : LineOf(n) > cleared
    BY <2>1 DEF FileInv, Uncleared, Behind
  <2>3. ASSUME stage = "run" PROVE \A i \in DOMAIN view : LineOf(view[i]) > cleared
    <3>1. AllIn(view, L) /\ view \in Seq(Nat)
      BY <2>1, <2>3 DEF FileInv, Running, InMemory, Types
    <3> QED BY <2>2, <3>1, LenOf DEF AllIn
  <2>4. ASSUME NEW f \in DOMAIN disk \intersect {"bin", "cold.bin"}
        PROVE  \A i \in DOMAIN disk[f] : disk[f][i] = Torn \/ LineOf(disk[f][i]) > cleared
    <3>1. Clean(disk[f], L) /\ disk[f] \in Seq(Nat)
      BY <2>2 DEF Fresh, CleanDisk, Types, Disk
    <3> QED BY <2>2, <3>1, LenOf DEF Clean
  <2> QED BY <2>3, <2>4 DEF ClearedStaysCleared
<1> QED BY <1>1, FileInvariant, PTL

\* What a new process finds is an unbroken run of what the last one had, with
\* everything at its end that the last one owed it.
THEOREM HistoryIsRecovered == FileSpec => HistoryRecovered
<1>1. Held /\ [FileNext]_fileVars =>
         [stage = "down" /\ stage' = "run"
            => /\ UnbrokenRun
               /\ ~BetweenRenames => owed = LastN(view', Len(owed))]_fileVars
  <2> SUFFICES ASSUME Held, FileNext, stage = "down", stage' = "run"
               PROVE  /\ UnbrokenRun
                      /\ ~BetweenRenames => owed = LastN(view', Len(owed))
    BY Zenon
  <2>1. OpenFrom(disk)
    BY DEF FileNext, PushLine, Rotate, StartRotation, RemoveColdBin, RemoveColdIdx, RenameBin,
           RenameIdx, CreateBin, RotationStep, FinishRotation, Spill, EnsureFlushed, FlushForHandoff,
           Clear, StartClear, CutIdx, CutColdBin, FinishClear, Close, Crash, Open, OpenFiles,
           ReflowOneTier, Reflow, Idle
  <2>2. view' = Found(disk)
    BY <2>1, OpensWith
  <2>3. Down
    BY DEF Held, FileInv
  <2> QED BY <2>2, <2>3 DEF Down, Unbroken, UnbrokenRun
<1> QED BY <1>1, FileInvariant, PTL DEF HistoryRecovered, FileSpec

-----------------------------------------------------------------------------
(* The descriptors of a search. *)

LEMMA ColdNames == Cold["bin"] = "cold.bin" /\ Cold["idx"] = "cold.idx" /\ "removed" \notin FileNames
BY DEF Cold, FileNames, Files

\* What becomes of a file that is open: it grows, or is there under the cold
\* name, or is removed.
Leads(d, e, f) ==
    /\ f \in DOMAIN d /\ f \in DOMAIN e => Begins(d[f], e[f])
    /\ f \in DOMAIN d /\ f \notin DOMAIN e => Cold[f] \in DOMAIN e /\ e[Cold[f]] = d[f]
    /\ Cold[f] \in DOMAIN d /\ Cold[f] \in DOMAIN e => e[Cold[f]] = d[Cold[f]]

LEMMA NothingLeads ==
    ASSUME NEW d, NEW e, Disk(d), \A f \in DOMAIN d : f \in DOMAIN e /\ e[f] = d[f], NEW f \in Files
    PROVE  Leads(d, e, f)
<1>1. f \in DOMAIN d => d[f] \in Seq(Nat)
  BY DEF Disk
<1> QED BY <1>1, BeginsItself DEF Leads

LEMMA GrowsLeads ==
    ASSUME NEW d, NEW e, DOMAIN e = DOMAIN d, \A g \in Files \cap DOMAIN d : Begins(d[g], e[g]),
           ColdSame(d, e), NEW f \in Files
    PROVE  Leads(d, e, f)
BY FilesAre, ColdNames DEF Leads, ColdSame

LEMMA RemoveLeads ==
    ASSUME NEW d, NEW e, Disk(d), NEW c \in {"cold.bin", "cold.idx"}, DOMAIN e = DOMAIN d \ {c},
           \A g \in DOMAIN d : g # c => e[g] = d[g], NEW f \in Files
    PROVE  Leads(d, e, f)
<1>1. f # c /\ f \in DOMAIN e <=> f \in DOMAIN d
  BY FilesAre
<1>2. f \in DOMAIN d => d[f] \in Seq(Nat)
  BY DEF Disk
<1>3. f # c
  BY FilesAre
<1>4. f \in DOMAIN d => Begins(d[f], e[f])
  BY <1>2, <1>3, BeginsItself
<1> QED BY <1>1, <1>3, <1>4 DEF Leads

LEMMA RenameLeads ==
    ASSUME NEW d, NEW e, Disk(d), NEW g \in Files, g \in DOMAIN d, Cold[g] \notin DOMAIN d,
           DOMAIN e = (DOMAIN d \ {g}) \union {Cold[g]}, e[Cold[g]] = d[g],
           \A h \in DOMAIN d : h \notin {g, Cold[g]} => e[h] = d[h], NEW f \in Files
    PROVE  Leads(d, e, f)
<1>1. CASE f = g
  <2>1. f \notin DOMAIN e
    BY <1>1, FilesAre, ColdNames
  <2> QED BY <1>1, <2>1 DEF Leads
<1>2. CASE f # g
  <2>1. f \notin {g, Cold[g]} /\ Cold[f] \notin {g, Cold[g]}
    BY <1>2, FilesAre, ColdNames
  <2>2. f \in DOMAIN d <=> f \in DOMAIN e
    BY <2>1
  <2>3. f \in DOMAIN d => d[f] \in Seq(Nat) /\ e[f] = d[f]
    BY <2>1 DEF Disk
  <2>4. f \in DOMAIN d => Begins(d[f], e[f])
    BY <2>3, BeginsItself
  <2> QED BY <2>1, <2>2, <2>4 DEF Leads
<1> QED BY <1>1, <1>2

LEMMA FlushLeads ==
    ASSUME Types, {"bin", "idx"} \subseteq DOMAIN disk, disk' = FlushedDisk, NEW f \in Files
    PROVE  Leads(disk, disk', f)
<1>1. /\ DOMAIN FlushedDisk = DOMAIN disk
      /\ FlushedDisk["bin"] = Flushed("bin") /\ FlushedDisk["idx"] = Flushed("idx")
      /\ ColdSame(disk, FlushedDisk)
  BY FlushedDiskIs
<1>2. \A g \in Files : g \in DOMAIN disk => Begins(disk[g], Flushed(g))
  BY FlushedIs
<1>3. \A g \in Files \cap DOMAIN disk : Begins(disk[g], FlushedDisk[g])
  BY <1>1, <1>2, FilesAre
<1> QED BY <1>1, <1>3, GrowsLeads

LEMMA SpillLeads ==
    ASSUME NEW L, FileInv(L), stage \notin ClearStages, NEW g \in Files, Spill(g), NEW f \in Files
    PROVE  Leads(disk, disk', f)
<1>1. stage = "run" /\ queued[g] # <<>>
  <2>1. stage # "down" /\ queued[g] # <<>>
    BY DEF Spill
  <2>2. stage \in RotationStages => queued[g] = <<>>
    BY NoBuffersIs DEF FileInv, Rotating, Buffered
  <2> QED BY <2>1, <2>2 DEF FileInv, Types, Stages
<1>2. Types /\ {"bin", "idx"} \subseteq DOMAIN disk /\ g \in DOMAIN disk
  BY <1>1, FilesAre DEF FileInv, Running
<1>3. disk' = [disk EXCEPT ![g] = disk[g] \o Head(queued[g])]
  BY DEF Spill
<1>4. disk[g] \in Seq(Nat) /\ Head(queued[g]) \in Seq(Nat)
  <2>1. disk[g] \in Seq(Nat) /\ queued[g] \in Seq(Seq(Nat))
    BY <1>2 DEF Types, Disk
  <2> QED BY <1>1, <2>1
<1>5. PICK s : s = disk[g] \o Head(queued[g]) /\ Begins(disk[g], s)
  BY <1>4, BeginsJoin
<1>6. Disk(disk)
  BY <1>2 DEF Types
<1>7. DOMAIN disk' = DOMAIN disk /\ disk'[g] = s /\ \A h \in DOMAIN disk : h # g => disk'[h] = disk[h]
  BY <1>2, <1>3, <1>5, <1>6 DEF Disk
<1>8. \A h \in Files \cap DOMAIN disk : Begins(disk[h], disk'[h])
  <2> SUFFICES ASSUME NEW h \in Files, h \in DOMAIN disk PROVE Begins(disk[h], disk'[h])
    OBVIOUS
  <2>1. disk[h] \in Seq(Nat)
    BY <1>6 DEF Disk
  <2> QED BY <1>5, <1>7, <2>1, BeginsItself
<1>9. ColdSame(disk, disk')
  BY <1>7, FilesAre DEF ColdSame
<1> QED BY <1>7, <1>8, <1>9, GrowsLeads

LEMMA FilesLead ==
    ASSUME NEW L, FileInv(L), FileNext, stage \notin ClearStages \union {"down"}, stage' # "down",
           ~StartClear, ~Reflow, NEW f \in Files
    PROVE  Leads(disk, disk', f)
<1>0. Types /\ Disk(disk)
  BY DEF FileInv, Types
<1>1. CASE PushLine
  BY <1>0, <1>1, NothingLeads DEF PushLine
<1>2. CASE StartRotation \/ EnsureFlushed
  <2>1. stage = "run" /\ disk' = FlushedDisk
    BY <1>2 DEF StartRotation, EnsureFlushed, Idle
  <2>2. {"bin", "idx"} \subseteq DOMAIN disk
    BY <2>1 DEF FileInv, Running
  <2> QED BY <1>0, <2>1, <2>2, FlushLeads
<1>3. CASE FlushForHandoff
  <2>1. stage = "run" /\ disk' = Put(disk, "bin", Flushed("bin"))
    BY <1>3 DEF FlushForHandoff, Idle
  <2>2. {"bin", "idx"} \subseteq DOMAIN disk
    BY <2>1 DEF FileInv, Running
  <2>3. PICK w \in Seq(Nat), n \in FileNames : w = Flushed("bin") /\ n = "bin" /\ Begins(disk["bin"], w)
    <3>1. \A g \in Files : g \in DOMAIN disk => Begins(disk[g], Flushed(g)) /\ Flushed(g) \in Seq(Nat)
      BY <1>0, FlushedIs
    <3> QED BY <2>2, <3>1, FilesAre DEF FileNames
  <2>4. /\ DOMAIN Put(disk, n, w) = DOMAIN disk \union {n} /\ Put(disk, n, w)[n] = w
        /\ \A g \in DOMAIN disk : g # n => Put(disk, n, w)[g] = disk[g]
    <3>1. Disk(disk)
      BY <1>0
    <3> QED BY ONLY <3>1, PutIs
  <2>5. /\ DOMAIN disk' = DOMAIN disk /\ disk'["bin"] = w
        /\ \A g \in DOMAIN disk : g # "bin" => disk'[g] = disk[g]
    BY <2>1, <2>2, <2>3, <2>4
  <2>6. \A g \in Files \cap DOMAIN disk : Begins(disk[g], disk'[g])
    <3> SUFFICES ASSUME NEW g \in Files, g \in DOMAIN disk PROVE Begins(disk[g], disk'[g])
      OBVIOUS
    <3>1. disk[g] \in Seq(Nat)
      BY <1>0 DEF Disk
    <3> QED BY <2>3, <2>5, <3>1, BeginsItself
  <2>7. ColdSame(disk, disk')
    BY <2>5 DEF ColdSame
  <2> QED BY <2>5, <2>6, <2>7, GrowsLeads
<1>4. CASE RemoveColdBin \/ RemoveColdIdx
  <2>1. PICK c \in {"cold.bin", "cold.idx"} : disk' = Without(disk, c)
    BY <1>4 DEF RemoveColdBin, RemoveColdIdx, RotationStep
  <2>2. DOMAIN Without(disk, c) = DOMAIN disk \ {c} /\ \A g \in DOMAIN disk : g # c => Without(disk, c)[g] = disk[g]
    BY <1>0, WithoutIs
  <2> QED BY <1>0, <2>1, <2>2, RemoveLeads
<1>5. CASE RenameBin \/ RenameIdx
  <2>1. PICK g \in Files : /\ disk' = Rename(disk, g, Cold[g]) /\ g \in DOMAIN disk /\ Cold[g] \notin DOMAIN disk
                           /\ Cold[g] \in FileNames /\ Cold[g] # g
    <3>1. CASE RenameBin
      <4>1. stage = "coldGone" /\ disk' = Rename(disk, "bin", "cold.bin")
        BY <3>1 DEF RenameBin, RotationStep
      <4>2. "bin" \in DOMAIN disk /\ "cold.bin" \notin DOMAIN disk
        BY <4>1 DEF FileInv, Rotating, RotationStages
      <4> QED BY <4>1, <4>2, FilesAre, ColdNames DEF FileNames
    <3>2. CASE RenameIdx
      <4>1. stage = "binRenamed" /\ disk' = Rename(disk, "idx", "cold.idx")
        BY <3>2 DEF RenameIdx, RotationStep
      <4>2. "idx" \in DOMAIN disk /\ "cold.idx" \notin DOMAIN disk
        BY <4>1 DEF FileInv, Rotating, RotationStages
      <4> QED BY <4>1, <4>2, FilesAre, ColdNames DEF FileNames
    <3> QED BY <1>5, <3>1, <3>2
  <2>2. PICK c \in FileNames : c = Cold[g] /\ c # g
    BY <2>1
  <2>3. /\ DOMAIN Rename(disk, g, c) = (DOMAIN disk \ {g}) \union {c} /\ Rename(disk, g, c)[c] = disk[g]
        /\ \A h \in DOMAIN disk : h \notin {g, c} => Rename(disk, g, c)[h] = disk[h]
    <3>1. Disk(disk) /\ g \in DOMAIN disk /\ c \in FileNames /\ g # c
      BY <1>0, <2>1, <2>2
    <3> QED BY ONLY <3>1, RenameIs
  <2> QED BY <1>0, <2>1, <2>2, <2>3, RenameLeads
<1>6. CASE CreateBin \/ FinishRotation
  <2>1. PICK n \in Files : disk' = Put(disk, n, <<>>) /\ n \notin DOMAIN disk
    <3>1. CASE CreateBin
      BY <3>1, FilesAre DEF CreateBin, RotationStep, FileInv, Rotating, RotationStages
    <3>2. CASE FinishRotation
      BY <3>2, FilesAre DEF FinishRotation, FileInv, Rotating, RotationStages
    <3> QED BY <1>6, <3>1, <3>2
  <2>2. PICK c \in Seq(Nat), m \in FileNames : c = <<>> /\ m = n
    BY EmptySeq, FilesAre DEF FileNames
  <2>3. /\ DOMAIN Put(disk, m, c) = DOMAIN disk \union {m}
        /\ \A g \in DOMAIN disk : g # m => Put(disk, m, c)[g] = disk[g]
    BY <1>0, PutIs
  <2>4. \A g \in DOMAIN disk : g \in DOMAIN disk' /\ disk'[g] = disk[g]
    BY <2>1, <2>2, <2>3
  <2> QED BY <1>0, <2>4, NothingLeads
<1>7. CASE \E g \in Files : Spill(g)
  BY <1>7, SpillLeads
<1>8. ~Close /\ ~Crash /\ ~Open /\ ~ReflowOneTier /\ ~CutIdx /\ ~CutColdBin /\ ~FinishClear
  BY DEF Close, Crash, Open, OpenFiles, ReflowOneTier, CutIdx, CutColdBin, FinishClear, ClearStages
<1> QED BY <1>1, <1>2, <1>3, <1>4, <1>5, <1>6, <1>7, <1>8 DEF FileNext, Rotate, Clear

\* A descriptor of the search is on a file that is there, or was removed.
Named(f) == \/ search.name[f] \in {f, Cold[f]} /\ search.name[f] \in DOMAIN disk
            \/ search.name[f] = "removed"

LEMMA ContentsGrow ==
    ASSUME Disk(disk), Disk(disk'), NEW f \in Files, Named(f), Leads(disk, disk', f),
           Contents(f) \in Seq(Nat), search'.name[f] = NameAfter(f), search'.kept[f] = KeptAfter(f)
    PROVE  Named(f)' /\ Contents(f)' \in Seq(Nat) /\ Begins(Contents(f), Contents(f)')
<1>0. /\ "removed" \notin DOMAIN disk /\ "removed" \notin DOMAIN disk' /\ Cold[f] # f
      /\ f # "removed" /\ Cold[f] # "removed"
  BY FilesAre, ColdNames DEF Disk
<1>1. Begins(Contents(f), Contents(f))
  BY BeginsItself
<1>2. CASE search.name[f] = f /\ f \in DOMAIN disk
  <2>1. Contents(f) = disk[f]
    BY <1>0, <1>2 DEF Contents
  <2>2. CASE f \in DOMAIN disk'
    <3>1. search'.name[f] = f
      BY <1>2, <2>2 DEF NameAfter
    <3>2. Contents(f)' = disk'[f]
      BY <1>0, <3>1 DEF Contents
    <3>3. disk'[f] \in Seq(Nat)
      BY <2>2 DEF Disk
    <3> QED BY <1>2, <2>1, <2>2, <3>1, <3>2, <3>3 DEF Named, Leads
  <2>3. CASE f \notin DOMAIN disk'
    <3>1. search'.name[f] = Cold[f]
      BY <1>2, <2>3 DEF NameAfter
    <3>2. Cold[f] \in DOMAIN disk' /\ disk'[Cold[f]] = disk[f]
      BY <1>2, <2>3 DEF Leads
    <3>3. Contents(f)' = Contents(f)
      BY <1>0, <2>1, <3>1, <3>2 DEF Contents
    <3> QED BY <1>1, <3>1, <3>2, <3>3 DEF Named
  <2> QED BY <2>2, <2>3
<1>3. CASE search.name[f] = Cold[f] /\ Cold[f] \in DOMAIN disk
  <2>1. Contents(f) = disk[Cold[f]]
    BY <1>0, <1>3 DEF Contents
  <2>2. CASE Cold[f] \in DOMAIN disk'
    <3>1. search'.name[f] = Cold[f]
      BY <1>3, <2>2 DEF NameAfter
    <3>2. disk'[Cold[f]] = disk[Cold[f]]
      BY <1>3, <2>2 DEF Leads
    <3>3. Contents(f)' = Contents(f)
      BY <1>0, <2>1, <3>1, <3>2 DEF Contents
    <3> QED BY <1>1, <2>2, <3>1, <3>3 DEF Named
  <2>3. CASE Cold[f] \notin DOMAIN disk'
    <3>1. NameAfter(f) = "removed"
      BY <1>0, <1>3, <2>3 DEF NameAfter
    <3>2. search'.name[f] = "removed" /\ search'.kept[f] = Contents(f)
      BY <3>1 DEF KeptAfter
    <3>3. Contents(f)' = Contents(f)
      BY <3>2 DEF Contents
    <3> QED BY <1>1, <3>2, <3>3 DEF Named
  <2> QED BY <2>2, <2>3
<1>4. CASE search.name[f] = "removed"
  <2>1. NameAfter(f) = "removed"
    BY <1>0, <1>4 DEF NameAfter
  <2>2. search'.name[f] = "removed" /\ search'.kept[f] = Contents(f)
    BY <2>1 DEF KeptAfter
  <2>3. Contents(f)' = Contents(f)
    BY <2>2 DEF Contents
  <2> QED BY <1>1, <2>2, <2>3 DEF Named
<1> QED BY <1>2, <1>3, <1>4 DEF Named

-----------------------------------------------------------------------------
(* A search of a history in one tier. *)

\* Every row the search may read is whole in the files it has open, and what
\* it has read of a row is what is there.
Reading ==
    /\ search.view \in Seq(Nat) /\ search.rows = Len(search.view)
    /\ \A f \in Files : Named(f) /\ Contents(f) \in Seq(Nat)
    /\ \A i \in 1 .. search.rows :
          /\ i \in 1 .. Len(Contents("idx"))
          /\ Contents("idx")[i] \in 1 .. Len(Contents("bin"))
          /\ Contents("bin")[Contents("idx")[i]] = search.view[i]
    /\ search.row \in 0 .. search.rows
    /\ search.row # 0 => search.entry = Contents("idx")[search.row]
    /\ search.read \in 0 .. search.rows
    /\ search.read # 0 => search.line = search.view[search.read]

Shaped == DOMAIN search = DOMAIN NoSearch

SearchInv ==
    /\ Shaped
    /\ stage = "down" => ~search.on
    /\ search.on /\ stage \in ClearStages => search.cut
    /\ ~search.on => search.read = 0
    /\ search.on /\ search.oneTier /\ ~search.cut => Reading

SearchHeld == Held /\ SearchInv

LEMMA StartSearchStep == SearchHeld /\ StartSearch => SearchHeld'
<1> SUFFICES ASSUME SearchHeld, StartSearch PROVE SearchHeld'
  OBVIOUS
<1>1. PICK L : Uncleared(L) /\ FileInv(L)
  BY DEF SearchHeld, Held
<1>2. /\ stage = "run" /\ stage' = "run" /\ Same /\ disk' = FlushedDisk
      /\ buffer' = NoBuffers /\ queued' = NoBuffers /\ search' = NewSearch
  BY DEF StartSearch, Idle, Same, ghosts
<1>3. Types /\ Running(L)
  BY <1>1, <1>2 DEF FileInv
<1>4. Held'
  <2>1. FileInv(L)'
    BY <1>1, <1>2, FlushesBoth
  <2>2. Uncleared(L)'
    BY <1>1, <1>2 DEF Uncleared, Same
  <2> QED BY <2>1, <2>2 DEF Held
<1>5. /\ DOMAIN search' = DOMAIN NoSearch /\ search'.on /\ search'.rows = total /\ search'.view = view
      /\ (search'.oneTier <=> hotFirst = 0) /\ search'.row = 0 /\ search'.read = 0
      /\ search'.name = [f \in Files |-> f]
  BY <1>2 DEF NewSearch, NoSearch
<1>6. ASSUME hotFirst = 0 PROVE Reading'
  <2>1. {"bin", "idx"} \subseteq DOMAIN disk
    BY <1>3 DEF Running
  <2>2. DOMAIN disk' = DOMAIN disk /\ disk'["bin"] = Flushed("bin") /\ disk'["idx"] = Flushed("idx")
    BY <1>2, <1>3, <2>1, FlushedDiskIs
  <2>3. Contents("bin")' = Flushed("bin") /\ Contents("idx")' = Flushed("idx")
    BY <1>5, <2>2, FilesAre DEF Contents
  <2>4. Flushed("bin") \in Seq(Nat) /\ Flushed("idx") \in Seq(Nat)
    BY <1>3, <2>1, BothThere
  <2>5. \A f \in Files : Named(f)' /\ Contents(f)' \in Seq(Nat)
    <3>1. Named("bin")' /\ Named("idx")'
      BY <1>5, <2>1, <2>2, FilesAre DEF Named
    <3> QED BY <2>3, <2>4, <3>1, FilesAre
  <2>6. view \in Seq(Nat) /\ total = Len(view) /\ total \in Nat
    BY <1>3 DEF Types, Running, InMemory
  <2>7. PICK b \in Seq(Nat), x \in Seq(Nat) : b = Flushed("bin") /\ x = Flushed("idx") /\ Indexes(b, x, view, 0)
    BY <1>3, <1>6, <2>4 DEF Running
  <2>8. Len(x) \in Nat /\ Len(b) \in Nat
    BY LenOf
  <2>9. \A i \in 1 .. total : i \in 1 .. Len(x) /\ x[i] \in 1 .. Len(b) /\ b[x[i]] = view[i]
    <3>1. Len(x) = total
      BY <2>6, <2>7, <2>8 DEF Indexes
    <3> QED BY <2>6, <2>7, <3>1 DEF Indexes, Points
  <2>10. search'.view \in Seq(Nat) /\ search'.rows = Len(search'.view)
    BY <1>5, <2>6
  <2>11. search'.row \in 0 .. search'.rows /\ search'.row = 0 /\ search'.read \in 0 .. search'.rows /\ search'.read = 0
    BY <1>5, <2>6
  <2>12. \A i \in 1 .. search'.rows :
            /\ i \in 1 .. Len(Contents("idx")')
            /\ Contents("idx")'[i] \in 1 .. Len(Contents("bin")')
            /\ Contents("bin")'[Contents("idx")'[i]] = search'.view[i]
    BY <1>5, <2>3, <2>7, <2>9
  <2> QED BY <2>5, <2>10, <2>11, <2>12 DEF Reading
<1>7. stage' \notin ClearStages
  BY <1>2 DEF ClearStages
<1> QED BY <1>2, <1>4, <1>5, <1>6, <1>7 DEF SearchHeld, SearchInv, Shaped

\* The worker reads, and the files stay as they are.
LEMMA ReadStep == SearchHeld /\ (ReadEntry \/ ReadRecord) => SearchHeld'
<1> SUFFICES ASSUME SearchHeld, ReadEntry \/ ReadRecord PROVE SearchHeld'
  OBVIOUS
<1>1. UNCHANGED fileVars /\ disk' = disk /\ stage' = stage /\ search.on
  BY DEF ReadEntry, ReadRecord, fileVars
<1>2. Held'
  BY <1>1, HeldStep DEF SearchHeld
<1>3. /\ DOMAIN search' = DOMAIN NoSearch /\ search'.on = search.on /\ search'.name = search.name
      /\ search'.kept = search.kept /\ search'.rows = search.rows /\ search'.view = search.view
      /\ search'.oneTier = search.oneTier /\ search'.cut = search.cut
  BY DEF ReadEntry, ReadRecord, SearchHeld, SearchInv, Shaped, NoSearch
<1>4. \A f \in Files : Contents(f)' = Contents(f) /\ (Named(f)' <=> Named(f))
  BY <1>1, <1>3 DEF Contents, Named
<1>5. ASSUME Reading PROVE Reading'
  <2>1. PICK b \in Seq(Nat), x \in Seq(Nat) : b = Contents("bin") /\ x = Contents("idx")
    BY <1>5, FilesAre DEF Reading
  <2>2. Contents("bin")' = b /\ Contents("idx")' = x
    BY <1>4, <2>1, FilesAre
  <2>3. search.rows \in Nat
    BY <1>5, LenOf DEF Reading
  <2>4. DOMAIN x = 1 .. Len(x) /\ DOMAIN b = 1 .. Len(b)
    BY <2>1
  <2>5. CASE ReadEntry
    <3>1. PICK i \in 1 .. search.rows : search'.row = i /\ search'.entry = (IF i \in DOMAIN x THEN x[i] ELSE None)
                                        /\ search'.read = search.read /\ search'.line = search.line
      BY <2>1, <2>5 DEF ReadEntry, SearchHeld, SearchInv, Shaped, NoSearch
    <3>2. i \in DOMAIN x
      BY <1>5, <2>1, <2>4, <3>1 DEF Reading
    <3>3. \A j \in 1 .. search.rows : j \in 1 .. Len(x) /\ x[j] \in 1 .. Len(b) /\ b[x[j]] = search.view[j]
      BY <1>5, <2>1 DEF Reading
    <3>4. search'.row \in 0 .. search.rows /\ (search'.row # 0 => search'.entry = x[search'.row])
      BY <2>3, <3>1, <3>2
    <3>5. search.read \in 0 .. search.rows /\ (search.read # 0 => search.line = search.view[search.read])
      BY <1>5 DEF Reading
    <3>6. \A f \in Files : Named(f)' /\ Contents(f)' \in Seq(Nat)
      BY <1>4, <1>5 DEF Reading
    <3> QED BY <1>3, <1>5, <2>2, <3>1, <3>3, <3>4, <3>5, <3>6 DEF Reading
  <2>6. CASE ReadRecord
    <3>1. /\ search'.row = 0 /\ search'.read = search.row /\ search.row # 0
          /\ search'.line = (IF search.entry \in DOMAIN b THEN b[search.entry] ELSE None)
      BY <2>1, <2>6 DEF ReadRecord, SearchHeld, SearchInv, Shaped, NoSearch
    <3>2. search.row \in 1 .. search.rows /\ search.entry = x[search.row]
      BY <1>5, <2>1, <2>3, <3>1 DEF Reading
    <3>3. search.entry \in 1 .. Len(b) /\ b[search.entry] = search.view[search.row]
      BY <1>5, <2>1, <3>2 DEF Reading
    <3>4. search'.line = search.view[search.row]
      BY <2>4, <3>1, <3>3
    <3> QED BY <1>3, <1>4, <1>5, <2>1, <2>2, <2>3, <3>1, <3>2, <3>4 DEF Reading
  <2> QED BY <2>5, <2>6
<1> QED BY <1>1, <1>2, <1>3, <1>5 DEF SearchHeld, SearchInv, Shaped

LEMMA ClearStarts == ASSUME FileNext, stage' \in ClearStages PROVE StartClear \/ stage \in ClearStages
BY DEF FileNext, PushLine, Rotate, StartRotation, RemoveColdBin, RemoveColdIdx, RenameBin,
       RenameIdx, CreateBin, RotationStep, FinishRotation, Spill, EnsureFlushed, FlushForHandoff,
       Clear, StartClear, CutIdx, CutColdBin, FinishClear, Close, Crash, Gone, Open, OpenFiles,
       ReflowOneTier, Reflow, ghosts, Idle, ClearStages

\* The files move on under the search.
LEMMA FileWorkStep == SearchHeld /\ FileWork => SearchHeld'
<1> SUFFICES ASSUME SearchHeld, FileWork PROVE SearchHeld'
  OBVIOUS
<1>1. Held' /\ FileNext
  BY HeldStep DEF SearchHeld, FileWork
<1>2. CASE stage' = "down" \/ ~search.on
  <2>1. search' = NoSearch
    BY <1>2 DEF FileWork
  <2>2. DOMAIN search' = DOMAIN NoSearch /\ ~search'.on /\ search'.read = 0
    BY <2>1 DEF NoSearch
  <2> QED BY <1>1, <2>2 DEF SearchHeld, SearchInv, Shaped
<1>3. CASE stage' # "down" /\ search.on
  <2>1. /\ DOMAIN search' = DOMAIN NoSearch /\ search'.on /\ search'.rows = search.rows
        /\ search'.row = search.row /\ search'.entry = search.entry /\ search'.read = search.read
        /\ search'.line = search.line /\ search'.view = search.view /\ search'.oneTier = search.oneTier
        /\ (search'.cut <=> search.cut \/ StartClear \/ Reflow)
        /\ \A f \in Files : search'.name[f] = NameAfter(f) /\ search'.kept[f] = KeptAfter(f)
    BY <1>3 DEF FileWork, SearchHeld, SearchInv, Shaped, NoSearch
  <2>2. stage' \in ClearStages => search'.cut
    BY <1>1, <1>3, <2>1, ClearStarts DEF SearchHeld, SearchInv
  <2>3. ASSUME search'.oneTier, ~search'.cut PROVE Reading'
    <3>1. Reading /\ ~StartClear /\ ~Reflow /\ stage \notin ClearStages \union {"down"}
      BY <1>3, <2>1, <2>3 DEF SearchHeld, SearchInv
    <3>2. PICK L : FileInv(L)
      BY DEF SearchHeld, Held
    <3>3. Disk(disk) /\ Disk(disk')
      BY <1>1, <3>2 DEF Held, FileInv, Types
    <3>4. \A f \in Files : Named(f)' /\ Contents(f)' \in Seq(Nat) /\ Begins(Contents(f), Contents(f)')
      <4> SUFFICES ASSUME NEW f \in Files
                   PROVE  Named(f)' /\ Contents(f)' \in Seq(Nat) /\ Begins(Contents(f), Contents(f)')
        OBVIOUS
      <4>1. Leads(disk, disk', f)
        BY <1>1, <1>3, <3>1, <3>2, FilesLead
      <4> QED BY <2>1, <3>1, <3>3, <4>1, ContentsGrow DEF Reading
    <3>5. PICK b \in Seq(Nat), x \in Seq(Nat), c \in Seq(Nat), y \in Seq(Nat) :
             /\ b = Contents("bin") /\ x = Contents("idx") /\ c = Contents("bin")' /\ y = Contents("idx")'
             /\ Begins(b, c) /\ Begins(x, y)
      BY <3>1, <3>4, FilesAre DEF Reading
    <3>6. Len(b) \in Nat /\ Len(x) \in Nat /\ Len(c) \in Nat /\ Len(y) \in Nat
      BY LenOf
    <3>7. \A i \in 1 .. search.rows : /\ i \in 1 .. Len(y) /\ y[i] = x[i] /\ y[i] \in 1 .. Len(c)
                                      /\ c[y[i]] = search.view[i]
      <4> SUFFICES ASSUME NEW i \in 1 .. search.rows
                   PROVE  /\ i \in 1 .. Len(y) /\ y[i] = x[i] /\ y[i] \in 1 .. Len(c)
                          /\ c[y[i]] = search.view[i]
        OBVIOUS
      <4>1. i \in 1 .. Len(x) /\ x[i] \in 1 .. Len(b) /\ b[x[i]] = search.view[i]
        BY <3>1, <3>5 DEF Reading
      <4>2. i \in 1 .. Len(y) /\ y[i] = x[i]
        <5>1. PICK n \in Nat, m \in Nat : n = Len(x) /\ m = Len(y)
          BY <3>6
        <5>2. n <= m /\ (\A j \in 1 .. n : y[j] = x[j]) /\ i \in 1 .. n
          BY <3>5, <4>1, <5>1 DEF Begins
        <5>3. i \in 1 .. m
          BY <5>2
        <5> QED BY <5>1, <5>2, <5>3
      <4>3. x[i] \in 1 .. Len(c) /\ c[x[i]] = b[x[i]]
        <5>1. PICK p : p = x[i]
          OBVIOUS
        <5>2. p \in 1 .. Len(b)
          BY <4>1, <5>1
        <5>3. p \in 1 .. Len(c) /\ c[p] = b[p]
          BY <3>5, <3>6, <5>2 DEF Begins
        <5> QED BY <5>1, <5>3
      <4> QED BY <4>1, <4>2, <4>3
    <3>8. search.rows \in Nat
      BY <3>1, LenOf DEF Reading
    <3>9. search.row \in 0 .. search.rows /\ (search.row # 0 => search.entry = y[search.row])
      <4>1. search.row \in 0 .. search.rows /\ (search.row # 0 => search.entry = x[search.row])
        BY <3>1, <3>5 DEF Reading
      <4> QED BY <3>7, <3>8, <4>1
    <3> QED BY <2>1, <3>1, <3>4, <3>5, <3>7, <3>9 DEF Reading
  <2> QED BY <1>1, <1>3, <2>1, <2>2, <2>3 DEF SearchHeld, SearchInv, Shaped
<1> QED BY <1>2, <1>3

\* A row a search has read is the line the history had there when it started:
\* what is open stays open under every rotation (for a history in one tier
\* that nobody has cut).
THEOREM SearchReadsHistory == SearchSpec => []SearchReadsItsHistory
<1>1. SearchInit => SearchHeld
  <2> SUFFICES ASSUME SearchInit PROVE SearchHeld
    OBVIOUS
  <2>1. Held
    BY HeldFirst DEF SearchInit
  <2>2. DOMAIN search = DOMAIN NoSearch /\ ~search.on /\ search.read = 0
    BY DEF SearchInit, NoSearch
  <2> QED BY <2>1, <2>2 DEF SearchHeld, SearchInv, Shaped
<1>2. SearchHeld /\ [SearchNext]_historyVars => SearchHeld'
  <2> SUFFICES ASSUME SearchHeld, [SearchNext]_historyVars PROVE SearchHeld'
    OBVIOUS
  <2>1. CASE SearchNext
    BY <2>1, StartSearchStep, ReadStep, FileWorkStep DEF SearchNext
  <2>2. CASE UNCHANGED historyVars
    <3>1. UNCHANGED fileVars /\ disk' = disk /\ stage' = stage /\ search' = search
      BY <2>2 DEF historyVars, fileVars
    <3>2. Held'
      BY <3>1, HeldStep DEF SearchHeld
    <3>3. \A f \in Files : Contents(f)' = Contents(f) /\ (Named(f)' <=> Named(f))
      BY <3>1 DEF Contents, Named
    <3>4. Reading => Reading'
      BY <3>1, <3>3, FilesAre DEF Reading
    <3> QED BY <3>1, <3>2, <3>4 DEF SearchHeld, SearchInv, Shaped
  <2> QED BY <2>1, <2>2
<1>3. SearchHeld => SearchReadsItsHistory
  BY DEF SearchHeld, SearchInv, SearchReadsItsHistory, Reading
<1> QED BY <1>1, <1>2, <1>3, PTL DEF SearchSpec

-----------------------------------------------------------------------------
(* Snapshots, and the order of lines. *)

Before(x, y) == Blank \in {x, y} \/ LineOf(x) < LineOf(y)

\* The front of a line has the line's place.
LEMMA CutBefore ==
    \A x, y \in Nat : Before(x, y) => /\ Before(CutShort(x), y) /\ Before(x, CutShort(y))
                                      /\ Before(CutShort(x), CutShort(y))
<1>1. Blank \in Nat
  BY CapTyped DEF Blank
<1>2. \A x \in Nat : CutShort(x) = Blank \/ LineOf(CutShort(x)) = LineOf(x)
  BY <1>1 DEF CutShort, LineOf
<1>3. CutShort(Blank) = Blank
  BY <1>1 DEF CutShort
<1> QED BY <1>2, <1>3 DEF Before

LEMMA IncreasingIs ==
    \A s \in Seq(Nat) : Increasing(s) <=> \A i, j \in 1 .. Len(s) : i < j => Before(s[i], s[j])
BY LenOf DEF Increasing, Before

\* A snapshot of lines of L.
Snap(s, L) == s.start \in Nat /\ s.lines \in Seq(Nat) /\ AllIn(s.lines, L)
\* The history v and the snapshot s are in one order, by their indexes.
Ordered(v, s) ==
    /\ Increasing(v) /\ Increasing(s.lines)
    /\ \A i \in 1 .. Len(v), k \in 1 .. Len(s.lines) : i < s.start + k => Before(v[i], s.lines[k])
\* s was taken of v, or says nothing.
Taken(v, s) ==
    \/ \A k \in 1 .. Len(s.lines) : s.lines[k] = Blank
    \/ /\ s.start + Len(s.lines) <= Len(v)
       /\ \A k \in 1 .. Len(s.lines) :
             s.lines[k] \in {Blank, v[s.start + k], CutShort(v[s.start + k])}
\* The lines t may be pushed onto v, in their order.
Queues(v, t) ==
    /\ Increasing(v) /\ Increasing(t)
    /\ \A i \in 1 .. Len(v), j \in 1 .. Len(t) : Before(v[i], t[j])
\* t is what is to be pushed of s, and comes to where it was.
Follows(t, v, s) ==
    s.start <= Len(v) /\ t = SubSeq(s.lines, Len(v) - s.start + 1, Len(s.lines))

\* A snapshot of a history in order is in order with it.
LEMMA TakenOrdered ==
    ASSUME NEW v \in Seq(Nat), NEW L, NEW s, Snap(s, L), Taken(v, s), Increasing(v)
    PROVE  Ordered(v, s)
<1>0. PICK n \in Nat, m \in Nat, f \in Nat, l \in Seq(Nat) :
         n = Len(v) /\ m = Len(s.lines) /\ f = s.start /\ l = s.lines
  BY LenOf DEF Snap
<1>1. \A i, j \in 1 .. n : i < j => Before(v[i], v[j])
  BY <1>0, IncreasingIs
<1>2. CASE \A k \in 1 .. m : l[k] = Blank
  <2>1. \A x : Before(x, Blank)
    BY DEF Before
  <2>2. Increasing(l)
    BY <1>0, <1>2, <2>1, IncreasingIs
  <2> QED BY <1>0, <1>2, <2>1, <2>2 DEF Ordered
<1>3. CASE f + m <= n /\ \A k \in 1 .. m : l[k] \in {Blank, v[f + k], CutShort(v[f + k])}
  <2>1. \A x : Before(x, Blank) /\ Before(Blank, x)
    BY DEF Before
  <2>2. \A k \in 1 .. m : f + k \in 1 .. n
    BY <1>3
  <2>3. \A j, k \in 1 .. m : j < k => Before(l[j], l[k])
    <3> SUFFICES ASSUME NEW j \in 1 .. m, NEW k \in 1 .. m, j < k PROVE Before(l[j], l[k])
      OBVIOUS
    <3>1. f + j < f + k
      OBVIOUS
    <3>2. Before(v[f + j], v[f + k])
      BY <1>1, <2>2, <3>1
    <3>3. v[f + j] \in Nat /\ v[f + k] \in Nat
      BY <1>0, <2>2, LenOf
    <3> QED BY <1>3, <2>1, <3>2, <3>3, CutBefore
  <2>4. Increasing(l)
    BY <1>0, <2>3, IncreasingIs
  <2>5. \A i \in 1 .. n, k \in 1 .. m : i < f + k => Before(v[i], l[k])
    <3> SUFFICES ASSUME NEW i \in 1 .. n, NEW k \in 1 .. m, i < f + k PROVE Before(v[i], l[k])
      OBVIOUS
    <3>1. Before(v[i], v[f + k])
      BY <1>1, <2>2
    <3>2. v[i] \in Nat /\ v[f + k] \in Nat
      BY <1>0, <2>2, LenOf
    <3> QED BY <1>3, <2>1, <3>1, <3>2, CutBefore
  <2> QED BY <1>0, <2>4, <2>5 DEF Ordered
<1> QED BY <1>0, <1>2, <1>3 DEF Taken

LEMMA TakenStays ==
    ASSUME NEW v \in Seq(Nat), NEW L, NEW s, Snap(s, L), Taken(v, s), NEW x \in Nat
    PROVE  Taken(Append(v, x), s)
<1>0. PICK n \in Nat, m \in Nat, f \in Nat : n = Len(v) /\ m = Len(s.lines) /\ f = s.start
  BY LenOf DEF Snap
<1>1. PICK w : w = Append(v, x)
  OBVIOUS
<1>2. Len(w) = n + 1 /\ \A j \in 1 .. n : w[j] = v[j]
  BY <1>0, <1>1, AddedIs
<1>3. f + m <= n => f + m <= n + 1 /\ \A k \in 1 .. m : f + k \in 1 .. n
  OBVIOUS
<1> QED BY <1>0, <1>1, <1>2, <1>3 DEF Taken

LEMMA OrderedPart ==
    ASSUME NEW v \in Seq(Nat), NEW L, NEW s, Snap(s, L), Ordered(v, s), NEW b \in 0 .. Len(v)
    PROVE  Ordered(SubSeq(v, 1, b), s)
<1>1. PICK w : w = SubSeq(v, 1, b)
  OBVIOUS
<1>2. Len(v) \in Nat
  BY LenOf
<1>3. w \in Seq(Nat) /\ Len(w) = b /\ \A j \in 1 .. b : w[j] = v[j]
  <2>1. b \in Nat /\ 1 <= b + 1 /\ b <= Len(v) /\ b + 1 - 1 = b /\ \A j \in 1 .. b : 1 - 1 + j = j
    BY <1>2
  <2> QED BY <1>1, <2>1, PartOf
<1>4. \A j \in 1 .. b : j \in 1 .. Len(v)
  BY <1>2
<1>5. Increasing(w)
  BY <1>3, <1>4, IncreasingIs DEF Ordered
<1> QED BY <1>1, <1>3, <1>4, <1>5 DEF Ordered

\* The next line of t is pushed.
LEMMA NextIs ==
    ASSUME NEW v \in Seq(Nat), NEW t \in Seq(Nat), t # <<>>
    PROVE  /\ Head(t) \in Nat /\ Tail(t) \in Seq(Nat) /\ Append(v, Head(t)) \in Seq(Nat)
           /\ Len(t) \in Nat /\ Len(t) >= 1 /\ Len(Tail(t)) = Len(t) - 1 /\ Head(t) = t[1]
           /\ \A j \in 1 .. Len(t) - 1 : Tail(t)[j] = t[j + 1]
           /\ Len(Append(v, Head(t))) = Len(v) + 1 /\ Append(v, Head(t))[Len(v) + 1] = t[1]
           /\ \A j \in 1 .. Len(v) : Append(v, Head(t))[j] = v[j]
<1>1. Len(t) \in Nat /\ Len(t) >= 1
  BY LenOf, EmptySeq
<1>2. Head(t) = t[1] /\ t[1] \in Nat
  BY <1>1, LenOf, HeadTailProperties
<1>3. Tail(t) \in Seq(Nat) /\ Len(Tail(t)) = Len(t) - 1 /\ \A j \in 1 .. Len(t) - 1 : Tail(t)[j] = t[j + 1]
  BY HeadTailProperties
<1> QED BY <1>1, <1>2, <1>3, AddedIs

LEMMA QueueMoves ==
    ASSUME NEW v \in Seq(Nat), NEW t \in Seq(Nat), t # <<>>, Queues(v, t)
    PROVE  Queues(Append(v, Head(t)), Tail(t))
<1>a. PICK w \in Seq(Nat), r \in Seq(Nat) : w = Append(v, Head(t)) /\ r = Tail(t)
  BY NextIs
<1>b. PICK n \in Nat, m \in Nat : n = Len(v) /\ m = Len(t)
  BY LenOf
<1>c. m >= 1
  BY <1>b, NextIs
<1>1. /\ w = Append(v, Head(t)) /\ r = Tail(t) /\ n = Len(v) /\ m = Len(t) /\ m >= 1
      /\ Len(w) = n + 1 /\ Len(r) = m - 1 /\ w[n + 1] = t[1]
      /\ \A j \in 1 .. n : w[j] = v[j]
      /\ \A j \in 1 .. m - 1 : r[j] = t[j + 1]
  BY <1>a, <1>b, <1>c, NextIs
<1>2. /\ \A i, j \in 1 .. n : i < j => Before(v[i], v[j])
      /\ \A i, j \in 1 .. m : i < j => Before(t[i], t[j])
      /\ \A i \in 1 .. n, j \in 1 .. m : Before(v[i], t[j])
  BY <1>1, IncreasingIs DEF Queues
<1>3. \A i, j \in 1 .. n + 1 : i < j => Before(w[i], w[j])
  <2> SUFFICES ASSUME NEW i \in 1 .. n + 1, NEW j \in 1 .. n + 1, i < j PROVE Before(w[i], w[j])
    OBVIOUS
  <2>1. i \in 1 .. n /\ (j \in 1 .. n \/ j = n + 1) /\ 1 \in 1 .. m
    BY <1>c
  <2> QED BY <1>1, <1>2, <2>1
<1>4. \A i, j \in 1 .. m - 1 : i < j => Before(r[i], r[j])
  <2> SUFFICES ASSUME NEW i \in 1 .. m - 1, NEW j \in 1 .. m - 1, i < j PROVE Before(r[i], r[j])
    OBVIOUS
  <2>1. i + 1 \in 1 .. m /\ j + 1 \in 1 .. m /\ i + 1 < j + 1
    OBVIOUS
  <2> QED BY <1>1, <1>2, <2>1
<1>5. \A i \in 1 .. n + 1, j \in 1 .. m - 1 : Before(w[i], r[j])
  <2> SUFFICES ASSUME NEW i \in 1 .. n + 1, NEW j \in 1 .. m - 1 PROVE Before(w[i], r[j])
    OBVIOUS
  <2>1. (i \in 1 .. n \/ i = n + 1) /\ j + 1 \in 1 .. m /\ 1 \in 1 .. m /\ 1 < j + 1
    BY <1>c
  <2> QED BY <1>1, <1>2, <2>1
<1> QED BY <1>1, <1>3, <1>4, <1>5, IncreasingIs DEF Queues

\* t is what is behind the first g of the p lines of l; it has q of them.
Rest(t, l, g, p, q) ==
    /\ t = SubSeq(l, g + 1, p) /\ t \in Seq(Nat) /\ Len(t) = q
    /\ g <= p => g + q = p
    /\ g > p => q = 0
    /\ \A j \in 1 .. q : t[j] = l[g + j] /\ g + j \in 1 .. p

LEMMA RestIs ==
    ASSUME NEW l \in Seq(Nat), NEW g \in Nat, NEW p \in Nat, p = Len(l),
           NEW t, t = SubSeq(l, g + 1, p)
    PROVE  \E q \in Nat : Rest(t, l, g, p, q)
<1>1. CASE g > p
  <2>1. g + 1 > p /\ ~ (g <= p)
    BY <1>1
  <2>2. t = <<>>
    BY <2>1, SubSeqEmpty
  <2>3. t \in Seq(Nat) /\ Len(t) = 0
    BY <2>2, EmptySeq
  <2>4. Rest(t, l, g, p, 0)
    BY <1>1, <2>1, <2>3 DEF Rest
  <2> QED BY <2>3, <2>4
<1>2. CASE g <= p
  <2>0. p - g \in Nat
    BY <1>2
  <2>1. PICK q \in Nat : q = p - g
    BY <2>0
  <2>2. PICK h \in Nat : h = g + 1
    OBVIOUS
  <2>3. h >= 1 /\ h <= p + 1 /\ p + 1 - h = q /\ h - 1 = g /\ g + q = p
    BY <1>2, <2>1, <2>2
  <2>4. /\ SubSeq(l, h, p) \in Seq(Nat) /\ Len(SubSeq(l, h, p)) = p + 1 - h
        /\ \A j \in 1 .. p + 1 - h : SubSeq(l, h, p)[j] = l[h - 1 + j]
    <3>1. l \in Seq(Nat) /\ h \in Nat /\ p \in Nat /\ h >= 1 /\ p <= Len(l) /\ h <= p + 1
      BY <2>3
    <3> QED BY ONLY <3>1, PartOf
  <2>5. t \in Seq(Nat) /\ Len(t) = q /\ \A j \in 1 .. q : t[j] = l[g + j]
    BY <2>2, <2>3, <2>4
  <2>6. \A j \in 1 .. q : g + j \in 1 .. p
    BY <2>3
  <2>7. ~ (g > p)
    BY <1>2
  <2> QED BY <2>3, <2>5, <2>6, <2>7 DEF Rest
<1> QED BY <1>1, <1>2

LEMMA OrderMoves ==
    ASSUME NEW v \in Seq(Nat), NEW L, NEW s, Snap(s, L), NEW t \in Seq(Nat), t # <<>>,
           Ordered(v, s), Follows(t, v, s)
    PROVE  Ordered(Append(v, Head(t)), s) /\ Follows(Tail(t), Append(v, Head(t)), s)
<1>a. PICK w \in Seq(Nat), r \in Seq(Nat) : w = Append(v, Head(t)) /\ r = Tail(t)
  BY NextIs
<1>b. PICK n \in Nat, m \in Nat, f \in Nat, l \in Seq(Nat), p \in Nat :
         n = Len(v) /\ m = Len(t) /\ f = s.start /\ l = s.lines /\ p = Len(l)
  BY LenOf DEF Snap
<1>1. /\ m >= 1 /\ Len(w) = n + 1 /\ Len(r) = m - 1 /\ w[n + 1] = t[1]
      /\ \A j \in 1 .. n : w[j] = v[j]
      /\ \A j \in 1 .. m - 1 : r[j] = t[j + 1]
  BY <1>a, <1>b, NextIs
<1>2. f <= n /\ t = SubSeq(l, n - f + 1, p)
  BY <1>b DEF Follows
<1>3. PICK g \in Nat : g = n - f
  BY <1>2
<1>4. g + m = p /\ g + 1 <= p /\ \A j \in 1 .. m : t[j] = l[g + j]
  <2>1. PICK q \in Nat : Rest(t, l, g, p, q)
    <3>1. t = SubSeq(l, g + 1, p)
      BY <1>2, <1>3
    <3> QED BY <1>b, <3>1, RestIs
  <2>2. /\ g <= p => g + m = p
        /\ g > p => m = 0
        /\ \A j \in 1 .. m : t[j] = l[g + j]
    BY <1>b, <2>1 DEF Rest
  <2>3. g + 1 <= p
    BY <1>1, <2>2
  <2> QED BY <2>2, <2>3
<1>5. /\ \A i, j \in 1 .. n : i < j => Before(v[i], v[j])
      /\ \A i, j \in 1 .. p : i < j => Before(l[i], l[j])
      /\ \A i \in 1 .. n, k \in 1 .. p : i < f + k => Before(v[i], l[k])
  BY <1>b, IncreasingIs DEF Ordered
<1>6. w[n + 1] = l[g + 1] /\ g + 1 \in 1 .. p
  <2>1. 1 \in 1 .. m
    BY <1>1
  <2> QED BY <1>1, <1>4, <2>1
<1>7. \A i \in 1 .. n + 1, k \in 1 .. p : i < f + k => Before(w[i], l[k])
  <2> SUFFICES ASSUME NEW i \in 1 .. n + 1, NEW k \in 1 .. p, i < f + k PROVE Before(w[i], l[k])
    OBVIOUS
  <2>1. CASE i = n + 1
    <3>1. g + 1 < k
      BY <1>2, <1>3, <2>1
    <3> QED BY <1>5, <1>6, <2>1, <3>1
  <2>2. CASE i \in 1 .. n
    BY <1>1, <1>5, <2>2
  <2> QED BY <2>1, <2>2
<1>8. \A i, j \in 1 .. n + 1 : i < j => Before(w[i], w[j])
  <2> SUFFICES ASSUME NEW i \in 1 .. n + 1, NEW j \in 1 .. n + 1, i < j PROVE Before(w[i], w[j])
    OBVIOUS
  <2>1. i \in 1 .. n /\ (j \in 1 .. n \/ j = n + 1)
    OBVIOUS
  <2>2. i < f + (g + 1)
    BY <1>2, <1>3, <2>1
  <2> QED BY <1>1, <1>5, <1>6, <2>1, <2>2
<1>9. Ordered(w, s)
  <2>1. Increasing(w) /\ Increasing(l)
    BY <1>1, <1>5, <1>8, <1>b, IncreasingIs
  <2> QED BY <1>1, <1>7, <1>b, <2>1 DEF Ordered
<1>10. Follows(r, w, s)
  <2>1. PICK h \in Nat : h = g + 1
    OBVIOUS
  <2>2. h <= p /\ n + 1 - f = h /\ f <= n + 1
    BY <1>2, <1>3, <1>4, <2>1
  <2>a. PICK u : u = SubSeq(l, h + 1, p)
    OBVIOUS
  <2>b. PICK q \in Nat : Rest(u, l, h, p, q)
    BY <1>b, <2>a, RestIs
  <2>3. u = SubSeq(l, h + 1, p) /\ u \in Seq(Nat) /\ h + q = p /\ Len(u) = q /\ \A j \in 1 .. q : u[j] = l[h + j]
    BY <2>2, <2>a, <2>b DEF Rest
  <2>4. q = m - 1
    BY <1>1, <1>4, <2>1, <2>3
  <2>5. \A j \in 1 .. q : r[j] = l[h + j]
    <3>1. \A j \in 1 .. m - 1 : j + 1 \in 1 .. m /\ g + (j + 1) = h + j
      BY <2>1
    <3> QED BY <1>1, <1>4, <2>4, <3>1
  <2>6. r = u
    BY <1>1, <2>3, <2>4, <2>5, SameSeq
  <2>7. Len(w) = n + 1 /\ s.start = f /\ s.lines = l /\ Len(s.lines) = p
    BY <1>1, <1>b
  <2>8. s.start <= Len(w) /\ Len(w) - s.start + 1 = h + 1
    BY <2>2, <2>7
  <2> QED BY <2>3, <2>6, <2>7, <2>8 DEF Follows
<1> QED BY <1>a, <1>9, <1>10

\* The lines replayed over a history that is in order with the snapshot.
LEMMA ReplayIs ==
    ASSUME NEW v \in Seq(Nat), NEW L, NEW s, Snap(s, L), NEW n \in Nat, n = Len(v)
    PROVE  /\ Replay(s, n) \in Seq(Nat) /\ AllIn(Replay(s, n), L)
           /\ s.start <= n => Follows(Replay(s, n), v, s)
           /\ Ordered(v, s) => Queues(v, Replay(s, n))
<1>b. PICK f \in Nat, l \in Seq(Nat), p \in Nat : f = s.start /\ l = s.lines /\ p = Len(l)
  BY LenOf DEF Snap
<1>1. PICK g \in Nat : (n > f => g = n - f) /\ (~ (n > f) => g = 0)
  <2>1. n > f => n - f \in Nat
    OBVIOUS
  <2> QED BY <2>1
<1>2. PICK t : t = SubSeq(l, g + 1, p)
  OBVIOUS
<1>3. t = Replay(s, n)
  BY <1>1, <1>2, <1>b DEF Replay
<1>4. PICK q \in Nat : Rest(t, l, g, p, q)
  BY <1>2, <1>b, RestIs
<1>5. t \in Seq(Nat) /\ Len(t) = q /\ \A j \in 1 .. q : t[j] = l[g + j] /\ g + j \in 1 .. p
  BY <1>4 DEF Rest
<1>6. \A j \in 1 .. q : g + j \in 1 .. p
  BY <1>5
<1>7. AllIn(t, L)
  BY <1>5, <1>6, <1>b DEF AllIn, Snap
<1>8. ASSUME f <= n PROVE Follows(t, v, s)
  <2>1. g = n - f
    BY <1>1, <1>8
  <2> QED BY <1>2, <1>8, <1>b, <2>1 DEF Follows
<1>9. ASSUME Ordered(v, s) PROVE Queues(v, t)
  <2>1. /\ Increasing(v)
        /\ \A i, j \in 1 .. p : i < j => Before(l[i], l[j])
        /\ \A i \in 1 .. n, k \in 1 .. p : i < f + k => Before(v[i], l[k])
    BY <1>9, <1>b, IncreasingIs DEF Ordered
  <2>2. \A i, j \in 1 .. q : i < j => Before(t[i], t[j])
    <3>1. \A i, j \in 1 .. q : i < j => g + i < g + j
      OBVIOUS
    <3> QED BY <1>5, <1>6, <2>1, <3>1
  <2>3. \A i \in 1 .. n, j \in 1 .. q : Before(v[i], t[j])
    <3>1. \A i \in 1 .. n, j \in 1 .. q : i < f + (g + j)
      BY <1>1
    <3> QED BY <1>5, <1>6, <2>1, <3>1
  <2> QED BY <1>5, <2>1, <2>2, <2>3, IncreasingIs DEF Queues
<1> QED BY <1>3, <1>5, <1>7, <1>8, <1>9, <1>b

\* A line of a snapshot: the one that is read there, or a blank one.
Line(i) == IF ReadLine(i) = None THEN Blank ELSE ReadLine(i)

\* The snapshot has k lines behind the first f.
Cut(cap, f, k) == /\ Serialize(cap).start = f
                  /\ Serialize(cap).lines = [i \in 1 .. k |-> Line(f + i)]

LEMMA SerializeParts ==
    ASSUME NEW cap \in Nat, NEW t \in Nat, t = total
    PROVE  \E f \in Nat, k \in Nat : f + k = t /\ (t <= cap => f = 0) /\ Cut(cap, f, k)
<1>1. PICK k \in Nat : k = Min({cap, t}) /\ k <= t /\ (t <= cap => k = t)
  <2>1. CASE cap <= t
    BY <2>1, MinOfTwo
  <2>2. CASE ~ (cap <= t)
    BY <2>2, MinOfTwo
  <2> QED BY <2>1, <2>2
<1>2. t - k \in Nat
  BY <1>1
<1>3. PICK f \in Nat : f = t - k
  BY <1>2
<1>4. f + k = t /\ (t <= cap => f = 0)
  BY <1>1, <1>3
<1>5. Serialize(cap) = [start |-> f, lines |-> [i \in 1 .. k |-> Line(f + i)]]
  BY <1>1, <1>3 DEF Serialize, Line
<1>6. Cut(cap, f, k)
  BY <1>5 DEF Cut
<1> QED BY <1>4, <1>6

LEMMA LineIs ==
    ASSUME NEW L, Types, Fresh(L), Running(L), NEW i \in 1 .. total
    PROVE  Line(i) \in {Blank, view[i], CutShort(view[i])} /\ Line(i) \in Nat /\ Line(i) \in L
           /\ (ReadLine(i) = view[i] => Line(i) = view[i])
<1>1. PICK v \in Seq(Nat), t \in Nat : v = view /\ t = total
  BY DEF Types
<1>2. t = Len(v) /\ AllIn(v, L)
  BY <1>1 DEF Running, InMemory
<1>3. v[i] \in Nat /\ v[i] \in L /\ v[i] # 0
  BY <1>1, <1>2, LenOf DEF AllIn, Fresh, Lined
<1>4. Blank \in Nat /\ Blank \in L /\ L \subseteq Nat /\ \A n \in L : CutShort(n) \in L
  BY CapTyped DEF Blank, Fresh, Lined
<1>5. ReadLine(i) \in {None, v[i], CutShort(v[i])}
  BY <1>1, ReadIs DEF Finds
<1> QED BY <1>1, <1>3, <1>4, <1>5 DEF Line, None

\* A snapshot is taken of the history.
LEMMA SerializeIs ==
    ASSUME NEW L, FileInv(L), stage = "run", NEW cap \in Nat
    PROVE  Snap(Serialize(cap), L) /\ Taken(view, Serialize(cap))
<1>1. Types /\ Fresh(L) /\ Running(L)
  BY DEF FileInv
<1>2. PICK v \in Seq(Nat), t \in Nat : v = view /\ t = total /\ t = Len(v)
  BY <1>1 DEF Types, Running, InMemory
<1>a. PICK f \in Nat, k \in Nat : f + k = t /\ Cut(cap, f, k)
  BY <1>2, SerializeParts
<1>3. /\ f + k = t
      /\ Serialize(cap).start = f /\ Serialize(cap).lines = [i \in 1 .. k |-> Line(f + i)]
  BY <1>a DEF Cut
<1>4. PICK l : l = [i \in 1 .. k |-> Line(f + i)]
  OBVIOUS
<1>5. ASSUME NEW i \in 1 .. k PROVE l[i] \in {Blank, v[f + i], CutShort(v[f + i])} /\ l[i] \in Nat /\ l[i] \in L
  <2>1. f + i \in 1 .. total
    BY <1>2, <1>3
  <2> QED BY <1>1, <1>2, <1>4, <2>1, LineIs
<1>6. l \in Seq(Nat) /\ Len(l) = k
  <2>1. l \in [1 .. k -> Nat]
    <3>1. l = [i \in 1 .. k |-> l[i]]
      BY <1>4
    <3> QED BY <1>5, <3>1
  <2>2. l \in Seq(Nat)
    BY <2>1, SeqDef
  <2> QED BY <2>1, <2>2, LenOf, LenProperties
<1>7. PICK s : s = Serialize(cap)
  OBVIOUS
<1>8. s.start = f /\ s.lines = l
  BY <1>3, <1>4, <1>7
<1>9. Snap(s, L)
  BY <1>5, <1>6, <1>8 DEF Snap, AllIn
<1>10. Taken(v, s)
  <2>1. s.start + Len(s.lines) <= Len(v)
    BY <1>2, <1>3, <1>6, <1>8
  <2>2. \A i \in 1 .. Len(s.lines) : s.lines[i] \in {Blank, v[s.start + i], CutShort(v[s.start + i])}
    BY <1>5, <1>6, <1>8
  <2> QED BY <2>1, <2>2 DEF Taken
<1> QED BY <1>2, <1>7, <1>9, <1>10

\* A last snapshot is the history, when every line of it can be read.
LEMMA WholeSerialized ==
    ASSUME NEW L, FileInv(L), stage = "run", coldFirst = 0, Readable
    PROVE  Serialize(total).start = 0 /\ Serialize(total).lines = view
<1>1. Types /\ Fresh(L) /\ Running(L)
  BY DEF FileInv
<1>2. PICK v \in Seq(Nat), t \in Nat : v = view /\ t = total /\ t = Len(v)
  BY <1>1 DEF Types, Running, InMemory
<1>a. PICK f \in Nat, k \in Nat : f + k = t /\ f = 0 /\ Cut(t, f, k)
  <2>1. t <= t
    OBVIOUS
  <2> QED BY <1>2, <2>1, SerializeParts
<1>3. /\ f + k = t /\ f = 0
      /\ Serialize(t).start = f /\ Serialize(t).lines = [i \in 1 .. k |-> Line(f + i)]
  BY <1>a DEF Cut
<1>4. k = t /\ \A i \in 1 .. t : f + i = i
  BY <1>3
<1>5. ASSUME NEW i \in 1 .. t PROVE Line(i) = v[i]
  <2>1. i \in coldFirst + 1 .. total
    BY <1>2
  <2>2. ReadLine(i) = view[i]
    BY <2>1 DEF Readable
  <2> QED BY <1>1, <1>2, <2>2, LineIs
<1>6. v = [i \in 1 .. t |-> v[i]]
  <2>1. DOMAIN v = 1 .. t
    BY <1>2, LenOf
  <2>2. v \in [1 .. Len(v) -> Nat]
    BY LenProperties
  <2> QED BY <1>2, <2>2
<1>7. Serialize(t).lines = v
  BY <1>3, <1>4, <1>5, <1>6
<1> QED BY <1>2, <1>3, <1>7

-----------------------------------------------------------------------------
(* The hand-over: what a snapshot and the files say of each other. *)

\* No line of the snapshot was cleared.
Live(s, c) == \A k \in 1 .. Len(s.lines) : LineOf(s.lines[k]) > c
\* The lines made so far, and the blank one.
UpTo(p) == {n \in Nat : 0 < LineOf(n) /\ LineOf(n) <= p} \union {Blank}
Made(L) == L = UpTo(pushed)
Settled == ~applying /\ stage \notin ClearStages \union {"down"}
\* What the two properties ask of the process that ended.
Kept == LeftAlone /\ last.readable /\ ~last.shifted
Good == ~last.shifted /\ last.ordered /\ Live(stateBin, cleared)

\* When the process works, is about to go, is gone, restores.
LastFields == {"how", "view", "shifted", "ordered", "readable", "alone", "gap"}
Phases ==
    /\ DOMAIN last = LastFields
    /\ leaving => stage = "run" /\ todo = <<>> /\ ~applying
    /\ applying => stage \notin ClearStages \union {"down"}
    /\ applying \/ stage = "down" => job = NoSnapshot

\* The whole history goes from one process to the next: it is in the
\* snapshot, a start of it is in the files, and the rest is pushed back.
Passing == Kept =>
    /\ leaving => view = last.view /\ coldFirst = 0 /\ job = NoSnapshot
    /\ leaving \/ stage = "down" \/ applying => stateBin.start = 0 /\ stateBin.lines = last.view
    /\ stage = "down" => \E b \in 0 .. Len(last.view) : Found(disk) = SubSeq(last.view, 1, b)
    /\ applying => view \o todo = last.view

\* A snapshot is one of the history there is, and what a process leaves in
\* the files is in order with the snapshot it leaves.
Ordering ==
    /\ leaving => (~last.shifted => coldFirst = 0) /\ (last.ordered => Increasing(view))
    /\ Settled => /\ Live(stateBin, cleared) => Taken(view, stateBin)
                  /\ Live(job, cleared) => Taken(view, job)
    /\ stage = "down" /\ Good => Ordered(Found(disk), stateBin)
    /\ applying /\ Good => Queues(view, todo)
    /\ applying /\ Good /\ ~last.gap => Ordered(view, stateBin) /\ Follows(todo, view, stateBin)

RestoreInv(L) == /\ FileInv(L) /\ Snap(stateBin, L) /\ Snap(job, L)
                 /\ Phases /\ Passing /\ Ordering

\* More lines may be held.
LEMMA MoreLines ==
    ASSUME NEW L, FileInv(L), NEW M, L \subseteq M, Lined(M)
    PROVE  FileInv(M) /\ \A s : Snap(s, L) => Snap(s, M)
<1>1. \A s : (AllIn(s, L) => AllIn(s, M)) /\ (Clean(s, L) => Clean(s, M))
  BY DEF AllIn, Clean
<1>2. Fresh(L) => Fresh(M)
  BY <1>1 DEF Fresh, CleanDisk
<1>3. InMemory(view, ring, total, hotFirst, L) => InMemory(view, ring, total, hotFirst, M)
  BY <1>1 DEF InMemory
<1>4. (Running(L) => Running(M)) /\ (Rotating(L) => Rotating(M))
  BY <1>1, <1>3 DEF Running, Rotating
<1>5. \A s : Snap(s, L) => Snap(s, M)
  BY <1>1 DEF Snap
<1> QED BY <1>2, <1>4, <1>5 DEF FileInv

\* A step that leaves the history alone.
Quiet == /\ view' = view /\ todo' = todo /\ coldFirst' = coldFirst /\ cleared' = cleared
         /\ pushed' = pushed /\ stage # "down" /\ stage' # "down"
         /\ stage' \in ClearStages <=> stage \in ClearStages
\* A step that adds x to it.
Adds(x) == /\ view' = Append(view, x) /\ cleared' = cleared /\ stage' = "run"
           /\ stage \notin ClearStages \union {"down"}
           /\ todo # <<>> => x = Head(todo) /\ todo' = Tail(todo) /\ pushed' = pushed
           /\ todo = <<>> => todo' = todo /\ x = pushed + 1 /\ pushed' = x

LEMMA QuietSteps ==
    /\ StartRotation \/ RemoveColdBin \/ RemoveColdIdx \/ RenameBin \/ RenameIdx \/ CreateBin => Quiet
    /\ EnsureFlushed \/ FlushForHandoff => Quiet /\ stage' = stage
    /\ \A f \in Files : Spill(f) => Quiet /\ stage' = stage
BY DEF StartRotation, RemoveColdBin, RemoveColdIdx, RenameBin, RenameIdx, CreateBin, RotationStep,
       EnsureFlushed, FlushForHandoff, Spill, Quiet, ghosts, memory, Idle, ClearStages

LEMMA PushSteps == PushLine \/ FinishRotation => \E x \in Lines : Adds(x)
BY DEF PushLine, FinishRotation, TakeLine, AppendLine, Adds, ClearStages

-----------------------------------------------------------------------------
(* The steps of a process that works, leaves, is gone and restores. *)

LEMMA QuietStep ==
    ASSUME NEW L, RestoreInv(L), FileInv(L)', Quiet, UNCHANGED restoreVars, leaving => stage' = stage
    PROVE  RestoreInv(L)'
<1>1. /\ view' = view /\ todo' = todo /\ coldFirst' = coldFirst /\ cleared' = cleared
      /\ stateBin' = stateBin /\ job' = job /\ applying' = applying /\ leaving' = leaving /\ last' = last
  BY DEF Quiet, restoreVars
<1>2. Kept' = Kept /\ Good' = Good /\ (Settled' <=> Settled)
  BY <1>1 DEF Kept, Good, LeftAlone, Settled, Quiet
<1>3. Phases'
  BY <1>1 DEF RestoreInv, Phases, Quiet
<1>4. Passing'
  BY <1>1, <1>2 DEF RestoreInv, Passing, Quiet
<1>5. Ordering'
  BY <1>1, <1>2 DEF RestoreInv, Ordering, Quiet
<1> QED BY <1>1, <1>3, <1>4, <1>5 DEF RestoreInv

LEMMA SnapMore == ASSUME NEW L, NEW M, L \subseteq M, NEW s, Snap(s, L) PROVE Snap(s, M)
BY DEF Snap, AllIn

\* Moving the first line over changes nothing of the whole.
LEMMA MovedOver ==
    ASSUME NEW v \in Seq(Nat), NEW t \in Seq(Nat), t # <<>>
    PROVE  Append(v, Head(t)) \o Tail(t) = v \o t
<1>a. PICK x \in Nat, r \in Seq(Nat) : x = Head(t) /\ r = Tail(t)
  BY NextIs
<1>c. <<x>> \in Seq(Nat)
  OBVIOUS
<1>b. PICK o \in Seq(Nat) : o = <<x>>
  BY <1>c
<1>1. Append(v, x) = v \o o
  BY <1>b, AppendIsConcat
<1>2. t = o \o r
  BY <1>a, <1>b, HeadTailProperties
<1>3. (v \o o) \o r = v \o (o \o r)
  BY Regroups
<1> QED BY <1>a, <1>1, <1>2, <1>3

LEMMA AddsStep ==
    ASSUME NEW L, RestoreInv(L), NEW M, L \subseteq M, FileInv(M)', NEW x \in Nat, Adds(x),
           UNCHANGED restoreVars, ~leaving, todo # <<>> \/ ~applying
    PROVE  RestoreInv(M)'
<1>1. /\ view' = Append(view, x) /\ cleared' = cleared /\ stage' = "run"
      /\ stage \notin ClearStages \union {"down"} /\ "run" \notin ClearStages \union {"down"}
      /\ stateBin' = stateBin /\ job' = job /\ applying' = applying /\ leaving' = leaving /\ last' = last
  BY DEF Adds, restoreVars, ClearStages
<1>2. Kept' = Kept /\ Good' = Good /\ (Settled <=> ~applying) /\ (Settled' <=> ~applying)
  BY <1>1 DEF Kept, Good, LeftAlone, Settled
<1>3. /\ Snap(stateBin, L) /\ Snap(job, L) /\ view \in Seq(Nat) /\ todo \in Seq(Nat)
      /\ Phases /\ Passing /\ Ordering
  BY DEF RestoreInv, FileInv, Types
<1>4. applying => todo # <<>> /\ x = Head(todo) /\ todo' = Tail(todo)
  BY DEF Adds
<1>5. Phases'
  BY <1>1, <1>3, <1>4 DEF Phases
<1>6. Passing'
  <2>1. applying => Append(view, x) \o todo' = view \o todo
    BY <1>3, <1>4, MovedOver
  <2> QED BY <1>1, <1>2, <1>3, <2>1 DEF Passing
<1>7. Ordering'
  <2>a. PICK v \in Seq(Nat), t \in Seq(Nat) : v = view /\ t = todo
    BY <1>3
  <2>b. PICK s, j : s = stateBin /\ j = job
    OBVIOUS
  <2>1. v = view /\ t = todo /\ s = stateBin /\ j = job
    BY <2>a, <2>b
  <2>2. Settled => /\ Live(s, cleared) => Taken(Append(v, x), s)
                   /\ Live(j, cleared) => Taken(Append(v, x), j)
    BY <1>3, <2>1, TakenStays DEF Ordering
  <2>3. ASSUME applying, Good PROVE Queues(Append(v, x), todo')
    BY <1>3, <1>4, <2>1, <2>3, QueueMoves DEF Ordering
  <2>4. ASSUME applying, Good, ~last.gap
        PROVE  Ordered(Append(v, x), s) /\ Follows(todo', Append(v, x), s)
    BY <1>3, <1>4, <2>1, <2>4, OrderMoves DEF Ordering
  <2> QED BY <1>1, <1>2, <2>1, <2>2, <2>3, <2>4 DEF Ordering
<1> QED BY <1>1, <1>3, <1>5, <1>6, <1>7, SnapMore DEF RestoreInv

LEMMA UpToIs ==
    ASSUME NEW p \in Nat, p <= MaxPush
    PROVE  Lined(UpTo(p)) /\ \A q \in Nat : q <= p => UpTo(q) \subseteq UpTo(p)
<1>1. \A n \in Nat : LineOf(n) \in Nat
  BY CapTyped DEF LineOf, Blank
<1>2. \A q \in Nat : q <= p => UpTo(q) \subseteq UpTo(p)
  BY <1>1 DEF UpTo
<1>3. Lined(UpTo(p))
  BY CapTyped DEF UpTo, Lined, LineOf, CutShort, Blank
<1> QED BY <1>2, <1>3

LEMMA EmptySnapshot == \A L : Lined(L) => Snap(NoSnapshot, L) /\ \A v : Taken(v, NoSnapshot)
<1>1. <<>> \in Seq(Nat) /\ Len(<<>>) = 0
  BY EmptySeq
<1>2. 1 .. 0 = {}
  OBVIOUS
<1> QED BY <1>1, <1>2, LinedIs DEF NoSnapshot, Snap, AllIn, Taken

\* What is left of a snapshot when all there was is cleared.
LEMMA NothingLive ==
    ASSUME NEW L, Made(L), pushed \in Nat, NEW s, Snap(s, L), Live(s, pushed), NEW v
    PROVE  Taken(v, s)
<1>1. \A k \in 1 .. Len(s.lines) : s.lines[k] \in L /\ LineOf(s.lines[k]) > pushed
  BY DEF Snap, AllIn, Live
<1>2. \A n \in L : LineOf(n) > pushed => n = Blank
  <2> SUFFICES ASSUME NEW n \in Nat, LineOf(n) > pushed, LineOf(n) <= pushed PROVE FALSE
    BY DEF Made, UpTo
  <2>1. LineOf(n) \in Nat
    BY CapTyped DEF LineOf, Blank
  <2> QED BY <2>1
<1> QED BY <1>1, <1>2 DEF Taken

LEMMA ClearsStep ==
    ASSUME NEW L, Made(L), RestoreInv(L), FileInv(L)', Clear, UNCHANGED restoreVars, ~leaving, ~applying
    PROVE  RestoreInv(L)'
<1>1. /\ stateBin' = stateBin /\ job' = job /\ applying' = applying /\ leaving' = leaving /\ last' = last
      /\ Snap(stateBin, L) /\ Snap(job, L) /\ ~leaving' /\ ~applying'
  BY DEF restoreVars, RestoreInv
<1>2. stage' # "down" /\ (stage' \in ClearStages \/ cleared' = pushed)
  BY DEF Clear, StartClear, CutIdx, CutColdBin, FinishClear, ClearStages
<1>3. Phases'
  BY <1>1, <1>2 DEF Phases, RestoreInv
<1>4. Passing'
  BY <1>1, <1>2 DEF Passing
<1>5. Ordering'
  <2>1. pushed \in Nat
    BY Counts DEF RestoreInv, FileInv
  <2>2. PICK s, j : s = stateBin /\ j = job
    OBVIOUS
  <2>3. \A v : (Live(s, pushed) => Taken(v, s)) /\ (Live(j, pushed) => Taken(v, j))
    BY <1>1, <2>1, <2>2, NothingLive
  <2> QED BY <1>1, <1>2, <2>2, <2>3 DEF Ordering, Settled
<1> QED BY <1>1, <1>3, <1>4, <1>5 DEF RestoreInv

LEMMA WriteStep ==
    ASSUME NEW L, RestoreInv(L), FileInv(L)', WriteSnapshot
    PROVE  RestoreInv(L)'
<1>1. /\ stateBin' = job /\ job' = NoSnapshot /\ job # NoSnapshot /\ stage # "down" /\ stage' = stage
      /\ applying' = applying /\ leaving' = leaving /\ last' = last /\ todo' = todo
      /\ view' = view /\ coldFirst' = coldFirst /\ cleared' = cleared
  BY DEF WriteSnapshot, fileVars, memory, ghosts
<1>2. /\ Snap(job, L) /\ Phases /\ Passing /\ Ordering /\ Snap(NoSnapshot, L)
      /\ \A v : Taken(v, NoSnapshot)
  BY EmptySnapshot DEF RestoreInv, FileInv, Fresh
<1>3. ~applying /\ (Kept => ~leaving) /\ Kept' = Kept /\ (Settled' <=> Settled)
  BY <1>1, <1>2 DEF Phases, Passing, Kept, LeftAlone, Settled
<1>4. Phases'
  BY <1>1, <1>2, <1>3 DEF Phases
<1>5. Passing'
  BY <1>1, <1>2, <1>3 DEF Passing
<1>6. Ordering'
  BY <1>1, <1>2, <1>3 DEF Ordering
<1> QED BY <1>1, <1>2, <1>4, <1>5, <1>6 DEF RestoreInv

\* The periodic snapshot, as it is once the data file is flushed.
Periodic(L) == Snap(Serialize(SnapCap), L) /\ Taken(view, Serialize(SnapCap))

LEMMA PeriodicIs == ASSUME NEW L PROVE (FileInv(L) /\ stage = "run" => Periodic(L))'
<1>1. FileInv(L) /\ stage = "run" => Periodic(L)
  BY SerializeIs, SnapCapAssumption DEF Periodic
<1> QED BY <1>1, PTL

LEMMA PeriodicStep ==
    ASSUME NEW L, RestoreInv(L), FileInv(L)', PeriodicSnapshot
    PROVE  RestoreInv(L)'
<1>1. /\ ~leaving /\ ~applying /\ stage = "run" /\ stage' = stage
      /\ view' = view /\ todo' = todo /\ coldFirst' = coldFirst /\ cleared' = cleared
      /\ stateBin' = stateBin /\ applying' = applying /\ leaving' = leaving /\ last' = last
  BY QuietSteps DEF PeriodicSnapshot, FlushForHandoff, Idle, Quiet
<1>2. Snap(job', L) /\ Taken(view', job')
  <2>1. Periodic(L)'
    BY <1>1, PeriodicIs
  <2>2. job' = Serialize(SnapCap)'
    BY DEF PeriodicSnapshot
  <2> QED BY <2>1, <2>2 DEF Periodic
<1>3. Snap(stateBin, L) /\ Ordering /\ Settled
  BY <1>1 DEF RestoreInv, Settled, ClearStages
<1>4. Phases'
  BY <1>1 DEF Phases, RestoreInv
<1>5. Passing'
  BY <1>1 DEF Passing
<1>6. Ordering'
  BY <1>1, <1>2, <1>3 DEF Ordering
<1> QED BY <1>1, <1>2, <1>3, <1>4, <1>5, <1>6 DEF RestoreInv

LEMMA LeftIs ==
    /\ Had("left", Readable).how = "left"
    /\ Had("left", Readable).view = SubSeq(view, coldFirst + 1, total)
    /\ Had("left", Readable).readable = Readable
    /\ Had("left", Readable).alone = (job = NoSnapshot)
    /\ Had("left", Readable).shifted = (coldFirst > 0 \/ stage # "run" \/ (applying /\ (last.shifted \/ last.gap)))
    /\ Had("left", Readable).ordered = (Increasing(view) /\ (applying => last.ordered))
    /\ DOMAIN Had("left", Readable) = LastFields
BY DEF Had, LastFields

LEMMA KilledIs ==
    /\ Had("killed", FALSE).how = "killed"
    /\ Had("killed", FALSE).shifted = (coldFirst > 0 \/ stage # "run" \/ (applying /\ (last.shifted \/ last.gap)))
    /\ Had("killed", FALSE).ordered = (Increasing(view) /\ (applying => last.ordered))
    /\ DOMAIN Had("killed", FALSE) = LastFields
BY DEF Had, LastFields

\* The first b lines and those that are replayed over them are the whole.
LEMMA ReplayWhole ==
    ASSUME NEW s, NEW L, Snap(s, L), s.start = 0, NEW b \in 0 .. Len(s.lines),
           NEW v, v = SubSeq(s.lines, 1, b)
    PROVE  v \in Seq(Nat) /\ Len(v) = b /\ v \o Replay(s, b) = s.lines
<1>1. PICK l \in Seq(Nat), p \in Nat : l = s.lines /\ p = Len(l)
  BY LenOf DEF Snap
<1>2. b \in Nat /\ b <= p /\ 0 <= b
  BY <1>1
<1>3. v \in Seq(Nat) /\ Len(v) = b
  <2>1. 1 \in Nat /\ 1 >= 1 /\ b <= Len(l) /\ 1 <= b + 1 /\ b + 1 - 1 = b
    BY <1>1, <1>2
  <2> QED BY <1>1, <1>2, <2>1, PartOf
<1>4. Replay(s, b) = SubSeq(l, b + 1, p)
  <2>1. (IF b > 0 THEN b - 0 ELSE 0) = b
    BY <1>2
  <2> QED BY <1>1, <2>1 DEF Replay
<1>8. 0 \in Nat /\ 0 <= b /\ p <= Len(l)
  BY <1>1, <1>2
<1>5. SubSeq(l, 0 + 1, b) \o SubSeq(l, b + 1, p) = SubSeq(l, 0 + 1, p)
  <2>1. PICK z \in Nat, c \in Nat : z = 0 /\ c = b
    BY <1>2
  <2>2. z <= c /\ c <= p /\ p <= Len(l)
    BY <1>2, <1>8, <2>1
  <2>3. SubSeq(l, z + 1, c) \o SubSeq(l, c + 1, p) = SubSeq(l, z + 1, p)
    BY <2>2, PartsMeet
  <2> QED BY <2>1, <2>3
<1>6. SubSeq(l, 1, p) = l
  BY <1>1, SubSeqFull
<1>7. 0 + 1 = 1
  OBVIOUS
<1> QED BY <1>1, <1>3, <1>4, <1>5, <1>6, <1>7

LEMMA LeaveStep ==
    ASSUME NEW L, RestoreInv(L), FileInv(L)', Leave
    PROVE  RestoreInv(L)'
<1>1. /\ ~leaving /\ ~applying /\ stage = "run" /\ todo = <<>> /\ stage' = stage
      /\ view' = view /\ todo' = todo /\ coldFirst' = coldFirst /\ cleared' = cleared
      /\ stateBin' = Serialize(total) /\ job' = job /\ applying' = applying /\ leaving' = TRUE
      /\ last' = Had("left", Readable)
  BY QuietSteps DEF Leave, Idle, Quiet, fileVars, memory, ghosts
<1>2. FileInv(L) /\ Snap(job, L) /\ Phases /\ Ordering /\ Settled
  BY <1>1 DEF RestoreInv, Settled, ClearStages
<1>3. total \in Nat /\ total = Len(view) /\ view \in Seq(Nat) /\ coldFirst \in Nat
  BY <1>1, <1>2 DEF FileInv, Types, Running, InMemory
<1>4. Snap(stateBin', L) /\ Taken(view, stateBin')
  BY <1>1, <1>2, <1>3, SerializeIs
<1>5. /\ last'.how = "left" /\ last'.view = SubSeq(view, coldFirst + 1, total)
      /\ last'.readable = Readable /\ last'.alone = (job = NoSnapshot)
      /\ DOMAIN last' = LastFields
  BY <1>1, LeftIs
<1>6. (~last'.shifted => coldFirst = 0) /\ (last'.ordered => Increasing(view))
  <2>2. ~last'.shifted => ~ (coldFirst > 0)
    BY <1>1, LeftIs
  <2>3. last'.ordered => Increasing(view)
    BY <1>1, LeftIs
  <2> QED BY <1>3, <2>2, <2>3
<1>7. Phases'
  BY <1>1, <1>2, <1>5 DEF Phases
<1>8. Passing'
  <2> SUFFICES ASSUME Kept'
               PROVE  /\ view = last'.view /\ coldFirst = 0 /\ job = NoSnapshot
                      /\ stateBin'.start = 0 /\ stateBin'.lines = last'.view
    BY <1>1, Zenon DEF Passing
  <2>1. coldFirst = 0 /\ job = NoSnapshot /\ Readable
    BY <1>5, <1>6 DEF Kept, LeftAlone
  <2>2. last'.view = view
    BY <1>3, <1>5, <2>1, SubSeqFull
  <2>3. Serialize(total).start = 0 /\ Serialize(total).lines = view
    BY <1>1, <1>2, <2>1, WholeSerialized
  <2> QED BY <1>1, <2>1, <2>2, <2>3
<1>9. Ordering'
  BY <1>1, <1>2, <1>4, <1>5, <1>6 DEF Ordering
<1> QED BY <1>1, <1>2, <1>4, <1>7, <1>8, <1>9 DEF RestoreInv

LEMMA DieStep ==
    ASSUME NEW L, RestoreInv(L), FileInv(L)', Die
    PROVE  RestoreInv(L)'
<1>1. /\ stage' = "down" /\ view' = view /\ cleared' = cleared /\ stateBin' = stateBin
      /\ leaving' = FALSE /\ applying' = FALSE /\ job' = NoSnapshot /\ stage # "down"
      /\ last' = IF leaving THEN last ELSE Had("killed", FALSE)
  BY DEF Die, Crash, Gone
<1>2. /\ FileInv(L) /\ Snap(stateBin, L) /\ Snap(NoSnapshot, L) /\ Phases /\ Passing /\ Ordering
      /\ view \in Seq(Nat) /\ coldFirst \in Nat
  BY EmptySnapshot DEF RestoreInv, FileInv, Fresh, Types
<1>3. DOMAIN last' = LastFields
  BY <1>1, <1>2, KilledIs DEF Phases
<1>4. stage = "run" => \E h \in Nat : /\ coldFirst <= h /\ h <= Len(view)
                                     /\ Found(disk') = SubSeq(view, coldFirst + 1, h)
  <2>1. PICK d \in TornWrites : disk' = d
    BY DEF Die, Crash
  <2> QED BY <1>2, <2>1, CrashFinds
<1>5. ASSUME stage = "run", coldFirst = 0
      PROVE  \E b \in 0 .. Len(view) : Found(disk') = SubSeq(view, 1, b)
  <2>1. PICK h \in Nat : h <= Len(view) /\ Found(disk') = SubSeq(view, coldFirst + 1, h)
    BY <1>4, <1>5
  <2>2. h \in 0 .. Len(view) /\ coldFirst + 1 = 1
    BY <1>2, <1>5, <2>1, LenOf
  <2> QED BY <2>1, <2>2
<1>6. Phases'
  BY <1>1, <1>3 DEF Phases
<1>7. Passing'
  <2> SUFFICES ASSUME Kept'
               PROVE  /\ stateBin'.start = 0 /\ stateBin'.lines = last'.view
                      /\ \E b \in 0 .. Len(last'.view) : Found(disk') = SubSeq(last'.view, 1, b)
    BY <1>1, Zenon DEF Passing
  <2>1. leaving /\ last' = last
    BY <1>1, KilledIs DEF Kept, LeftAlone
  <2>2. Kept /\ stage = "run"
    BY <1>2, <2>1 DEF Kept, LeftAlone, Phases
  <2>3. view = last.view /\ coldFirst = 0 /\ stateBin.start = 0 /\ stateBin.lines = last.view
    BY <1>2, <2>1, <2>2 DEF Passing
  <2> QED BY <1>1, <1>5, <2>1, <2>2, <2>3
<1>8. ASSUME Good' PROVE coldFirst = 0 /\ stage = "run" /\ Ordered(view, stateBin)
  <2>1. ~last'.shifted /\ last'.ordered /\ Live(stateBin, cleared)
    BY <1>1, <1>8 DEF Good
  <2>2. CASE leaving
    <3>1. last' = last /\ stage = "run" /\ Settled
      BY <1>1, <1>2, <2>2 DEF Phases, Settled, ClearStages
    <3>2. coldFirst = 0 /\ Increasing(view) /\ Taken(view, stateBin)
      BY <1>2, <2>1, <2>2, <3>1 DEF Ordering
    <3> QED BY <1>2, <3>1, <3>2, TakenOrdered
  <2>3. CASE ~leaving /\ ~applying
    <3>1. ~ (coldFirst > 0) /\ stage = "run" /\ Increasing(view)
      BY <1>1, <2>1, <2>3, KilledIs
    <3>2. coldFirst = 0 /\ Settled
      BY <1>2, <2>3, <3>1 DEF Settled, ClearStages
    <3>3. Taken(view, stateBin)
      BY <1>2, <2>1, <3>2 DEF Ordering
    <3> QED BY <1>2, <3>1, <3>2, <3>3, TakenOrdered
  <2>4. CASE ~leaving /\ applying
    <3>1. ~ (coldFirst > 0) /\ stage = "run" /\ ~last.shifted /\ ~last.gap /\ last.ordered
      BY <1>1, <2>1, <2>4, KilledIs
    <3>2. coldFirst = 0 /\ Good
      BY <1>2, <2>1, <3>1 DEF Good
    <3>3. Ordered(view, stateBin)
      BY <1>2, <2>4, <3>1, <3>2 DEF Ordering
    <3> QED BY <3>1, <3>2, <3>3
  <2> QED BY <2>2, <2>3, <2>4
<1>9. Ordering'
  <2>1. ASSUME Good' PROVE Ordered(Found(disk'), stateBin)
    <3>1. PICK b \in 0 .. Len(view) : Found(disk') = SubSeq(view, 1, b)
      BY <1>5, <1>8, <2>1
    <3> QED BY <1>2, <1>8, <2>1, <3>1, OrderedPart
  <2>2. Good' => Ordered(Found(disk)', stateBin')
    BY <1>1, <2>1
  <2> QED BY <1>1, <2>2 DEF Ordering, Settled
<1> QED BY <1>1, <1>2, <1>6, <1>7, <1>9 DEF RestoreInv

LEMMA ResumeStep ==
    ASSUME NEW L, RestoreInv(L), Resume
    PROVE  RestoreInv(L)'
<1>1. /\ OpenFiles /\ stage = "down" /\ stage' = "run" /\ cleared' = cleared /\ stateBin' = stateBin
      /\ job' = job /\ leaving' = leaving /\ applying' = TRUE /\ todo' = Replay(stateBin, total')
      /\ last' = [last EXCEPT !.gap = total' < stateBin.start]
  BY DEF Resume, OpenFiles
<1>2. /\ FileInv(L) /\ Snap(stateBin, L) /\ Snap(job, L) /\ Phases /\ Passing /\ Ordering
      /\ ~leaving /\ job = NoSnapshot
  BY <1>1 DEF RestoreInv, Phases
<1>3. /\ DOMAIN last' = LastFields /\ last'.how = last.how /\ last'.view = last.view
      /\ last'.shifted = last.shifted /\ last'.ordered = last.ordered
      /\ last'.readable = last.readable /\ last'.alone = last.alone
      /\ last'.gap = (total' < stateBin.start)
  BY <1>1, <1>2 DEF Phases, LastFields
<1>4. Kept' = Kept /\ Good' = Good
  BY <1>1, <1>3 DEF Kept, LeftAlone, Good
<1>a. PICK s : s = stateBin
  OBVIOUS
<1>b. PICK v \in Seq(Nat), n \in Nat : v = Found(disk) /\ n = Len(v)
  <2>1. /\ Disk(disk) /\ HotWhole(disk) /\ ColdWhole(disk) /\ CleanDisk(disk, L)
    BY <1>1, <1>2 DEF FileInv, Types, Fresh, Down
  <2>2. Found(disk) \in Seq(Nat)
    BY <2>1, FoundIs
  <2> QED BY <2>2, LenOf
<1>5. view' = v /\ total' = n
  <2>1. OpenFrom(disk)
    BY <1>1 DEF OpenFiles
  <2>2. /\ view' = Found(disk)
        /\ total' = Len(ColdOf(disk)) + Len(Tier(BinOf(disk), IdxOf(disk)))
    BY <2>1, OpensWith
  <2>3. Len(Found(disk)) = Len(ColdOf(disk)) + Len(Tier(BinOf(disk), IdxOf(disk)))
    <3>1. /\ Disk(disk) /\ HotWhole(disk) /\ ColdWhole(disk) /\ CleanDisk(disk, L)
      BY <1>1, <1>2 DEF FileInv, Types, Fresh, Down
    <3> QED BY <3>1, FoundIs
  <2> QED BY <1>b, <2>2, <2>3
<1>6. /\ Replay(s, n) \in Seq(Nat) /\ AllIn(Replay(s, n), L)
      /\ s.start <= n => Follows(Replay(s, n), v, s)
      /\ Ordered(v, s) => Queues(v, Replay(s, n))
  BY <1>2, <1>a, <1>b, ReplayIs
<1>7. todo' = Replay(s, n)
  BY <1>1, <1>5, <1>a
<1>8. FileInv(L)'
  BY <1>1, <1>2, <1>6, <1>7, OpenStep
<1>9. Phases'
  BY <1>1, <1>2, <1>3 DEF Phases, ClearStages
<1>10. Passing'
  <2> SUFFICES ASSUME Kept'
               PROVE  /\ stateBin'.start = 0 /\ stateBin'.lines = last'.view
                      /\ view' \o todo' = last'.view
    BY <1>1, <1>2, Zenon DEF Passing
  <2>1. /\ Kept /\ s.start = 0 /\ s.lines = last.view
        /\ \E b \in 0 .. Len(last.view) : v = SubSeq(last.view, 1, b)
    BY <1>1, <1>2, <1>4, <1>a, <1>b DEF Passing
  <2>2. PICK b \in 0 .. Len(s.lines) : v = SubSeq(s.lines, 1, b)
    BY <2>1
  <2>a. Snap(s, L) /\ s.start = 0
    BY <1>2, <1>a, <2>1
  <2>3. Len(v) = b /\ v \o Replay(s, b) = s.lines
    BY <2>a, <2>2, ReplayWhole, Zenon
  <2>4. n = b
    BY <1>b, <2>3
  <2> QED BY <1>1, <1>3, <1>5, <1>7, <1>a, <2>1, <2>3, <2>4
<1>11. Ordering'
  <2>1. Good => Ordered(v, s)
    BY <1>1, <1>2, <1>a, <1>b DEF Ordering
  <2>2. ~last'.gap => s.start <= n
    <3>1. s.start \in Nat
      BY <1>2, <1>a DEF Snap
    <3>2. ~last'.gap => ~ (n < s.start)
      BY <1>3, <1>5, <1>a
    <3> QED BY <1>b, <3>1, <3>2
  <2> QED BY <1>1, <1>2, <1>4, <1>5, <1>6, <1>7, <1>a, <2>1, <2>2 DEF Ordering, Settled
<1> QED BY <1>1, <1>2, <1>8, <1>9, <1>10, <1>11 DEF RestoreInv

LEMMA ForgetStep ==
    ASSUME NEW L, RestoreInv(L), FileInv(L)', ForgetState
    PROVE  RestoreInv(L)'
<1>1. /\ applying /\ stage = "run" /\ stage' = stage /\ applying' = FALSE /\ stateBin' = NoSnapshot
      /\ job' = job /\ leaving' = leaving /\ last' = last
  BY DEF ForgetState, Idle, fileVars
<1>2. /\ Snap(NoSnapshot, L) /\ Phases /\ job = NoSnapshot /\ ~leaving
      /\ \A v : Taken(v, NoSnapshot)
  BY <1>1, EmptySnapshot DEF RestoreInv, FileInv, Fresh, Phases
<1>3. Phases'
  BY <1>1, <1>2 DEF Phases
<1>4. Passing'
  BY <1>1, <1>2 DEF Passing
<1>5. Ordering'
  BY <1>1, <1>2 DEF Ordering
<1> QED BY <1>1, <1>2, <1>3, <1>4, <1>5 DEF RestoreInv

LEMMA RestNothing ==
    ASSUME NEW L, RestoreInv(L), FileInv(L)', UNCHANGED allVars
    PROVE  RestoreInv(L)'
<1>1. /\ view' = view /\ todo' = todo /\ coldFirst' = coldFirst /\ cleared' = cleared /\ disk' = disk
      /\ stage' = stage
      /\ stateBin' = stateBin /\ job' = job /\ applying' = applying /\ leaving' = leaving /\ last' = last
  BY DEF allVars, fileVars, memory, ghosts, restoreVars
<1>2. Kept' = Kept /\ Good' = Good /\ (Settled' <=> Settled) /\ Found(disk)' = Found(disk)
  BY <1>1 DEF Kept, Good, LeftAlone, Settled
<1> QED BY <1>1, <1>2 DEF RestoreInv, Phases, Passing, Ordering

LEMMA RestoreBegin ==
    ASSUME RestoreInit, NEW L, Lined(L)
    PROVE  RestoreInv(L)
<1>1. /\ FileInit /\ stateBin = NoSnapshot /\ job = NoSnapshot /\ applying = FALSE /\ leaving = FALSE
      /\ stage = "run" /\ DOMAIN last = LastFields
  BY DEF RestoreInit, FileInit, LastFields
<1>2. Snap(NoSnapshot, L) /\ \A v : Taken(v, NoSnapshot)
  BY EmptySnapshot
<1>3. FileInv(L)
  BY <1>1, Begin
<1>4. Phases
  BY <1>1 DEF Phases
<1>5. Passing
  BY <1>1 DEF Passing
<1>6. Ordering
  BY <1>1, <1>2 DEF Ordering
<1> QED BY <1>1, <1>2, <1>3, <1>4, <1>5, <1>6 DEF RestoreInv

-----------------------------------------------------------------------------
(* The theorems of the hand-over. *)

\* Of the lines that were made, those there are.
RestoreHeld == \E L : Made(L) /\ RestoreInv(L)

LEMMA RestoreStep == ASSUME NEW L, Made(L), RestoreInv(L), RestoreNext PROVE RestoreHeld'
<1>0. /\ FileInv(L) /\ pushed \in Nat /\ pushed <= MaxPush /\ MaxPush \in Nat
      /\ Blank = MaxPush + 1
  <2>1. Types /\ Fresh(L) /\ FileInv(L)
    BY DEF RestoreInv, FileInv
  <2> QED BY <2>1, Counts, CapTyped DEF Blank
<1>1. ASSUME RestoreInv(L)', pushed' = pushed PROVE RestoreHeld'
  BY <1>1 DEF RestoreHeld, Made
<1>2. ASSUME PushLine \/ FinishRotation, UNCHANGED restoreVars, ~leaving, todo # <<>> \/ ~applying
      PROVE  RestoreHeld'
  <2>1. PICK x \in Lines : Adds(x)
    BY <1>2, PushSteps
  <2>2. PICK M : M = UpTo(pushed')
    OBVIOUS
  <2>a. FileNext
    BY <1>2 DEF FileNext, Rotate
  <2>3. /\ x \in Nat /\ pushed' \in Nat /\ pushed <= pushed' /\ pushed' <= MaxPush
        /\ pushed' = pushed \/ 0 < pushed'
    <3>1. pushed' \in Nat /\ pushed' <= MaxPush
      BY <1>0, <2>a, MadeInBounds
    <3> QED BY <1>0, <2>1, <3>1 DEF Adds, Lines
  <2>4. L \subseteq M /\ Lined(M) /\ Made(M)'
    BY <1>0, <2>2, <2>3, UpToIs DEF Made
  <2>5. FileInv(M)
    BY <1>0, <2>4, MoreLines
  <2>6. Makes(M)
    <3>1. LineOf(pushed') = pushed'
      BY <2>3, LineItself
    <3>2. pushed' = pushed \/ 0 < pushed'
      BY <2>3
    <3>3. pushed' = pushed \/ pushed' \in UpTo(pushed')
      BY <2>3, <3>1, <3>2 DEF UpTo
    <3> QED BY <2>2, <3>3 DEF Makes
  <2>7. FileInv(M)'
    BY <1>2, <2>5, <2>6, PushStep, FinishStep
  <2>8. RestoreInv(M)'
    BY <1>2, <2>1, <2>3, <2>4, <2>7, AddsStep
  <2> QED BY <2>4, <2>8 DEF RestoreHeld
<1>3. ASSUME FileInv(L)', Quiet, UNCHANGED restoreVars, leaving => stage' = stage PROVE RestoreHeld'
  BY <1>1, <1>3, QuietStep DEF Quiet
<1>4. ASSUME Rotate, UNCHANGED restoreVars, ~leaving, todo # <<>> \/ ~applying PROVE RestoreHeld'
  <2>1. CASE StartRotation \/ RemoveColdBin \/ RemoveColdIdx \/ RenameBin \/ RenameIdx \/ CreateBin
    <3>1. Quiet
      BY <2>1, QuietSteps
    <3>2. FileInv(L)'
      BY <1>0, <2>1, StartStep, RemoveStep, RenameStep, CreateStep
    <3> QED BY <1>3, <1>4, <3>1, <3>2
  <2>2. CASE FinishRotation
    BY <1>2, <1>4, <2>2
  <2> QED BY <1>4, <2>1, <2>2 DEF Rotate
<1>5. ASSUME EnsureFlushed, UNCHANGED restoreVars PROVE RestoreHeld'
  <2>1. FileInv(L)' /\ Quiet /\ stage' = stage
    BY <1>0, <1>5, FlushStep, QuietSteps
  <2> QED BY <1>3, <1>5, <2>1
<1>6. ASSUME Clear, UNCHANGED restoreVars, ~leaving, ~applying PROVE RestoreHeld'
  <2>1. FileInv(L)'
    BY <1>0, <1>6, ClearStep
  <2>2. pushed' = pushed
    BY <1>6 DEF Clear, StartClear, CutIdx, CutColdBin, FinishClear, ghosts
  <2> QED BY <1>1, <1>6, <2>1, <2>2, ClearsStep
<1>7. Work => RestoreHeld'
  BY <1>2, <1>4, <1>5, <1>6 DEF Work
<1>8. Writers => RestoreHeld'
  <2> SUFFICES ASSUME NEW f \in Files, Spill(f), UNCHANGED restoreVars PROVE RestoreHeld'
    BY DEF Writers
  <2>1. FileInv(L)' /\ Quiet /\ stage' = stage
    BY <1>0, SpillStep, QuietSteps
  <2> QED BY <1>3, <2>1
<1>9. PeriodicSnapshot => RestoreHeld'
  <2> SUFFICES ASSUME PeriodicSnapshot PROVE RestoreHeld'
    OBVIOUS
  <2>1. FlushForHandoff
    BY DEF PeriodicSnapshot
  <2>2. FileInv(L)' /\ pushed' = pushed
    BY <1>0, <2>1, FlushStep, QuietSteps DEF Quiet
  <2> QED BY <1>1, <2>2, PeriodicStep
<1>10. WriteSnapshot => RestoreHeld'
  <2> SUFFICES ASSUME WriteSnapshot PROVE RestoreHeld'
    OBVIOUS
  <2>1. UNCHANGED fileVars
    BY DEF WriteSnapshot
  <2>2. FileInv(L)' /\ pushed' = pushed
    BY <1>0, <2>1, NothingHappens DEF fileVars, ghosts
  <2> QED BY <1>1, <2>2, WriteStep
<1>11. Leave => RestoreHeld'
  <2> SUFFICES ASSUME Leave PROVE RestoreHeld'
    OBVIOUS
  <2>1. UNCHANGED fileVars \/ FlushForHandoff
    BY DEF Leave
  <2>2. FileInv(L)' /\ pushed' = pushed
    BY <1>0, <2>1, NothingHappens, FlushStep, QuietSteps DEF Quiet, fileVars, ghosts
  <2> QED BY <1>1, <2>2, LeaveStep
<1>12. Die => RestoreHeld'
  <2> SUFFICES ASSUME Die PROVE RestoreHeld'
    OBVIOUS
  <2>1. Crash
    BY DEF Die
  <2>2. FileInv(L)' /\ pushed' = pushed
    BY <1>0, <2>1, CrashStep DEF Crash, Gone
  <2> QED BY <1>1, <2>2, DieStep
<1>13. Resume => RestoreHeld'
  <2> SUFFICES ASSUME Resume PROVE RestoreHeld'
    OBVIOUS
  <2>1. pushed' = pushed
    BY DEF Resume, OpenFiles
  <2> QED BY <1>1, <2>1, ResumeStep
<1>14. ForgetState => RestoreHeld'
  <2> SUFFICES ASSUME ForgetState PROVE RestoreHeld'
    OBVIOUS
  <2>1. UNCHANGED fileVars
    BY DEF ForgetState
  <2>2. FileInv(L)' /\ pushed' = pushed
    BY <1>0, <2>1, NothingHappens DEF fileVars, ghosts
  <2> QED BY <1>1, <2>2, ForgetStep
<1> QED BY <1>7, <1>8, <1>9, <1>10, <1>11, <1>12, <1>13, <1>14 DEF RestoreNext

LEMMA RestoreInvariant == RestoreSpec => []RestoreHeld
<1>1. RestoreInit => RestoreHeld
  <2> SUFFICES ASSUME RestoreInit PROVE RestoreHeld
    OBVIOUS
  <2>1. PICK L : L = UpTo(pushed)
    OBVIOUS
  <2>2. Lined(L)
    BY <2>1, CapTyped, UpToIs DEF RestoreInit, FileInit
  <2> QED BY <2>1, <2>2, RestoreBegin DEF RestoreHeld, Made
<1>2. RestoreHeld /\ [RestoreNext]_allVars => RestoreHeld'
  <2> SUFFICES ASSUME RestoreHeld, [RestoreNext]_allVars PROVE RestoreHeld'
    OBVIOUS
  <2>1. PICK L : Made(L) /\ RestoreInv(L)
    BY DEF RestoreHeld
  <2>2. CASE RestoreNext
    BY <2>1, <2>2, RestoreStep
  <2>3. CASE UNCHANGED allVars
    <3>1. UNCHANGED fileVars /\ pushed' = pushed /\ FileInv(L)
      BY <2>1, <2>3 DEF allVars, fileVars, ghosts, RestoreInv
    <3>2. FileInv(L)'
      BY <3>1, NothingHappens
    <3>3. RestoreInv(L)'
      BY <2>1, <2>3, <3>2, RestNothing
    <3> QED BY <2>1, <3>1, <3>3 DEF RestoreHeld, Made
  <2> QED BY <2>2, <2>3
<1> QED BY <1>1, <1>2, PTL DEF RestoreSpec

\* What ends a restore.
LEMMA RestoredBy == RestoreNext /\ Restored => ForgetState
BY DEF RestoreNext, Restored, Work, Writers, PeriodicSnapshot, WriteSnapshot, Leave, Die, Resume,
       Crash, restoreVars

\* A process that leaves, with every line readable and none shifted, hands
\* its whole history to the next one, whatever its writers still held.
THEOREM HandOverIsWhole == RestoreSpec => HandOverKeepsHistory
<1>1. RestoreHeld /\ [RestoreNext]_allVars =>
         [Restored /\ LeftAlone /\ last.readable /\ ~last.shifted => view = last.view]_allVars
  <2> SUFFICES ASSUME RestoreHeld, RestoreNext, Restored, Kept
               PROVE  view = last.view
    BY Zenon DEF Kept
  <2>1. PICK L : FileInv(L) /\ Passing
    BY DEF RestoreHeld, RestoreInv
  <2>2. applying /\ todo = <<>>
    BY RestoredBy DEF ForgetState, Idle
  <2>3. view \in Seq(Nat) /\ view \o todo = last.view
    BY <2>1, <2>2 DEF Passing, FileInv, Types
  <2> QED BY <2>2, <2>3, JoinsNothing
<1> QED BY <1>1, RestoreInvariant, PTL DEF HandOverKeepsHistory, RestoreSpec

\* However the last process ended and whichever of its snapshots the next one
\* found, what that restores is in order and has no line twice.
THEOREM RestoresInOrder == RestoreSpec => RestoredInOrder
<1>1. RestoreHeld /\ [RestoreNext]_allVars =>
         [Restored /\ ~last.shifted /\ last.ordered
            /\ (\A i \in DOMAIN stateBin.lines : LineOf(stateBin.lines[i]) > cleared)
            => Increasing(view)]_allVars
  <2> SUFFICES ASSUME RestoreHeld, RestoreNext, Restored, ~last.shifted, last.ordered,
                      \A i \in DOMAIN stateBin.lines : LineOf(stateBin.lines[i]) > cleared
               PROVE  Increasing(view)
    BY Zenon
  <2>1. PICK L : Snap(stateBin, L) /\ Ordering
    BY DEF RestoreHeld, RestoreInv
  <2>2. applying
    BY DEF Restored
  <2>3. Good
    BY <2>1, LenOf DEF Good, Live, Snap
  <2> QED BY <2>1, <2>2, <2>3 DEF Ordering, Queues
<1> QED BY <1>1, RestoreInvariant, PTL DEF RestoredInOrder, RestoreSpec
=============================================================================
