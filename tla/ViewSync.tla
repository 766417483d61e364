------------------------------ MODULE ViewSync ------------------------------
(***************************************************************************)
(* The scrolled view of a pane.  History is with the session process (L3), *)
(* which publishes the window some lines up from the live tail; the        *)
(* renderer (L2) has that window and nothing else.  L2 keeps an offset of  *)
(* its own, moves it by the wheel, and asks L3 for windows by offset; L3   *)
(* moves its offset up as lines are pushed, so that what is read stays.    *)
(*                                                                         *)
(* A line is known by how many were pushed before it; a picture is the     *)
(* number of the line at its top.  Offsets and depths are u16: W stands    *)
(* for 2^16.  Left out: the gates and pokes of a publish (FramePath),      *)
(* frames the control socket refuses (FrameWriter), resizes, a history     *)
(* cleared, the wheel on the alternate screen, which goes to the program.  *)
(***************************************************************************)
EXTENDS Integers, Sequences, SequencesExt

CONSTANTS
    W,           \* 2^16
    Rows,        \* rows of the pane
    AltCap,      \* DEFAULT_SCROLLBACK_LINES, of the alternate screen
    None,
    MaxLines,    \* bound: lines pushed to the main history
    MaxMoves,    \* bound: what the person does
    MaxSwitches, \* bound: the program enters or leaves the alternate screen
    MaxLives     \* bound: images of L3 and cores after the first

ASSUME ViewAssumption ==
    /\ {W, Rows, AltCap} \subseteq Nat \ {0} /\ W > 1 /\ None \notin Nat
    /\ MaxLines \in Nat \ {0} /\ {MaxMoves, MaxSwitches, MaxLives} \subseteq Nat

VARIABLES
    main,      \* lines pushed to the main history
    base,      \* of these, the ones this image's count leaves out
    alt,       \* lines pushed on the alternate screen, None on the main one
    off,       \* L3's view_offset
    last,      \* last_scroll_push
    frame,     \* the window in the region
    wire,      \* GridScroll frames on their way
    view,      \* L2's view_offset
    req,       \* req_view_offset
    seen,      \* the window in L2's mirror
    anchor,    \* ghost: the line the last request put at the top, None for none
    inherited, \* ghost: this core has asked for nothing yet, and found L3 scrolled
    moves, switches, lives

term == <<main, base, alt>>
l3   == <<off, last, frame>>
l2   == <<view, req, seen>>
viewVars == <<term, l3, wire, l2, anchor, inherited, moves, switches, lives>>

Least(a, b) == IF a < b THEN a ELSE b
Clamp(x, most) == IF x < 0 THEN 0 ELSE Least(x, most)

-----------------------------------------------------------------------------
(* The session process                                                      *)

OnAlt  == alt # None
Pushed == IF OnAlt THEN alt ELSE main
Count  == IF OnAlt THEN alt ELSE main - base          \* scroll_push_count
Depth  == IF OnAlt THEN Least(alt, AltCap) ELSE main  \* scrollback_len

\* publish: never a window above the oldest line.
Picture(o, depth, pushed, screen) ==
    LET shown == Least(o, depth % W)
    IN  [alt |-> screen, depth |-> depth, off |-> shown, top |-> pushed - shown]

\* Mutant: what a turn pushes counts as one line.
PinnedByOne(o, delta, most) ==
    IF o = 0 \/ delta = 0 \/ most < o THEN o ELSE Least(o + 1, most)
\* The auto-pin of both sides: an offset in history follows what is pushed,
\* and waits when the history is shorter than it.
Pinned(o, delta, most) ==
    IF o = 0 \/ delta = 0 \/ most < o THEN o ELSE Least(o + delta, most)

\* What a turn finds in the PTY: lines, perhaps with a switch of the screen.
Outputs == [before : 0 .. 2, switch : BOOLEAN, after : 0 .. 1]
Quiet   == [before |-> 0, switch |-> FALSE, after |-> 0]

Feed(o) ==
    /\ o.switch => switches < MaxSwitches
    /\ ~o.switch => o.after = 0
    /\ switches' = IF o.switch THEN switches + 1 ELSE switches
    /\ LET onMain == (IF OnAlt THEN 0 ELSE o.before)
                     + (IF OnAlt /\ o.switch THEN o.after ELSE 0)
       IN  main' = main + onMain /\ main' <= MaxLines
    /\ alt' = IF o.switch THEN IF OnAlt THEN None ELSE o.after
              ELSE IF OnAlt THEN Least(alt + o.before, MaxLines) ELSE None
    /\ UNCHANGED base

\* Mutant: the first request of a batch stands.
FirstAsked(n) == IF n = 0 THEN off ELSE wire[1]
\* The last one does.
Asked(n) == IF n = 0 THEN off ELSE wire[n]

\* The line at the top when the request was met, while it has to be there.
Anchor(n, o) ==
    IF OnAlt \/ o.switch \/ Asked(n) = 0 THEN None
    ELSE IF n = 0 THEN anchor ELSE main - Least(Asked(n), main % W)

\* A turn of the loop: the batch's scroll, then the output, then the pin.
Turn == \E n \in 0 .. Len(wire), o \in Outputs :
    /\ n > 0 \/ o # Quiet
    /\ Feed(o)
    /\ LET delta == IF Count' > last THEN Least(Count' - last, W - 1) ELSE 0
       IN  off' = Pinned(Asked(n), delta, Depth' % W)
    /\ last' = Count'
    /\ frame' = IF o # Quiet \/ Asked(n) # off
                THEN Picture(off', Depth', Pushed', OnAlt') ELSE frame
    /\ wire' = SubSeq(wire, n + 1, Len(wire))
    /\ anchor' = Anchor(n, o)
    /\ UNCHANGED <<l2, inherited, moves, lives>>

\* Another image: the history stays, the offset does not, what the last batch
\* asked for is lost, and the count begins with what the replay pushed.
Exec == \E n \in 0 .. Len(wire), b \in 0 .. main :
    /\ lives < MaxLives /\ lives' = lives + 1
    /\ base' = b /\ UNCHANGED <<main, alt>>
    /\ off' = 0 /\ last' = Count'
    /\ frame' = Picture(0, Depth, Pushed, OnAlt)
    /\ wire' = SubSeq(wire, n + 1, Len(wire))
    /\ anchor' = None
    /\ UNCHANGED <<l2, inherited, moves, switches>>

-----------------------------------------------------------------------------
(* The renderer                                                             *)

\* The mirror is a grid L2 fills cell by cell: no line is ever pushed to it.
MirrorPushed == 0
L2Poll ==
    /\ frame # seen
    /\ seen' = frame
    /\ view' = Pinned(view, MirrorPushed, Least(frame.depth, W - 1))
    /\ UNCHANGED <<term, l3, wire, req, anchor, inherited, moves, switches, lives>>

\* forward_scroll asks for nothing twice.
Forward(o) ==
    /\ view' = o /\ req' = o
    /\ wire' = IF o = req THEN wire ELSE Append(wire, o)
    /\ inherited' = (inherited /\ o = req)
Move == moves < MaxMoves /\ moves' = moves + 1
        /\ UNCHANGED <<term, l3, seen, anchor, switches, lives>>

\* On the alternate screen the wheel is the program's.
WheelIsOurs == ~seen.alt

\* The wheel, or a selection dragged over the edge
Scroll == \E d \in {-2, -1, 1, 2} :
    LET new == Clamp(view + d, Least(seen.depth, W - 1))
    IN  WheelIsOurs /\ new # view /\ Move /\ Forward(new)

\* A search hit is put in the middle of the pane.
Jump == \E k \in 0 .. Least(seen.depth, W - 1) + Rows - 1 : Move /\ Forward(k % W)

\* A key or a paste
Type == view # 0 /\ Move /\ Forward(0)

\* The next core attaches to the same process.
NewCore ==
    /\ lives < MaxLives /\ lives' = lives + 1
    /\ view' = 0 /\ req' = 0 /\ seen' = Picture(0, 0, 0, FALSE)
    /\ inherited' = (off # 0 \/ wire # <<>>)
    /\ UNCHANGED <<term, l3, wire, anchor, moves, switches>>

-----------------------------------------------------------------------------
ViewInit ==
    /\ main = 0 /\ base = 0 /\ alt = None
    /\ off = 0 /\ last = 0 /\ frame = Picture(0, 0, 0, FALSE)
    /\ wire = <<>>
    /\ view = 0 /\ req = 0 /\ seen = frame
    /\ anchor = None /\ inherited = FALSE
    /\ moves = 0 /\ switches = 0 /\ lives = 0

ViewNext == Turn \/ Exec \/ L2Poll \/ Scroll \/ Jump \/ Type \/ NewCore
ViewSpec == ViewInit /\ [][ViewNext]_viewVars
\* L3's loop takes what it was asked, and L2 looks at the region; nothing says
\* that the program ever writes.
Take == Turn /\ wire' # wire
ViewFairSpec == ViewSpec /\ WF_viewVars(Take) /\ WF_viewVars(L2Poll)

-----------------------------------------------------------------------------
\* What is read stays: from the request that brought it there, the line at the
\* top of the window is the same, whatever is pushed meanwhile and however
\* requests and output fall into turns (main.rs:1246-1253).  Until the program
\* switches screens, the process is replaced, or the history outgrows a u16.
ReadingStays == anchor # None /\ main < W => frame.top = anchor

\* Who types sees it: the offset the keystroke sets to 0 brings the picture back
\* to the live tail, whatever was asked and pushed before (pane.rs:1650-1661).
\* Of a core that did not find its session scrolled.
TypingShowsLive == (view = 0 /\ ~inherited) ~> (seen.off = 0 \/ view # 0 \/ inherited)

\* The three below are what comments say, and do not hold (README, section 5).
\* pane.rs:1952-1958, main.rs:1251-1253: the two offsets stay in lockstep.
LockStep == wire = <<>> /\ seen = frame => view = off

\* pane.rs:1658-1661: a keystroke brings the view back to the live tail.
LiveIsLive == (view = 0) ~> (seen.off = 0 \/ view # 0)

\* main.rs:1995-1998: the offset shifts by what was pushed.  A screen that is
\* left is no reason to.
LeavingMovesNothing ==
    [][OnAlt /\ ~OnAlt' /\ main' = main /\ wire' = wire /\ lives' = lives => off' = off]_viewVars
=============================================================================
