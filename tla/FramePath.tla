------------------------------ MODULE FramePath ------------------------------
(***************************************************************************)
(* From a program's output to the mirror the renderer (L2) draws.  The     *)
(* session's main loop (L3) parses output, holds a frame back while a      *)
(* program is painting (SyncGate) or has just wiped the screen (BlankGate),*)
(* publishes a frame that differs from the last one and pokes L2 over the  *)
(* control socket; L2 reads the region when poked, and once a second.      *)
(*                                                                         *)
(* A publish is one step here (GridShm has its parts), and a screen is a   *)
(* value: two frames with the same value have the same hash.  Resizes,     *)
(* scrolls and predicted echoes publish in the same turn as output does    *)
(* and are left out.  Clients are numbered in the order L3 adopts them.    *)
(***************************************************************************)
EXTENDS Integers, Sequences, SequencesExt

CONSTANTS
    Screens,    \* what a screen can look like
    Blank,      \* the one without a printable cell
    SyncHold,   \* SyncGate::MAX_HOLD, in ticks
    BlankHold,  \* BlankGate::MAX_HOLD, in ticks
    MaxOut,     \* bound on the chunks of output
    MaxQueued,  \* bound on the chunks waiting to be parsed
    MaxClients, \* bound on the L2 processes
    MaxHolds,   \* bound on the grid holds asked for
    MaxVisits   \* bound on the later L2s and the holds together

ASSUME BlankAssumption == Blank \in Screens /\ "none" \notin Screens
ASSUME HoldAssumption == SyncHold \in Nat \ {0} /\ BlankHold \in Nat \ {0}

VARIABLES
    drawn,      \* what the program has drawn, output not yet parsed included
    made,       \* chunks of output so far
    rx,         \* chunks read from the PTY and not yet parsed
    term,       \* the terminal: its screen, and whether an update is open
    hold,       \* the grid is held
    held,       \* what the held output will make of the terminal
    updAge,     \* how long the open update has been open, up to SyncHold
    blankAge,   \* how long it has been blank at every turn, up to BlankHold
    pc,         \* the main loop: "wait", or "batch" while it handles events
    evs,        \* its event channel
    gen,        \* client_generation
    poke,       \* the client whose socket it pokes, 0 for none
    syncSince, syncOwed, blankSince, blankOwed,  \* the gates
    late,       \* a hold's end changed the screen and no turn has published since
    seq,        \* frames published
    region,     \* the last of them
    hash,       \* last_publish_hash
    client,     \* the newest L2
    alive,      \* the L2 processes that run
    wake,       \* a GridReady is on its way to that L2
    mirror,     \* what it draws
    lastSeq,    \* the frame that is
    holds       \* grid holds asked for

program == <<drawn, made>>
terminal == <<term, hold, held, updAge, blankAge>>
gates == <<syncSince, syncOwed, blankSince, blankOwed, late>>
published == <<seq, region, hash>>
clients == <<client, alive>>
l2 == <<mirror, lastSeq>>
vars == <<program, rx, terminal, pc, evs, gen, poke, gates, published, clients, wake, l2, holds>>

None == -1
Shows(screen, sync) == [screen |-> screen, sync |-> sync]
Event(kind, n) == [k |-> kind, n |-> n]

\* The first publish of main() has been done: an empty screen, held back.
Init == /\ drawn = Shows(Blank, FALSE) /\ made = 0 /\ rx = <<>>
        /\ term = Shows(Blank, FALSE) /\ hold = FALSE /\ held = Shows(Blank, FALSE)
        /\ updAge = 0 /\ blankAge = 0
        /\ pc = "wait" /\ evs = <<>> /\ gen = 1 /\ poke = 1
        /\ syncSince = None /\ syncOwed = FALSE
        /\ blankSince = 0 /\ blankOwed = TRUE /\ late = FALSE
        /\ seq = 0 /\ region = "none" /\ hash = "none"
        /\ client = 1 /\ alive = {1}
        /\ wake = FALSE /\ mirror = "none" /\ lastSeq = 0
        /\ holds = 0
-----------------------------------------------------------------------------
(* The surroundings. *)

\* A chunk of output, by what it leaves; it may open an update (`h`, or `l` and
\* `h` again).
Chunks == [screen : Screens, sync : BOOLEAN, opens : BOOLEAN]

Output(c) ==
    /\ made < MaxOut /\ Len(rx) < MaxQueued
    /\ c.opens => c.sync
    /\ c.sync => c.opens \/ drawn.sync
    /\ drawn' = Shows(c.screen, c.sync)
    /\ made' = made + 1
    /\ rx' = Append(rx, c)
    /\ UNCHANGED <<terminal, pc, evs, gen, poke, gates, published, clients, wake, l2, holds>>

Room == client - 1 + holds < MaxVisits

\* Another L2 takes the pane over; the one before may be gone by then, or not.
Connect ==
    /\ client < MaxClients /\ Room
    /\ client' = client + 1
    /\ alive' = alive \union {client'}
    /\ evs' = Append(evs, Event("new", client'))
    /\ wake' = FALSE /\ mirror' = "none" /\ lastSeq' = 0
    /\ UNCHANGED <<program, rx, terminal, pc, gen, poke, gates, published, holds>>

\* Its reader in L3 sees the end of the socket.
L2Dies(c) ==
    /\ c \in alive
    /\ alive' = alive \ {c}
    /\ evs' = Append(evs, Event("gone", c))
    /\ UNCHANGED <<program, rx, terminal, pc, gen, poke, gates, published, client, wake, l2, holds>>

\* The claudecode plugin asks for a hold, and later for its end.
AskHold ==
    /\ holds < MaxHolds /\ Room
    /\ holds' = holds + 1
    /\ evs' = Append(evs, Event("hold", 1 - (holds % 2)))
    /\ UNCHANGED <<program, rx, terminal, pc, gen, poke, gates, published, clients, wake, l2>>

Older(age, most) == IF age # None /\ age < most THEN age + 1 ELSE age

Tick ==
    /\ syncSince' = Older(syncSince, SyncHold)
    /\ blankSince' = Older(blankSince, BlankHold)
    /\ updAge' = Older(updAge, SyncHold)
    /\ blankAge' = Older(blankAge, BlankHold)
    /\ UNCHANGED <<program, rx, term, hold, held, pc, evs, gen, poke, syncOwed, blankOwed, late, published, clients, wake, l2, holds>>
-----------------------------------------------------------------------------
(* publish_and_poke *)

\* hold_at: the first call starts the clock, and the hold ends when it runs out.
Held(since, active, most) == active /\ (since = None \/ since < most)
Since(since, active) == IF ~active THEN None ELSE IF since = None THEN 0 ELSE since

\* publish_if_changed, and a poke if it was.
Show(screen) ==
    \/ /\ screen = hash
       /\ UNCHANGED <<published, wake>>
    \/ /\ screen # hash
       /\ seq' = seq + 1 /\ region' = screen /\ hash' = screen
       /\ wake' = (wake \/ poke' = client')

\* Mutant: a frame held back by the first gate is not owed.
PublishDischarging ==
    LET painting == Held(syncSince, term'.sync, SyncHold)
        wiped == Held(blankSince, term'.screen = Blank, BlankHold)
    IN  /\ syncSince' = Since(syncSince, term'.sync)
        /\ late' = FALSE
        /\ \/ /\ painting
              /\ syncOwed' = FALSE
              /\ UNCHANGED <<blankSince, blankOwed, published, wake>>
           \/ /\ ~painting
              /\ blankSince' = Since(blankSince, term'.screen = Blank)
              /\ \/ /\ wiped
                    /\ blankOwed' = TRUE
                    /\ UNCHANGED <<syncOwed, published, wake>>
                 \/ /\ ~wiped
                    /\ syncOwed' = FALSE /\ blankOwed' = FALSE
                    /\ Show(term'.screen)

\* The gates in their order; the second is not asked while the first holds.
Publish ==
    LET painting == Held(syncSince, term'.sync, SyncHold)
        wiped == Held(blankSince, term'.screen = Blank, BlankHold)
    IN  /\ syncSince' = Since(syncSince, term'.sync)
        /\ late' = FALSE
        /\ \/ /\ painting
              /\ syncOwed' = TRUE
              /\ UNCHANGED <<blankSince, blankOwed, published, wake>>
           \/ /\ ~painting
              /\ blankSince' = Since(blankSince, term'.screen = Blank)
              /\ \/ /\ wiped
                    /\ blankOwed' = TRUE
                    /\ UNCHANGED <<syncOwed, published, wake>>
                 \/ /\ ~wiped
                    /\ syncOwed' = FALSE /\ blankOwed' = FALSE
                    /\ Show(term'.screen)
-----------------------------------------------------------------------------
(* The main loop. *)

Handling(k) == /\ evs # <<>>
               /\ Head(evs).k = k
               /\ evs' = Tail(evs)
               /\ pc' = "batch"

\* NewClient: adopted, and shown the current frame.
HandleNew ==
    /\ Handling("new")
    /\ gen' = gen + 1
    /\ poke' = gen'
    /\ UNCHANGED <<program, rx, terminal, clients, l2, holds>>
    /\ Publish

\* Mutant: the end of any client's socket ends the poking.
HandleGoneAny ==
    /\ Handling("gone")
    /\ poke' = 0
    /\ UNCHANGED <<program, rx, terminal, gen, gates, published, clients, wake, l2, holds>>

\* CoreGone: the end of an older client's socket is ignored.
HandleGone ==
    /\ Handling("gone")
    /\ poke' = IF Head(evs).n < gen THEN poke ELSE 0
    /\ UNCHANGED <<program, rx, terminal, gen, gates, published, clients, wake, l2, holds>>

Blankness == IF term.screen # Blank /\ term'.screen = Blank THEN 0 ELSE blankAge

\* HoldGrid: what was held back is parsed when the hold ends.
HandleHold ==
    /\ Handling("hold")
    /\ hold' = (Head(evs).n = 1)
    /\ term' = IF hold' THEN term ELSE held
    /\ updAge' = IF term' # term THEN 0 ELSE updAge
    /\ blankAge' = Blankness
    /\ late' = (late \/ term'.screen # term.screen)
    /\ UNCHANGED <<syncSince, syncOwed, blankSince, blankOwed, held>>
    /\ UNCHANGED <<program, rx, gen, poke, published, clients, wake, l2, holds>>

\* pump_within: at least one chunk, if there is one, up to all of them.
Pump(n) ==
    LET got == SubSeq(rx, 1, n)
    IN  /\ rx' = SubSeq(rx, n + 1, Len(rx))
        /\ held' = IF n = 0 THEN held ELSE Shows(rx[n].screen, rx[n].sync)
        /\ term' = IF hold THEN term ELSE held'
        /\ updAge' = IF ~hold /\ \E i \in DOMAIN got : got[i].opens THEN 0 ELSE updAge
        /\ blankAge' = Blankness

\* Mutant: a turn without output publishes nothing.
TurnOnOutput ==
    /\ \E n \in 0 .. Len(rx) :
          /\ rx # <<>> => n > 0
          /\ Pump(n)
          /\ UNCHANGED <<program, hold, evs, gen, poke, clients, l2, holds>>
          /\ IF n > 0 THEN Publish ELSE UNCHANGED <<gates, published, wake>>
    /\ pc' = "wait"

\* A turn publishes for output, or for a frame it owes.
Turn ==
    /\ \E n \in 0 .. Len(rx) :
          /\ rx # <<>> => n > 0
          /\ Pump(n)
          /\ UNCHANGED <<program, hold, evs, gen, poke, clients, l2, holds>>
          /\ IF n > 0 \/ syncOwed \/ blankOwed THEN Publish
                                               ELSE UNCHANGED <<gates, published, wake>>
    /\ pc' = "wait"
-----------------------------------------------------------------------------
(* L2: poked, or after a second, it polls. *)

L2Poll ==
    /\ client \in alive
    /\ wake' = FALSE
    /\ IF seq = lastSeq THEN UNCHANGED l2
                        ELSE mirror' = region /\ lastSeq' = seq
    /\ UNCHANGED <<program, rx, terminal, pc, evs, gen, poke, gates, published, clients, holds>>
-----------------------------------------------------------------------------
Loop == HandleNew \/ HandleGone \/ HandleHold \/ Turn

Next == \/ \E c \in Chunks : Output(c)
        \/ Connect
        \/ \E c \in alive : L2Dies(c)
        \/ AskHold
        \/ Tick
        \/ Loop
        \/ L2Poll

Spec == Init /\ [][Next]_vars

\* Time passes, the session's loop runs and so does L2's.
FairSpec == /\ Spec
            /\ WF_vars(Tick)
            /\ WF_vars(Turn) /\ WF_vars(HandleNew \/ HandleGone \/ HandleHold)
            /\ WF_vars(L2Poll)
-----------------------------------------------------------------------------
(* Correctness. *)

Age(most) == 0 .. most
Look == [screen : Screens, sync : BOOLEAN]

\* Every variable keeps its type; the newest client is the one adopted last
\* or one about to be.
TypeOK ==
    /\ {drawn, term, held} \subseteq Look
    /\ rx \in Seq(Chunks) /\ Len(rx) <= MaxQueued
    /\ updAge \in Age(SyncHold) /\ blankAge \in Age(BlankHold)
    /\ syncSince \in Age(SyncHold) \union {None} /\ blankSince \in Age(BlankHold) \union {None}
    /\ {hold, syncOwed, blankOwed, late, wake} \subseteq BOOLEAN
    /\ pc \in {"wait", "batch"}
    /\ gen \in 1 .. client /\ poke \in {0, gen}
    /\ client \in 1 .. MaxClients /\ alive \subseteq 1 .. client
    /\ {region, hash, mirror} \subseteq Screens \union {"none"}
    /\ lastSeq \in 0 .. seq

\* The debts are exact when the loop sleeps.  A screen that differs from the
\* frame last published is owed, and the loop wakes for it although no output
\* comes (main.rs:1430-1436), unless the end of a grid hold is what changed it;
\* and nothing is owed that no gate holds: a quiet pane arms no timer
\* (main.rs:679-684).
DebtIsExact == pc = "wait" =>
    /\ ~late /\ region # term.screen => syncOwed \/ blankOwed
    /\ ~term.sync /\ term.screen # Blank => ~syncOwed /\ ~blankOwed

\* While the L2 that L3 adopted runs, L3 pokes it: the end of an older one's
\* socket, whenever it is seen, changes nothing (main.rs:1641-1672).
PokeKept ==
    client = gen /\ client \in alive => poke = client

\* Whatever gates held back and in whatever order clients came and went, the
\* L2 that stays comes to draw what the terminal shows, even if the program
\* never closes its update (and save for the end of a grid hold).
MirrorCatchesUp ==
    <>[](client \in alive) => <>[](late \/ mirror = term.screen)

\* A frame L2 has not read has a poke on its way.
WakeInFlight ==
    client \in alive /\ gen = client /\ pc = "wait" /\ lastSeq # seq => wake

\* main.rs:2686 (a test): "each update is timed from its own start": a frame
\* shown in the middle of an update is one that has been open for MAX_HOLD.
MidPaintOverdue ==
    [][region' # region /\ term'.sync => updAge' = SyncHold]_vars

\* main.rs:741: a wiped screen "waits briefly": a blank frame is shown
\* when the screen has been blank for MAX_HOLD.
BlankSettled ==
    [][region' # region /\ region' = Blank => blankAge' = BlankHold]_vars

\* local_session.rs:489-491: at the end of a hold "the jump is from the old
\* picture to the new one".
ReleaseShown ==
    pc = "wait" /\ ~hold /\ region # term.screen => syncOwed \/ blankOwed
=============================================================================
