------------------------------ MODULE PeerBus ------------------------------
(***************************************************************************)
(* The peer bus: Codex sessions as peers of Claude Code sessions (src/bin/ *)
(* marspot-shell/plugins/peerbus, crates/marspot-peer).  A worker thread   *)
(* binds a pane to the thread its Codex shows, gives it an inbox, hands    *)
(* what arrives to the Codex daemon, and tells a peer that asked for it    *)
(* when the session is idle.                                               *)
(*                                                                         *)
(* The worker handles one event at a time; a call to the daemon blocks it, *)
(* and what arrives meanwhile is set aside, in order: channel and stash    *)
(* are one queue here (`evs`).  One Codex home, every pane and thread in   *)
(* one directory.  Left out: what a message says, names, permission        *)
(* classes and rates (a refusal is a choice), and the limits of channel    *)
(* and stash (256 and 4096 events).  A relay ends with the worker it       *)
(* belongs to, before the next worker opens an inbox.                      *)
(*                                                                         *)
(* Of the daemon, which is not part of the repository: status notes go to  *)
(* every connection, turn notes to those subscribed to the thread; a       *)
(* thread can be resumed once it has run a turn; queued input is taken     *)
(* when a turn ends, before the thread is called idle, and otherwise in    *)
(* less than QUIET_FOR.                                                    *)
(***************************************************************************)
EXTENDS Integers, Sequences, FiniteSets, SequencesExt

CONSTANTS
    Panes,       \* panes, in the order L1 lists them
    Threads,     \* the daemon's threads
    Peers,       \* sessions that ask to be told
    None,
    MaxSubs,     \* MAX_SUBS
    Resumed,     \* threads a command line names
    MaxChanges,  \* bound: starts, moves and ends of a TUI
    MaxSends,    \* bound: frames sent to an inbox
    MaxDeeds,    \* bound: both of these together
    MaxTurns,    \* bound: a person begins a turn while fewer have begun
    MaxMishaps,  \* bound: lost calls and connections, failed inboxes, restarts
    MaxWaiting   \* bound: people and peers act while fewer events wait

ASSUME PeerBusAssumption ==
    /\ Panes \subseteq Nat /\ IsFiniteSet(Panes) /\ IsFiniteSet(Threads)
    /\ None \notin Threads /\ Resumed \subseteq Threads
    /\ MaxSubs \in Nat \ {0}
    /\ {MaxChanges, MaxSends, MaxDeeds, MaxTurns, MaxMishaps, MaxWaiting} \subseteq Nat

VARIABLES
    tui,       \* what each pane runs: process, thread on its command line, title
    loaded,    \* threads the daemon has loaded
    turn,      \* the turn a thread runs, or 0
    queue,     \* input queued for a thread, by the thread it was sent to
    ran,       \* threads that have run a turn
    began,     \* turns begun
    heard,     \* threads this connection is subscribed to
    link,      \* does the connection stand?
    sent,      \* the set of panes the plugin sent last
    evs,       \* events for the worker
    wants,     \* the set of panes the worker knows
    conn,      \* does the worker have a connection?
    bound,     \* its bindings
    nextKey,   \* the inboxes' keys count from 1
    retry,     \* is retry_at set?
    checks,    \* idle_checks
    todo,      \* what a rescan still has to unbind and bind
    dealt,     \* messages handed over, the clock of last_delivered
    astray,    \* ghost: threads whose mail another thread was given
    sure,      \* ghost: no subscribing or unsubscribing call has been lost
    unserved,  \* ghost: panes whose inbox could not be opened since the last rescan
    changes, sends, mishaps

world  == <<tui, loaded, turn, queue, ran, began>>
daemon == <<heard, link>>
ghosts == <<astray, sure, unserved>>
bounds == <<changes, sends, mishaps>>
worker == <<wants, conn, bound, nextKey, retry, checks, todo, dealt>>
vars   == <<world, daemon, sent, evs, worker, ghosts, bounds>>

NoBinding == [key |-> 0]
NoTui  == [proc |-> 0, argv |-> None, shows |-> None]
NoWork == [drop |-> {}, join |-> {}]
Bound  == {p \in Panes : bound[p].key # 0}
BoundTo(t) == {p \in Bound : bound[p].thread = t}
Quiet(t) == turn[t] = 0 /\ queue[t] = <<>>

-----------------------------------------------------------------------------
(* Codex: the TUIs in the panes, and the daemon behind them                 *)

Note(es) == IF link THEN evs \o es ELSE evs
TurnNote(t, e) == IF t \in heard THEN <<e>> ELSE <<>>
Busy(t) == [op |-> "status", thread |-> t, idle |-> FALSE]
Idle(t) == [op |-> "status", thread |-> t, idle |-> TRUE]
Started(t, n) == TurnNote(t, [op |-> "turn", thread |-> t, turn |-> n])
Completed(t)  == TurnNote(t, [op |-> "turn", thread |-> t, turn |-> 0])
Reload == [op |-> "threads"]

Free == Len(evs) < MaxWaiting
Few == Free /\ changes + sends < MaxDeeds
Change == Few /\ changes < MaxChanges /\ changes' = changes + 1
TuiOnly == UNCHANGED <<turn, queue, ran, began, daemon, sent, worker, ghosts, sends, mishaps>>

Starts(p) ==
    /\ tui[p].proc = 0 /\ Change
    /\ \E a \in Resumed \cup {None} :
          tui' = [tui EXCEPT ![p] = [proc |-> changes + 1, argv |-> a, shows |-> None]]
    /\ UNCHANGED <<loaded, evs>> /\ TuiOnly

\* The title names the thread it shows; /resume shows another.
Shows(p, t) ==
    /\ tui[p].proc # 0 /\ tui[p].shows # t /\ Change
    /\ tui[p].shows = None => tui[p].argv \in {t, None}
    /\ tui' = [tui EXCEPT ![p].shows = t]
    /\ loaded' = loaded \cup {t}
    /\ evs' = IF t \in loaded THEN evs ELSE Note(<<Reload>>)
    /\ TuiOnly

Quits(p) ==
    /\ tui[p].proc # 0 /\ Change
    /\ tui' = [tui EXCEPT ![p] = NoTui]
    /\ UNCHANGED <<loaded, evs>> /\ TuiOnly

\* Half an hour without a subscriber.
Unloads(t) ==
    /\ t \in loaded \ heard /\ Quiet(t)
    /\ \A p \in Panes : tui[p].shows # t
    /\ loaded' = loaded \ {t}
    /\ evs' = Note(<<Reload>>)
    /\ UNCHANGED <<tui, changes>> /\ TuiOnly

Begins(t, rest) ==
    /\ t \in loaded /\ turn[t] = 0
    /\ began' = began + 1
    /\ turn' = [turn EXCEPT ![t] = began + 1]
    /\ queue' = [queue EXCEPT ![t] = rest]
    /\ ran' = ran \cup {t}
    /\ evs' = Note(<<Busy(t)>> \o Started(t, began + 1))
    /\ UNCHANGED <<tui, loaded, daemon, sent, worker, ghosts, bounds>>

PersonAsks(t) ==
    /\ Free /\ began < MaxTurns /\ queue[t] = <<>>
    /\ \E p \in Panes : tui[p].shows = t
    /\ Begins(t, <<>>)

TakesQueued(t) == queue[t] # <<>> /\ Begins(t, Tail(queue[t]))

\* A subscription keeps whether the thread has been idle since it was sent.
AskOf(x, t) == x.op = "ask" /\ \E p \in BoundTo(t) : bound[p].key = x.key
RestedAsks(t) == [i \in DOMAIN evs |-> IF AskOf(evs[i], t) THEN [evs[i] EXCEPT !.idled = TRUE] ELSE evs[i]]
Rested(t) == [p \in Panes |->
    IF p \in BoundTo(t)
    THEN [bound[p] EXCEPT !.subs = {[s EXCEPT !.idled = TRUE] : s \in @}]
    ELSE bound[p]]

TurnEnds(t) ==
    /\ turn[t] # 0
    /\ IF queue[t] # <<>>
       THEN /\ began' = began + 1
            /\ turn' = [turn EXCEPT ![t] = began + 1]
            /\ queue' = [queue EXCEPT ![t] = Tail(@)]
            /\ evs' = Note(Completed(t) \o Started(t, began + 1))
            /\ UNCHANGED bound
       ELSE /\ turn' = [turn EXCEPT ![t] = 0]
            /\ evs' = RestedAsks(t) \o (IF link THEN Completed(t) \o <<Idle(t)>> ELSE <<>>)
            /\ bound' = Rested(t)
            /\ UNCHANGED <<queue, began>>
    /\ UNCHANGED <<tui, loaded, ran, daemon, sent, wants, conn, nextKey, retry,
                   checks, todo, dealt, ghosts, bounds>>

\* Nothing heard before says how things are now.
Unfollowed == [p \in Panes |-> IF p \in Bound THEN [bound[p] EXCEPT !.followed = FALSE] ELSE NoBinding]

\* The connection ends, and perhaps the daemon with it.
Breaks(dies) ==
    /\ Free /\ link /\ mishaps < MaxMishaps /\ mishaps' = mishaps + 1
    /\ link' = FALSE /\ heard' = {} /\ sure' = TRUE
    /\ evs' = Append(evs, [op |-> "closed"])
    /\ bound' = Unfollowed
    /\ loaded' = IF dies THEN {} ELSE loaded
    /\ turn' = IF dies THEN [t \in Threads |-> 0] ELSE turn
    /\ queue' = IF dies THEN [t \in Threads |-> <<>>] ELSE queue
    /\ UNCHANGED <<tui, ran, began, sent, wants, conn, nextKey, retry, checks,
                   todo, dealt, astray, unserved, changes, sends>>

-----------------------------------------------------------------------------
(* Calls                                                                    *)

\* "lost": the daemon did it and the worker gave up waiting; "unsent": the
\* daemon could not be reached, or never looked at it.
Outcomes == (IF conn /\ ~link THEN {"closed"} ELSE {"ok"})
            \cup (IF mishaps < MaxMishaps THEN {"lost", "unsent"} ELSE {})
Reached(r) == r \in {"ok", "lost"} /\ (conn => link)
Call(r) ==
    /\ r \in Outcomes
    /\ conn' = (conn \/ Reached(r))
    /\ link' = (link \/ Reached(r))
    /\ mishaps' = mishaps + (IF r \in {"lost", "unsent"} THEN 1 ELSE 0)
NoCall == UNCHANGED <<conn, link, mishaps>>

\* thread/resume: would it be answered with the thread's settings?
Resumes(t) == t \in loaded \cap ran
HeardAfter(t, r) == IF Reached(r) /\ Resumes(t) THEN heard \cup {t} ELSE heard
Subscribed(t, r) == r = "ok" /\ Resumes(t)
SureAfter(r) == sure /\ r \in {"ok", "closed"}

-----------------------------------------------------------------------------
(* A rescan                                                                 *)

\* bind::assign.  A title names a thread or nothing; then what is bound and
\* still loaded, then the command line; then one pane and one thread left over.
Assign(ws, live) ==
    LET titled == {p \in live : ws[p].shows # None}
        named == {ws[p].shows : p \in titled}
        Settle(plan, p) ==
            LET free == loaded \ (named \cup Range(plan))
            IN  IF p \notin live \ titled THEN plan
                ELSE IF p \in Bound /\ bound[p].thread \in free
                     THEN [plan EXCEPT ![p] = bound[p].thread]
                ELSE IF tui[p].argv \in free THEN [plan EXCEPT ![p] = tui[p].argv]
                ELSE plan
        settled == FoldLeft(Settle, [p \in Panes |-> None], SetToSortSeq(Panes, <))
        open == {p \in live \ titled : settled[p] = None}
        free == loaded \ (named \cup Range(settled))
    IN  [p \in Panes |->
            IF p \in titled THEN IF ws[p].shows \in loaded THEN ws[p].shows ELSE None
            ELSE IF open = {p} /\ Cardinality(free) = 1 THEN CHOOSE t \in free : TRUE
            ELSE settled[p]]

\* What is still bound rightly stays; the rest is unbound, then bound anew.
Work(ws, live) ==
    LET plan == Assign(ws, live)
        stay == {p \in Bound \cap live : bound[p].proc = ws[p].proc /\ bound[p].thread = plan[p]}
    IN  [drop |-> Bound \ stay,
         join |-> {[pane |-> p, thread |-> plan[p], proc |-> ws[p].proc] :
                      p \in {q \in live \ stay : plan[q] \in loaded}}]

\* A daemon that could not be asked has not said no.  (NoRetry: it is not asked
\* again.)
NoRetry(armed, failed) == armed
Retries(armed, failed) == armed \/ failed

Refresh(ws, armed) ==
    LET live == {p \in Panes : ws[p].proc # 0 /\ ws[p].proc = tui[p].proc}
    IN  /\ unserved' = {}
        /\ IF live = {}
           THEN NoCall /\ todo' = Work(ws, live) /\ retry' = armed
           ELSE \E r \in Outcomes :
                    /\ Call(r)
                    /\ todo' = IF r = "ok" THEN Work(ws, live) ELSE NoWork
                    /\ retry' = Retries(armed, r # "ok")

\* unbind: the subscribers are told the session has gone, and the connection's
\* subscription is given up.
Unbind(p) ==
    LET b == bound[p]
    IN  /\ p \in todo.drop
        /\ todo' = [todo EXCEPT !.drop = @ \ {p}]
        /\ bound' = [bound EXCEPT ![p] = NoBinding]
        /\ IF b.subscribed /\ conn
           THEN \E r \in Outcomes :
                    /\ Call(r) /\ sure' = SureAfter(r)
                    /\ heard' = IF Reached(r) THEN heard \ {b.thread} ELSE heard
           ELSE NoCall /\ UNCHANGED <<heard, sure>>
        /\ UNCHANGED <<world, sent, evs, wants, nextKey, retry, checks, dealt,
                       astray, unserved, changes, sends>>

\* An inbox's key is not used twice.  (PaneKey: the pane's number would do.)
PaneKey(p) == p
NewKey(p) == nextKey

\* A note of an earlier subscription to the thread is still to be handled.
Heralded(t) == \E i \in DOMAIN evs : evs[i].op \in {"turn", "status"} /\ evs[i].thread = t

\* Two bindings of one thread disturb each other's subscription.
Doubted(t) == [p \in Panes |->
    IF p \in BoundTo(t) THEN [bound[p] EXCEPT !.followed = FALSE] ELSE bound[p]]

\* A subscription whose inbox did not open is given up.  (StillHeard: it is kept.)
StillHeard(t, was) == was
GivenUp(t, was) == was \ {t}

\* The panes in the order L1 lists them.
First(join) == {j \in join : \A k \in join : j.pane <= k.pane}

Bind == \E j \in First(todo.join) :
    LET t == j.thread
    IN  /\ todo.drop = {}
        /\ todo' = [todo EXCEPT !.join = @ \ {j}]
        /\ nextKey' = nextKey + 1
        /\ \E r \in Outcomes :
              \/ /\ Call(r)
                 /\ sure' = SureAfter(r)
                 /\ heard' = HeardAfter(t, r)
                 /\ bound' = [Doubted(t) EXCEPT ![j.pane] =
                       [key |-> NewKey(j.pane), proc |-> j.proc, thread |-> t,
                        subscribed |-> Subscribed(t, r), active |-> 0, idle |-> TRUE,
                        last |-> 0, subs |-> {},
                        followed |-> link' /\ Quiet(t) /\ BoundTo(t) = {} /\ ~Heralded(t)]]
                 /\ UNCHANGED unserved
              \/ \* the relay did not start
                 /\ r \in {"ok", "closed"} /\ mishaps < MaxMishaps
                 /\ mishaps' = mishaps + 1
                 /\ conn' = (conn \/ Reached(r)) /\ link' = (link \/ Reached(r))
                 /\ \E u \in {"ok", "lost", "unsent"} :
                       /\ sure' = (SureAfter(r) /\ (Subscribed(t, r) => u = "ok"))
                       /\ heard' = IF Subscribed(t, r) /\ u # "unsent"
                                   THEN GivenUp(t, HeardAfter(t, r)) ELSE HeardAfter(t, r)
                 /\ unserved' = unserved \cup {j.pane}
                 /\ bound' = Doubted(t)
        /\ UNCHANGED <<world, sent, evs, wants, retry, checks, dealt, astray, changes, sends>>

-----------------------------------------------------------------------------
(* Events                                                                   *)

At(op) ==
    /\ todo = NoWork /\ evs # <<>> /\ Head(evs).op = op
    /\ evs' = Tail(evs)
e == Head(evs)
Key == {p \in Bound : bound[p].key = e.key}

HandleWant ==
    /\ At("want")
    /\ IF e.wants = wants
       THEN NoCall /\ UNCHANGED <<wants, todo, retry, unserved>>
       ELSE wants' = e.wants /\ Refresh(e.wants, retry)
    /\ UNCHANGED <<world, heard, sent, bound, nextKey, checks, dealt, astray, sure, changes, sends>>

HandleThreads ==
    /\ At("threads") /\ Refresh(wants, retry)
    /\ UNCHANGED <<world, heard, sent, wants, bound, nextKey, checks, dealt, astray, sure, changes, sends>>

HandleClosed ==
    /\ At("closed")
    /\ conn' = FALSE /\ retry' = Retries(retry, TRUE)
    /\ bound' = [p \in Panes |-> IF p \in Bound THEN [bound[p] EXCEPT !.subscribed = FALSE] ELSE NoBinding]
    /\ UNCHANGED <<world, daemon, sent, wants, nextKey, checks, todo, dealt, ghosts, bounds>>

\* thread/status/changed: a thread that is idle can be subscribed to, and one
\* that became idle has its subscribers told.
HandleStatus ==
    /\ At("status")
    /\ \/ BoundTo(e.thread) = {} /\ NoCall /\ UNCHANGED <<heard, bound, sure>>
       \/ \E p \in BoundTo(e.thread), r \in Outcomes :
             LET b == bound[p]
                 asks == e.idle /\ ~b.subscribed
             IN  /\ IF asks THEN Call(r) /\ heard' = HeardAfter(e.thread, r) /\ sure' = SureAfter(r)
                    ELSE NoCall /\ UNCHANGED <<heard, sure>>
                 /\ bound' = [bound EXCEPT ![p] = [b EXCEPT
                        !.subscribed = IF asks THEN Subscribed(e.thread, r) ELSE @,
                        !.idle = e.idle,
                        !.subs = IF e.idle /\ ~b.idle THEN {} ELSE @]]
    /\ UNCHANGED <<world, sent, wants, nextKey, retry, checks, todo, dealt, astray, unserved, changes, sends>>

\* turn/started and turn/completed.
HandleTurn ==
    /\ At("turn")
    /\ IF BoundTo(e.thread) = {} THEN UNCHANGED bound
       ELSE \E p \in BoundTo(e.thread) : bound' = [bound EXCEPT ![p].active = e.turn]
    /\ UNCHANGED <<world, daemon, sent, wants, conn, nextKey, retry, checks, todo, dealt, ghosts, bounds>>

\* hand_over: into the running turn if asked to and it still runs; queued if not,
\* and also if that call has failed, whatever the daemon made of it.
HandOver(p, steers, r) ==
    LET t == bound[p].thread
        steered == IF steers /\ turn[t] = bound[p].active THEN Outcomes ELSE {"refused"}
    IN  /\ r \in Outcomes
        /\ conn' = (conn \/ Reached(r)) /\ link' = (link \/ Reached(r))
        /\ \E s \in steered :
              /\ s = "ok" => r = "ok"
              /\ mishaps' = mishaps + (IF {s, r} \cap {"lost", "unsent"} # {} THEN 1 ELSE 0)
              /\ astray' = IF t \in loaded /\ (Reached(s) \/ Reached(r))
                           THEN astray \cup ({e.for} \ {t}) ELSE astray
              /\ queue' = IF t \in loaded /\ s # "ok" /\ Reached(r)
                          THEN [queue EXCEPT ![t] = Append(@, e.for)] ELSE queue

\* A message whose inbox is gone has nobody to go to; one may be refused.
HandleMail ==
    /\ At("mail")
    /\ \/ NoCall /\ UNCHANGED <<astray, queue, bound, dealt>>
       \/ \E p \in Key, r \in Outcomes :
             LET b == bound[p]
             IN  /\ HandOver(p, e.now /\ b.active # 0 /\ b.subscribed, r)
                 /\ IF r = "ok" /\ b.thread \in loaded
                    THEN dealt' = dealt + 1 /\ bound' = [bound EXCEPT ![p].last = dealt + 1]
                    ELSE /\ UNCHANGED dealt
                         /\ bound' = [bound EXCEPT ![p].followed = @ /\ ~Reached(r)]
    /\ UNCHANGED <<tui, loaded, turn, ran, began, heard, sent, wants, nextKey, retry, checks,
                   todo, sure, unserved, changes, sends>>

\* notice: the words for an idle notice this session asked for.
HandleTold ==
    /\ At("told")
    /\ \/ NoCall /\ UNCHANGED <<astray, queue, bound>>
       \/ \E p \in Key, r \in Outcomes :
             /\ HandOver(p, FALSE, r)
             /\ bound' = [bound EXCEPT ![p].followed = @ /\ ~Reached(r)]
    /\ UNCHANGED <<tui, loaded, turn, ran, began, heard, sent, wants, nextKey, retry, checks,
                   todo, dealt, sure, unserved, changes, sends>>

\* notify_when_idle.  Idle now: look again shortly.  (NotLooked: it is not.)
NotLooked(b) == FALSE
LooksAgain(b) == b.idle /\ b.active = 0

HandleAsk ==
    /\ At("ask")
    /\ IF \E p \in Key : Cardinality(bound[p].subs) < MaxSubs
       THEN \E p \in Key :
              LET b == bound[p]
                  others == {s \in b.subs : s.to # e.to}
              IN  /\ bound' = [bound EXCEPT ![p].subs = others \cup {[to |-> e.to, idled |-> e.idled]}]
                  /\ checks' = IF LooksAgain(b)
                               THEN checks \cup {[pane |-> p, since |-> dealt, left |-> 1]} ELSE checks
       ELSE UNCHANGED <<bound, checks>>
    /\ UNCHANGED <<world, daemon, sent, wants, conn, nextKey, retry, todo, dealt, ghosts, bounds>>

-----------------------------------------------------------------------------
(* Timers: only when no event waits                                         *)

Waits == todo = NoWork /\ evs = <<>>

RetryDue ==
    /\ Waits /\ retry /\ Refresh(wants, FALSE)
    /\ UNCHANGED <<world, heard, sent, evs, wants, bound, nextKey, checks, dealt, astray, sure, changes, sends>>

\* Still idle and nothing handed over since: no turn is coming.  (HandedOrNot:
\* what was handed over is not asked.)  A look reads the bindings alone: one
\* that the code takes after the rescan of a retry, in the same pass and perhaps
\* with events waiting, is here taken before that rescan.
HandedOrNot(b, c) == b.idle /\ b.active = 0
NoTurnComing(b, c) == b.idle /\ b.active = 0 /\ b.last <= c.since

ChecksDue ==
    LET due == {c \in checks : c.left = 0}
    IN  /\ Waits /\ due # {}
        /\ checks' = checks \ due
        /\ bound' = [p \in Panes |->
              IF p \in Bound /\ \E c \in due : c.pane = p /\ NoTurnComing(bound[p], c)
              THEN [bound[p] EXCEPT !.subs = {}] ELSE bound[p]]
        /\ UNCHANGED <<world, daemon, sent, evs, wants, conn, nextKey, retry, todo, dealt, ghosts, bounds>>

\* QUIET_FOR passes.
Tick ==
    /\ \E c \in checks : c.left = 1
    /\ \A t \in loaded : queue[t] # <<>> => turn[t] # 0
    /\ checks' = {[c EXCEPT !.left = 0] : c \in checks}
    /\ UNCHANGED <<world, daemon, sent, evs, wants, conn, bound, nextKey, retry, todo, dealt, ghosts, bounds>>

-----------------------------------------------------------------------------
(* What reaches the worker                                                  *)

\* The main thread's tick: the panes that run Codex, if they are others now.
Observed == [p \in Panes |-> [proc |-> tui[p].proc, shows |-> tui[p].shows]]
Offer ==
    /\ Observed # sent
    /\ sent' = Observed
    /\ evs' = Append(evs, [op |-> "want", wants |-> Observed])
    /\ UNCHANGED <<world, daemon, worker, ghosts, bounds>>

\* A peer writes to a session's public socket; the relay and a thread for each
\* connection pass it on, after whatever is in the queue by then.
Frames(p) ==
    LET key == bound[p].key
        for == bound[p].thread
    IN  [op : {"mail"}, key : {key}, for : {for}, now : BOOLEAN]
        \cup [op : {"told"}, key : {key}, for : {for}]
        \cup [op : {"ask"}, key : {key}, to : Peers, idled : {Quiet(for)}]
Send(p) ==
    /\ Few /\ p \in Bound /\ sends < MaxSends
    /\ sends' = sends + 1
    /\ \E f \in Frames(p) : evs' = Append(evs, f)
    /\ UNCHANGED <<world, daemon, sent, worker, ghosts, changes, mishaps>>

NoWants == [p \in Panes |-> [proc |-> 0, shows |-> None]]
NewWorker ==
    /\ wants' = NoWants /\ sent' = NoWants
    /\ conn' = FALSE /\ link' = FALSE /\ heard' = {}
    /\ bound' = [p \in Panes |-> NoBinding]
    /\ nextKey' = 1
    /\ retry' = FALSE
    /\ checks' = {} /\ todo' = NoWork /\ dealt' = 0
    /\ evs' = <<>>
    /\ sure' = TRUE /\ unserved' = {}

\* L1 executes itself anew.
Reexec ==
    /\ mishaps < MaxMishaps /\ mishaps' = mishaps + 1
    /\ NewWorker
    /\ UNCHANGED <<world, astray, changes, sends>>

-----------------------------------------------------------------------------
Init ==
    /\ tui = [p \in Panes |-> NoTui] /\ loaded = {}
    /\ turn = [t \in Threads |-> 0] /\ queue = [t \in Threads |-> <<>>]
    /\ ran = {} /\ began = 0
    /\ heard = {} /\ link = FALSE
    /\ sent = NoWants /\ evs = <<>>
    /\ wants = NoWants /\ conn = FALSE
    /\ bound = [p \in Panes |-> NoBinding]
    /\ nextKey = 1 /\ retry = FALSE /\ checks = {} /\ todo = NoWork /\ dealt = 0
    /\ astray = {} /\ sure = TRUE /\ unserved = {}
    /\ changes = 0 /\ sends = 0 /\ mishaps = 0

Handles == HandleWant \/ HandleThreads \/ HandleClosed \/ HandleStatus \/ HandleTurn
           \/ HandleMail \/ HandleTold \/ HandleAsk
Works == Handles \/ (\E p \in Panes : Unbind(p)) \/ Bind \/ RetryDue \/ ChecksDue

Codex ==
    \/ \E p \in Panes : Starts(p) \/ Quits(p) \/ \E t \in Threads : Shows(p, t)
    \/ \E t \in Threads : Unloads(t) \/ PersonAsks(t) \/ TakesQueued(t) \/ TurnEnds(t)
    \/ \E dies \in BOOLEAN : Breaks(dies)

Next == Works \/ Codex \/ Tick \/ Offer \/ Reexec
        \/ \E p \in Panes : Send(p)

Spec == Init /\ [][Next]_vars

-----------------------------------------------------------------------------
Bindings == [key : Nat, proc : Nat, thread : Threads, subscribed : BOOLEAN, active : Nat,
             idle : BOOLEAN, last : Nat, subs : SUBSET [to : Peers, idled : BOOLEAN], followed : BOOLEAN]

\* Every variable holds a value of its kind.
TypeOK ==
    /\ \A p \in Panes : tui[p].proc \in Nat /\ {tui[p].argv, tui[p].shows} \subseteq Threads \cup {None}
    /\ {loaded, ran, heard} \subseteq SUBSET Threads
    /\ turn \in [Threads -> Nat] /\ queue \in [Threads -> Seq(Threads)]
    /\ {link, conn, retry, sure} \subseteq BOOLEAN
    /\ \A p \in Bound : bound[p] \in Bindings
    /\ \A c \in checks : c.pane \in Panes /\ c.left \in {0, 1}
    /\ todo.drop \subseteq Panes /\ unserved \subseteq Panes
    /\ astray \subseteq Threads

\* A frame is handed to the thread its sender addressed and to no other, though
\* its inbox may have closed and its pane been bound to another thread while it
\* was on its way (worker.rs:91-93, bind.rs:4-6).
MailToItsThread == astray = {}

\* An idle notice is earned (idle.rs:31-41): the thread has been idle, with
\* nothing queued, since the subscription was sent; and one that no turn preceded
\* goes out only while nothing that was handed over waits to be taken.  Of a
\* binding that began with an idle thread and has heard of it without a gap.
Tells(p) == /\ p \in Bound /\ bound[p].subs # {}
            /\ bound'[p].key = bound[p].key /\ bound'[p].subs = {}
NoticeEarned ==
    [][\A p \in Panes : Tells(p) /\ bound[p].followed =>
          /\ \A s \in bound[p].subs : s.idled
          /\ evs = <<>> => Quiet(bound[p].thread)]_vars

\* The connection is subscribed to the threads of its bindings and to no others
\* (lifecycle.rs:251-255: one left behind keeps the thread of a TUI that has
\* quit loaded for as long as marspot runs), unless a call was lost.
NoStraySubscription ==
    todo = NoWork /\ sure => heard \subseteq {bound[p].thread : p \in {q \in Bound : bound[q].subscribed}}

\* When the worker rests with nothing to come, every pane whose title names a
\* loaded thread has that thread's inbox, for the process it runs now, and no
\* other pane without Codex has one; whatever came first, the process, the
\* title, the thread or the connection (worker.rs:163-225, lifecycle.rs:25-107).
WantsServed ==
    Waits /\ ~retry /\ sent = Observed =>
        \A p \in Panes :
            /\ tui[p].proc = 0 => p \notin Bound
            /\ tui[p].shows \in loaded \ {None} =>
                  \/ p \in unserved
                  \/ p \in Bound /\ bound[p].thread = tui[p].shows /\ bound[p].proc = tui[p].proc
            /\ p \in Bound /\ tui[p].shows # None => bound[p].thread = tui[p].shows

\* Nobody waits for a notice that will not come (idle.rs:1-4): when the worker
\* rests with no look due, a thread that is quiet has no subscriber left, if its
\* binding began with an idle thread and has heard of it without a gap.
SubscriberTold ==
    Waits /\ checks = {} =>
        \A p \in Bound : bound[p].followed /\ Quiet(bound[p].thread) => bound[p].subs = {}
=============================================================================
