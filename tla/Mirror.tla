------------------------------- MODULE Mirror -------------------------------
(***************************************************************************)
(* The screens a browser holds of mymuxd's native panes: a pane's output   *)
(* runs from ptyd through the hub's broadcast channel, which drops the     *)
(* oldest events of a client that lags, to the websocket; snapshots (seeds)*)
(* are fetched from ptyd on the side and follow the same channel, or go    *)
(* straight to one client when it connects or has lagged.                  *)
(*                                                                         *)
(* A pane's bytes are numbered chunks. A snapshot has every chunk so far.  *)
(* Each pane is a window of its own, and the view is shared.               *)
(***************************************************************************)
EXTENDS Naturals, Sequences

CONSTANTS
    Panes,
    Handlers,   \* websocket handlers; one whose socket closed may still work
    None,
    Writing,    \* the panes that write (bound)
    MaxOut,     \* chunks a pane writes (bound)
    Cap,        \* capacity of the broadcast channel (4096; bound)
    MaxCmds,    \* commands of the user (bound)
    MaxConns,   \* connections (bound)
    MaxFails    \* snapshots that ptyd does not answer in time (bound)

ASSUME MirrorAssumption ==
    /\ None \notin Panes \cup Handlers /\ Writing \subseteq Panes
    /\ MaxOut \in Nat /\ MaxCmds \in Nat /\ MaxConns \in Nat /\ MaxFails \in Nat
    /\ Cap \in Nat \ {0}

VARIABLES
    grid,       \* chunks in each pane's grid (ptyd)
    pipe,       \* output between ptyd and the hub's broadcast channel
    view,       \* hub.active_view
    events,     \* what the client's receiver has not got yet
    lagged,     \* events it should have got were dropped
    sender,     \* the send task of the connection
    cmds,       \* what each handler has still to read
    task,       \* what each handler is doing
    conn,       \* the handler of the open socket, or None
    term,       \* the browser's terminals; passed is a history variable
    shown,      \* the pane it shows
    timer,      \* its truth-repaint timer is set
    count       \* chunks, commands, connections and failures so far

hub == <<view, events, lagged>>
ui == <<term, shown, timer>>
vars == <<grid, pipe, view, events, lagged, sender, cmds, task, conn, term, shown, timer, count>>

Chunks == 1..MaxOut
NoTerm == [held |-> FALSE, has |-> {}, live |-> FALSE, seeded |-> FALSE, passed |-> FALSE]
Term == [held : BOOLEAN, has : SUBSET Chunks, live : BOOLEAN, seeded : BOOLEAN, passed : BOOLEAN]

\* Events of the channel. A state says which pane is viewed.
Out(p, k) == [t |-> "output", p |-> p, n |-> k]
Seed(p, k) == [t |-> "seed", p |-> p, n |-> k]
State(p) == [t |-> "state", p |-> p, n |-> 0]
Event == [t : {"output", "seed", "state"}, p : Panes, n : 0..MaxOut]

\* What a handler or the send task has in hand: a state it has built and not
\* sent, a pane whose snapshot it wants, a snapshot it has and has not sent.
Idle == [at |-> "idle", p |-> None, n |-> 0]
Doing(at, p, k) == [at |-> at, p |-> p, n |-> k]
Work == [at : {"idle", "json", "want", "seed"}, p : Panes \cup {None}, n : 0..MaxOut]
Sender == [at : {"off", "hello", "state", "run", "want", "seed"}, p : Panes \cup {None}, n : 0..MaxOut]
Cmd == [t : {"select", "refresh"}, p : Panes]

TypeOK ==
    /\ grid \in [Panes -> 0..MaxOut]
    /\ pipe \in Seq([p : Panes, n : Chunks])
    /\ view \in Panes
    /\ events \in Seq(Event) /\ Len(events) <= Cap
    /\ lagged \in BOOLEAN
    /\ sender \in Sender
    /\ cmds \in [Handlers -> Seq(Cmd)]
    /\ task \in [Handlers -> Work]
    /\ conn \in Handlers \cup {None}
    /\ term \in [Panes -> Term]
    /\ \A p \in Panes : ~term[p].held => term[p] = NoTerm
    /\ shown \in Panes \cup {None}
    /\ timer \in BOOLEAN
    /\ count \in [cmds : 0..MaxCmds, conns : 0..MaxConns, fails : 0..MaxFails]

Init ==
    /\ grid = [p \in Panes |-> 0] /\ pipe = <<>>
    /\ view \in Panes
    /\ events = <<>> /\ lagged = FALSE
    /\ sender = Doing("off", None, 0)
    /\ cmds = [h \in Handlers |-> <<>>]
    /\ task = [h \in Handlers |-> Idle]
    /\ conn = None
    /\ term = [p \in Panes |-> NoTerm] /\ shown = None /\ timer = FALSE
    /\ count = [cmds |-> 0, conns |-> 0, fails |-> 0]

-----------------------------------------------------------------------------
(* The browser (workspace.ts).                                             *)

\* mutant: only hidden terminals are distrusted
DropHidden == [p \in Panes |-> IF p = shown THEN term[p] ELSE NoTerm]

\* History, for the properties: the chunks the browser will still get ...
Coming(p) ==
    {pipe[i].n : i \in {j \in DOMAIN pipe : pipe[j].p = p}} \cup
    {events[i].n : i \in {j \in DOMAIN events : events[j].t = "output" /\ events[j].p = p}}

\* ... and the seeds of it that are under way to it.
Seeds(p) ==
    {events[i].n : i \in {j \in DOMAIN events : events[j].t = "seed" /\ events[j].p = p}} \cup
    {task[h].n : h \in {g \in Handlers : task[g].at = "seed" /\ task[g].p = p}}

\* A seed under way has been passed by a chunk it lacks, which came or was
\* dropped before.
Passed(p) == \E k \in Seeds(p) : ~((k + 1)..grid[p] \subseteq Coming(p))

\* A terminal without a screen to trust: it waits for a seed.
Waiting(t, p) == [t EXCEPT !.held = TRUE, !.live = FALSE, !.seeded = FALSE, !.passed = Passed(p)]

\* distrustAll: hidden terminals go, the one shown waits for a seed.
Distrusted ==
    [p \in Panes |-> IF p = shown /\ term[p].held THEN Waiting(term[p], p) ELSE NoTerm]

\* A terminal that comes into view is made, or reattached; what it painted
\* in another size while hidden is stale.
Attach(ts, p, drift) ==
    [ts EXCEPT ![p] =
        IF ~@.held \/ (p # shown /\ drift) THEN Waiting(@, p) ELSE @]

\* applyLayout; the timer asks for a repaint if the set of panes changed,
\* but not when the first terminal is made.
Show(ts, p) ==
    /\ \E drift \in BOOLEAN : term' = Attach(ts, p, drift)
    /\ shown' = p
    /\ LET before == {q \in Panes : ts[q].held}
       IN  timer' = (timer \/ (before # {} /\ before # {p}))

\* A seed starts the screen anew, output goes on with it.
Painted(t, e) ==
    [t EXCEPT !.has = IF e.t = "seed" THEN 1..e.n ELSE @ \cup {e.n},
              !.live = TRUE, !.seeded = @ \/ e.t = "seed"]

\* mutant: a seed replaces whatever is there
PaintAlways(ts, e) == IF ~ts[e.p].held THEN ts ELSE [ts EXCEPT ![e.p] = Painted(@, e)]

\* onBinary: a seed is left out where output is live.
Paint(ts, e) ==
    IF ~ts[e.p].held \/ (e.t = "seed" /\ ts[e.p].live) THEN ts
    ELSE [ts EXCEPT ![e.p] = Painted(@, e)]

Receive(e) ==
    IF e.t = "state" THEN Show(term, e.p)
    ELSE term' = Paint(term, e) /\ UNCHANGED <<shown, timer>>

-----------------------------------------------------------------------------
(* ptyd, and the pump that emits its output.                               *)

\* broadcast::Sender::send: a full channel loses its oldest event.
Push(e) ==
    /\ events' = IF sender.at = "off" THEN events
                 ELSE Append(IF Len(events) = Cap THEN Tail(events) ELSE events, e)
    /\ lagged' = (lagged \/ (sender.at # "off" /\ Len(events) = Cap))

Write(p) ==
    /\ grid[p] < MaxOut
    /\ grid' = [grid EXCEPT ![p] = @ + 1]
    /\ pipe' = Append(pipe, [p |-> p, n |-> grid[p] + 1])
    /\ UNCHANGED <<hub, sender, cmds, task, conn, ui, count>>

Pump ==
    /\ pipe # <<>>
    /\ pipe' = Tail(pipe)
    /\ Push(Out(Head(pipe).p, Head(pipe).n))
    /\ UNCHANGED <<grid, view, sender, cmds, task, conn, ui, count>>

\* persist.snapshot gives the grid as it is when ptyd answers; with no answer
\* in time it is empty, and nothing is sent.
Answers == UNCHANGED count
TimesOut == count.fails < MaxFails /\ count' = [count EXCEPT !.fails = @ + 1]

-----------------------------------------------------------------------------
(* The handler's command loop.                                             *)

Begin(h, w) == task' = [task EXCEPT ![h] = w]

\* select_window: the view, then the state ...
Select(h) ==
    /\ task[h].at = "idle" /\ cmds[h] # <<>> /\ Head(cmds[h]).t = "select"
    /\ cmds' = [cmds EXCEPT ![h] = Tail(@)]
    /\ view' = Head(cmds[h]).p
    /\ Begin(h, Doing("json", Head(cmds[h]).p, 0))
    /\ UNCHANGED <<grid, pipe, events, lagged, sender, conn, ui, count>>

\* ... which is built before it is emitted ...
Emit(h) ==
    /\ task[h].at = "json"
    /\ Push(State(task[h].p))
    /\ Begin(h, Doing("want", None, 0))
    /\ UNCHANGED <<grid, pipe, view, sender, cmds, conn, ui, count>>

\* reseed_pane
Refresh(h) ==
    /\ task[h].at = "idle" /\ cmds[h] # <<>> /\ Head(cmds[h]).t = "refresh"
    /\ cmds' = [cmds EXCEPT ![h] = Tail(@)]
    /\ Begin(h, Doing("want", Head(cmds[h]).p, 0))
    /\ UNCHANGED <<grid, pipe, hub, sender, conn, ui, count>>

\* ... then a snapshot: of the pane asked for, or of what is in view by now.
Fetch(h) ==
    /\ task[h].at = "want"
    /\ LET p == IF task[h].p = None THEN view ELSE task[h].p
       IN  \/ Answers /\ Begin(h, Doing("seed", p, grid[p]))
           \/ TimesOut /\ Begin(h, Idle)
    /\ UNCHANGED <<grid, pipe, hub, sender, cmds, conn, ui>>

EmitSeed(h) ==
    /\ task[h].at = "seed"
    /\ Push(Seed(task[h].p, task[h].n))
    /\ Begin(h, Idle)
    /\ UNCHANGED <<grid, pipe, view, sender, cmds, conn, ui, count>>

-----------------------------------------------------------------------------
(* The send task: state and seed on connecting, and again after a lag.     *)

To(at, p, k) == sender' = Doing(at, p, k)

SendState ==
    /\ sender.at = "hello"
    /\ Show(term, view)
    /\ To("want", None, 0)
    /\ UNCHANGED <<grid, pipe, hub, cmds, task, conn, count>>

\* mutant: a client that lagged gets its seeds only
SkipState ==
    /\ sender.at = "run" /\ lagged
    /\ lagged' = FALSE
    /\ term' = Distrusted
    /\ To("want", None, 0)
    /\ UNCHANGED <<grid, pipe, view, events, cmds, task, conn, shown, timer, count>>

\* "resync", and the state: distrust, then what is viewed.
Resync ==
    /\ sender.at = "run" /\ lagged
    /\ lagged' = FALSE
    /\ Show(Distrusted, view)
    /\ To("want", None, 0)
    /\ UNCHANGED <<grid, pipe, view, events, cmds, task, conn, count>>

FetchView ==
    /\ sender.at = "want"
    /\ \/ Answers /\ To("seed", view, grid[view])
       \/ TimesOut /\ To("run", None, 0)
    /\ UNCHANGED <<grid, pipe, hub, cmds, task, conn, ui>>

SendSeed ==
    /\ sender.at = "seed"
    /\ term' = Paint([term EXCEPT ![sender.p].passed = FALSE], Seed(sender.p, sender.n))
    /\ To("run", None, 0)
    /\ UNCHANGED <<grid, pipe, hub, cmds, task, conn, shown, timer, count>>

SendEvent ==
    /\ sender.at = "run" /\ ~lagged /\ events # <<>>
    /\ events' = Tail(events)
    /\ Receive(Head(events))
    /\ UNCHANGED <<grid, pipe, view, lagged, sender, cmds, task, conn, count>>

-----------------------------------------------------------------------------
(* The user, the timer and the link.                                       *)

Ask(c) == cmds' = [cmds EXCEPT ![conn] = Append(@, c)]

Click(p) ==
    /\ conn # None /\ count.cmds < MaxCmds
    /\ Ask([t |-> "select", p |-> p])
    /\ count' = [count EXCEPT !.cmds = @ + 1]
    /\ UNCHANGED <<grid, pipe, hub, sender, task, conn, ui>>

\* After 280 ms: a pane in view that is not live asks for a repaint.
Repaint ==
    /\ timer /\ timer' = FALSE
    /\ IF conn # None /\ ~term[shown].live
       THEN Ask([t |-> "refresh", p |-> shown]) ELSE UNCHANGED cmds
    /\ UNCHANGED <<grid, pipe, hub, sender, task, conn, term, shown, count>>

\* A new socket: the browser distrusts what it holds, the handler subscribes.
Connect(h) ==
    /\ conn = None /\ task[h] = Idle /\ cmds[h] = <<>>
    /\ count.conns < MaxConns
    /\ count' = [count EXCEPT !.conns = @ + 1]
    /\ conn' = h
    /\ term' = Distrusted
    /\ sender' = Doing("hello", None, 0)
    /\ events' = <<>> /\ lagged' = FALSE
    /\ UNCHANGED <<grid, pipe, view, cmds, task, shown, timer>>

\* The link fails: the send task ends; the handler finishes what it is doing.
Disconnect ==
    /\ conn # None
    /\ conn' = None
    /\ sender' = Doing("off", None, 0)
    /\ events' = <<>> /\ lagged' = FALSE
    /\ UNCHANGED <<grid, pipe, view, cmds, task, ui, count>>

\* A handler whose socket is closed leaves the rest unread.
Leave(h) ==
    /\ conn # h /\ task[h] = Idle /\ cmds[h] # <<>>
    /\ cmds' = [cmds EXCEPT ![h] = <<>>]
    /\ UNCHANGED <<grid, pipe, hub, sender, task, conn, ui, count>>

HandlerStep(h) == Select(h) \/ Emit(h) \/ Refresh(h) \/ Fetch(h) \/ EmitSeed(h) \/ Leave(h)
SenderStep == SendState \/ Resync \/ FetchView \/ SendSeed \/ SendEvent

Next ==
    \/ \E p \in Writing : Write(p)
    \/ \E p \in Panes : Click(p)
    \/ Pump \/ Repaint \/ Disconnect \/ SenderStep
    \/ \E h \in Handlers : HandlerStep(h) \/ Connect(h)

Spec == Init /\ [][Next]_vars

-----------------------------------------------------------------------------

\* Nothing is on its way to the browser or from it.
Quiet ==
    /\ pipe = <<>> /\ events = <<>> /\ ~lagged /\ ~timer
    /\ sender.at = "run"
    /\ \A h \in Handlers : task[h] = Idle /\ cmds[h] = <<>>

\* When nothing is on its way the browser shows the hub's view, also when the
\* state was among the events that were dropped.
SameView == Quiet => shown = view

\* "P2 lossless" (ws.rs): a terminal that has had its seed since it was made or
\* distrusted has every chunk, wherever the channel dropped events, snapshots
\* timed out, or the user went to another pane and back. Not so when a seed that
\* was under way at that time had been passed by a chunk it lacks: it is painted
\* first, and the better one that follows is left out as the terminal is live.
Lossless == Quiet /\ term[shown].seeded /\ ~term[shown].passed
                => term[shown].has = 1..grid[shown]

\* A terminal that counts as live has the newest chunk: a snapshot that was
\* taken earlier and comes later does not replace it (the same exception).
LiveIsCurrent ==
    Quiet /\ term[shown].live /\ ~term[shown].passed
          /\ grid[shown] > 0 => grid[shown] \in term[shown].has
=============================================================================
