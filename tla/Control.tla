------------------------------- MODULE Control -------------------------------
(***************************************************************************)
(* mymuxd's tmux side: the control client `tmux -C`, the reader that       *)
(* parses its lines and folds them into the Model (mux-core), the layouts  *)
(* the reader pulls with list-windows after a window came or was switched  *)
(* to, and the task that waits for the client's end.                       *)
(*                                                                         *)
(* tmux is external: its windows, and the lines that it writes for them.   *)
(* A slot stands for one client with its reader and its waiter; a reader   *)
(* may still work through its lines after the next client has started.     *)
(***************************************************************************)
EXTENDS Naturals, Sequences, FiniteSets, SequencesExt

CONSTANTS
    Slots,      \* control clients at a time
    MaxWin,     \* window ids of one tmux server (bound)
    MaxPane,    \* pane ids of one tmux server (bound)
    MaxOps,     \* what happens on the tmux side (bound)
    None

VARIABLES
    tmux,       \* the server: panes and focus of its windows, current window, next ids
    client,     \* the tmux -C process of each slot
    lines,      \* its output that its reader has not read
    reader,     \* each reader: where it is, an open reply block, the pulled layouts
    running,    \* hub.state.running
    model,      \* hub.model
    mine,       \* history: the slot started last
    torn,       \* history: an older reader or waiter wrote to its model
    told,       \* history: its reader was told which window is current
    ops         \* operations so far

tmuxed == <<tmux, ops>>
history == <<mine, torn, told>>
vars == <<tmux, client, lines, reader, running, model, mine, torn, told, ops>>

Windows == 0..(MaxWin - 1)
Panes == 0..(MaxPane - 1)

\* What the lines that matter say: of nothing, a pane, a window, both, or the
\* panes of a window.
Line ==
    [verb : {"begin", "end", "error", "exit"}, w : {None}, ps : {<<>>}]
    \cup [verb : {"output"}, w : {None}, ps : Seq(Panes) \ {<<>>}]
    \cup [verb : {"session-window-changed", "window-add", "window-close", "window-renamed"},
          w : Windows, ps : {<<>>}]
    \cup [verb : {"window-pane-changed"}, w : Windows, ps : Seq(Panes) \ {<<>>}]
    \cup [verb : {"layout-change"}, w : Windows, ps : Seq(Panes)]

\* A window is gone, or known without a layout, or has panes in layout order.
Gone == [here |-> FALSE, layout |-> <<>>, pane |-> None]
Bare == [here |-> TRUE, layout |-> <<>>, pane |-> None]
Window == [here : BOOLEAN, layout : Seq(Panes), pane : Panes \cup {None}]

ASSUME ControlAssumption ==
    /\ MaxWin \in Nat \ {0} /\ MaxPane \in Nat \ {0} /\ MaxOps \in Nat
    /\ None \notin Nat \cup [Windows -> Window]

NewModel == [windows |-> [w \in Windows |-> Gone], window |-> None, pane |-> None]
NoServer == [windows |-> [w \in Windows |-> Gone], window |-> None, nextw |-> 0, nextp |-> 0]
NoReader == [at |-> "off", block |-> FALSE, pulled |-> None]

TypeOK ==
    /\ tmux \in [windows : [Windows -> Window], window : Windows \cup {None},
                 nextw : 0..MaxWin, nextp : 0..MaxPane]
    /\ client \in [Slots -> {"off", "up", "ended", "cleared"}]
    /\ lines \in [Slots -> Seq(Line)]
    /\ reader \in [Slots -> [at : {"off", "read", "pull", "fix"}, block : BOOLEAN,
                             pulled : [Windows -> Window] \cup {None}]]
    /\ running \in BOOLEAN
    /\ model \in [windows : [Windows -> Window], window : Windows \cup {None},
                  pane : Panes \cup {None}]
    /\ \A w \in Windows : ~model.windows[w].here => model.windows[w] = Gone
    /\ mine \in Slots \cup {None}
    /\ torn \in BOOLEAN /\ told \in BOOLEAN
    /\ ops \in 0..MaxOps

Init ==
    /\ tmux = NoServer
    /\ client = [r \in Slots |-> "off"]
    /\ lines = [r \in Slots |-> <<>>]
    /\ reader = [r \in Slots |-> NoReader]
    /\ running = FALSE
    /\ model = NewModel
    /\ mine = None /\ torn = FALSE /\ told = FALSE
    /\ ops = 0

-----------------------------------------------------------------------------
(* The fold of one line into the model.                                    *)

Known(ws) == {w \in Windows : ws[w].here}
Lowest(S) == CHOOSE x \in S : \A y \in S : x <= y
First(ws) == IF Known(ws) = {} THEN None ELSE Lowest(Known(ws))
FirstOf(ps) == IF ps = <<>> THEN None ELSE Head(ps)
OrElse(x, y) == IF x = None THEN y ELSE x

\* entry(..).or_default()
Entry(m, w) == IF m.windows[w].here THEN m.windows[w] ELSE Bare

FoldOutput(m, l) == [m EXCEPT !.pane = OrElse(@, Head(l.ps))]

FoldLayout(m, l) ==
    [m EXCEPT !.windows[l.w] = [Entry(m, l.w) EXCEPT !.layout = l.ps],
              !.window = OrElse(@, l.w)]

FoldPane(m, l) ==
    [m EXCEPT !.windows[l.w] = [Entry(m, l.w) EXCEPT !.pane = Head(l.ps)],
              !.window = OrElse(@, l.w), !.pane = Head(l.ps)]

\* Focus follows the window: the pane last announced for it, or its first.
FoldSwitch(m, l) ==
    LET it == m.windows[l.w]
    IN  [m EXCEPT !.window = l.w,
                  !.pane = OrElse(OrElse(it.pane, FirstOf(it.layout)), @)]

\* The first window is shown.
FoldAdd(m, l) == [m EXCEPT !.windows[l.w] = Entry(m, l.w), !.window = OrElse(@, l.w)]

FoldClose(m, l) ==
    LET rest == [m.windows EXCEPT ![l.w] = Gone]
    IN  [m EXCEPT !.windows = rest, !.window = IF @ = l.w THEN First(rest) ELSE @]

FoldRenamed(m, l) == [m EXCEPT !.windows[l.w] = Entry(m, l.w)]

Fold(m, l) ==
    CASE l.verb = "output" -> FoldOutput(m, l)
      [] l.verb = "layout-change" -> FoldLayout(m, l)
      [] l.verb = "window-pane-changed" -> FoldPane(m, l)
      [] l.verb = "session-window-changed" -> FoldSwitch(m, l)
      [] l.verb = "window-add" -> FoldAdd(m, l)
      [] l.verb = "window-close" -> FoldClose(m, l)
      [] l.verb = "window-renamed" -> FoldRenamed(m, l)
      [] OTHER -> m

\* refresh_layouts: what list-windows printed, on top of what is known.
Merge(m, ws) ==
    [m EXCEPT !.windows = [w \in Windows |->
        IF ws[w].here THEN [here |-> TRUE, layout |-> ws[w].layout, pane |-> @[w].pane] ELSE @[w]]]

\* fix_active_pane: the focus belongs to the window shown.
FixPane(m) ==
    IF m.window = None THEN m
    ELSE LET it == m.windows[m.window]
             shown == ToSet(it.layout)
         IN  IF shown = {} \/ m.pane \in shown THEN m
             ELSE [m EXCEPT !.pane = IF it.pane \in shown THEN it.pane ELSE Head(it.layout)]

-----------------------------------------------------------------------------
(* The tmux server: what its users, its programs and mymuxd's own commands *)
(* do to it, and the lines it writes to the attached clients.              *)

L(verb, w, ps) == [verb |-> verb, w |-> w, ps |-> ps]
Up == {r \in Slots : client[r] = "up"}
Alive == tmux.window # None

Write(ls) == lines' = [r \in Slots |-> IF r \in Up THEN lines[r] \o ls ELSE lines[r]]

Without(ps, p) == RemoveAt(ps, CHOOSE i \in DOMAIN ps : ps[i] = p)

Op ==
    /\ ops < MaxOps /\ ops' = ops + 1
    /\ UNCHANGED <<client, reader, running, model, history>>

Born(t) ==
    [t EXCEPT !.windows[t.nextw] = [here |-> TRUE, layout |-> <<t.nextp>>, pane |-> t.nextp],
              !.window = t.nextw, !.nextw = @ + 1, !.nextp = @ + 1]

\* It becomes the current one, unless it was made in the background.
NewWindow ==
    /\ Op /\ Alive /\ tmux.nextw < MaxWin /\ tmux.nextp < MaxPane
    /\ LET to == L("session-window-changed", tmux.nextw, <<>>)
           add == L("window-add", tmux.nextw, <<>>)
       IN  \/ tmux' = Born(tmux) /\ Write(<<to, add>>)
           \/ tmux' = [Born(tmux) EXCEPT !.window = tmux.window] /\ Write(<<add>>)

Split(w) ==
    /\ Op /\ tmux.windows[w].here /\ tmux.nextp < MaxPane
    /\ LET ps == Append(tmux.windows[w].layout, tmux.nextp)
       IN  /\ tmux' = [tmux EXCEPT !.windows[w] = [here |-> TRUE, layout |-> ps, pane |-> tmux.nextp],
                                   !.nextp = @ + 1]
           /\ Write(<<L("window-pane-changed", w, <<tmux.nextp>>), L("layout-change", w, ps)>>)

\* One of several panes ends; another takes the focus if it had it.
PaneEnds(w, p, q) ==
    /\ Op /\ {p, q} \subseteq ToSet(tmux.windows[w].layout) /\ p # q
    /\ LET ps == Without(tmux.windows[w].layout, p)
           had == tmux.windows[w].pane = p
           focus == L("window-pane-changed", w, <<q>>)
           shrunk == L("layout-change", w, ps)
       IN  /\ had \/ q = tmux.windows[w].pane
           /\ tmux' = [tmux EXCEPT !.windows[w].layout = ps, !.windows[w].pane = q]
           /\ Write(IF had THEN <<focus, shrunk>> ELSE <<shrunk>>)

\* The last pane of a window ends, and others are left. The order of the
\* two lines is not relied on.
WindowEnds(w, v) ==
    /\ Op /\ tmux.windows[v].here /\ v # w /\ Len(tmux.windows[w].layout) = 1
    /\ tmux' = [tmux EXCEPT !.windows[w] = Gone, !.window = IF @ = w THEN v ELSE @]
    /\ LET closed == L("window-close", w, <<>>)
           to == L("session-window-changed", v, <<>>)
       IN  IF tmux.window # w THEN v = tmux.window /\ Write(<<closed>>)
           ELSE Write(<<closed, to>>) \/ Write(<<to, closed>>)

SelectWindow(w) ==
    /\ Op /\ tmux.windows[w].here /\ w # tmux.window
    /\ tmux' = [tmux EXCEPT !.window = w]
    /\ Write(<<L("session-window-changed", w, <<>>)>>)

SelectPane(w, p) ==
    /\ Op /\ p \in ToSet(tmux.windows[w].layout) /\ p # tmux.windows[w].pane
    /\ tmux' = [tmux EXCEPT !.windows[w].pane = p]
    /\ Write(<<L("window-pane-changed", w, <<p>>)>>)

Rename(w) ==
    /\ Op /\ tmux.windows[w].here
    /\ Write(<<L("window-renamed", w, <<>>)>>)
    /\ UNCHANGED tmux

Output(p) ==
    /\ Op /\ \E w \in Windows : p \in ToSet(tmux.windows[w].layout)
    /\ Write(<<L("output", None, <<p>>)>>)
    /\ UNCHANGED tmux

\* The answer to a command of mymuxd's that changed nothing, or failed.
Reply ==
    /\ Op /\ Alive
    /\ \E end \in {"end", "error"} : Write(<<L("begin", None, <<>>), L(end, None, <<>>)>>)
    /\ UNCHANGED tmux

\* The last window is gone, and the server and its clients with it.
ServerEnds ==
    /\ ops < MaxOps /\ ops' = ops + 1
    /\ \E w \in Windows :
        /\ Known(tmux.windows) = {w} /\ Len(tmux.windows[w].layout) = 1
        /\ Write(<<L("window-close", w, <<>>), L("exit", None, <<>>)>>)
    /\ tmux' = NoServer
    /\ client' = [r \in Slots |-> IF r \in Up THEN "ended" ELSE client[r]]
    /\ UNCHANGED <<reader, running, model, history>>

\* The client alone is detached or killed; a reply may be cut in the middle.
ClientEnds(r) ==
    /\ client[r] = "up"
    /\ ops < MaxOps /\ ops' = ops + 1
    /\ client' = [client EXCEPT ![r] = "ended"]
    /\ \E last \in {<<>>, <<L("exit", None, <<>>)>>, <<L("begin", None, <<>>)>>} : Write(last)
    /\ UNCHANGED <<tmux, reader, running, model, history>>

-----------------------------------------------------------------------------
(* mymuxd: start, read, pull, wait.                                        *)

\* ensure_started: new-session -A attaches to the server or starts one. The
\* size sent at once makes tmux lay every window out again, in whatever order.
Start(r) ==
    /\ ~running /\ client[r] = "off" /\ reader[r].at = "off"
    /\ ops < MaxOps /\ ops' = ops + 1
    /\ running' = TRUE
    /\ client' = [client EXCEPT ![r] = "up"]
    /\ model' = NewModel
    /\ reader' = [reader EXCEPT ![r] = [NoReader EXCEPT !.at = "read"]]
    /\ tmux' = IF Alive THEN tmux ELSE Born(NoServer)
    /\ LET ws == SetToSeq(Known(tmux'.windows))
       IN  lines' = [lines EXCEPT ![r] =
               <<L("begin", None, <<>>), L("end", None, <<>>)>>
               \o [i \in DOMAIN ws |-> L("layout-change", ws[i], tmux'.windows[ws[i]].layout)]]
    /\ mine' = r /\ torn' = FALSE
    /\ told' = (Cardinality(Known(tmux'.windows)) = 1)

\* mutant: a failed command's reply does not end
EndOnly(l) == l.verb = "end"

ReplyEnds(l) == l.verb \in {"end", "error"}

\* mutant: a new window alone is not looked up
OnlySwitched(l, m) == m.window # model.window

Topology(l, m) == m.window # model.window \/ l.verb = "window-add"

\* Whoever else writes to the model while the client of slot mine is served.
Tears(r) == torn' = (torn \/ (running /\ r # mine))

Move(r, at, block, pulled) ==
    reader' = [reader EXCEPT ![r] = [at |-> at, block |-> block, pulled |-> pulled]]

Take(r) ==
    /\ reader[r].at = "read" /\ lines[r] # <<>>
    /\ lines' = [lines EXCEPT ![r] = Tail(@)]
    /\ UNCHANGED <<tmux, client, running, mine, ops>>

ReadReply(r) ==
    /\ Take(r)
    /\ LET l == Head(lines[r])
       IN  /\ reader[r].block \/ l.verb = "begin"
           /\ Move(r, "read", ~ReplyEnds(l), None)
    /\ UNCHANGED <<model, torn, told>>

ReadExit(r) ==
    /\ reader[r].at = "read" /\ lines[r] # <<>>
    /\ ~reader[r].block /\ Head(lines[r]).verb = "exit"
    /\ reader' = [reader EXCEPT ![r] = NoReader]
    /\ lines' = [lines EXCEPT ![r] = <<>>]
    /\ UNCHANGED <<tmux, client, running, model, history, ops>>

ReadEvent(r) ==
    /\ Take(r)
    /\ LET l == Head(lines[r])
           m == Fold(model, l)
       IN  /\ ~reader[r].block /\ l.verb \notin {"begin", "exit"}
           /\ model' = m
           /\ Move(r, IF Topology(l, m) THEN "pull" ELSE "read", FALSE, None)
           /\ told' = (told \/ (r = mine /\ l.verb = "session-window-changed"))
    /\ Tears(r)

\* list-windows is a process of its own: it sees tmux as it is now.
Pull(r) ==
    /\ reader[r].at = "pull"
    /\ Move(r, "fix", FALSE, IF Alive THEN tmux.windows ELSE None)
    /\ UNCHANGED <<tmux, client, lines, running, model, history, ops>>

Fix(r) ==
    /\ reader[r].at = "fix"
    /\ model' = FixPane(IF reader[r].pulled = None THEN model ELSE Merge(model, reader[r].pulled))
    /\ Move(r, "read", FALSE, None)
    /\ Tears(r)
    /\ UNCHANGED <<tmux, client, lines, running, mine, told, ops>>

\* mutant: a reader with an open reply waits for its end
EofBetween(r) ==
    /\ reader[r].at = "read" /\ lines[r] = <<>> /\ client[r] # "up" /\ ~reader[r].block
    /\ reader' = [reader EXCEPT ![r] = NoReader]
    /\ UNCHANGED <<tmux, client, lines, running, model, history, ops>>

Eof(r) ==
    /\ reader[r].at = "read" /\ lines[r] = <<>> /\ client[r] # "up"
    /\ reader' = [reader EXCEPT ![r] = NoReader]
    /\ UNCHANGED <<tmux, client, lines, running, model, history, ops>>

\* The waiting task: running first, the model after it (and no lock between).
Waited(r) ==
    /\ client[r] = "ended"
    /\ client' = [client EXCEPT ![r] = "cleared"]
    /\ running' = FALSE
    /\ UNCHANGED <<tmux, lines, reader, model, history, ops>>

\* mutant: the flag is cleared with the model
LateFlag(r) ==
    /\ client[r] = "cleared"
    /\ client' = [client EXCEPT ![r] = "off"]
    /\ model' = NewModel
    /\ running' = FALSE
    /\ Tears(r)
    /\ UNCHANGED <<tmux, lines, reader, mine, told, ops>>

Resets(r) ==
    /\ client[r] = "cleared"
    /\ client' = [client EXCEPT ![r] = "off"]
    /\ model' = NewModel
    /\ Tears(r)
    /\ UNCHANGED <<tmux, lines, reader, running, mine, told, ops>>

Server ==
    \/ NewWindow \/ Reply \/ ServerEnds
    \/ \E w \in Windows : Split(w) \/ SelectWindow(w) \/ Rename(w)
    \/ \E w \in Windows, p, q \in Panes : PaneEnds(w, p, q)
    \/ \E w, v \in Windows : WindowEnds(w, v)
    \/ \E w \in Windows, p \in Panes : SelectPane(w, p)
    \/ \E p \in Panes : Output(p)

Reads(r) == ReadReply(r) \/ ReadExit(r) \/ ReadEvent(r) \/ Pull(r) \/ Fix(r) \/ Eof(r)
Waits(r) == Waited(r) \/ Resets(r)

Next == Server \/ \E r \in Slots : Start(r) \/ ClientEnds(r) \/ Reads(r) \/ Waits(r)

\* The reader and the waiter are tasks of the runtime.
Spec == Init /\ [][Next]_vars /\ \A r \in Slots : WF_vars(Reads(r)) /\ WF_vars(Waits(r))

-----------------------------------------------------------------------------

Layouts(ws) == [w \in Windows |-> [here |-> ws[w].here, layout |-> ws[w].layout]]

\* The reader of the running client has read everything tmux wrote.
Drained ==
    /\ mine # None /\ client[mine] = "up" /\ running
    /\ reader[mine].at = "read" /\ lines[mine] = <<>>

\* state.running tells whether there is a client to send commands to, and
\* there is never a second one (ensure_started and the waiting task).
Serving(r) == client[r] \in {"up", "ended"}
OneClient ==
    /\ \A r, s \in Slots : Serving(r) /\ Serving(s) => r = s
    /\ running = \E r \in Slots : Serving(r)

\* Once the reader has caught up, the model has exactly tmux's windows with
\* their panes, and shows tmux's window: the layouts pulled on the side, which
\* run ahead of the lines, and the replies in between, leave nothing behind.
\* Except where an older reader or waiter has written to the model, and, for the
\* window shown, where tmux has not said yet which one it is.
Synced ==
    Drained /\ ~torn =>
        /\ Layouts(model.windows) = Layouts(tmux.windows)
        /\ told => model.window = tmux.window

\* A window that stays is listed sooner or later, unless its client ends.
Appears ==
    \A w \in Windows :
        running /\ tmux.windows[w].here /\ ~torn
            ~> model.windows[w].here \/ ~tmux.windows[w].here \/ torn \/ Up = {}

\* A client that ended is forgotten: its reader and its waiter finish, and
\* the slot can start the next one.
Forgotten ==
    \A r \in Slots :
        client[r] = "ended" ~> client[r] = "off" /\ reader[r].at = "off"
=============================================================================
