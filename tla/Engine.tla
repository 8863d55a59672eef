------------------------------ MODULE Engine ------------------------------
(***************************************************************************)
(* mymuxd's native engine: the panes it keeps in mymux-ptyd, its mirror of *)
(* them, the windows that group them, the shared view, and the link        *)
(* between the two daemons across the death of either.                     *)
(*                                                                         *)
(* A step is what a task does between two awaits.  The requests of one     *)
(* connection are handled in order; a task's reply and the exit events     *)
(* reach mymuxd by different ways, in any order.  mymux-ptyd is seen from  *)
(* here as the set of panes it holds: module Ptyd has its inside.          *)
(***************************************************************************)
EXTENDS Integers, Sequences, SequencesExt

CONSTANTS Tasks,     \* the user interfaces: each has one command in progress
          MaxPane,   \* bound: numbers a pane id is made of
          MaxConn,   \* bound: connections from mymuxd to ptyd
          MaxCmd     \* bound: commands the user interfaces give

ASSUME EngineAssumption ==
  Tasks # {} /\ MaxPane \in Nat \ {0} /\ MaxConn \in Nat /\ MaxCmd \in Nat

Conns == 1 .. MaxConn
Ids   == 1 .. 2 * MaxPane
Tmux  == 0           \* the view of the tmux side
None  == 0

(* EPH_BIT is above PERSIST_BIT: ids born ephemeral come last. *)
NewId(e, n) == IF e THEN MaxPane + n ELSE n
Low(i)      == IF i > MaxPane THEN i - MaxPane ELSE i
BornEphemeral(i) == i > MaxPane

VARIABLES
  link,      \* "none", "listed", "read" (an adoption in progress) or "up"
  cur,       \* the connection of the link
  listed,    \* what the adoption read: the panes, the ephemeral ones, the blob
  mirror, mirrorEph,   \* the panes mymuxd knows, the ephemeral ones among them
  next,      \* the next pane number
  wins,      \* the panes of each window; no panes, no window
  view, over,   \* the window shown; the last one is gone and the UIs were told
  booted,    \* the bootstrap guard
  tmux,      \* the tmux control client runs
  op,        \* the spawn each task has in progress
  conn,      \* ptyd's tasks: "none", "open", "closing" (its client is gone),
             \* "swept", or "dead" with ptyd
  req,       \* the requests on each connection
  ev,        \* the events on the current one: pane ids, then "closed"
  up, held, ephemeral, owner, dying,   \* ptyd: its panes, and the exits to announce
  blob,      \* the layout it keeps for mymuxd
  cmds,      \* commands given so far
  strays     \* what met one of the races that MirrorTruth names (None: the blob)

linkVars == <<link, cur, listed>>
uiVars   == <<view, over>>
muxVars  == <<mirror, mirrorEph, wins>>
paneVars == <<held, ephemeral, owner, dying>>
ptydVars == <<up, paneVars, blob>>
wire     == <<conn, req, ev>>
vars == <<linkVars, muxVars, next, uiVars, booted, tmux, op, wire, ptydVars, cmds, strays>>

NoOp     == [pc |-> "idle"]
NoWins   == [w \in Ids |-> {}]
NotRead  == [panes |-> {}, eph |-> {}, blob |-> NoWins]

Init ==
  /\ link = "none" /\ cur = None /\ listed = NotRead
  /\ mirror = {} /\ mirrorEph = {} /\ wins = NoWins
  /\ next = 1 /\ view = Tmux /\ over = FALSE /\ booted = FALSE /\ tmux = FALSE
  /\ op = [t \in Tasks |-> NoOp]
  /\ conn = [c \in Conns |-> "none"] /\ req = [c \in Conns |-> <<>>] /\ ev = <<>>
  /\ up = TRUE /\ held = {} /\ ephemeral = {} /\ owner = [i \in Ids |-> None]
  /\ dying = {} /\ blob = NoWins
  /\ cmds = 0 /\ strays = {}

---------------------------------------------------------------------------
(* NativeWindows. *)

Lowest(S)   == CHOOSE x \in S : \A y \in S : x <= y
Tabs(w)     == {i \in Ids : w[i] # {}}
Members(w)  == UNION {w[i] : i \in Ids}
Windows(p)  == {i \in Ids : p \in wins[i]}

(* Mutants: the dead members stay; the view never falls back to a native   *)
(* window.                                                                 *)
KeepsDead(w, alive) ==
  [i \in Ids |-> IF i \in alive \ Members(w) THEN {i} ELSE w[i]]
ToTmux(w, running) ==
  IF running THEN view' = Tmux /\ UNCHANGED over ELSE over' = TRUE /\ UNCHANGED view

AddSingle(w, p)  == [w EXCEPT ![p] = {p}]
RemovePane(w, p) == [i \in Ids |-> w[i] \ {p}]
Split(w, p, q)   == [i \in Ids |-> IF p \in w[i] THEN w[i] \cup {q} ELSE w[i]]

(* reconcile: drop the dead members, wrap the orphans. *)
Reconcile(w, alive) ==
  LET kept == [i \in Ids |-> w[i] \cap alive] IN
  [i \in Ids |-> IF i \in alive \ Members(kept) THEN {i} ELSE kept[i]]

(* fall_back_view, the windows being w and tmux running or not. *)
FallBack(w, running) ==
  IF Tabs(w) # {} THEN view' = Lowest(Tabs(w)) /\ UNCHANGED over
  ELSE IF running THEN view' = Tmux /\ UNCHANGED over
  ELSE over' = TRUE /\ UNCHANGED view

Show(w) == view' = w /\ over' = FALSE

---------------------------------------------------------------------------
(* The link: Persist::ensure. *)

(* Requests go to the client that was published, if it still lives. *)
Posted(ms) ==
  IF link = "up" /\ conn[cur] = "open" THEN [req EXCEPT ![cur] = @ \o ms] ELSE req

Kill(i)      == [k |-> "kill", id |-> i]
SetEph(i, e) == [k |-> "eph", id |-> i, eph |-> e]
SetMeta(w)   == [k |-> "meta", wins |-> w]

(* Mutant: the layout is saved before it changes. *)
SaveEarly(ms) == Posted(ms \o <<SetMeta(wins)>>)

(* save_layout_blob, after requests ms. *)
Save(ms) == Posted(ms \o <<SetMeta(wins')>>)

(* A request per id, in an order that changes nothing. *)
Each(Req(_), S) ==
  LET ids == SetToSeq(S) IN [n \in DOMAIN ids |-> Req(ids[n])]

(* Connect, Subscribe and List: an exit between the last two means nothing *)
(* to a mymuxd that mirrors nothing.                                       *)
List(c) ==
  /\ link = "none" /\ up
  /\ conn[c] = "none" /\ \A d \in Conns : d < c => conn[d] # "none"
  /\ conn' = [conn EXCEPT ![c] = "open"]
  /\ link' = "listed" /\ cur' = c /\ ev' = <<>>
  /\ listed' = [NotRead EXCEPT !.panes = held, !.eph = ephemeral]
  /\ strays' = strays \ {None}
  /\ UNCHANGED <<muxVars, next, uiVars, booted, tmux, op, req, ptydVars, cmds>>

GetMeta ==
  /\ link = "listed" /\ conn[cur] = "open"
  /\ link' = "read"
  /\ listed' = [listed EXCEPT !.blob = blob]
  /\ UNCHANGED <<cur, muxVars, next, uiVars, booted, tmux, op, wire, ptydVars, strays, cmds>>

(* One of the two reads failed: drop the connection and try again. *)
ReadFails ==
  /\ link = "listed" /\ conn[cur] = "dead"
  /\ link' = "none" /\ listed' = NotRead
  /\ UNCHANGED <<cur, muxVars, next, uiVars, booted, tmux, op, wire, ptydVars, strays, cmds>>

(* Mutant: the numbers start over. *)
FromOne(S) == next

NextAbove(S) ==
  LET low == {Low(i) : i \in S} IN
  IF low = {} THEN next
  ELSE LET m == CHOOSE x \in low : \A y \in low : y <= x IN
       IF next > m + 1 THEN next ELSE m + 1

(* Survivors are persistent; what is still ephemeral is killed. *)
Survivors(l) == l.panes \ l.eph

Adopt ==
  /\ link = "read"
  /\ link' = "up" /\ listed' = NotRead
  /\ mirror' = Survivors(listed) /\ mirrorEph' = {}
  /\ next' = NextAbove(Survivors(listed))
  /\ wins' = Reconcile(listed.blob, Survivors(listed))
  /\ req' = IF conn[cur] = "open"
            THEN [req EXCEPT ![cur] = Each(Kill, listed.eph) \o <<SetMeta(wins')>>]
            ELSE req
  /\ UNCHANGED <<cur, uiVars, booted, tmux, op, conn, ev, ptydVars, strays, cmds>>

---------------------------------------------------------------------------
(* Commands that spawn a pane. *)

Idle(t)    == op[t].pc = "idle"
Command(t) == Idle(t) /\ cmds < MaxCmd /\ cmds' = cmds + 1

Begin(t, e, p, b) ==
  op' = [op EXCEPT ![t] = [pc |-> "ensuring", eph |-> e, target |-> p, boot |-> b]]

New(t, e) ==
  /\ Command(t)
  /\ Begin(t, e, None, FALSE)
  /\ UNCHANGED <<linkVars, muxVars, next, uiVars, booted, tmux, wire, ptydVars, strays>>

(* The kind of a split is read here, before the await. *)
SplitPane(t, p) ==
  /\ Command(t)
  /\ p \in Members(wins)
  /\ Begin(t, IF p \in mirror THEN p \in mirrorEph ELSE BornEphemeral(p), p, FALSE)
  /\ UNCHANGED <<linkVars, muxVars, next, uiVars, booted, tmux, wire, ptydVars, strays>>

Spawn(t) ==
  LET i == NewId(op[t].eph, next) IN
  /\ op[t].pc = "ensuring" /\ link = "up" /\ next <= MaxPane
  /\ next' = next + 1
  /\ op' = [op EXCEPT ![t] = [pc |-> "waiting", eph |-> @.eph, target |-> @.target,
                              boot |-> @.boot, id |-> i, conn |-> cur]]
  /\ req' = Posted(<<[k |-> "spawn", id |-> i, eph |-> op[t].eph]>>)
  /\ UNCHANGED <<linkVars, muxVars, uiVars, booted, tmux, conn, ev, ptydVars, strays, cmds>>

(* ensure_default_view lets a later connection retry if nothing came of it. *)
Failed(t) ==
  /\ op' = [op EXCEPT ![t] = NoOp]
  /\ booted' = (booted /\ ~(op[t].boot /\ Tabs(wins) = {}))

EnsureFails(t) ==
  /\ op[t].pc = "ensuring" /\ link # "up"
  /\ Failed(t)
  /\ UNCHANGED <<linkVars, muxVars, next, uiVars, tmux, wire, ptydVars, strays, cmds>>

(* After 5 seconds, or because the connection died: ptyd may still do it. *)
SpawnTimesOut(t) ==
  /\ op[t].pc \in {"waiting", "answered"}
  /\ Failed(t)
  /\ strays' = strays \cup {op[t].id}
  /\ UNCHANGED <<linkVars, muxVars, next, uiVars, tmux, wire, ptydVars, cmds>>

(* Mutant: every pane is mirrored as a survivor is. *)
MirroredPersistent(t) ==
  mirror' = mirror \cup {op[t].id} /\ mirrorEph' = mirrorEph

(* The reply: mirror the pane, whatever happened to the link meanwhile. *)
Mirrored(t) ==
  /\ mirror' = mirror \cup {op[t].id}
  /\ mirrorEph' = IF op[t].eph THEN mirrorEph \cup {op[t].id} ELSE mirrorEph

Returned(t) ==
  /\ op' = [op EXCEPT ![t] = NoOp]
  /\ strays' = IF link = "up" /\ op[t].conn = cur THEN strays ELSE strays \cup {op[t].id}

FinishNew(t) ==
  /\ op[t].pc = "answered" /\ op[t].target = None
  /\ Returned(t) /\ Mirrored(t)
  /\ wins' = AddSingle(wins, op[t].id)
  /\ Show(op[t].id)
  /\ req' = Save(<<>>)
  /\ UNCHANGED <<linkVars, next, booted, tmux, conn, ev, ptydVars, cmds>>

(* The window may have vanished while the pane was spawned: undo it. *)
FinishSplit(t) ==
  /\ op[t].pc = "answered" /\ op[t].target # None
  /\ Returned(t)
  /\ IF op[t].target \in Members(wins)
     THEN /\ Mirrored(t)
          /\ wins' = Split(wins, op[t].target, op[t].id)
          /\ req' = Save(<<>>)
     ELSE /\ mirror' = mirror \ {op[t].id} /\ mirrorEph' = mirrorEph \ {op[t].id}
          /\ req' = Posted(<<Kill(op[t].id)>>)
          /\ UNCHANGED wins
  /\ UNCHANGED <<linkVars, next, uiVars, booted, tmux, conn, ev, ptydVars, cmds>>

---------------------------------------------------------------------------
(* The other commands: no await before their last effect.  A command names *)
(* what its client was shown; about a pane or a window that has gone since *)
(* it changes nothing, and a tab of tmux is not checked.                   *)

Forget(p) == mirror' = mirror \ {p} /\ mirrorEph' = mirrorEph \ {p}

(* native_pane_removed, with requests ms already posted. *)
Removed(p, ms) ==
  /\ wins' = RemovePane(wins, p)
  /\ req' = IF p \in Members(wins) THEN Save(ms) ELSE Posted(ms)
  /\ IF view # Tmux /\ p \in wins[view] /\ wins'[view] = {}
     THEN FallBack(wins', tmux)
     ELSE UNCHANGED uiVars

Close(t, p) ==
  /\ Command(t)
  /\ p \in Members(wins)
  /\ Forget(p)
  /\ Removed(p, <<Kill(p)>>)
  /\ UNCHANGED <<linkVars, next, booted, tmux, op, conn, ev, ptydVars, strays>>

BreakPane(t, p) ==
  /\ Command(t)
  /\ \E w \in Windows(p) : wins[w] # {p}
  /\ wins' = AddSingle(RemovePane(wins, p), p)
  /\ Show(p)
  /\ req' = Save(<<>>)
  /\ UNCHANGED <<linkVars, mirror, mirrorEph, next, booted, tmux, op, conn, ev, ptydVars, strays>>

(* promote_window and demote_window flip every pane of the window. *)
SetKind(t, w, e) ==
  LET Flip(i) == SetEph(i, e) IN
  /\ Command(t)
  /\ w \in Tabs(wins)
  /\ mirrorEph' = IF e THEN mirrorEph \cup (wins[w] \cap mirror) ELSE mirrorEph \ wins[w]
  /\ req' = Posted(Each(Flip, wins[w]))
  /\ UNCHANGED <<linkVars, mirror, wins, next, uiVars, booted, tmux, op, conn, ev, ptydVars, strays>>

Select(t, w) ==
  /\ Command(t)
  /\ w \in Tabs(wins) \cup {Tmux}
  /\ Show(w)
  /\ UNCHANGED <<linkVars, muxVars, next, booted, tmux, op, wire, ptydVars, strays>>

(* ensure_default_view, once the survivors are adopted or there is no ptyd. *)
Connect(t) ==
  /\ Command(t)
  /\ link = "up" \/ ~up
  /\ IF Tabs(wins) # {} \/ tmux
     THEN /\ view' = IF Tabs(wins) # {} /\ view = Tmux /\ ~tmux THEN Lowest(Tabs(wins)) ELSE view
          /\ UNCHANGED <<booted, op>>
     ELSE /\ ~booted
          /\ booted' = TRUE
          /\ Begin(t, FALSE, None, TRUE)
          /\ UNCHANGED view
  /\ UNCHANGED <<linkVars, muxVars, next, over, tmux, wire, ptydVars, strays>>

(* new_window starts the control client, if it does not run; so does the   *)
(* connection that finds a tmux server alive.                              *)
TmuxStarts(t) ==
  /\ Command(t) /\ ~tmux
  /\ tmux' = TRUE
  /\ UNCHANGED <<linkVars, muxVars, next, uiVars, booted, op, wire, ptydVars, strays>>

TmuxEnds ==
  /\ tmux
  /\ tmux' = FALSE
  /\ IF Tabs(wins) # {}
     THEN /\ view' = IF view = Tmux THEN Lowest(Tabs(wins)) ELSE view
          /\ UNCHANGED <<over, booted>>
     ELSE over' = TRUE /\ booted' = FALSE /\ UNCHANGED view
  /\ UNCHANGED <<linkVars, muxVars, next, op, wire, ptydVars, strays, cmds>>

---------------------------------------------------------------------------
(* The pump. *)

(* An exit that no mirror entry awaits is taken for a pane already closed. *)
PumpExit ==
  /\ link = "up" /\ ev # <<>> /\ Head(ev) # None
  /\ ev' = Tail(ev)
  /\ LET i == Head(ev) IN
     /\ IF i \in mirror
        THEN Forget(i) /\ Removed(i, <<>>)
        ELSE UNCHANGED <<muxVars, uiVars, req>>
     /\ strays' = IF i \in held \/ \E t \in Tasks : op[t].pc = "answered" /\ op[t].id = i
                  THEN strays \cup {i} ELSE strays
  /\ UNCHANGED <<linkVars, next, booted, tmux, op, conn, ptydVars, cmds>>

(* persist_disconnected. *)
PumpClosed ==
  /\ link = "up" /\ ev # <<>> /\ Head(ev) = None
  /\ ev' = <<>> /\ link' = "none"
  /\ mirror' = {} /\ mirrorEph' = {} /\ wins' = NoWins
  /\ booted' = FALSE
  /\ IF view = Tmux THEN UNCHANGED uiVars ELSE FallBack(NoWins, tmux)
  /\ UNCHANGED <<cur, listed, next, tmux, op, conn, req, ptydVars, strays, cmds>>

(* Failures end with the bound on connections. *)
MayFail == conn[MaxConn] = "none"

(* mymuxd dies; a part of what it was sending reaches ptyd. *)
Crash ==
  /\ link # "none" /\ MayFail
  /\ \E n \in 0 .. Len(req[cur]) : req' = [req EXCEPT ![cur] = SubSeq(@, 1, n)]
  /\ conn' = [conn EXCEPT ![cur] = IF @ = "open" THEN "closing" ELSE @]
  /\ link' = "none" /\ cur' = None /\ listed' = NotRead /\ ev' = <<>>
  /\ mirror' = {} /\ mirrorEph' = {} /\ wins' = NoWins
  /\ next' = 1 /\ view' = Tmux /\ over' = FALSE /\ booted' = FALSE /\ tmux' = FALSE
  /\ op' = [t \in Tasks |-> NoOp]
  /\ strays' = {}
  /\ UNCHANGED <<ptydVars, cmds>>

---------------------------------------------------------------------------
(* mymux-ptyd. *)

(* The next request of connection c has kind k. *)
Next1(c, k) ==
  /\ conn[c] \in {"open", "closing"} /\ req[c] # <<>> /\ Head(req[c]).k = k
  /\ req' = [req EXCEPT ![c] = Tail(@)]

(* It is about x, and its sender died after the new mymuxd read the panes. *)
Stale(c, x) ==
  strays' = IF c # cur /\ link # "none" THEN strays \cup {x} ELSE strays

HandleSpawn(c) ==
  /\ Next1(c, "spawn")
  /\ LET r == Head(req[c])
         waits == {t \in Tasks : op[t].pc = "waiting" /\ op[t].id = r.id /\ op[t].conn = c}
     IN
     IF r.id \notin held
     THEN /\ held' = held \cup {r.id}
          /\ ephemeral' = IF r.eph THEN ephemeral \cup {r.id} ELSE ephemeral
          /\ owner' = [owner EXCEPT ![r.id] = c]
          /\ op' = [t \in Tasks |-> IF t \in waits THEN [op[t] EXCEPT !.pc = "answered"] ELSE op[t]]
          /\ Stale(c, r.id)
          /\ UNCHANGED booted
     ELSE /\ op' = [t \in Tasks |-> IF t \in waits THEN NoOp ELSE op[t]]
          /\ booted' = (booted /\ ~(Tabs(wins) = {} /\ \E t \in waits : op[t].boot))
          /\ UNCHANGED <<held, ephemeral, owner, strays>>
  /\ UNCHANGED <<linkVars, muxVars, next, uiVars, tmux, conn, ev, up, dying, blob, cmds>>

(* Panes S leave ptyd's map; their exits are to be announced. *)
Dropped(S) ==
  /\ held' = held \ S /\ ephemeral' = ephemeral \ S
  /\ owner' = [i \in Ids |-> IF i \in S THEN None ELSE owner[i]]
  /\ dying' = dying \cup S

HandleKill(c) ==
  /\ Next1(c, "kill")
  /\ Dropped({Head(req[c]).id} \cap held)
  /\ UNCHANGED <<linkVars, muxVars, next, uiVars, booted, tmux, op, conn, ev, up, blob, strays, cmds>>

HandleSetEphemeral(c) ==
  /\ Next1(c, "eph")
  /\ LET r == Head(req[c]) IN
     /\ IF r.id \notin held THEN UNCHANGED <<ephemeral, owner>>
        ELSE IF r.eph THEN ephemeral' = ephemeral \cup {r.id} /\ owner' = [owner EXCEPT ![r.id] = c]
        ELSE ephemeral' = ephemeral \ {r.id} /\ UNCHANGED owner
     /\ Stale(c, r.id)
  /\ UNCHANGED <<linkVars, muxVars, next, uiVars, booted, tmux, op, conn, ev, up, held, dying, blob, cmds>>

HandleSetMeta(c) ==
  /\ Next1(c, "meta")
  /\ blob' = Head(req[c]).wins
  /\ Stale(c, None)
  /\ UNCHANGED <<linkVars, muxVars, next, uiVars, booted, tmux, op, conn, ev, up, paneVars, cmds>>

Sweep(c) ==
  /\ conn[c] = "closing" /\ req[c] = <<>>
  /\ conn' = [conn EXCEPT ![c] = "swept"]
  /\ Dropped({i \in ephemeral : owner[i] = c})
  /\ UNCHANGED <<linkVars, muxVars, next, uiVars, booted, tmux, op, req, ev, up, blob, strays, cmds>>

ShellExits(i) ==
  /\ i \in held
  /\ Dropped({i})
  /\ UNCHANGED <<linkVars, muxVars, next, uiVars, booted, tmux, op, wire, up, blob, strays, cmds>>

(* The reader thread's Exit, unless the id is in use again. *)
Announce(i) ==
  /\ i \in dying
  /\ dying' = dying \ {i}
  /\ ev' = IF i \notin held /\ link # "none" /\ conn[cur] = "open" THEN Append(ev, i) ELSE ev
  /\ UNCHANGED <<linkVars, muxVars, next, uiVars, booted, tmux, op, conn, req, up, held,
                 ephemeral, owner, blob, strays, cmds>>

PtydDies ==
  /\ up /\ MayFail
  /\ up' = FALSE
  /\ held' = {} /\ ephemeral' = {} /\ dying' = {} /\ blob' = NoWins
  /\ owner' = [i \in Ids |-> None]
  /\ conn' = [c \in Conns |-> IF conn[c] \in {"open", "closing"} THEN "dead" ELSE conn[c]]
  /\ req' = [c \in Conns |-> <<>>]
  /\ ev' = IF link # "none" /\ conn[cur] = "open" THEN Append(ev, None) ELSE ev
  /\ UNCHANGED <<linkVars, muxVars, next, uiVars, booted, tmux, op, strays, cmds>>

PtydStarts ==
  /\ ~up
  /\ up' = TRUE
  /\ UNCHANGED <<linkVars, muxVars, next, uiVars, booted, tmux, op, wire, paneVars, blob, strays, cmds>>

---------------------------------------------------------------------------
(* Nothing is in flight between the two daemons. *)
Settled ==
  /\ link = "up" /\ conn[cur] = "open" /\ ev = <<>> /\ dying = {}
  /\ \A c \in Conns : req[c] = <<>> /\ conn[c] # "closing"
  /\ \A t \in Tasks : op[t].pc \in {"idle", "ensuring"}

(* Nobody asks for anything and nothing fails any more. *)
Rest == cmds = MaxCmd /\ ~MayFail /\ Settled /\ UNCHANGED vars

LinkStep == GetMeta \/ ReadFails \/ Adopt \/ \E c \in Conns : List(c)

OpStep(t) == Spawn(t) \/ EnsureFails(t) \/ SpawnTimesOut(t) \/ FinishNew(t) \/ FinishSplit(t)

UserStep(t) ==
  \/ Connect(t) \/ TmuxStarts(t)
  \/ \E e \in BOOLEAN : New(t, e)
  \/ \E p \in Ids : SplitPane(t, p) \/ Close(t, p) \/ BreakPane(t, p)
  \/ \E w \in Ids, e \in BOOLEAN : SetKind(t, w, e)
  \/ \E w \in Ids \cup {Tmux} : Select(t, w)

PtydStep ==
  \/ \E c \in Conns :
       HandleSpawn(c) \/ HandleKill(c) \/ HandleSetEphemeral(c) \/ HandleSetMeta(c) \/ Sweep(c)
  \/ \E i \in Ids : ShellExits(i) \/ Announce(i)
  \/ PtydDies \/ PtydStarts

Next ==
  \/ LinkStep \/ PumpExit \/ PumpClosed \/ TmuxEnds \/ Crash \/ PtydStep \/ Rest
  \/ \E t \in Tasks : OpStep(t) \/ UserStep(t)

Spec == Init /\ [][Next]_vars
---------------------------------------------------------------------------
(* Properties. *)

(* Every variable has its type; an ephemeral pane is one that is there, in *)
(* the mirror and in ptyd.                                                 *)
TypeOK ==
  /\ link \in {"none", "listed", "read", "up"} /\ cur \in Conns \cup {None}
  /\ mirror \subseteq Ids /\ mirrorEph \subseteq mirror
  /\ next \in 1 .. MaxPane + 1
  /\ wins \in [Ids -> SUBSET Ids]
  /\ view \in Ids \cup {Tmux} /\ over \in BOOLEAN /\ booted \in BOOLEAN /\ tmux \in BOOLEAN
  /\ conn \in [Conns -> {"none", "open", "closing", "swept", "dead"}]
  /\ held \subseteq Ids /\ ephemeral \subseteq held /\ dying \subseteq Ids
  /\ owner \in [Ids -> Conns \cup {None}]
  /\ cmds \in 0 .. MaxCmd /\ strays \subseteq Ids \cup {None}

(* No pane is shown in two windows, and none that is not mirrored: what    *)
(* the user sees can be typed into, resized and closed.                    *)
WindowsOfMirror ==
  /\ \A v, w \in Ids : v # w => wins[v] \cap wins[w] = {}
  /\ Members(wins) \subseteq mirror

(* The shared view is on a window that exists; only when the last window   *)
(* is gone and the user interfaces were told may it be on one that is not, *)
(* or when a spawn was answered by a ptyd that has died since.             *)
ViewIsLive ==
  view # Tmux /\ wins[view] = {} => (over /\ Tabs(wins) = {}) \/ view \in strays

(* Once everything in flight has arrived the mirror is the truth, flags    *)
(* included, except for a pane that met one of the races strays records:   *)
(* its exit overtook the reply to its spawn, the spawn timed out, a dead   *)
(* mymuxd's request was handled after the new one had read the panes, or   *)
(* the exit was of an earlier pane of the same id.                         *)
MirrorTruth ==
  Settled => \A i \in Ids \ strays :
     (i \in mirror <=> i \in held) /\ (i \in mirrorEph <=> i \in ephemeral)

(* ... and the layout ptyd keeps for the next mymuxd is the present one,   *)
(* unless a dead mymuxd's layout overwrote it.                             *)
BlobFollows == Settled /\ None \notin strays => blob = wins

(* A new pane never takes the id of a pane or of a window that lives.      *)
FreshIds ==
  [][\A t \in Tasks : op[t].pc = "ensuring" /\ op'[t].pc = "waiting" =>
       op'[t].id \notin mirror /\ wins[op'[t].id] = {}]_vars

(* The documented meaning of break-pane: no pane is lost. *)
BreakKeepsPanes == mirror \subseteq Members(wins)
===========================================================================
