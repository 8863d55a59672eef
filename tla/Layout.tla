------------------------------- MODULE Layout -------------------------------
(***************************************************************************)
(* One native window of mymuxd: its layout tree, zoom and active pane, the *)
(* sizes mymux-ptyd was told, and the layout saved there.  Any user        *)
(* interface may give a command on any pane; a split awaits its shell      *)
(* while the others go on.  A step is what a task does between two awaits. *)
(***************************************************************************)
EXTENDS Cells

CONSTANTS Sizes,       \* the sizes of the user interfaces
          StartSize,   \* the one assumed before any of them says its own
          Moves,       \* by how many cells a divider is dragged
          MaxPane      \* bound: panes the window ever has

ASSUME LayoutAssumption ==
  /\ Sizes \subseteq [Axes -> Nat \ {0, 1}] /\ StartSize \in Sizes
  /\ Moves \subseteq Int \ {0} /\ MaxPane \in Nat \ {0}

Ids     == 1 .. MaxPane
Founder == 1             \* the pane that gave the window its id

VARIABLES
  win,       \* the window: its tree, its zoomed pane, its active pane
  viewed,    \* it is the active view
  size,      \* last_size
  next,      \* the next pane id
  pending,   \* the splits that await their shell
  sent,      \* the size last sent for each pane
  saved,     \* the window in the layout that ptyd keeps
  poisoned,  \* a task panicked while it had the mutex of the windows
  stale, late   \* history, see SizesAgree and EveryPaneHasACell

history == <<stale, late>>
ui      == <<viewed, size>>
splits  == <<next, pending>>
vars == <<win, ui, splits, sent, saved, poisoned, history>>

Window(root, zoomed, active) == [root |-> root, zoomed |-> zoomed, active |-> active]
NoWindow == Window(NoTree, None, None)
Panes    == PanesOf(win.root)
Single(p, s) == Window([n \in {{p}} |-> Leaf(Origin, s)], None, p)

Init ==
  /\ size \in Sizes /\ win = Single(Founder, size) /\ viewed = TRUE
  /\ next = Founder + 1 /\ pending = {}
  /\ sent = [p \in Ids |-> IF p = Founder THEN size ELSE Origin]
  /\ saved = win /\ poisoned = FALSE /\ stale = {} /\ late = FALSE

---------------------------------------------------------------------------
(* The pieces of a command. *)

Save == saved' = win'

(* The sizes of these panes' cells go to ptyd; the zoomed pane's is the view. *)
SizeIn(w, p) == IF w.zoomed = p THEN Root(w.root).len ELSE CellOf(w.root, p).len
Push(w, ps)  == sent' = [p \in Ids |-> IF p \in ps THEN SizeIn(w, p) ELSE sent[p]]
Fresh(ps)    == stale' = stale \ ps

(* resize_native_window: all panes get their size again. *)
Resized(w, s) == [w EXCEPT !.root = Scale(@, PanesOf(@), Origin, s)]
Fit(w, s) ==
  /\ win' = Resized(w, s) /\ Push(win', PanesOf(w.root)) /\ Save
  /\ stale' = {} /\ late' = FALSE

(* unzoom_backend: the tree's sizes go out again, if there was a zoom. *)
Unzoomed(w) == [w EXCEPT !.zoomed = None]

(* Mutant: the unzoomed panes keep the sizes they had. *)
NotRestored == {}

Restored == IF win.zoomed = None THEN {} ELSE Panes

(* A layout change drops the zoom; the active pane must be a member. *)
RemovePane(w, p) ==
  IF PanesOf(w.root) = {p} THEN NoWindow
  ELSE LET root == RemoveLeaf(w.root, p)
       IN  Window(root, None, IF w.active = p THEN FirstOf(root, PanesOf(root)) ELSE w.active)

(* split_sizes: a pane of less than two cells on either side is too small. *)
Splittable(w, p, a) == Halves(CellOf(w.root, p).len[a])[2] >= 2

(* swap: with the next or the previous leaf in layout order, around the end. *)
Swapped(w, p, q) == Window(SwapLeaves(w.root, p, q), None, p)
OneFrom(p, step) ==
  LET after  == {q \in Panes : Before(win.root, p, q)}
      before == {q \in Panes : Before(win.root, q, p)}
  IN  IF step = 1 THEN FirstOf(win.root, IF after # {} THEN after ELSE Panes)
                  ELSE LastOf(win.root, IF before # {} THEN before ELSE Panes)

Several == \E p, q \in Panes : p # q

---------------------------------------------------------------------------
(* The commands. *)

Works == ~poisoned /\ win # NoWindow

Resize(s) ==
  /\ Works /\ size # s /\ size' = s
  /\ IF viewed THEN Fit(win, s) ELSE UNCHANGED <<win, sent, saved, history>>
  /\ UNCHANGED <<viewed, splits, poisoned>>

(* select_window, of this window and of another one. *)
Select ==
  /\ Works /\ viewed' = TRUE /\ Fit(win, size)
  /\ UNCHANGED <<size, splits, poisoned>>

Leave ==
  /\ Works /\ viewed /\ viewed' = FALSE
  /\ UNCHANGED <<win, size, splits, sent, saved, poisoned, history>>

Focus(p) ==
  /\ Works /\ p \in Panes /\ p # win.active
  /\ win' = [win EXCEPT !.active = p] /\ Save
  /\ UNCHANGED <<ui, splits, sent, poisoned, history>>

(* select_pane_dir *)
GoTo(dir) ==
  LET to == Neighbour(win.root, win.active, dir)
  IN  /\ Works /\ viewed
      /\ win' = Window(win.root, None, IF to = None THEN win.active ELSE to)
      /\ win' # win
      /\ Push(win', Restored) /\ Fresh(Restored) /\ Save
      /\ UNCHANGED <<ui, splits, poisoned, late>>

ToggleZoom(p) ==
  /\ Works /\ p \in Panes
  /\ Fit([win EXCEPT !.zoomed = IF @ = p THEN None ELSE p], size)
  /\ UNCHANGED <<ui, splits, poisoned>>

(* swap_pane: unzoomed, the two panes trade places; one alone has nobody to *)
(* trade with, and its unzoom is not saved.                                *)
SwapPane(step) ==
  LET p == win.active
      q == OneFrom(p, step)
      told == IF Several THEN Restored \cup {p, q} ELSE Restored
  IN  /\ Works /\ viewed
      /\ IF Several THEN win' = Swapped(win, p, q) /\ Save
         ELSE win.zoomed # None /\ win' = Unzoomed(win) /\ UNCHANGED saved
      /\ Push(win', told) /\ Fresh(told)
      /\ UNCHANGED <<ui, splits, poisoned, late>>

Sides(pair, a) == [i \in DOMAIN pair |-> win.root[pair[i]].len[a]]
Allowed(pair, a, d) == Clamp(d, -(Sides(pair, a)[1] - 1), Sides(pair, a)[2] - 1)

(* A divider is dragged; a zoom stays.  The clamp panics when the two      *)
(* sides have less than two cells, with the windows' mutex locked.         *)
Drag(p, a, d) ==
  LET pair == Boundary(win.root, p, a)
  IN  /\ Works /\ p \in Panes /\ pair # <<>>
      /\ UNCHANGED <<ui, splits, late>>
      /\ IF Sides(pair, a)[1] + Sides(pair, a)[2] < 2
         THEN poisoned' = TRUE /\ UNCHANGED <<win, sent, saved, stale>>
         ELSE /\ win' = [win EXCEPT !.root = MoveBoundary(@, p, a, Allowed(pair, a, d))]
              /\ Push(Unzoomed(win'), Panes) /\ Save
              /\ stale' = {win.zoomed} \ {None}
              /\ UNCHANGED poisoned

(* break_pane: to a window of its own.  The founder's takes this one's id, *)
(* and the place of this one with all its panes.                           *)
BreakPane(p) ==
  /\ Works /\ p \in Panes /\ Several
  /\ IF p = Founder
     THEN /\ win' = Single(p, size) /\ viewed' = TRUE
          /\ Push(win', {p}) /\ stale' = {} /\ late' = FALSE
     ELSE /\ win' = RemovePane(win, p) /\ viewed' = FALSE
          /\ Push(win', Panes \ {p}) /\ stale' = {} /\ UNCHANGED late
  /\ Save
  /\ UNCHANGED <<size, splits, poisoned>>

(* split_native: before its await, ... *)
BeginSplit(p, a) ==
  LET w == Unzoomed(win)
      cell == CellOf(w.root, p)
      h == Halves(cell.len[a])
  IN  /\ Works /\ p \in Panes /\ next \in Ids
      /\ IF Splittable(w, p, a)
         THEN /\ pending' = pending \cup {[new |-> next, target |-> p, axis |-> a,
                   was |-> cell.len, keep |-> [cell.len EXCEPT ![a] = h[1]],
                   give |-> [cell.len EXCEPT ![a] = h[2]]]}
              /\ next' = next + 1
         ELSE win.zoomed # None /\ UNCHANGED splits
      /\ win' = w /\ Push(w, Restored) /\ Fresh(Restored)
      /\ UNCHANGED <<ui, saved, poisoned, late>>

(* ... when the spawn fails, ... *)
SpawnFails(s) ==
  /\ s \in pending
  /\ pending' = pending \ {s}
  /\ UNCHANGED <<win, ui, next, sent, saved, poisoned, history>>

(* ... and after: the target is split where it is now, with the sizes of   *)
(* then; if it has left the window, so has the new pane, or is killed.     *)
Inserted(w, s) == Window(SplitLeaf(w.root, s.target, s.axis, s.new), None, s.new)
FinishSplit(s) ==
  /\ ~poisoned /\ s \in pending /\ pending' = pending \ {s}
  /\ IF s.target \in Panes
     THEN LET moved == CellOf(win.root, s.target).len # s.was
          IN  /\ win' = Inserted(win, s) /\ Save
              /\ sent' = [sent EXCEPT ![s.target] = s.keep, ![s.new] = s.give]
              /\ stale' = ((stale \cup {win.zoomed}) \ {None, s.target})
                          \cup (IF moved THEN {s.target, s.new} ELSE {})
              /\ late' = (late \/ ~Splittable(win, s.target, s.axis))
     ELSE UNCHANGED <<win, sent, saved, history>>
  /\ UNCHANGED <<ui, next, poisoned>>

(* A pane is closed, or its exit is handled. *)
PaneGone(p) ==
  /\ Works /\ p \in Panes
  /\ win' = RemovePane(win, p) /\ Save
  /\ Push(win', Panes \ {p}) /\ stale' = {}
  /\ viewed' = (viewed /\ win' # NoWindow)
  /\ UNCHANGED <<size, next, pending, poisoned, late>>

(* mymuxd dies, and meanwhile some of the shells.  The next one has the    *)
(* saved window without the panes that are gone, and tells ptyd no sizes.  *)
Reconciled(w, dead) ==
  LET rest[gone \in SUBSET dead] ==
        IF gone = {} THEN w
        ELSE LET p == LastOf(w.root, gone) IN RemovePane(rest[gone \ {p}], p)
  IN  rest[dead]
Restart(dead) ==
  /\ win # NoWindow /\ dead \subseteq Panes
  /\ win' = Reconciled(saved, dead) /\ Save
  /\ viewed' = FALSE /\ size' = StartSize /\ pending' = {} /\ poisoned' = FALSE
  /\ stale' = IF dead # {} THEN PanesOf(win'.root)
              ELSE IF win'.zoomed # win.zoomed THEN stale \cup {win'.zoomed} ELSE stale
  /\ UNCHANGED <<next, sent, late>>

(* The window is gone, or every command panics. *)
Over == ~Works /\ pending = {} /\ UNCHANGED vars

Next ==
  \/ \E s \in Sizes : Resize(s)
  \/ Select
  \/ Leave
  \/ \E p \in Ids : Focus(p) \/ ToggleZoom(p) \/ BreakPane(p) \/ PaneGone(p)
  \/ \E dir \in Dirs : GoTo(dir)
  \/ \E step \in {1, -1} : SwapPane(step)
  \/ \E p \in Ids, a \in Axes, d \in Moves : Drag(p, a, d)
  \/ \E p \in Ids, a \in Axes : BeginSplit(p, a)
  \/ \E s \in pending : SpawnFails(s) \/ FinishSplit(s)
  \/ \E dead \in SUBSET Ids : Restart(dead)
  \/ Over

Spec == Init /\ [][Next]_vars

---------------------------------------------------------------------------
(* Every leaf is a pane of its own; what is zoomed or active is a leaf. *)
TypeOK ==
  /\ Panes \subseteq Ids /\ \A p \in Panes : {p} \in DOMAIN win.root
  /\ win.zoomed \in Panes \cup {None}
  /\ win.active \in IF win = NoWindow THEN {None} ELSE Panes
  /\ \A n \in DOMAIN win.root, a \in Axes : win.root[n].at[a] \in Nat /\ win.root[n].len[a] \in Nat
  /\ viewed \in BOOLEAN /\ size \in Sizes /\ poisoned \in BOOLEAN
  /\ next \in 1 .. MaxPane + 1 /\ DOMAIN sent = Ids
  /\ \A s \in pending : s.new \in Ids \ Panes /\ s.target \in Ids

(* native.rs:72: children tile their box exactly, whatever was split,      *)
(* dragged, removed or resized before.  (A box with at least two children  *)
(* more than cells overflows.)                                             *)
Tiles == win # NoWindow => Tiled(win.root)

(* A pane has a cell on each side when its box has one for each child,     *)
(* unless a split finished when its target had become too small, and the   *)
(* window was not resized since.                                           *)
EveryPaneHasACell == late \/ ~Squeezed(win.root)

(* ptyd was told each pane's size: its cell's, or the view's if zoomed.    *)
(* Excepted are panes of a split whose target changed during the await, a  *)
(* pane zoomed during a split or under a drag, and those a restart moved.  *)
SizesAgree == \A p \in Panes \ stale : sent[p] = SizeIn(win, p)

(* A window that is shown again in the size it has keeps its cells, and a  *)
(* resize comes to rest at once: zooming in and out or switching windows   *)
(* never moves a divider.                                                  *)
ResizeIsStable ==
  /\ Roomy(win.root) /\ win # NoWindow => Resized(win, Root(win.root).len) = win
  /\ \A s \in Sizes : LET w == Resized(win, s) IN Resized(w, s) = w

(* Focus can go to the pane on the other side of every edge. *)
NavReaches ==
  Roomy(win.root) =>
    \A p \in Panes, dir \in Dirs :
      LET a == AxisOf(dir)
          l == CellOf(win.root, p)
          edge == IF dir \in {"L", "U"} THEN l.at[a] = 0 ELSE End(l, a) = Root(win.root).len[a]
          to == Neighbour(win.root, p, dir)
      IN  IF edge THEN to = None
          ELSE to # None /\ Gap(CellOf(win.root, to), l, dir) = 0

(* native.rs:124: the two sides of a divider stay at one cell or more, so  *)
(* that a drag is always possible.                                         *)
BothSidesStay == ~poisoned
=============================================================================
