------------------------------- MODULE Cells -------------------------------
(***************************************************************************)
(* The layout tree of a native window: cells that are a pane or a row or a *)
(* column of cells.  A cell is named by the panes under it: a tree is a    *)
(* function from such sets to cells, whose children are names in order.    *)
(* The two directions of a cell are the two fields of its position and of  *)
(* its length, so that each operation is written once.                     *)
(***************************************************************************)
EXTENDS Integers, Sequences, FiniteSets, SequencesExt

None   == 0
Axes   == {"cols", "rows"}
Cross(a) == IF a = "cols" THEN "rows" ELSE "cols"
Origin == [a \in Axes |-> 0]

Box(kind, kids, at, len) == [kind |-> kind, kids |-> kids, at |-> at, len |-> len]
Leaf(at, len) == Box("leaf", <<>>, at, len)
NoTree == [n \in {} |-> Leaf(Origin, Origin)]

(* The root is named by all panes. *)
PanesOf(t)   == UNION DOMAIN t
Root(t)      == t[PanesOf(t)]
CellOf(t, p) == t[{p}]

IsKid(t, b, n)   == \E i \in DOMAIN t[b].kids : t[b].kids[i] = n
KidWith(t, b, p) == CHOOSE i \in DOMAIN t[b].kids : p \in t[b].kids[i]
Parent(t, n)     == CHOOSE b \in DOMAIN t : IsKid(t, b, n)

(* Layout order: two panes are ordered by the box in which they part. *)
Before(t, p, q) ==
  \E b \in DOMAIN t : \E i, j \in DOMAIN t[b].kids :
    i < j /\ p \in t[b].kids[i] /\ q \in t[b].kids[j]
FirstOf(t, ps) == CHOOSE p \in ps : \A q \in ps \ {p} : Before(t, p, q)
LastOf(t, ps)  == CHOOSE p \in ps : \A q \in ps \ {p} : Before(t, q, p)

Halves(n)        == <<n - n \div 2, n \div 2>>
Clamp(d, lo, hi) == CASE d < lo -> lo [] d > hi -> hi [] OTHER -> d
Larger(m, n)     == IF m < n THEN n ELSE m
Minus(m, n)      == Larger(0, m - n)
Total(lens) ==
  LET sum[i \in 0 .. Len(lens)] == IF i = 0 THEN 0 ELSE sum[i - 1] + lens[i]
  IN  sum[Len(lens)]

---------------------------------------------------------------------------
Ideal(n, total, space) == (n * space + total \div 2) \div total

(* Mutant: the last child takes its share like the others. *)
NoRemainder(old, total, space, i, rest) == Clamp(Ideal(old[i], total, space), 1, Larger(1, rest))

(* Mutant: no cell is kept for the siblings that follow. *)
Greedy(old, total, space, i, rest) ==
  IF i = Len(old) THEN rest ELSE Clamp(Ideal(old[i], total, space), 1, Larger(1, rest))

(* What child i of n gets when `rest` is left: its share of the space,     *)
(* rounded, but a cell for itself and for each sibling after it; the last  *)
(* child takes what is left.                                               *)
Share(old, total, space, i, rest) ==
  IF i = Len(old) THEN rest
  ELSE Clamp(Ideal(old[i], total, space), 1, Larger(1, Minus(rest, Len(old) - i)))

(* Where each child ends, from the start of the box. *)
Ends(old, space) ==
  LET total == Larger(1, Total(old))
      end[i \in 0 .. Len(old)] ==
        IF i = 0 THEN 0
        ELSE end[i - 1] + Share(old, total, space, i, Minus(space, end[i - 1]))
  IN  end

(* Mutant: the children are weighted by their other side. *)
LensAcross(t, b) == [i \in DOMAIN t[b].kids |-> t[t[b].kids[i]].len[Cross(t[b].kind)]]

Lens(t, b) == [i \in DOMAIN t[b].kids |-> t[t[b].kids[i]].len[t[b].kind]]

(* The rectangle of child i when its box is given `r`. *)
Part(t, b, r, i) ==
  LET a    == t[b].kind
      ends == Ends(Lens(t, b), r.len[a])
  IN  [at  |-> [r.at  EXCEPT ![a] = @ + ends[i - 1]],
       len |-> [r.len EXCEPT ![a] = ends[i] - ends[i - 1]]]

(* The cell n and what is under it, laid out in this rectangle. *)
Scale(t, n, at, len) ==
  LET rect[m \in {m \in DOMAIN t : m \subseteq n}] ==
        IF m = n THEN [at |-> at, len |-> len]
        ELSE LET b == Parent(t, m)
                 i == CHOOSE i \in DOMAIN t[b].kids : t[b].kids[i] = m
             IN  Part(t, b, rect[b], i)
  IN  [m \in DOMAIN t |->
         IF m \subseteq n THEN [t[m] EXCEPT !.at = rect[m].at, !.len = rect[m].len] ELSE t[m]]

(* The leaf p and the new pane get a half each; the new one comes second.  *)
(* A box that runs the same way takes both; otherwise the leaf becomes one. *)
SplitLeaf(t, p, a, new) ==
  LET c     == t[{p}]
      h     == Halves(c.len[a])
      inBox == \E b \in DOMAIN t : t[b].kind = a /\ IsKid(t, b, {p})
      Grown(n) == IF p \in n /\ ~(inBox /\ n = {p}) THEN n \cup {new} ELSE n
      Kids(n) ==
        LET kids == [i \in DOMAIN t[n].kids |-> Grown(t[n].kids[i])]
        IN  IF inBox /\ IsKid(t, n, {p}) THEN InsertAt(kids, KidWith(t, n, p) + 1, {new}) ELSE kids
  IN  [m \in {Grown(n) : n \in DOMAIN t} \cup {{p}, {new}} |->
         CASE m = {p}      -> Leaf(c.at, [c.len EXCEPT ![a] = h[1]])
           [] m = {new}    -> Leaf([c.at EXCEPT ![a] = @ + h[1]], [c.len EXCEPT ![a] = h[2]])
           [] m = {p, new} -> Box(a, <<{p}, {new}>>, c.at, c.len)
           [] OTHER        -> [t[m \ {new}] EXCEPT !.kids = Kids(m \ {new})]]

(* The siblings share what was freed; a lone one takes its box's place,    *)
(* whose name without p is its own.                                        *)
RemoveLeaf(t, p) ==
  LET box == Parent(t, {p})
      Kids(n) == IF n = box THEN RemoveAt(t[n].kids, KidWith(t, n, p))
                 ELSE [i \in DOMAIN t[n].kids |-> t[n].kids[i] \ {p}]
      rest == [m \in {n \ {p} : n \in DOMAIN t} \ {{}} |->
                 IF m \in DOMAIN t THEN t[m] ELSE [t[m \cup {p}] EXCEPT !.kids = Kids(m \cup {p})]]
  IN  Scale(rest, box \ {p}, t[box].at, t[box].len)

SwapLeaves(t, p, q) ==
  LET Other(x)   == CASE x = p -> q [] x = q -> p [] OTHER -> x
      Renamed(n) == {Other(x) : x \in n}
  IN  [m \in {Renamed(n) : n \in DOMAIN t} |->
         [t[Renamed(m)] EXCEPT !.kids = [i \in DOMAIN @ |-> Renamed(@[i])]]]

(* The boxes with a divider after p in this direction; the outermost one's is dragged. *)
Divided(t, p, a) ==
  {b \in DOMAIN t : t[b].kind = a /\ p \in b /\ KidWith(t, b, p) < Len(t[b].kids)}
Outermost(t, p, a) == CHOOSE b \in Divided(t, p, a) : \A c \in Divided(t, p, a) : c \subseteq b

(* The names of the two siblings at the divider. *)
Boundary(t, p, a) ==
  LET b == Outermost(t, p, a)
      i == KidWith(t, b, p)
  IN  IF Divided(t, p, a) = {} THEN <<>> ELSE <<t[b].kids[i], t[b].kids[i + 1]>>

MoveBoundary(t, p, a, d) ==
  LET b    == Outermost(t, p, a)
      pair == Boundary(t, p, a)
  IN  IF d = 0 THEN t
      ELSE Scale([t EXCEPT ![pair[1]].len[a] = @ + d, ![pair[2]].len[a] = @ - d], b, t[b].at, t[b].len)

---------------------------------------------------------------------------
(* Geometric navigation. *)

Dirs     == {"L", "R", "U", "D"}
AxisOf(dir) == IF dir \in {"L", "R"} THEN "cols" ELSE "rows"
End(l, a) == l.at[a] + l.len[a]

(* Mutant: a separator column between the panes, as tmux has. *)
GapOfTmux(l, cur, dir) ==
  LET a == AxisOf(dir)
  IN  IF dir \in {"L", "U"} THEN cur.at[a] - End(l, a) - 1 ELSE l.at[a] - End(cur, a) - 1

Gap(l, cur, dir) ==
  LET a == AxisOf(dir)
  IN  IF dir \in {"L", "U"} THEN cur.at[a] - End(l, a) ELSE l.at[a] - End(cur, a)

Overlap(l, m, a) ==
  (IF End(l, a) < End(m, a) THEN End(l, a) ELSE End(m, a)) - Larger(l.at[a], m.at[a])

(* The panes that way; of these the nearest ones, of these the ones with   *)
(* the longest common edge, of these the oldest.                           *)
Ahead(t, from, dir) ==
  {p \in PanesOf(t) \ {from} :
     /\ Gap(CellOf(t, p), CellOf(t, from), dir) >= 0
     /\ Overlap(CellOf(t, p), CellOf(t, from), Cross(AxisOf(dir))) > 0}
Neighbour(t, from, dir) ==
  LET Far(p)  == Gap(CellOf(t, p), CellOf(t, from), dir)
      Edge(p) == Overlap(CellOf(t, p), CellOf(t, from), Cross(AxisOf(dir)))
      ahead   == Ahead(t, from, dir)
      nearest == {p \in ahead : \A q \in ahead : Far(p) <= Far(q)}
      longest == {p \in nearest : \A q \in nearest : Edge(p) >= Edge(q)}
  IN  IF ahead = {} THEN None ELSE CHOOSE p \in longest : \A q \in longest : p <= q

---------------------------------------------------------------------------
(* What a well laid out tree is. *)

Boxes(t) == {b \in DOMAIN t : t[b].kind # "leaf"}

(* The children of a box fill it end to end, each as wide as the box; only *)
(* a box with at least two children too many may overflow. *)
Tiled(t) ==
  \A b \in Boxes(t) :
    LET a == t[b].kind
        n == Len(t[b].kids)
        Kid(i) == t[t[b].kids[i]]
    IN  /\ Kid(1).at[a] = t[b].at[a]
        /\ \A i \in 1 .. n - 1 : Kid(i + 1).at[a] = End(Kid(i), a)
        /\ n > t[b].len[a] + 1 \/ End(Kid(n), a) = End(t[b], a)
        /\ \A i \in 1 .. n : /\ Kid(i).at[Cross(a)] = t[b].at[Cross(a)]
                             /\ Kid(i).len[Cross(a)] = t[b].len[Cross(a)]

(* Some box has a cell for each child and a child has none. *)
Squeezed(t) ==
  \E b \in Boxes(t) :
    /\ t[b].len[t[b].kind] >= Len(t[b].kids)
    /\ \E i \in DOMAIN t[b].kids : Lens(t, b)[i] < 1

(* Every pane has a cell. *)
Roomy(t) == \A p \in PanesOf(t), a \in Axes : CellOf(t, p).len[a] >= 1
=============================================================================
