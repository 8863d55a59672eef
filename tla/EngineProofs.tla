---------------------------- MODULE EngineProofs ----------------------------
(***************************************************************************)
(* Proofs about the native engine, for any number of user interfaces, pane *)
(* numbers, connections and commands.  IInv is the inductive invariant of  *)
(* the windows and the view: pane numbers only grow, a window is led by    *)
(* its lowest pane, nothing is left of a ptyd that has died, what is shown *)
(* while the link is down is a stray, and the last layout sent is the      *)
(* present one.  NewConns, Listed and Followed add what relates the mirror *)
(* to ptyd: what the requests that are still under way will make of each   *)
(* pane.                                                                   *)
(***************************************************************************)
EXTENDS Engine, FiniteSetTheorems, SequenceTheorems, WellFoundedInduction, TLAPS

USE EngineAssumption
    DEF Conns, Ids, Tmux, None, linkVars, uiVars, muxVars, paneVars, ptydVars, wire, vars

---------------------------------------------------------------------------
(* The types TypeOK leaves out. *)

(* No pane in two windows; a window has the number of its first pane, and  *)
(* the later ones have larger numbers.                                     *)
Layouts ==
  {w \in [Ids -> SUBSET Ids] :
     /\ \A i, j \in Ids : i # j => w[i] \cap w[j] = {}
     /\ \A i \in Ids : \A p \in w[i] : Low(i) <= Low(p)}

Ops ==
  [pc : {"idle"}]
  \cup [pc : {"ensuring"}, eph : BOOLEAN, target : Ids \cup {None}, boot : BOOLEAN]
  \cup [pc : {"waiting", "answered"}, eph : BOOLEAN, target : Ids \cup {None},
        boot : BOOLEAN, id : Ids, conn : Conns]

Msgs ==
  [k : {"spawn", "eph"}, id : Ids, eph : BOOLEAN]
  \cup [k : {"kill"}, id : Ids]
  \cup [k : {"meta"}, wins : Layouts]

DataOK ==
  /\ wins \in Layouts /\ blob \in Layouts
  /\ listed \in [panes : SUBSET Ids, eph : SUBSET Ids, blob : Layouts]
  /\ op \in [Tasks -> Ops]
  /\ req \in [Conns -> Seq(Msgs)]
  /\ ev \in Seq(Ids \cup {None})

(* Every pane number in use is below the next one, a pane being spawned is *)
(* not mirrored yet, and its number is above its target's.                 *)
HasId(t) == op[t].pc \in {"waiting", "answered"}
Numbers ==
  /\ \A i \in mirror : Low(i) < next
  /\ Members(wins) \subseteq mirror
  /\ \A t \in Tasks :
       /\ op[t].pc # "idle" /\ op[t].target # None => Low(op[t].target) < next
       /\ HasId(t) => /\ Low(op[t].id) < next /\ op[t].id \notin mirror
                      /\ op[t].target # None => Low(op[t].target) < Low(op[t].id)
  /\ \A s, t \in Tasks : s # t /\ HasId(s) /\ HasId(t) => op[s].id # op[t].id

(* Only the present connection is open, and its end is the last event. *)
OneLink ==
  /\ \A c \in Conns : conn[c] = "open" => link # "none" /\ c = cur
  /\ link # "none" => cur \in Conns /\ conn[cur] \in {"open", "dead"}
  /\ link # "none" /\ (\E n \in DOMAIN ev : ev[n] = None) => conn[cur] = "dead"

(* ptyd holds nothing and nobody can ask it for anything ... *)
Barren == held = {} /\ \A c \in Conns : conn[c] \notin {"open", "closing"}

(* ... wherever mymuxd still has something of the time before. *)
Lingers == view # Tmux \/ mirror # {} \/ \E t \in Tasks : HasId(t)
AfterDeath ==
  /\ link # "none" /\ conn[cur] = "dead" => Barren
  /\ link = "none" /\ Lingers => Barren
  /\ link \in {"listed", "read"} /\ Lingers => Survivors(listed) = {}

(* Without a link, what is shown came from a ptyd that has died. *)
StrayView ==
  link # "up" =>
    /\ view # Tmux => over \/ view \in strays
    /\ Members(wins) \cup Tabs(wins) \subseteq strays

(* The last layout among requests s is w; there is none among them. *)
NoMeta(s)      == \A n \in DOMAIN s : s[n].k # "meta"
LastMeta(s, w) ==
  \E n \in DOMAIN s : /\ s[n].k = "meta" /\ s[n].wins = w
                      /\ \A m \in DOMAIN s : m > n => s[m].k # "meta"

(* ptyd's layout will be w once it has handled requests s. *)
Carries(s, b, w) == LastMeta(s, w) \/ (b = w /\ NoMeta(s))

Saved ==
  link = "up" /\ conn[cur] = "open" /\ None \notin strays => Carries(req[cur], blob, wins)

(* The inductive invariant. *)
IInv ==
  /\ TypeOK /\ DataOK /\ Numbers /\ OneLink /\ AfterDeath /\ StrayView /\ Saved
  /\ ViewIsLive

---------------------------------------------------------------------------
(* Numbers and lists. *)

(* A set of naturals has a least element. *)
LEMMA HasLowest ==
  ASSUME NEW S, S \subseteq Nat, S # {}
  PROVE  \E x \in S : \A y \in S : x <= y
<1> DEFINE R == {p \in Nat \X Nat : p[1] < p[2]}
<1>1. IsWellFoundedOn(R, Nat)
  <2>1. R = OpToRel(<, Nat)
    BY DEF OpToRel
  <2> QED BY <2>1, NatLessThanWellFounded
<1>2. PICK x \in S : \A y \in S : ~ (<<y, x>> \in R)
  BY <1>1, WFMin
<1>3. ASSUME NEW y \in S PROVE x <= y
  <2>1. x \in Nat /\ y \in Nat
    OBVIOUS
  <2>2. ~(y < x)
    BY <1>2, <2>1
  <2> QED BY <2>1, <2>2
<1> QED BY <1>3

(* So Lowest picks a member. *)
LEMMA LowestIn ==
  ASSUME NEW S \in SUBSET Ids, S # {}
  PROVE  Lowest(S) \in S
<1>1. S \subseteq Nat
  OBVIOUS
<1>2. \E x \in S : \A y \in S : x <= y
  BY <1>1, HasLowest
<1> QED BY <1>2 DEF Lowest

(* A bounded set of naturals has a greatest element. *)
LEMMA HasHighest ==
  ASSUME NEW n \in Nat, NEW S, S \subseteq 1 .. n, S # {}
  PROVE  \E x \in S : \A y \in S : y <= x
<1> DEFINE T == {n - x : x \in S}
<1>1. T \subseteq Nat /\ T # {}
  <2>1. \A x \in S : n - x \in Nat
    OBVIOUS
  <2> QED BY <2>1
<1>2. PICK z \in T : \A y \in T : z <= y
  BY <1>1, HasLowest
<1>3. PICK x \in S : z = n - x
  OBVIOUS
<1>4. ASSUME NEW y \in S PROVE y <= x
  <2>1. n - y \in T
    OBVIOUS
  <2>2. n - x <= n - y
    BY <1>2, <1>3, <2>1
  <2> QED BY <2>2
<1> QED BY <1>4

(* The number of a pane; a new id carries the number it was made of. *)
LEMMA LowType ==
  /\ \A i \in Ids : Low(i) \in 1 .. MaxPane
  /\ \A e \in BOOLEAN, n \in 1 .. MaxPane : NewId(e, n) \in Ids /\ Low(NewId(e, n)) = n
  BY DEF Low, NewId

(* Adoption leaves the next number above every survivor and never lowers   *)
(* it.                                                                     *)
LEMMA NextAboveBounds ==
  ASSUME NEW S \in SUBSET Ids, next \in 1 .. MaxPane + 1
  PROVE  /\ NextAbove(S) \in 1 .. MaxPane + 1 /\ NextAbove(S) >= next
         /\ \A i \in S : Low(i) < NextAbove(S)
<1> DEFINE low == {Low(i) : i \in S}
<1>1. low \subseteq 1 .. MaxPane
  BY LowType
<1>2. CASE low = {}
  BY <1>2 DEF NextAbove
<1>3. CASE low # {}
  <2> DEFINE m == CHOOSE x \in low : \A y \in low : y <= x
  <2>1. m \in low /\ \A y \in low : y <= m
    <3>1. \E x \in low : \A y \in low : y <= x
      BY <1>1, <1>3, HasHighest
    <3> QED BY <3>1
  <2>2. NextAbove(S) = IF next > m + 1 THEN next ELSE m + 1
    BY <1>3 DEF NextAbove
  <2>3. m \in 1 .. MaxPane
    BY <1>1, <2>1
  <2>4. \A i \in S : Low(i) \in 1 .. MaxPane /\ Low(i) <= m
    BY <1>1, <2>1
  <2> HIDE DEF m, low
  <2> QED BY <2>2, <2>3, <2>4
<1> QED BY <1>2, <1>3

(* SetToSeq lists every id of the set, once. *)
LEMMA ListOf ==
  ASSUME NEW S \in SUBSET Ids
  PROVE  /\ Cardinality(S) \in Nat /\ SetToSeq(S) \in [1 .. Cardinality(S) -> S]
         /\ \A i \in S : \E n \in DOMAIN SetToSeq(S) : SetToSeq(S)[n] = i
         /\ \A m, n \in DOMAIN SetToSeq(S) : SetToSeq(S)[m] = SetToSeq(S)[n] => m = n
<1> DEFINE c == Cardinality(S)
           f == SetToSeq(S)
<1>1. IsFiniteSet(Ids)
  BY FS_Interval
<1>2. IsFiniteSet(S)
  BY <1>1, FS_Subset
<1>3. c \in Nat /\ ExistsBijection(1 .. c, S)
  BY <1>2, FS_CardinalityType
<1>4. \E g \in [1 .. c -> S] : IsInjective(g)
  BY <1>3 DEF ExistsBijection, Bijection, Injection, IsInjective
<1>5. f \in [1 .. c -> S] /\ IsInjective(f)
  BY <1>4 DEF SetToSeq
<1> HIDE DEF f
<1>6. f \in Injection(1 .. c, S)
  BY <1>5 DEF Injection
<1>7. Cardinality(1 .. c) = c
  BY <1>3, FS_Interval
<1>8. f \in Surjection(1 .. c, S)
  BY <1>2, <1>6, <1>7, FS_Injection
<1> QED BY <1>3, <1>5, <1>8 DEF Surjection, IsInjective, f

(* The requests of one kill, or one change of kind, per id. *)
LEMMA EachKill ==
  ASSUME NEW S \in SUBSET Ids
  PROVE  Each(Kill, S) \in Seq(Msgs) /\ NoMeta(Each(Kill, S))
<1> DEFINE ids == SetToSeq(S)
           ms  == [n \in DOMAIN ids |-> Kill(ids[n])]
<1>1. Cardinality(S) \in Nat /\ ids \in [1 .. Cardinality(S) -> S]
  BY ListOf
<1>2. \A i \in Ids : Kill(i) \in Msgs /\ Kill(i).k = "kill"
  BY DEF Kill, Msgs
<1> HIDE DEF ids
<1>3. ms \in [1 .. Cardinality(S) -> Msgs] /\ NoMeta(ms)
  BY <1>1, <1>2 DEF NoMeta
<1> QED BY <1>1, <1>3 DEF Each, ids

LEMMA EachFlip ==
  ASSUME NEW S \in SUBSET Ids, NEW e \in BOOLEAN
  PROVE  LET ms == [n \in DOMAIN SetToSeq(S) |-> SetEph(SetToSeq(S)[n], e)]
         IN  ms \in Seq(Msgs) /\ NoMeta(ms)
<1> DEFINE ids == SetToSeq(S)
           ms  == [n \in DOMAIN ids |-> SetEph(ids[n], e)]
<1>1. Cardinality(S) \in Nat /\ ids \in [1 .. Cardinality(S) -> S]
  BY ListOf
<1>2. \A i \in Ids : SetEph(i, e) \in Msgs /\ SetEph(i, e).k = "eph"
  BY DEF SetEph, Msgs
<1> HIDE DEF ids
<1>3. ms \in [1 .. Cardinality(S) -> Msgs] /\ NoMeta(ms)
  BY <1>1, <1>2 DEF NoMeta
<1> QED BY <1>1, <1>3 DEF ids

---------------------------------------------------------------------------
(* The operations on layouts. *)

LEMMA NoWinsSound == NoWins \in Layouts /\ Members(NoWins) = {} /\ Tabs(NoWins) = {}
  BY DEF NoWins, Layouts, Members, Tabs

LEMMA MembersOf ==
  ASSUME NEW w \in Layouts
  PROVE  /\ Members(w) \subseteq Ids /\ Tabs(w) \subseteq Ids
         /\ Members(w) = {} <=> Tabs(w) = {}
         /\ \A p : p \in Members(w) <=> \E i \in Ids : p \in w[i]
  BY DEF Layouts, Members, Tabs

(* A new window replaces one of the same number, if there is one. *)
LEMMA AddSingleSound ==
  ASSUME NEW w \in Layouts, NEW p \in Ids, \A i \in Ids : i # p => p \notin w[i]
  PROVE  /\ AddSingle(w, p) \in Layouts
         /\ Members(AddSingle(w, p)) \subseteq Members(w) \cup {p}
         /\ Tabs(AddSingle(w, p)) = Tabs(w) \cup {p}
         /\ AddSingle(w, p)[p] = {p}
<1>1. \A i \in Ids : AddSingle(w, p)[i] = IF i = p THEN {p} ELSE w[i]
  BY DEF AddSingle, Layouts
<1>2. Low(p) <= Low(p)
  BY LowType
<1>3. AddSingle(w, p) \in Layouts
  <2>1. AddSingle(w, p) \in [Ids -> SUBSET Ids]
    BY DEF AddSingle, Layouts
  <2>2. \A i, j \in Ids : i # j => AddSingle(w, p)[i] \cap AddSingle(w, p)[j] = {}
    BY <1>1 DEF Layouts
  <2>3. \A i \in Ids : \A q \in AddSingle(w, p)[i] : Low(i) <= Low(q)
    BY <1>1, <1>2 DEF Layouts
  <2> QED BY <2>1, <2>2, <2>3 DEF Layouts
<1> QED BY <1>1, <1>3 DEF Members, Tabs

LEMMA RemovePaneSound ==
  ASSUME NEW w \in Layouts, NEW p \in Ids
  PROVE  /\ RemovePane(w, p) \in Layouts
         /\ Members(RemovePane(w, p)) = Members(w) \ {p}
         /\ Tabs(RemovePane(w, p)) \subseteq Tabs(w)
         /\ p \notin Members(w) => RemovePane(w, p) = w
<1>1. RemovePane(w, p) \in [Ids -> SUBSET Ids] /\ \A i \in Ids : RemovePane(w, p)[i] = w[i] \ {p}
  BY DEF RemovePane, Layouts
<1>2. RemovePane(w, p) \in Layouts
  BY <1>1 DEF Layouts
<1>3. Members(RemovePane(w, p)) = Members(w) \ {p}
  BY <1>1 DEF Members
<1>4. Tabs(RemovePane(w, p)) \subseteq Tabs(w)
  BY <1>1 DEF Tabs
<1>5. ASSUME p \notin Members(w) PROVE RemovePane(w, p) = w
  <2>1. \A i \in Ids : w[i] \ {p} = w[i]
    BY <1>5 DEF Members
  <2> QED BY <2>1 DEF RemovePane, Layouts
<1> QED BY <1>2, <1>3, <1>4, <1>5

(* The new pane of a split is above its target, so it does not lead. *)
LEMMA SplitSound ==
  ASSUME NEW w \in Layouts, NEW p \in Ids, NEW q \in Ids, q \notin Members(w), Low(p) < Low(q)
  PROVE  /\ Split(w, p, q) \in Layouts
         /\ Members(Split(w, p, q)) \subseteq Members(w) \cup {q}
         /\ Tabs(Split(w, p, q)) = Tabs(w)
         /\ \A i \in Ids : w[i] \subseteq Split(w, p, q)[i]
<1>1. /\ Split(w, p, q) \in [Ids -> SUBSET Ids]
      /\ \A i \in Ids : Split(w, p, q)[i] = IF p \in w[i] THEN w[i] \cup {q} ELSE w[i]
  BY DEF Split, Layouts
<1>2. \A i \in Ids : q \notin w[i]
  BY DEF Members
<1>3. \A i, j \in Ids : i # j => Split(w, p, q)[i] \cap Split(w, p, q)[j] = {}
  BY <1>1, <1>2 DEF Layouts
<1>4. ASSUME NEW i \in Ids, NEW r \in Split(w, p, q)[i] PROVE Low(i) <= Low(r)
  <2>1. r \in w[i] => Low(i) <= Low(r)
    BY DEF Layouts
  <2>2. r \notin w[i] => r = q /\ Low(i) <= Low(p)
    BY <1>1 DEF Layouts
  <2>3. Low(i) \in Nat /\ Low(p) \in Nat /\ Low(q) \in Nat
    BY LowType
  <2> QED BY <2>1, <2>2, <2>3
<1>5. Split(w, p, q) \in Layouts
  BY <1>1, <1>3, <1>4 DEF Layouts
<1>6. Members(Split(w, p, q)) \subseteq Members(w) \cup {q}
  BY <1>1 DEF Members
<1>7. Tabs(Split(w, p, q)) = Tabs(w)
  BY <1>1 DEF Tabs
<1> QED BY <1>1, <1>5, <1>6, <1>7

LEMMA ReconcileSound ==
  ASSUME NEW w \in Layouts, NEW alive \in SUBSET Ids
  PROVE  /\ Reconcile(w, alive) \in Layouts
         /\ Members(Reconcile(w, alive)) \subseteq alive
<1> DEFINE kept == [i \in Ids |-> w[i] \cap alive]
           r    == Reconcile(w, alive)
<1>1. kept \in [Ids -> SUBSET Ids] /\ \A i \in Ids : kept[i] = w[i] \cap alive
  BY DEF Layouts
<1>2. /\ r \in [Ids -> SUBSET Ids]
      /\ \A i \in Ids : r[i] = IF i \in alive \ Members(kept) THEN {i} ELSE kept[i]
  BY <1>1 DEF Reconcile
<1>3. \A i, j \in Ids : i \in alive \ Members(kept) => i \notin kept[j]
  BY DEF Members
<1> HIDE DEF kept, r
<1>4. \A i, j \in Ids : i # j => r[i] \cap r[j] = {}
  <2>1. \A i, j \in Ids : i # j => kept[i] \cap kept[j] = {}
    BY <1>1 DEF Layouts
  <2> QED BY <1>2, <1>3, <2>1
<1>5. ASSUME NEW i \in Ids, NEW p \in r[i] PROVE Low(i) <= Low(p)
  <2>1. p = i \/ p \in w[i]
    BY <1>1, <1>2
  <2>2. Low(i) <= Low(i)
    BY LowType
  <2> QED BY <2>1, <2>2 DEF Layouts
<1>6. Members(r) \subseteq alive
  BY <1>1, <1>2 DEF Members
<1> QED BY <1>2, <1>4, <1>5, <1>6 DEF Layouts, r

---------------------------------------------------------------------------
(* The requests of a connection. *)

LEMMA MetaMsg ==
  ASSUME NEW w \in Layouts
  PROVE  SetMeta(w) \in Msgs /\ SetMeta(w).k = "meta" /\ SetMeta(w).wins = w
  BY DEF SetMeta, Msgs

(* Requests that end with the layout carry it ... *)
LEMMA CarriesSaved ==
  ASSUME NEW s \in Seq(Msgs), NEW ms \in Seq(Msgs), NEW w \in Layouts
  PROVE  /\ ms \o <<SetMeta(w)>> \in Seq(Msgs)
         /\ s \o (ms \o <<SetMeta(w)>>) \in Seq(Msgs)
         /\ LastMeta(s \o (ms \o <<SetMeta(w)>>), w)
         /\ LastMeta(ms \o <<SetMeta(w)>>, w)
<1> DEFINE x == SetMeta(w)
<1>1. x \in Msgs /\ x.k = "meta" /\ x.wins = w
  BY MetaMsg
<1> HIDE DEF x
<1>2. /\ ms \o <<x>> \in Seq(Msgs) /\ Len(ms \o <<x>>) = Len(ms) + 1
      /\ (ms \o <<x>>)[Len(ms) + 1] = x
  BY <1>1
<1> DEFINE t == ms \o <<x>>
<1> HIDE DEF t
<1>3. LastMeta(t, w)
  <2>1. t \in Seq(Msgs) /\ Len(t) = Len(ms) + 1 /\ t[Len(ms) + 1] = x /\ Len(ms) \in Nat
    BY <1>2, LenProperties DEF t
  <2>2. DOMAIN t = 1 .. Len(ms) + 1
    BY <2>1, LenProperties
  <2>3. Len(ms) + 1 \in DOMAIN t /\ \A m \in DOMAIN t : ~(m > Len(ms) + 1)
    BY <2>1, <2>2
  <2> QED BY <1>1, <2>1, <2>3 DEF LastMeta
<1>4. t \in Seq(Msgs) /\ Len(t) = Len(ms) + 1 /\ t[Len(t)] = x
  BY <1>2 DEF t
<1>5. s \o t \in Seq(Msgs) /\ Len(s \o t) = Len(s) + Len(t) /\ (s \o t)[Len(s) + Len(t)] = x
  BY <1>4
<1>6. LastMeta(s \o t, w)
  <2>1. Len(s) + Len(t) \in DOMAIN (s \o t) /\ \A m \in DOMAIN (s \o t) : ~(m > Len(s) + Len(t))
    BY <1>4, <1>5
  <2> QED BY <1>1, <1>5, <2>1 DEF LastMeta
<1> QED BY <1>2, <1>3, <1>5, <1>6 DEF x, t

(* ... and other requests after them do no harm. *)
LEMMA CarriesPosted ==
  ASSUME NEW s \in Seq(Msgs), NEW ms \in Seq(Msgs), NoMeta(ms), NEW b, NEW w, Carries(s, b, w)
  PROVE  s \o ms \in Seq(Msgs) /\ Carries(s \o ms, b, w)
<1>1. /\ s \o ms \in Seq(Msgs) /\ Len(s \o ms) = Len(s) + Len(ms)
      /\ \A n \in 1 .. Len(s) : (s \o ms)[n] = s[n]
      /\ \A n \in DOMAIN (s \o ms) : n > Len(s) => (s \o ms)[n] = ms[n - Len(s)] /\ n - Len(s) \in DOMAIN ms
  OBVIOUS
<1>2. \A n \in DOMAIN (s \o ms) : n > Len(s) => (s \o ms)[n].k # "meta"
  BY <1>1 DEF NoMeta
<1>3. CASE LastMeta(s, w)
  <2>1. PICK n \in DOMAIN s : /\ s[n].k = "meta" /\ s[n].wins = w
                              /\ \A m \in DOMAIN s : m > n => s[m].k # "meta"
    BY <1>3 DEF LastMeta
  <2>2. n \in DOMAIN (s \o ms) /\ (s \o ms)[n] = s[n]
    BY <1>1
  <2>3. ASSUME NEW m \in DOMAIN (s \o ms), m > n PROVE (s \o ms)[m].k # "meta"
    BY <1>1, <1>2, <2>1, <2>3
  <2> QED BY <1>1, <2>1, <2>2, <2>3 DEF LastMeta, Carries
<1>4. CASE b = w /\ NoMeta(s)
  <2>1. NoMeta(s \o ms)
    BY <1>1, <1>2, <1>4 DEF NoMeta
  <2> QED BY <1>1, <1>4, <2>1 DEF Carries
<1> QED BY <1>3, <1>4 DEF Carries

(* Handling the first request keeps the promise. *)
LEMMA CarriesTail ==
  ASSUME NEW s \in Seq(Msgs), s # <<>>, NEW b, NEW w, Carries(s, b, w)
  PROVE  Carries(Tail(s), IF Head(s).k = "meta" THEN Head(s).wins ELSE b, w)
<1>1. /\ Tail(s) \in Seq(Msgs) /\ Len(s) > 0 /\ Len(Tail(s)) = Len(s) - 1 /\ Head(s) = s[1]
      /\ \A n \in DOMAIN Tail(s) : Tail(s)[n] = s[n + 1] /\ n + 1 \in DOMAIN s
  OBVIOUS
<1>2. CASE LastMeta(s, w)
  <2>1. PICK n \in DOMAIN s : /\ s[n].k = "meta" /\ s[n].wins = w
                              /\ \A m \in DOMAIN s : m > n => s[m].k # "meta"
    BY <1>2 DEF LastMeta
  <2>2. CASE n = 1
    <3>1. NoMeta(Tail(s))
      BY <1>1, <2>1, <2>2 DEF NoMeta
    <3> QED BY <1>1, <2>1, <2>2, <3>1 DEF Carries
  <2>3. CASE n > 1
    <3>1. n - 1 \in DOMAIN Tail(s) /\ Tail(s)[n - 1] = s[n]
      BY <1>1, <2>3
    <3>2. \A m \in DOMAIN Tail(s) : m > n - 1 => Tail(s)[m].k # "meta"
      BY <1>1, <2>1
    <3> QED BY <2>1, <3>1, <3>2 DEF LastMeta, Carries
  <2> QED BY <2>2, <2>3
<1>3. CASE b = w /\ NoMeta(s)
  <2>1. NoMeta(Tail(s)) /\ Head(s).k # "meta"
    BY <1>1, <1>3 DEF NoMeta
  <2> QED BY <1>3, <2>1 DEF Carries
<1> QED BY <1>2, <1>3 DEF Carries

---------------------------------------------------------------------------
(* The initial states satisfy the invariant. *)
LEMMA InitIInv == Init => IInv
<1> SUFFICES ASSUME Init PROVE IInv
  OBVIOUS
<1>1. TypeOK
  <2>1. 1 \in 1 .. MaxPane + 1 /\ 0 \in 0 .. MaxCmd
    OBVIOUS
  <2>2. NoWins \in [Ids -> SUBSET Ids]
    BY DEF NoWins
  <2> QED BY <2>1, <2>2 DEF Init, TypeOK
<1>2. DataOK
  BY NoWinsSound DEF Init, DataOK, NotRead, Ops, NoOp
<1>3. Numbers
  BY NoWinsSound DEF Init, Numbers, NoOp, HasId
<1>4. OneLink /\ Saved /\ ViewIsLive
  BY DEF Init, OneLink, Saved, ViewIsLive
<1>5. AfterDeath
  <2>1. ~Lingers
    BY DEF Init, Lingers, HasId, NoOp
  <2> QED BY <2>1 DEF Init, AfterDeath
<1>6. StrayView
  BY NoWinsSound DEF Init, StrayView
<1> QED BY <1>1, <1>2, <1>3, <1>4, <1>5, <1>6 DEF IInv

---------------------------------------------------------------------------
(* What the parts of an action do. *)

(* Requests go to the present connection only. *)
LEMMA PostedType ==
  ASSUME TypeOK, DataOK, OneLink, NEW ms \in Seq(Msgs)
  PROVE  /\ Posted(ms) \in [Conns -> Seq(Msgs)]
         /\ \A c \in Conns : Posted(ms)[c] =
               IF link = "up" /\ conn[cur] = "open" /\ c = cur THEN req[c] \o ms ELSE req[c]
<1>1. CASE link = "up" /\ conn[cur] = "open"
  <2>1. cur \in Conns /\ req[cur] \in Seq(Msgs)
    BY <1>1 DEF OneLink, DataOK
  <2>2. req[cur] \o ms \in Seq(Msgs)
    BY <2>1
  <2> QED BY <1>1, <2>1, <2>2 DEF Posted, DataOK
<1>2. CASE ~(link = "up" /\ conn[cur] = "open")
  BY <1>2 DEF Posted, DataOK
<1> QED BY <1>1, <1>2

(* What falls back is on a window, on tmux, or the user interfaces know. *)
LEMMA FallBackView ==
  ASSUME TypeOK, NEW w \in Layouts, NEW r \in BOOLEAN, FallBack(w, r)
  PROVE  /\ view' \in Ids \cup {Tmux} /\ over' \in BOOLEAN
         /\ Tabs(w) # {} => view' \in Tabs(w) /\ over' = over
         /\ Tabs(w) = {} => \/ view' = Tmux /\ over' = over
                            \/ view' = view /\ over' = TRUE
<1>1. Tabs(w) \in SUBSET Ids
  BY MembersOf
<1>2. Tabs(w) # {} => Lowest(Tabs(w)) \in Tabs(w)
  BY <1>1, LowestIn
<1> QED BY <1>1, <1>2 DEF FallBack, TypeOK

(* The layout that is saved is the one the action leaves. *)
LEMMA SaveType ==
  ASSUME TypeOK, DataOK, OneLink, NEW ms \in Seq(Msgs), wins' \in Layouts, req' = Save(ms)
  PROVE  /\ req' \in [Conns -> Seq(Msgs)]
         /\ link = "up" /\ conn[cur] = "open" => LastMeta(req'[cur], wins')
<1> DEFINE t == ms \o <<SetMeta(wins')>>
<1>1. t \in Seq(Msgs)
  BY CarriesSaved
<1>2. req' = Posted(t)
  BY DEF Save
<1>3. \A c \in Conns : req[c] \in Seq(Msgs)
  BY DEF DataOK
<1>4. cur \in Conns => LastMeta(req[cur] \o t, wins')
  BY <1>3, CarriesSaved
<1>5. link = "up" => cur \in Conns
  BY DEF OneLink
<1> HIDE DEF t
<1>6. /\ Posted(t) \in [Conns -> Seq(Msgs)]
      /\ \A c \in Conns : Posted(t)[c] =
               IF link = "up" /\ conn[cur] = "open" /\ c = cur THEN req[c] \o t ELSE req[c]
  BY <1>1, PostedType
<1> QED BY <1>2, <1>4, <1>5, <1>6

(* ... and requests that are not about the layout leave the promise. *)
LEMMA PostedSaved ==
  ASSUME TypeOK, DataOK, OneLink, Saved, NEW ms \in Seq(Msgs), NoMeta(ms), req' = Posted(ms)
  PROVE  /\ req' \in [Conns -> Seq(Msgs)]
         /\ link = "up" /\ conn[cur] = "open" /\ None \notin strays =>
              Carries(req'[cur], blob, wins)
<1>1. /\ Posted(ms) \in [Conns -> Seq(Msgs)]
      /\ \A c \in Conns : Posted(ms)[c] =
               IF link = "up" /\ conn[cur] = "open" /\ c = cur THEN req[c] \o ms ELSE req[c]
  BY PostedType
<1>2. ASSUME link = "up", conn[cur] = "open", None \notin strays PROVE Carries(req'[cur], blob, wins)
  <2>1. cur \in Conns /\ req[cur] \in Seq(Msgs) /\ Carries(req[cur], blob, wins)
    BY <1>2 DEF OneLink, DataOK, Saved
  <2>2. Carries(req[cur] \o ms, blob, wins)
    BY <2>1, CarriesPosted
  <2> QED BY <1>1, <1>2, <2>1, <2>2
<1> QED BY <1>1, <1>2

(* native_pane_removed. *)
LEMMA RemovedEffect ==
  ASSUME TypeOK, DataOK, OneLink, Saved, NEW p \in Ids, NEW ms \in Seq(Msgs), NoMeta(ms),
         Removed(p, ms)
  PROVE  /\ wins' = RemovePane(wins, p) /\ wins' \in Layouts
         /\ req' \in [Conns -> Seq(Msgs)]
         /\ link = "up" /\ conn[cur] = "open" /\ None \notin strays =>
              Carries(req'[cur], blob, wins')
         /\ view' \in Ids \cup {Tmux} /\ over' \in BOOLEAN
         /\ \/ view' \in Tabs(wins') /\ over' = over
            \/ view' = Tmux /\ over' = over
            \/ view' = view /\ over' = TRUE /\ Tabs(wins') = {}
            \/ view' = view /\ over' = over /\ (view # Tmux => p \notin wins[view] \/ wins'[view] # {})
<1>1. wins' = RemovePane(wins, p) /\ wins' \in Layouts
  BY RemovePaneSound DEF Removed, DataOK
<1>2. /\ req' \in [Conns -> Seq(Msgs)]
      /\ link = "up" /\ conn[cur] = "open" /\ None \notin strays => Carries(req'[cur], blob, wins')
  <2>1. CASE p \in Members(wins)
    <3>1. req' = Save(ms)
      BY <2>1 DEF Removed
    <3> QED BY <1>1, <3>1, SaveType DEF Carries
  <2>2. CASE p \notin Members(wins)
    <3>1. wins' = wins
      BY <1>1, <2>2, RemovePaneSound DEF DataOK
    <3>2. req' = Posted(ms)
      BY <2>2 DEF Removed
    <3> QED BY <3>1, <3>2, PostedSaved
  <2> QED BY <2>1, <2>2
<1>3. CASE view # Tmux /\ p \in wins[view] /\ wins'[view] = {}
  <2>1. FallBack(wins', tmux) /\ tmux \in BOOLEAN
    BY <1>3 DEF Removed, TypeOK
  <2> QED BY <1>1, <1>2, <2>1, FallBackView
<1>4. CASE ~(view # Tmux /\ p \in wins[view] /\ wins'[view] = {})
  BY <1>1, <1>2, <1>4 DEF Removed, TypeOK
<1> QED BY <1>3, <1>4

---------------------------------------------------------------------------
(* Types. *)

(* The fields of an operation. *)
LEMMA OpType ==
  ASSUME DataOK, NEW t \in Tasks
  PROVE  /\ NoOp \in Ops
         /\ op[t].pc \in {"idle", "ensuring", "waiting", "answered"}
         /\ op[t].pc # "idle" =>
              op[t].eph \in BOOLEAN /\ op[t].target \in Ids \cup {None} /\ op[t].boot \in BOOLEAN
         /\ HasId(t) => op[t].id \in Ids /\ op[t].conn \in Conns
         /\ op[t].pc = "waiting" => [op[t] EXCEPT !.pc = "answered"] \in Ops
<1>1. op[t] \in Ops
  BY DEF DataOK
<1> QED BY <1>1 DEF Ops, NoOp, HasId

(* An operation that begins, or ends. *)
LEMMA OpsType ==
  ASSUME DataOK, NEW t \in Tasks, NEW o \in Ops, op' = [op EXCEPT ![t] = o]
  PROVE  op' \in [Tasks -> Ops]
  BY DEF DataOK

LEMMA BeginType ==
  ASSUME DataOK, NEW t \in Tasks, NEW e \in BOOLEAN, NEW p \in Ids \cup {None}, NEW b \in BOOLEAN,
         Begin(t, e, p, b)
  PROVE  op' \in [Tasks -> Ops]
  BY DEF DataOK, Begin, Ops

(* The first request of a connection, and what is left. *)
LEMMA HeadType ==
  ASSUME DataOK, NEW c \in Conns, NEW k, Next1(c, k)
  PROVE  /\ req' \in [Conns -> Seq(Msgs)] /\ req' = [req EXCEPT ![c] = Tail(@)]
         /\ req[c] \in Seq(Msgs) /\ req[c] # <<>> /\ Head(req[c]) \in Msgs /\ Head(req[c]).k = k
<1>1. req[c] \in Seq(Msgs) /\ req[c] # <<>> /\ req' = [req EXCEPT ![c] = Tail(@)]
  BY DEF Next1, DataOK
<1>2. Tail(req[c]) \in Seq(Msgs) /\ Head(req[c]) \in Msgs
  BY <1>1
<1> QED BY <1>1, <1>2 DEF Next1, DataOK

(* The link's steps keep the types. *)
LEMMA LinkTypes ==
  ASSUME TypeOK, DataOK, OneLink, LinkStep
  PROVE  TypeOK' /\ DataOK'
<1>1. ASSUME GetMeta PROVE TypeOK' /\ DataOK'
  BY <1>1 DEF GetMeta, TypeOK, DataOK
<1>2. ASSUME ReadFails PROVE TypeOK' /\ DataOK'
  BY <1>2, NoWinsSound DEF ReadFails, NotRead, TypeOK, DataOK
<1>3. ASSUME Adopt PROVE TypeOK' /\ DataOK'
  <2>1. Survivors(listed) \in SUBSET Ids /\ listed.eph \in SUBSET Ids /\ listed.blob \in Layouts
    BY DEF DataOK, Survivors
  <2>2. NextAbove(Survivors(listed)) \in 1 .. MaxPane + 1
    BY <2>1, NextAboveBounds DEF TypeOK
  <2>3. wins' \in Layouts
    BY <1>3, <2>1, ReconcileSound DEF Adopt
  <2>4. Each(Kill, listed.eph) \in Seq(Msgs)
    BY <2>1, EachKill
  <2>5. Each(Kill, listed.eph) \o <<SetMeta(wins')>> \in Seq(Msgs)
    BY <2>3, <2>4, CarriesSaved, EmptySeq
  <2>6. req' \in [Conns -> Seq(Msgs)]
    BY <1>3, <2>5 DEF Adopt, DataOK
  <2>7. TypeOK'
    BY <1>3, <2>1, <2>2, <2>3 DEF Adopt, TypeOK, Layouts
  <2> QED BY <1>3, <2>3, <2>6, <2>7, NoWinsSound DEF Adopt, NotRead, DataOK
<1>4. ASSUME NEW c \in Conns, List(c) PROVE TypeOK' /\ DataOK'
  <2>1. listed' \in [panes : SUBSET Ids, eph : SUBSET Ids, blob : Layouts]
    BY <1>4, NoWinsSound DEF List, NotRead, TypeOK
  <2>2. TypeOK'
    BY <1>4 DEF List, TypeOK
  <2>3. <<>> \in Seq(Ids \cup {None})
    OBVIOUS
  <2>4. DataOK'
    BY <1>4, <2>1, <2>3 DEF List, DataOK
  <2> QED BY <2>2, <2>4
<1> QED BY <1>1, <1>2, <1>3, <1>4 DEF LinkStep

(* The pane of an operation is in no window yet. *)
LEMMA NewPane ==
  ASSUME DataOK, Numbers, NEW t \in Tasks, HasId(t)
  PROVE  /\ op[t].id \in Ids /\ op[t].id \notin Members(wins)
         /\ \A i \in Ids : op[t].id \notin wins[i]
         /\ op[t].target # None => op[t].target \in Ids /\ Low(op[t].target) < Low(op[t].id)
<1>1. op[t].id \in Ids /\ op[t].target \in Ids \cup {None}
  BY OpType DEF HasId
<1>2. op[t].id \notin Members(wins)
  BY DEF Numbers
<1> QED BY <1>1, <1>2 DEF Members, Numbers

(* A spawn's steps keep the types. *)
LEMMA OpTypes ==
  ASSUME TypeOK, DataOK, OneLink, Numbers, NEW t \in Tasks, OpStep(t)
  PROVE  TypeOK' /\ DataOK'
<1>1. ASSUME Spawn(t) PROVE TypeOK' /\ DataOK'
  <2> DEFINE i == NewId(op[t].eph, next)
  <2>1. op[t].eph \in BOOLEAN /\ op[t].target \in Ids \cup {None} /\ op[t].boot \in BOOLEAN
    BY <1>1, OpType DEF Spawn
  <2>2. i \in Ids /\ cur \in Conns
    BY <1>1, <2>1, LowType DEF Spawn, TypeOK, OneLink
  <2> HIDE DEF i
  <2>3. op' \in [Tasks -> Ops]
    BY <1>1, <2>1, <2>2 DEF Spawn, DataOK, Ops, i
  <2>4. <<[k |-> "spawn", id |-> i, eph |-> op[t].eph]>> \in Seq(Msgs)
    BY <2>1, <2>2 DEF Msgs
  <2>5. req' \in [Conns -> Seq(Msgs)]
    BY <1>1, <2>4, PostedType DEF Spawn, i
  <2>6. next' \in 1 .. MaxPane + 1
    BY <1>1 DEF Spawn, TypeOK
  <2>7. TypeOK'
    BY <1>1, <2>6 DEF Spawn, TypeOK
  <2>8. DataOK'
    BY <1>1, <2>3, <2>5 DEF Spawn, DataOK
  <2> QED BY <2>7, <2>8
<1>2. ASSUME EnsureFails(t) PROVE TypeOK' /\ DataOK'
  BY <1>2, OpType, OpsType DEF EnsureFails, Failed, TypeOK, DataOK
<1>3. ASSUME SpawnTimesOut(t) PROVE TypeOK' /\ DataOK'
  <2>1. op' \in [Tasks -> Ops] /\ op[t].id \in Ids
    BY <1>3, OpType, OpsType DEF SpawnTimesOut, Failed, HasId
  <2>2. booted' \in BOOLEAN
    BY <1>3 DEF SpawnTimesOut, Failed
  <2>3. TypeOK'
    BY <1>3, <2>1, <2>2 DEF SpawnTimesOut, TypeOK
  <2> QED BY <1>3, <2>1, <2>3 DEF SpawnTimesOut, DataOK
<1>4. ASSUME FinishNew(t) PROVE TypeOK' /\ DataOK'
  <2>1. HasId(t)
    BY <1>4 DEF FinishNew, HasId
  <2>2. op[t].id \in Ids /\ wins' \in Layouts
    BY <1>4, <2>1, NewPane, AddSingleSound DEF FinishNew, DataOK
  <2>3. req' \in [Conns -> Seq(Msgs)]
    BY <1>4, <2>2, SaveType, EmptySeq DEF FinishNew
  <2>4. op' \in [Tasks -> Ops]
    BY <1>4, OpType, OpsType DEF FinishNew, Returned
  <2>5. TypeOK'
    BY <1>4, <2>2 DEF FinishNew, Returned, Mirrored, Show, TypeOK, Layouts
  <2>6. DataOK'
    BY <1>4, <2>2, <2>3, <2>4 DEF FinishNew, DataOK
  <2> QED BY <2>5, <2>6
<1>5. ASSUME FinishSplit(t) PROVE TypeOK' /\ DataOK'
  <2>1. HasId(t)
    BY <1>5 DEF FinishSplit, HasId
  <2>2. op[t].id \in Ids /\ wins' \in Layouts
    BY <1>5, <2>1, NewPane, SplitSound DEF FinishSplit, DataOK
  <2>3. <<Kill(op[t].id)>> \in Seq(Msgs)
    BY <2>2 DEF Kill, Msgs
  <2>4. req' \in [Conns -> Seq(Msgs)]
    BY <1>5, <2>2, <2>3, SaveType, PostedType, EmptySeq DEF FinishSplit
  <2>5. op' \in [Tasks -> Ops]
    BY <1>5, OpType, OpsType DEF FinishSplit, Returned
  <2>6. TypeOK'
    BY <1>5, <2>2 DEF FinishSplit, Returned, Mirrored, TypeOK, Layouts
  <2>7. DataOK'
    BY <1>5, <2>2, <2>4, <2>5 DEF FinishSplit, DataOK
  <2> QED BY <2>6, <2>7
<1> QED BY <1>1, <1>2, <1>3, <1>4, <1>5 DEF OpStep

LEMMA CommandType ==
  ASSUME TypeOK, NEW t \in Tasks, Command(t)
  PROVE  cmds' \in 0 .. MaxCmd
  BY DEF Command, TypeOK

(* The user's other commands keep the types. *)
LEMMA UserTypes ==
  ASSUME TypeOK, DataOK, OneLink, Saved, NEW t \in Tasks, UserStep(t)
  PROVE  TypeOK' /\ DataOK'
<1>1. ASSUME Connect(t) PROVE TypeOK' /\ DataOK'
  <2>1. op' \in [Tasks -> Ops] /\ booted' \in BOOLEAN
    BY <1>1, BeginType DEF Connect, TypeOK, DataOK
  <2>2. Tabs(wins) # {} => Lowest(Tabs(wins)) \in Ids
    BY LowestIn, MembersOf DEF DataOK
  <2>3. view' \in Ids \cup {Tmux}
    BY <1>1, <2>2 DEF Connect, TypeOK
  <2>4. cmds' \in 0 .. MaxCmd
    BY <1>1, CommandType DEF Connect
  <2>5. TypeOK'
    BY <1>1, <2>1, <2>3, <2>4 DEF Connect, TypeOK
  <2>6. DataOK'
    BY <1>1, <2>1 DEF Connect, DataOK
  <2> QED BY <2>5, <2>6
<1>2. ASSUME TmuxStarts(t) PROVE TypeOK' /\ DataOK'
  <2>1. cmds' \in 0 .. MaxCmd
    BY <1>2, CommandType DEF TmuxStarts
  <2>2. TypeOK'
    BY <1>2, <2>1 DEF TmuxStarts, TypeOK
  <2>3. DataOK'
    BY <1>2 DEF TmuxStarts, DataOK
  <2> QED BY <2>2, <2>3
<1>3. ASSUME NEW e \in BOOLEAN, New(t, e) PROVE TypeOK' /\ DataOK'
  <2>1. op' \in [Tasks -> Ops] /\ cmds' \in 0 .. MaxCmd
    BY <1>3, BeginType, CommandType DEF New
  <2>2. TypeOK'
    BY <1>3, <2>1 DEF New, TypeOK
  <2>3. DataOK'
    BY <1>3, <2>1 DEF New, DataOK
  <2> QED BY <2>2, <2>3
<1>4. ASSUME NEW p \in Ids, SplitPane(t, p) PROVE TypeOK' /\ DataOK'
  <2>1. (IF p \in mirror THEN p \in mirrorEph ELSE BornEphemeral(p)) \in BOOLEAN
    <3>1. (p \in mirrorEph) \in BOOLEAN /\ (p > MaxPane) \in BOOLEAN
      OBVIOUS
    <3> QED BY <3>1, Zenon DEF BornEphemeral
  <2>2. op' \in [Tasks -> Ops] /\ cmds' \in 0 .. MaxCmd
    BY <1>4, <2>1, BeginType, CommandType DEF SplitPane
  <2>3. TypeOK'
    BY <1>4, <2>2 DEF SplitPane, TypeOK
  <2>4. DataOK'
    BY <1>4, <2>2 DEF SplitPane, DataOK
  <2> QED BY <2>3, <2>4
<1>5. ASSUME NEW p \in Ids, Close(t, p) PROVE TypeOK' /\ DataOK'
  <2>1. <<Kill(p)>> \in Seq(Msgs) /\ NoMeta(<<Kill(p)>>)
    BY DEF Kill, Msgs, NoMeta
  <2>2. /\ wins' \in Layouts /\ req' \in [Conns -> Seq(Msgs)]
        /\ view' \in Ids \cup {Tmux} /\ over' \in BOOLEAN
    BY <1>5, <2>1, RemovedEffect DEF Close
  <2>3. wins' \in [Ids -> SUBSET Ids] /\ cmds' \in 0 .. MaxCmd
    BY <1>5, <2>2, CommandType DEF Close, Layouts
  <2>4. TypeOK'
    BY <1>5, <2>2, <2>3 DEF Close, Forget, TypeOK
  <2>5. DataOK'
    BY <1>5, <2>2 DEF Close, Forget, DataOK
  <2> QED BY <2>4, <2>5
<1>6. ASSUME NEW p \in Ids, BreakPane(t, p) PROVE TypeOK' /\ DataOK'
  <2>1. wins' \in Layouts
    <3>1. RemovePane(wins, p) \in Layouts /\ \A i \in Ids : p \notin RemovePane(wins, p)[i]
      BY RemovePaneSound DEF DataOK, RemovePane
    <3> QED BY <1>6, <3>1, AddSingleSound DEF BreakPane
  <2>2. req' \in [Conns -> Seq(Msgs)]
    BY <1>6, <2>1, SaveType, EmptySeq DEF BreakPane
  <2>3. wins' \in [Ids -> SUBSET Ids] /\ cmds' \in 0 .. MaxCmd
    BY <1>6, <2>1, CommandType DEF BreakPane, Layouts
  <2>4. TypeOK'
    BY <1>6, <2>3 DEF BreakPane, Show, TypeOK
  <2>5. DataOK'
    BY <1>6, <2>1, <2>2 DEF BreakPane, Show, DataOK
  <2> QED BY <2>4, <2>5
<1>7. ASSUME NEW w \in Ids, NEW e \in BOOLEAN, SetKind(t, w, e) PROVE TypeOK' /\ DataOK'
  <2>1. wins[w] \in SUBSET Ids
    BY DEF DataOK, Layouts
  <2>2. req' = Posted([n \in DOMAIN SetToSeq(wins[w]) |-> SetEph(SetToSeq(wins[w])[n], e)])
    BY <1>7 DEF SetKind, Each
  <2>3. req' \in [Conns -> Seq(Msgs)]
    BY <2>1, <2>2, EachFlip, PostedType
  <2>4. TypeOK'
    BY <1>7, <2>1, CommandType DEF SetKind, TypeOK
  <2>5. DataOK'
    BY <1>7, <2>3 DEF SetKind, DataOK
  <2> QED BY <2>4, <2>5
<1>8. ASSUME NEW w \in Ids \cup {Tmux}, Select(t, w) PROVE TypeOK' /\ DataOK'
  <2>1. cmds' \in 0 .. MaxCmd
    BY <1>8, CommandType DEF Select
  <2>2. TypeOK'
    BY <1>8, <2>1 DEF Select, Show, TypeOK
  <2>3. DataOK'
    BY <1>8 DEF Select, Show, DataOK
  <2> QED BY <2>2, <2>3
<1> QED BY <1>1, <1>2, <1>3, <1>4, <1>5, <1>6, <1>7, <1>8 DEF UserStep

(* So do the pump, the end of tmux and the death of mymuxd. *)
LEMMA PumpTypes ==
  ASSUME TypeOK, DataOK, OneLink, Saved, PumpExit \/ PumpClosed \/ TmuxEnds \/ Crash
  PROVE  TypeOK' /\ DataOK'
<1>1. ASSUME PumpExit PROVE TypeOK' /\ DataOK'
  <2>1. ev' \in Seq(Ids \cup {None}) /\ Head(ev) \in Ids
    BY <1>1 DEF PumpExit, DataOK
  <2>2. CASE Head(ev) \in mirror
    <3>1. <<>> \in Seq(Msgs) /\ NoMeta(<<>>)
      BY DEF NoMeta
    <3>2. Forget(Head(ev)) /\ Removed(Head(ev), <<>>)
      BY <1>1, <2>2 DEF PumpExit
    <3>3. /\ wins' \in Layouts /\ req' \in [Conns -> Seq(Msgs)]
          /\ view' \in Ids \cup {Tmux} /\ over' \in BOOLEAN
      BY <2>1, <3>1, <3>2, RemovedEffect
    <3>4. TypeOK'
      BY <1>1, <2>1, <3>2, <3>3 DEF PumpExit, Forget, TypeOK, Layouts
    <3>5. DataOK'
      BY <1>1, <2>1, <3>3 DEF PumpExit, DataOK
    <3> QED BY <3>4, <3>5
  <2>3. CASE Head(ev) \notin mirror
    <3>1. UNCHANGED <<muxVars, uiVars, req>>
      BY <1>1, <2>3 DEF PumpExit
    <3>2. TypeOK'
      BY <1>1, <2>1, <3>1 DEF PumpExit, TypeOK
    <3>3. DataOK'
      BY <1>1, <2>1, <3>1 DEF PumpExit, DataOK
    <3> QED BY <3>2, <3>3
  <2> QED BY <2>2, <2>3
<1>2. ASSUME PumpClosed PROVE TypeOK' /\ DataOK'
  <2>1. view' \in Ids \cup {Tmux} /\ over' \in BOOLEAN
    BY <1>2, FallBackView, NoWinsSound DEF PumpClosed, TypeOK
  <2>2. TypeOK'
    BY <1>2, <2>1, NoWinsSound DEF PumpClosed, TypeOK, Layouts
  <2>3. <<>> \in Seq(Ids \cup {None})
    OBVIOUS
  <2>4. DataOK'
    BY <1>2, <2>3, NoWinsSound DEF PumpClosed, DataOK
  <2> QED BY <2>2, <2>4
<1>3. ASSUME TmuxEnds PROVE TypeOK' /\ DataOK'
  <2>1. Tabs(wins) # {} => Lowest(Tabs(wins)) \in Ids
    BY LowestIn, MembersOf DEF DataOK
  <2>2. TypeOK'
    BY <1>3, <2>1 DEF TmuxEnds, TypeOK
  <2>3. DataOK'
    BY <1>3 DEF TmuxEnds, DataOK
  <2> QED BY <2>2, <2>3
<1>4. ASSUME Crash PROVE TypeOK' /\ DataOK'
  <2>1. cur \in Conns /\ req[cur] \in Seq(Msgs)
    BY <1>4 DEF Crash, OneLink, DataOK
  <2>2. PICK n \in 0 .. Len(req[cur]) : req' = [req EXCEPT ![cur] = SubSeq(@, 1, n)]
    BY <1>4 DEF Crash
  <2>3. SubSeq(req[cur], 1, n) \in Seq(Msgs)
    BY <2>1, <2>2, SubSeqProperties
  <2>4. req' \in [Conns -> Seq(Msgs)]
    BY <2>1, <2>2, <2>3 DEF DataOK
  <2>5. NotRead \in [panes : SUBSET Ids, eph : SUBSET Ids, blob : Layouts] /\ NoOp \in Ops
    BY NoWinsSound DEF NotRead, NoOp, Ops
  <2>6. TypeOK'
    <3>1. conn' \in [Conns -> {"none", "open", "closing", "swept", "dead"}]
      BY <1>4 DEF Crash, TypeOK
    <3>2. 1 \in 1 .. MaxPane + 1
      OBVIOUS
    <3> QED BY <1>4, <3>1, <3>2, NoWinsSound DEF Crash, TypeOK, Layouts
  <2>7. <<>> \in Seq(Ids \cup {None})
    OBVIOUS
  <2>8. DataOK'
    BY <1>4, <2>4, <2>5, <2>7, NoWinsSound DEF Crash, DataOK
  <2> QED BY <2>6, <2>8
<1> QED BY <1>1, <1>2, <1>3, <1>4

(* Panes that leave ptyd's map. *)
LEMMA DroppedType ==
  ASSUME TypeOK, NEW S \in SUBSET Ids, Dropped(S)
  PROVE  /\ held' \subseteq Ids /\ ephemeral' \subseteq held' /\ dying' \subseteq Ids
         /\ owner' \in [Ids -> Conns \cup {None}]
  BY DEF Dropped, TypeOK

(* ptyd's steps keep the types. *)
LEMMA PtydTypes ==
  ASSUME TypeOK, DataOK, PtydStep
  PROVE  TypeOK' /\ DataOK'
<1>1. ASSUME NEW c \in Conns, HandleSpawn(c) PROVE TypeOK' /\ DataOK'
  <2>1. /\ req' \in [Conns -> Seq(Msgs)] /\ Head(req[c]) \in Msgs /\ Head(req[c]).k = "spawn"
    BY <1>1, HeadType DEF HandleSpawn
  <2>2. Head(req[c]).id \in Ids /\ Head(req[c]).eph \in BOOLEAN
    BY <2>1 DEF Msgs
  <2>3. op' \in [Tasks -> Ops]
    <3> DEFINE waits == {t \in Tasks : op[t].pc = "waiting" /\ op[t].id = Head(req[c]).id /\ op[t].conn = c}
    <3>1. \/ op' = [t \in Tasks |-> IF t \in waits THEN [op[t] EXCEPT !.pc = "answered"] ELSE op[t]]
          \/ op' = [t \in Tasks |-> IF t \in waits THEN NoOp ELSE op[t]]
      BY <1>1 DEF HandleSpawn
    <3>2. \A t \in Tasks : op[t] \in Ops /\ NoOp \in Ops
                           /\ (t \in waits => [op[t] EXCEPT !.pc = "answered"] \in Ops)
      BY OpType DEF DataOK
    <3> HIDE DEF waits
    <3> QED BY <3>1, <3>2
  <2>4. TypeOK'
    <3>1. /\ held' \subseteq Ids /\ ephemeral' \subseteq held'
          /\ owner' \in [Ids -> Conns \cup {None}]
      <4> DEFINE r == Head(req[c])
      <4>1. \/ UNCHANGED <<held, ephemeral, owner>>
            \/ /\ held' = held \cup {r.id} /\ owner' = [owner EXCEPT ![r.id] = c]
               /\ ephemeral' = ephemeral \/ ephemeral' = ephemeral \cup {r.id}
        BY <1>1 DEF HandleSpawn
      <4>2. r.id \in Ids
        BY <2>2
      <4> HIDE DEF r
      <4>3. held' \subseteq Ids /\ ephemeral' \subseteq held'
        BY <4>1, <4>2 DEF TypeOK
      <4>4. owner' \in [Ids -> Conns \cup {None}]
        BY <4>1, <4>2 DEF TypeOK
      <4> QED BY <4>3, <4>4
    <3>2. strays' = strays \/ strays' = strays \cup {Head(req[c]).id}
      BY <1>1 DEF HandleSpawn, Stale
    <3>3. booted' \in BOOLEAN
      <4>1. CASE Head(req[c]).id \notin held
        BY <1>1, <4>1 DEF HandleSpawn, TypeOK
      <4>2. CASE Head(req[c]).id \in held
        BY <1>1, <4>2, Zenon DEF HandleSpawn
      <4> QED BY <4>1, <4>2
    <3> QED BY <1>1, <2>2, <3>1, <3>2, <3>3 DEF HandleSpawn, TypeOK
  <2>5. DataOK'
    BY <1>1, <2>1, <2>3 DEF HandleSpawn, DataOK
  <2> QED BY <2>4, <2>5
<1>2. ASSUME NEW c \in Conns, HandleKill(c) PROVE TypeOK' /\ DataOK'
  <2>1. req' \in [Conns -> Seq(Msgs)]
    BY <1>2, HeadType DEF HandleKill
  <2>2. Dropped({Head(req[c]).id} \cap held) /\ {Head(req[c]).id} \cap held \in SUBSET Ids
    BY <1>2 DEF HandleKill, TypeOK
  <2>3. TypeOK'
    BY <1>2, <2>2, DroppedType DEF HandleKill, TypeOK
  <2>4. DataOK'
    BY <1>2, <2>1 DEF HandleKill, DataOK
  <2> QED BY <2>3, <2>4
<1>3. ASSUME NEW c \in Conns, HandleSetEphemeral(c) PROVE TypeOK' /\ DataOK'
  <2>1. /\ req' \in [Conns -> Seq(Msgs)] /\ Head(req[c]) \in Msgs /\ Head(req[c]).k = "eph"
    BY <1>3, HeadType DEF HandleSetEphemeral
  <2>2. Head(req[c]).id \in Ids /\ Head(req[c]).eph \in BOOLEAN
    BY <2>1 DEF Msgs
  <2>3. TypeOK'
    <3>1. ephemeral' \subseteq held /\ owner' \in [Ids -> Conns \cup {None}]
      <4> DEFINE r == Head(req[c])
      <4>1. \/ UNCHANGED <<ephemeral, owner>>
            \/ r.id \in held /\ ephemeral' = ephemeral \cup {r.id} /\ owner' = [owner EXCEPT ![r.id] = c]
            \/ ephemeral' = ephemeral \ {r.id} /\ UNCHANGED owner
        BY <1>3 DEF HandleSetEphemeral
      <4> HIDE DEF r
      <4> QED BY <4>1 DEF TypeOK
    <3>2. strays' \subseteq Ids \cup {None}
      BY <1>3, <2>2 DEF HandleSetEphemeral, Stale, TypeOK
    <3> QED BY <1>3, <3>1, <3>2 DEF HandleSetEphemeral, TypeOK
  <2>4. DataOK'
    BY <1>3, <2>1 DEF HandleSetEphemeral, DataOK
  <2> QED BY <2>3, <2>4
<1>4. ASSUME NEW c \in Conns, HandleSetMeta(c) PROVE TypeOK' /\ DataOK'
  <2>1. /\ req' \in [Conns -> Seq(Msgs)] /\ Head(req[c]) \in Msgs /\ Head(req[c]).k = "meta"
    BY <1>4, HeadType DEF HandleSetMeta
  <2>2. Head(req[c]).wins \in Layouts
    BY <2>1 DEF Msgs
  <2>3. TypeOK'
    BY <1>4 DEF HandleSetMeta, Stale, TypeOK
  <2>4. DataOK'
    BY <1>4, <2>1, <2>2 DEF HandleSetMeta, DataOK
  <2> QED BY <2>3, <2>4
<1>5. ASSUME NEW c \in Conns, Sweep(c) PROVE TypeOK' /\ DataOK'
  <2>1. {i \in ephemeral : owner[i] = c} \in SUBSET Ids
    BY DEF TypeOK
  <2>2. TypeOK'
    BY <1>5, <2>1, DroppedType DEF Sweep, TypeOK
  <2>3. DataOK'
    BY <1>5 DEF Sweep, DataOK
  <2> QED BY <2>2, <2>3
<1>6. ASSUME NEW i \in Ids, ShellExits(i) PROVE TypeOK' /\ DataOK'
  <2>1. TypeOK'
    BY <1>6, DroppedType DEF ShellExits, TypeOK
  <2>2. DataOK'
    BY <1>6 DEF ShellExits, DataOK
  <2> QED BY <2>1, <2>2
<1>7. ASSUME NEW i \in Ids, Announce(i) PROVE TypeOK' /\ DataOK'
  <2>1. Append(ev, i) \in Seq(Ids \cup {None})
    BY DEF DataOK
  <2>2. TypeOK'
    BY <1>7 DEF Announce, TypeOK
  <2>3. DataOK'
    BY <1>7, <2>1 DEF Announce, DataOK
  <2> QED BY <2>2, <2>3
<1>8. ASSUME PtydDies PROVE TypeOK' /\ DataOK'
  <2>1. Append(ev, None) \in Seq(Ids \cup {None}) /\ <<>> \in Seq(Msgs)
    BY DEF DataOK
  <2>2. TypeOK'
    BY <1>8 DEF PtydDies, TypeOK
  <2>3. DataOK'
    BY <1>8, <2>1, NoWinsSound DEF PtydDies, DataOK
  <2> QED BY <2>2, <2>3
<1>9. ASSUME PtydStarts PROVE TypeOK' /\ DataOK'
  BY <1>9 DEF PtydStarts, TypeOK, DataOK
<1> QED BY <1>1, <1>2, <1>3, <1>4, <1>5, <1>6, <1>7, <1>8, <1>9 DEF PtydStep

(* Every step keeps the types. *)
LEMMA TypesStep ==
  ASSUME IInv, [Next]_vars
  PROVE  TypeOK' /\ DataOK'
<1>1. CASE UNCHANGED vars
  BY <1>1 DEF IInv, TypeOK, DataOK
<1>2. CASE Rest
  BY <1>1, <1>2 DEF Rest
<1>3. CASE LinkStep
  BY <1>3, LinkTypes DEF IInv
<1>4. CASE PumpExit \/ PumpClosed \/ TmuxEnds \/ Crash
  BY <1>4, PumpTypes DEF IInv
<1>5. CASE PtydStep
  BY <1>5, PtydTypes DEF IInv
<1>6. CASE \E t \in Tasks : OpStep(t) \/ UserStep(t)
  BY <1>6, OpTypes, UserTypes DEF IInv
<1> QED BY <1>1, <1>2, <1>3, <1>4, <1>5, <1>6 DEF Next

---------------------------------------------------------------------------
(* The link. *)

(* What the commands, the spawns and most of ptyd leave alone. *)
LEMMA UserFrame ==
  ASSUME NEW t \in Tasks, UserStep(t)
  PROVE  UNCHANGED <<link, cur, listed, next, conn, ev, held, blob, strays>>
  BY DEF UserStep, Connect, TmuxStarts, New, SplitPane, Close, BreakPane, SetKind, Select

(* A command may begin a spawn; it has no pane number yet. *)
LEMMA UserOps ==
  ASSUME DataOK, NEW t \in Tasks, UserStep(t)
  PROVE  \/ op' = op
         \/ /\ op'[t].pc = "ensuring"
            /\ op'[t].target # None => op'[t].target \in Members(wins)
            /\ \A s \in Tasks \ {t} : op'[s] = op[s]
<1>1. ASSUME NEW e, NEW p, NEW b, Begin(t, e, p, b)
      PROVE  op'[t].pc = "ensuring" /\ op'[t].target = p /\ \A s \in Tasks \ {t} : op'[s] = op[s]
  BY <1>1 DEF Begin, DataOK
<1>2. ASSUME NEW p \in Ids, SplitPane(t, p)
      PROVE  p \in Members(wins) /\ \E e, b : Begin(t, e, p, b)
  BY <1>2 DEF SplitPane
<1>3. ASSUME NEW e \in BOOLEAN, New(t, e) PROVE \E b : Begin(t, e, None, b)
  BY <1>3 DEF New
<1>4. ASSUME Connect(t) PROVE op' = op \/ \E e, b : Begin(t, e, None, b)
  BY <1>4 DEF Connect
<1>5. ASSUME ~Connect(t), \A e \in BOOLEAN : ~New(t, e), \A p \in Ids : ~SplitPane(t, p)
      PROVE  op' = op
  BY <1>5 DEF UserStep, TmuxStarts, Close, BreakPane, SetKind, Select
<1> QED BY <1>1, <1>2, <1>3, <1>4, <1>5

LEMMA OpFrame ==
  ASSUME NEW t \in Tasks, OpStep(t)
  PROVE  UNCHANGED <<link, cur, listed, conn, ev, held, blob>>
  BY DEF OpStep, Spawn, EnsureFails, SpawnTimesOut, FinishNew, FinishSplit

LEMMA PtydFrame ==
  ASSUME PtydStep
  PROVE  UNCHANGED <<link, cur, listed, mirror, next, wins, view, over>>
  BY DEF PtydStep, HandleSpawn, HandleKill, HandleSetEphemeral, HandleSetMeta, Sweep,
         ShellExits, Announce, PtydDies, PtydStarts

(* Only the present connection stays open. *)
LEMMA OneLinkStep ==
  ASSUME IInv, [Next]_vars
  PROVE  OneLink'
<1>0. TypeOK /\ DataOK /\ OneLink
  BY DEF IInv
<1>1. ASSUME UNCHANGED <<link, cur, conn, ev>> PROVE OneLink'
  BY <1>0, <1>1 DEF OneLink
<1>2. ASSUME NEW c \in Conns, List(c) PROVE OneLink'
  BY <1>0, <1>2 DEF OneLink, List, TypeOK
<1>3. ASSUME GetMeta \/ Adopt PROVE OneLink'
  BY <1>0, <1>3 DEF OneLink, GetMeta, Adopt
<1>4. ASSUME ReadFails PROVE OneLink'
  BY <1>0, <1>4 DEF OneLink, ReadFails
<1>5. ASSUME PumpExit PROVE OneLink'
  <2>1. ev \in Seq(Ids \cup {None}) /\ ev # <<>> /\ ev' = Tail(ev) /\ UNCHANGED <<link, cur, conn>>
    BY <1>0, <1>5 DEF PumpExit, DataOK
  <2>2. \A n \in DOMAIN ev' : ev'[n] = ev[n + 1] /\ n + 1 \in DOMAIN ev
    BY <2>1
  <2> QED BY <1>0, <2>1, <2>2 DEF OneLink
<1>6. ASSUME PumpClosed PROVE OneLink'
  <2>1. ev \in Seq(Ids \cup {None}) /\ ev # <<>> /\ Head(ev) = None
    BY <1>0, <1>6 DEF PumpClosed, DataOK
  <2>2. 1 \in DOMAIN ev /\ ev[1] = None
    BY <2>1
  <2>3. conn[cur] = "dead"
    BY <1>0, <1>6, <2>2 DEF PumpClosed, OneLink
  <2> QED BY <1>0, <1>6, <2>3 DEF PumpClosed, OneLink
<1>7. ASSUME Crash PROVE OneLink'
  BY <1>0, <1>7 DEF OneLink, Crash, TypeOK
<1>8. ASSUME NEW c \in Conns, Sweep(c) PROVE OneLink'
  BY <1>0, <1>8 DEF OneLink, Sweep, TypeOK
<1>9. ASSUME NEW i \in Ids, Announce(i) PROVE OneLink'
  <2>1. UNCHANGED <<link, cur, conn>> /\ (ev' = ev \/ ev' = Append(ev, i))
    BY <1>9 DEF Announce
  <2>2. ev \in Seq(Ids \cup {None}) /\ i # None
    BY <1>0 DEF DataOK
  <2>3. \A n \in DOMAIN Append(ev, i) : Append(ev, i)[n] = None => n \in DOMAIN ev /\ ev[n] = None
    BY <2>2
  <2>4. \A n \in DOMAIN ev' : ev'[n] = None => n \in DOMAIN ev /\ ev[n] = None
    BY <2>1, <2>3
  <2> QED BY <1>0, <2>1, <2>4 DEF OneLink
<1>10. ASSUME PtydDies PROVE OneLink'
  <2>1. /\ UNCHANGED <<link, cur>>
        /\ \A c \in Conns : conn'[c] = IF conn[c] \in {"open", "closing"} THEN "dead" ELSE conn[c]
    BY <1>10 DEF PtydDies
  <2> QED BY <1>0, <2>1 DEF OneLink
<1>11. ASSUME PumpClosed \/ TmuxEnds \/ PtydStep, ~PumpClosed PROVE OneLink'
  <2>1. CASE TmuxEnds
    BY <1>1, <2>1 DEF TmuxEnds
  <2>2. ASSUME NEW c \in Conns, HandleSpawn(c) \/ HandleKill(c) \/ HandleSetEphemeral(c) \/ HandleSetMeta(c)
        PROVE  OneLink'
    BY <1>1, <2>2 DEF HandleSpawn, HandleKill, HandleSetEphemeral, HandleSetMeta
  <2>3. ASSUME NEW i \in Ids, ShellExits(i) PROVE OneLink'
    BY <1>1, <2>3 DEF ShellExits
  <2>4. CASE PtydStarts
    BY <1>1, <2>4 DEF PtydStarts
  <2> QED BY <1>8, <1>9, <1>10, <1>11, <2>1, <2>2, <2>3, <2>4 DEF PtydStep
<1>12. ASSUME NEW t \in Tasks, OpStep(t) \/ UserStep(t) PROVE OneLink'
  BY <1>1, <1>12, OpFrame, UserFrame
<1> QED BY <1>1, <1>2, <1>3, <1>4, <1>5, <1>6, <1>7, <1>11, <1>12 DEF Next, LinkStep, Rest

(* Nothing is left of a ptyd that has died, as long as mymuxd still shows  *)
(* or spawns something of the time before.                                 *)
LEMMA AfterDeathStep ==
  ASSUME IInv, [Next]_vars
  PROVE  AfterDeath'
<1>0. TypeOK /\ DataOK /\ Numbers /\ OneLink /\ AfterDeath
  BY DEF IInv
<1>1. ASSUME UNCHANGED <<link, cur, conn, held, listed>>, Lingers' => Lingers PROVE AfterDeath'
  BY <1>0, <1>1 DEF AfterDeath, Barren, Survivors
<1>2. ASSUME NEW c \in Conns, List(c) PROVE AfterDeath'
  <2>1. Lingers' => Lingers
    BY <1>2 DEF List, Lingers, HasId
  <2>2. listed'.panes = held /\ conn'[cur'] = "open" /\ link' = "listed" /\ link = "none"
    BY <1>0, <1>2 DEF List, NotRead, TypeOK
  <2> QED BY <1>0, <2>1, <2>2 DEF AfterDeath, Barren, Survivors
<1>3. ASSUME GetMeta PROVE AfterDeath'
  <2>1. Lingers' => Lingers
    BY <1>3 DEF GetMeta, Lingers, HasId
  <2>2. Survivors(listed)' = Survivors(listed)
    BY <1>0, <1>3 DEF GetMeta, Survivors, DataOK
  <2> QED BY <1>0, <1>3, <2>1, <2>2 DEF GetMeta, AfterDeath, Barren
<1>4. ASSUME ReadFails PROVE AfterDeath'
  BY <1>0, <1>4 DEF ReadFails, AfterDeath, Barren
<1>5. ASSUME Adopt PROVE AfterDeath'
  BY <1>0, <1>5 DEF Adopt, AfterDeath, Barren
<1>6. ASSUME NEW t \in Tasks, OpStep(t) PROVE AfterDeath'
  <2>1. UNCHANGED <<link, cur, conn, held, listed>>
    BY <1>6, OpFrame
  <2>2. CASE Spawn(t)
    BY <1>0, <2>1, <2>2 DEF Spawn, AfterDeath, Barren
  <2>3. CASE ~Spawn(t)
    <3>1. ASSUME EnsureFails(t) PROVE Lingers' => Lingers
      <4>1. \A s \in Tasks : HasId(s)' => HasId(s)
        BY <1>0, <3>1 DEF EnsureFails, Failed, HasId, DataOK, NoOp
      <4> QED BY <3>1, <4>1 DEF EnsureFails, Lingers
    <3>2. CASE ~EnsureFails(t)
      <4>1. HasId(t)
        BY <1>6, <2>3, <3>2 DEF OpStep, SpawnTimesOut, FinishNew, FinishSplit, HasId
      <4> QED BY <1>1, <2>1, <4>1 DEF Lingers
    <3> QED BY <1>1, <2>1, <3>1, <3>2
  <2> QED BY <2>2, <2>3
<1>7. ASSUME NEW t \in Tasks, UserStep(t) PROVE AfterDeath'
  <2>1. UNCHANGED <<link, cur, conn, held, listed>>
    BY <1>7, UserFrame
  <2>2. \A s \in Tasks : HasId(s)' => HasId(s)
    <3>1. \/ op' = op
          \/ op'[t].pc = "ensuring" /\ \A s \in Tasks \ {t} : op'[s] = op[s]
      BY <1>0, <1>7, UserOps
    <3> QED BY <3>1 DEF HasId
  <2>3. mirror' \subseteq mirror
    BY <1>7 DEF UserStep, Connect, TmuxStarts, New, SplitPane, Close, BreakPane, SetKind,
       Select, Forget
  <2>4. view' \in {view, Tmux} \/ Members(wins) # {}
    <3>1. Tabs(wins) # {} => Members(wins) # {}
      BY <1>0, MembersOf DEF DataOK
    <3>2. \A p \in Ids : Windows(p) # {} => Members(wins) # {}
      BY DEF Windows, Members
    <3>3. ASSUME NEW p \in Ids, BreakPane(t, p) PROVE Members(wins) # {}
      BY <3>2, <3>3 DEF BreakPane
    <3>4. ASSUME NEW p \in Ids, Close(t, p) PROVE Members(wins) # {}
      BY <3>4 DEF Close
    <3>5. ASSUME NEW w \in Ids \cup {Tmux}, Select(t, w) PROVE view' = Tmux \/ Members(wins) # {}
      BY <3>1, <3>5 DEF Select, Show
    <3>6. ASSUME Connect(t) PROVE view' = view \/ Members(wins) # {}
      BY <3>1, <3>6 DEF Connect
    <3> QED BY <1>7, <3>3, <3>4, <3>5, <3>6 DEF UserStep, TmuxStarts, New, SplitPane, SetKind
  <2>5. Members(wins) # {} => Lingers
    BY <1>0 DEF Numbers, Lingers
  <2> QED BY <1>1, <2>1, <2>2, <2>3, <2>4, <2>5 DEF Lingers
<1>8. ASSUME PumpExit PROVE AfterDeath'
  BY <1>0, <1>8 DEF PumpExit, AfterDeath, Barren
<1>9. ASSUME PumpClosed PROVE AfterDeath'
  <2>1. ev \in Seq(Ids \cup {None}) /\ ev # <<>> /\ Head(ev) = None
    BY <1>0, <1>9 DEF PumpClosed, DataOK
  <2>2. 1 \in DOMAIN ev /\ ev[1] = None
    BY <2>1
  <2>3. conn[cur] = "dead"
    BY <1>0, <1>9, <2>2 DEF PumpClosed, OneLink
  <2> QED BY <1>0, <1>9, <2>3 DEF PumpClosed, AfterDeath, Barren
<1>10. ASSUME TmuxEnds PROVE AfterDeath'
  <2>1. Tabs(wins) # {} => mirror # {}
    BY <1>0, MembersOf DEF DataOK, Numbers
  <2>2. Lingers' => Lingers
    BY <1>10, <2>1 DEF TmuxEnds, Lingers, HasId
  <2> QED BY <1>1, <1>10, <2>2 DEF TmuxEnds
<1>11. ASSUME Crash PROVE AfterDeath'
  <2>1. ~Lingers'
    BY <1>11 DEF Crash, Lingers, HasId, NoOp
  <2> QED BY <1>11, <2>1 DEF Crash, AfterDeath
<1>12. ASSUME PtydStep PROVE AfterDeath'
  <2>1. UNCHANGED <<link, cur, listed, mirror, view>>
    BY <1>12, PtydFrame
  <2>2. \A t \in Tasks : HasId(t)' => HasId(t)
    BY <1>0, <1>12 DEF PtydStep, HandleSpawn, HandleKill, HandleSetEphemeral, HandleSetMeta,
       Sweep, ShellExits, Announce, PtydDies, PtydStarts, HasId, DataOK, NoOp
  <2>3. Lingers' => Lingers
    BY <2>1, <2>2 DEF Lingers
  <2>4. Barren => Barren'
    <3>1. ASSUME NEW c \in Conns, HandleSpawn(c) PROVE ~Barren
      BY <3>1 DEF HandleSpawn, Next1, Barren
    <3>2. CASE PtydDies
      BY <3>2 DEF PtydDies, Barren
    <3>3. ASSUME ~PtydDies, \A c \in Conns : ~HandleSpawn(c)
          PROVE  held' \subseteq held /\ \A c \in Conns : conn'[c] \in {conn[c], "swept"}
      BY <1>0, <1>12, <3>3 DEF PtydStep, HandleKill, HandleSetEphemeral, HandleSetMeta, Sweep,
         ShellExits, Announce, PtydStarts, Dropped, TypeOK
    <3> QED BY <3>1, <3>2, <3>3 DEF Barren
  <2>5. link # "none" /\ conn'[cur] = "dead" => conn[cur] = "dead" \/ Barren'
    <3>1. CASE PtydDies
      BY <3>1 DEF PtydDies, Barren
    <3>2. ASSUME ~PtydDies PROVE \A c \in Conns : conn'[c] \in {conn[c], "swept"}
      BY <1>0, <1>12, <3>2 DEF PtydStep, HandleSpawn, HandleKill, HandleSetEphemeral,
         HandleSetMeta, Sweep, ShellExits, Announce, PtydStarts, TypeOK
    <3> QED BY <1>0, <3>1, <3>2 DEF OneLink
  <2>6. Survivors(listed)' = Survivors(listed)
    BY <2>1 DEF Survivors
  <2> QED BY <1>0, <2>1, <2>3, <2>4, <2>5, <2>6 DEF AfterDeath
<1> QED BY <1>1, <1>2, <1>3, <1>4, <1>5, <1>6, <1>7, <1>8, <1>9, <1>10, <1>11, <1>12
        DEF Next, LinkStep, Rest, Lingers, HasId

---------------------------------------------------------------------------
(* Pane numbers. *)

(* ptyd answers an operation or fails it; its number and target stay. *)
LEMMA PtydOps ==
  ASSUME DataOK, PtydStep, NEW t \in Tasks
  PROVE  \/ op'[t] = op[t] \/ op'[t].pc = "idle"
         \/ /\ op[t].pc = "waiting" /\ op'[t].pc = "answered"
            /\ op'[t].id = op[t].id /\ op'[t].target = op[t].target
<1>1. ASSUME NEW c \in Conns, HandleSpawn(c)
      PROVE  \/ op'[t] = op[t] \/ op'[t] = NoOp
             \/ op[t].pc = "waiting" /\ op'[t] = [op[t] EXCEPT !.pc = "answered"]
  BY <1>1 DEF HandleSpawn
<1>2. op[t].pc = "waiting" =>
        /\ [op[t] EXCEPT !.pc = "answered"].pc = "answered"
        /\ [op[t] EXCEPT !.pc = "answered"].id = op[t].id
        /\ [op[t] EXCEPT !.pc = "answered"].target = op[t].target
  BY DEF DataOK, Ops
<1>3. ASSUME \A c \in Conns : ~HandleSpawn(c) PROVE op'[t] = op[t]
  BY <1>3 DEF PtydStep, HandleKill, HandleSetEphemeral, HandleSetMeta, Sweep,
     ShellExits, Announce, PtydDies, PtydStarts
<1>4. NoOp.pc = "idle"
  BY DEF NoOp
<1>5. CASE \E c \in Conns : HandleSpawn(c)
  <2>1. \/ op'[t] = op[t] \/ op'[t] = NoOp
        \/ op[t].pc = "waiting" /\ op'[t] = [op[t] EXCEPT !.pc = "answered"]
    BY <1>1, <1>5
  <2> QED BY <1>2, <1>4, <2>1
<1> QED BY <1>3, <1>5

(* Numbers about fewer panes and fewer operations. *)
LEMMA FewerNumbers ==
  ASSUME DataOK, Numbers, next' = next, mirror' \subseteq mirror, Members(wins') \subseteq mirror',
         \A t \in Tasks : \/ op'[t] = op[t] \/ op'[t].pc = "idle"
                          \/ /\ HasId(t) /\ HasId(t)'
                             /\ op'[t].id = op[t].id /\ op'[t].target = op[t].target
                          \/ /\ op'[t].pc = "ensuring"
                             /\ op'[t].target # None => op'[t].target \in Members(wins)
  PROVE  Numbers'
<1>1. \A t \in Tasks : HasId(t)' =>
         HasId(t) /\ op'[t].id = op[t].id /\ op'[t].target = op[t].target
  BY DEF HasId
<1>2. \A t \in Tasks : op'[t].pc # "idle" /\ op'[t].target # None => Low(op'[t].target) < next
  BY DEF Numbers, HasId
<1>3. \A t \in Tasks : HasId(t)' =>
         /\ Low(op'[t].id) < next' /\ op'[t].id \notin mirror'
         /\ op'[t].target # None => Low(op'[t].target) < Low(op'[t].id)
  BY <1>1 DEF Numbers
<1>4. \A s, t \in Tasks : s # t /\ HasId(s)' /\ HasId(t)' => op'[s].id # op'[t].id
  BY <1>1 DEF Numbers
<1> QED BY <1>2, <1>3, <1>4 DEF Numbers

LEMMA NumbersStep ==
  ASSUME IInv, [Next]_vars
  PROVE  Numbers'
<1>0. TypeOK /\ DataOK /\ Numbers /\ OneLink /\ AfterDeath /\ Saved
  BY DEF IInv
<1>1. ASSUME UNCHANGED <<mirror, wins, next, op>> PROVE Numbers'
  BY <1>0, <1>1, FewerNumbers DEF Numbers
<1>2. ASSUME Adopt PROVE Numbers'
  <2>1. Survivors(listed) \in SUBSET Ids /\ listed.blob \in Layouts
    BY <1>0 DEF DataOK, Survivors
  <2>2. /\ next' \in Nat /\ next \in Nat /\ next' >= next /\ \A i \in mirror' : Low(i) < next'
    BY <1>0, <1>2, <2>1, NextAboveBounds DEF Adopt, TypeOK
  <2>3. Members(wins') \subseteq mirror'
    BY <1>2, <2>1, ReconcileSound DEF Adopt
  <2>4. \A t \in Tasks : HasId(t) => mirror' = {}
    BY <1>0, <1>2 DEF Adopt, AfterDeath, Lingers
  <2>5. \A i \in Ids : Low(i) \in Nat
    BY LowType
  <2>6. \A t \in Tasks : op'[t] = op[t] /\ (HasId(t)' <=> HasId(t))
    BY <1>2 DEF Adopt, HasId
  <2>7. ASSUME NEW t \in Tasks, op[t].pc # "idle", op[t].target # None
        PROVE  Low(op[t].target) < next'
    <3>1. op[t].target \in Ids /\ Low(op[t].target) < next
      BY <1>0, <2>7, OpType DEF Numbers
    <3> QED BY <2>2, <2>5, <3>1
  <2>8. ASSUME NEW t \in Tasks, HasId(t) PROVE Low(op[t].id) < next'
    <3>1. op[t].id \in Ids /\ Low(op[t].id) < next
      BY <1>0, <2>8, OpType DEF Numbers
    <3> QED BY <2>2, <2>5, <3>1
  <2> QED BY <1>0, <2>2, <2>3, <2>4, <2>6, <2>7, <2>8 DEF Numbers
<1>3. ASSUME NEW t \in Tasks, Spawn(t) PROVE Numbers'
  <2> DEFINE i == NewId(op[t].eph, next)
  <2>1. next \in 1 .. MaxPane /\ next' = next + 1 /\ UNCHANGED <<mirror, wins>>
    BY <1>0, <1>3 DEF Spawn, TypeOK
  <2>2. i \in Ids /\ Low(i) = next
    BY <1>0, <1>3, <2>1, LowType, OpType DEF Spawn
  <2>3. /\ op'[t].pc = "waiting" /\ op'[t].id = i /\ op'[t].target = op[t].target
        /\ op[t].pc = "ensuring" /\ \A s \in Tasks \ {t} : op'[s] = op[s]
    BY <1>0, <1>3 DEF Spawn, DataOK
  <2> HIDE DEF i
  <2>4. \A j \in Ids : Low(j) \in Nat
    BY LowType
  <2>5. \A j \in mirror : Low(j) < next /\ Low(j) < next'
    BY <1>0, <2>1, <2>4 DEF Numbers, TypeOK
  <2>6. i \notin mirror
    BY <2>1, <2>2, <2>5
  <2>7. ASSUME NEW s \in Tasks, op[s].pc # "idle", op[s].target # None
        PROVE  Low(op[s].target) < next /\ Low(op[s].target) < next'
    <3>1. op[s].target \in Ids /\ Low(op[s].target) < next
      BY <1>0, <2>7, OpType DEF Numbers
    <3> QED BY <2>1, <2>4, <3>1
  <2>8. ASSUME NEW s \in Tasks, HasId(s)
        PROVE  Low(op[s].id) < next /\ Low(op[s].id) < next' /\ op[s].id # i
    <3>1. op[s].id \in Ids /\ Low(op[s].id) < next
      BY <1>0, <2>8, OpType DEF Numbers
    <3> QED BY <2>1, <2>2, <2>4, <3>1
  <2>9. \A s \in Tasks \ {t} : HasId(s)' <=> HasId(s)
    BY <2>3 DEF HasId
  <2>10. \A s \in Tasks : HasId(s)' =>
           /\ Low(op'[s].id) < next' /\ op'[s].id \notin mirror'
           /\ op'[s].target # None => Low(op'[s].target) < Low(op'[s].id)
    <3>1. CASE op[t].target = None \/ Low(op[t].target) < next
      BY <1>0, <2>1, <2>2, <2>3, <2>6, <2>8, <2>9, <3>1 DEF Numbers
    <3> QED BY <2>3, <2>7, <3>1
  <2>11. \A s, r \in Tasks : s # r /\ HasId(s)' /\ HasId(r)' => op'[s].id # op'[r].id
    BY <1>0, <2>3, <2>8, <2>9 DEF Numbers
  <2>12. \A s \in Tasks : op'[s].pc # "idle" /\ op'[s].target # None => Low(op'[s].target) < next'
    BY <2>3, <2>7
  <2> QED BY <1>0, <2>1, <2>5, <2>10, <2>11, <2>12 DEF Numbers
<1>4. ASSUME NEW t \in Tasks, EnsureFails(t) \/ SpawnTimesOut(t) PROVE Numbers'
  <2>1. UNCHANGED <<mirror, wins, next>> /\ op' = [op EXCEPT ![t] = NoOp]
    BY <1>4 DEF EnsureFails, SpawnTimesOut, Failed
  <2>2. \A s \in Tasks : op'[s] = op[s] \/ op'[s].pc = "idle"
    BY <1>0, <2>1 DEF DataOK, NoOp
  <2> QED BY <1>0, <2>1, <2>2, FewerNumbers DEF Numbers
<1>5. ASSUME NEW t \in Tasks, FinishNew(t) \/ FinishSplit(t) PROVE Numbers'
  <2>1. HasId(t)
    BY <1>5 DEF FinishNew, FinishSplit, HasId
  <2>2. next' = next /\ op'[t].pc = "idle" /\ \A s \in Tasks \ {t} : op'[s] = op[s]
    BY <1>0, <1>5 DEF FinishNew, FinishSplit, Returned, NoOp, DataOK
  <2>3. mirror' \subseteq mirror \cup {op[t].id}
    BY <1>5 DEF FinishNew, FinishSplit, Mirrored
  <2>4. Members(wins') \subseteq mirror'
    <3>1. /\ op[t].id \in Ids /\ op[t].id \notin Members(wins) /\ Members(wins) \subseteq mirror
          /\ \A i \in Ids : op[t].id \notin wins[i]
          /\ op[t].target # None => op[t].target \in Ids /\ Low(op[t].target) < Low(op[t].id)
      BY <1>0, <2>1, NewPane DEF Numbers
    <3>2. CASE FinishNew(t)
      BY <1>0, <3>1, <3>2, AddSingleSound DEF FinishNew, Mirrored, DataOK
    <3>3. CASE FinishSplit(t) /\ op[t].target \in Members(wins)
      BY <1>0, <3>1, <3>3, SplitSound DEF FinishSplit, Mirrored, DataOK
    <3>4. CASE FinishSplit(t) /\ op[t].target \notin Members(wins)
      BY <3>1, <3>4 DEF FinishSplit
    <3> QED BY <1>5, <3>2, <3>3, <3>4
  <2>5. \A s \in Tasks : HasId(s)' => s # t /\ HasId(s) /\ op[s].id # op[t].id /\ op'[s] = op[s]
    BY <1>0, <2>1, <2>2 DEF HasId, Numbers
  <2>6. \A i \in mirror' : Low(i) < next'
    BY <1>0, <2>1, <2>2, <2>3 DEF Numbers
  <2>7. \A s \in Tasks : op'[s].pc # "idle" /\ op'[s].target # None => Low(op'[s].target) < next'
    BY <1>0, <2>2 DEF Numbers
  <2>8. \A s \in Tasks : HasId(s)' =>
           /\ Low(op'[s].id) < next' /\ op'[s].id \notin mirror'
           /\ op'[s].target # None => Low(op'[s].target) < Low(op'[s].id)
    BY <1>0, <2>2, <2>3, <2>5 DEF Numbers
  <2>9. \A s, r \in Tasks : s # r /\ HasId(s)' /\ HasId(r)' => op'[s].id # op'[r].id
    BY <1>0, <2>5 DEF Numbers
  <2> QED BY <2>4, <2>6, <2>7, <2>8, <2>9 DEF Numbers
<1>6. ASSUME NEW t \in Tasks, UserStep(t) PROVE Numbers'
  <2>1. next' = next /\ mirror' \subseteq mirror
    BY <1>6 DEF UserStep, Connect, TmuxStarts, New, SplitPane, Close, BreakPane, SetKind,
       Select, Forget
  <2>2. Members(wins') \subseteq mirror'
    <3>1. Members(wins) \subseteq mirror
      BY <1>0 DEF Numbers
    <3>2. ASSUME NEW p \in Ids, Close(t, p) PROVE Members(wins') \subseteq mirror'
      BY <1>0, <3>1, <3>2, RemovePaneSound DEF Close, Removed, Forget, DataOK
    <3>3. ASSUME NEW p \in Ids, BreakPane(t, p) PROVE Members(wins') \subseteq mirror'
      <4>1. RemovePane(wins, p) \in Layouts /\ \A i \in Ids : p \notin RemovePane(wins, p)[i]
        BY <1>0, RemovePaneSound DEF DataOK, RemovePane
      <4>2. Members(wins') \subseteq Members(wins) \cup {p}
        BY <1>0, <3>3, <4>1, AddSingleSound, RemovePaneSound DEF BreakPane, DataOK
      <4>3. p \in Members(wins)
        BY <3>3 DEF BreakPane, Windows, Members
      <4> QED BY <3>1, <3>3, <4>2, <4>3 DEF BreakPane
    <3>4. ASSUME \A p \in Ids : ~Close(t, p) /\ ~BreakPane(t, p) PROVE UNCHANGED <<wins, mirror>>
      BY <1>6, <3>4 DEF UserStep, Connect, TmuxStarts, New, SplitPane, SetKind, Select
    <3> QED BY <3>1, <3>2, <3>3, <3>4
  <2> QED BY <1>0, <1>6, <2>1, <2>2, UserOps, FewerNumbers
<1>7. ASSUME PumpExit PROVE Numbers'
  <2>1. UNCHANGED <<next, op>> /\ Head(ev) \in Ids
    BY <1>0, <1>7 DEF PumpExit, DataOK
  <2>2. mirror' \subseteq mirror /\ Members(wins') \subseteq mirror'
    BY <1>0, <1>7, <2>1, RemovePaneSound DEF PumpExit, Removed, Forget, DataOK, Numbers
  <2> QED BY <1>0, <2>1, <2>2, FewerNumbers
<1>8. ASSUME PumpClosed PROVE Numbers'
  BY <1>0, <1>8, FewerNumbers, NoWinsSound DEF PumpClosed
<1>9. ASSUME Crash PROVE Numbers'
  BY <1>9, NoWinsSound DEF Crash, Numbers, HasId, NoOp
<1>10. ASSUME PtydStep PROVE Numbers'
  <2>1. UNCHANGED <<mirror, wins, next>>
    BY <1>10, PtydFrame
  <2>2. \A t \in Tasks : \/ op'[t] = op[t] \/ op'[t].pc = "idle"
                         \/ /\ HasId(t) /\ HasId(t)'
                            /\ op'[t].id = op[t].id /\ op'[t].target = op[t].target
    BY <1>0, <1>10, PtydOps DEF HasId
  <2>3. Members(wins') \subseteq mirror'
    BY <1>0, <2>1 DEF Numbers
  <2> QED BY <1>0, <2>1, <2>2, <2>3, FewerNumbers
<1>11. ASSUME \/ GetMeta \/ ReadFails \/ TmuxEnds \/ UNCHANGED vars \/ Rest
              \/ \E c \in Conns : List(c)
       PROVE  Numbers'
  BY <1>1, <1>11 DEF GetMeta, ReadFails, TmuxEnds, List, Rest
<1> QED BY <1>2, <1>3, <1>4, <1>5, <1>6, <1>7, <1>8, <1>9, <1>10, <1>11
        DEF Next, LinkStep, OpStep

---------------------------------------------------------------------------
(* The shared view. *)

(* Nothing changes what is shown, and no stray is forgotten. *)
LEMMA ViewKept ==
  ASSUME TypeOK, DataOK, StrayView, ViewIsLive, UNCHANGED <<view, over, wins>>,
         link' = link \/ (link # "up" /\ link' # "up"), strays \ {None} \subseteq strays'
  PROVE  StrayView' /\ ViewIsLive'
<1>1. Members(wins) \subseteq Ids /\ Tabs(wins) \subseteq Ids
  BY MembersOf DEF DataOK
<1>2. StrayView'
  BY <1>1 DEF StrayView, TypeOK
<1>3. ViewIsLive'
  BY DEF ViewIsLive, TypeOK
<1> QED BY <1>2, <1>3

(* A pane leaves. *)
LEMMA RemovedView ==
  ASSUME TypeOK, DataOK, OneLink, Saved, StrayView, ViewIsLive, NEW p \in Ids,
         NEW ms \in Seq(Msgs), NoMeta(ms), Removed(p, ms), link' = link, strays \subseteq strays'
  PROVE  StrayView' /\ ViewIsLive'
<1>1. /\ Members(wins') \subseteq Members(wins) /\ Tabs(wins') \subseteq Tabs(wins)
      /\ wins' \in Layouts /\ \A i \in Ids : wins'[i] = wins[i] \ {p}
  BY RemovePaneSound DEF Removed, RemovePane, DataOK
<1>2. /\ view' \in Ids \cup {Tmux}
      /\ \/ view' \in Tabs(wins') /\ over' = over
         \/ view' = Tmux /\ over' = over
         \/ view' = view /\ over' = TRUE /\ Tabs(wins') = {}
         \/ view' = view /\ over' = over /\ (view # Tmux => p \notin wins[view] \/ wins'[view] # {})
  BY RemovedEffect
<1>3. StrayView'
  BY <1>1, <1>2 DEF StrayView
<1>4. ViewIsLive'
  <2>1. CASE view' \in Tabs(wins')
    BY <2>1 DEF ViewIsLive, Tabs
  <2>2. CASE view' = Tmux
    BY <2>2 DEF ViewIsLive
  <2>3. CASE over' = TRUE /\ Tabs(wins') = {}
    BY <2>3 DEF ViewIsLive
  <2>4. CASE view' = view /\ over' = over /\ (view # Tmux => p \notin wins[view] \/ wins'[view] # {})
    BY <1>1, <1>2, <2>4 DEF ViewIsLive
  <2> QED BY <1>2, <2>1, <2>2, <2>3, <2>4
<1> QED BY <1>3, <1>4

LEMMA ViewStep ==
  ASSUME IInv, [Next]_vars
  PROVE  StrayView' /\ ViewIsLive'
<1>0. TypeOK /\ DataOK /\ Numbers /\ OneLink /\ AfterDeath /\ StrayView /\ Saved /\ ViewIsLive
  BY DEF IInv
<1>1. Members(wins) \subseteq Ids /\ Tabs(wins) \subseteq Ids
      /\ \A i \in Ids : wins[i] # {} <=> i \in Tabs(wins)
  BY <1>0, MembersOf DEF DataOK, Tabs
<1>2. Tabs(wins) # {} => Lowest(Tabs(wins)) \in Tabs(wins)
  BY <1>1, LowestIn
<1>3. CASE UNCHANGED vars \/ Rest \/ GetMeta \/ ReadFails \/ \E c \in Conns : List(c)
  BY <1>0, <1>3, ViewKept DEF Rest, GetMeta, ReadFails, List
<1>4. CASE Adopt
  <2>1. Survivors(listed) \in SUBSET Ids /\ listed.blob \in Layouts
    BY <1>0 DEF DataOK, Survivors
  <2>2. wins' \in Layouts /\ Members(wins') \subseteq Survivors(listed) /\ UNCHANGED <<view, over, strays>>
    BY <1>4, <2>1, ReconcileSound DEF Adopt
  <2>3. view # Tmux => Tabs(wins') = {} /\ (over \/ view \in strays)
    BY <1>0, <1>4, <2>2, MembersOf DEF Adopt, AfterDeath, Lingers, StrayView
  <2> QED BY <1>4, <2>2, <2>3 DEF Adopt, StrayView, ViewIsLive
<1>5. ASSUME NEW t \in Tasks, FinishNew(t) PROVE StrayView' /\ ViewIsLive'
  <2>1. HasId(t) /\ view' = op[t].id /\ link' = link
    BY <1>5 DEF FinishNew, HasId, Show
  <2>2. /\ op[t].id \in Ids
        /\ Members(wins') \subseteq Members(wins) \cup {op[t].id}
        /\ Tabs(wins') = Tabs(wins) \cup {op[t].id} /\ wins'[op[t].id] = {op[t].id}
    BY <1>0, <1>5, <2>1, NewPane, AddSingleSound DEF FinishNew, DataOK
  <2>3. strays \subseteq strays' /\ (link # "up" => op[t].id \in strays')
    BY <1>5 DEF FinishNew, Returned
  <2> QED BY <1>0, <2>1, <2>2, <2>3 DEF StrayView, ViewIsLive
<1>6. ASSUME NEW t \in Tasks, FinishSplit(t) PROVE StrayView' /\ ViewIsLive'
  <2>1. HasId(t) /\ UNCHANGED <<view, over, link>>
    BY <1>6 DEF FinishSplit, HasId
  <2>2. strays \subseteq strays' /\ (link # "up" => op[t].id \in strays')
    BY <1>6 DEF FinishSplit, Returned
  <2>3. CASE op[t].target \in Members(wins)
    <3>1. /\ Members(wins') \subseteq Members(wins) \cup {op[t].id} /\ Tabs(wins') = Tabs(wins)
          /\ \A i \in Ids : wins[i] \subseteq wins'[i]
      BY <1>0, <1>6, <2>1, <2>3, NewPane, SplitSound DEF FinishSplit, DataOK
    <3>2. StrayView'
      BY <1>0, <2>1, <2>2, <3>1 DEF StrayView
    <3>3. ViewIsLive'
      BY <1>0, <2>1, <2>2, <3>1 DEF ViewIsLive, TypeOK
    <3> QED BY <3>2, <3>3
  <2>4. CASE op[t].target \notin Members(wins)
    <3>1. UNCHANGED <<view, over, wins, link>>
      BY <1>6, <2>1, <2>4 DEF FinishSplit
    <3> QED BY <1>0, <2>2, <3>1, ViewKept
  <2> QED BY <2>3, <2>4
<1>7. ASSUME NEW t \in Tasks, Spawn(t) \/ EnsureFails(t) \/ SpawnTimesOut(t) PROVE StrayView' /\ ViewIsLive'
  BY <1>0, <1>7, ViewKept DEF Spawn, EnsureFails, SpawnTimesOut, Failed
<1>8. ASSUME NEW t \in Tasks, UserStep(t) PROVE StrayView' /\ ViewIsLive'
  <2>0. UNCHANGED <<link, strays>>
    BY <1>8, UserFrame
  <2>1. ASSUME NEW p \in Ids, Close(t, p) PROVE StrayView' /\ ViewIsLive'
    <3>1. <<Kill(p)>> \in Seq(Msgs) /\ NoMeta(<<Kill(p)>>)
      BY DEF Kill, Msgs, NoMeta
    <3> QED BY <1>0, <2>0, <2>1, <3>1, RemovedView DEF Close
  <2>2. ASSUME NEW p \in Ids, BreakPane(t, p) PROVE StrayView' /\ ViewIsLive'
    <3>1. RemovePane(wins, p) \in Layouts /\ \A i \in Ids : p \notin RemovePane(wins, p)[i]
      BY <1>0, RemovePaneSound DEF DataOK, RemovePane
    <3>2. p \in Members(wins)
      BY <2>2 DEF BreakPane, Windows, Members
    <3>3. /\ Members(wins') \subseteq Members(wins) \cup {p} /\ Tabs(wins') \subseteq Tabs(wins) \cup {p}
          /\ wins'[p] = {p}
      <4>1. /\ Members(RemovePane(wins, p)) \subseteq Members(wins)
            /\ Tabs(RemovePane(wins, p)) \subseteq Tabs(wins)
        BY <1>0, RemovePaneSound DEF DataOK
      <4>2. wins' = AddSingle(RemovePane(wins, p), p)
        BY <2>2 DEF BreakPane
      <4> QED BY <3>1, <4>1, <4>2, AddSingleSound
    <3>4. view' = p
      BY <2>2 DEF BreakPane, Show
    <3> QED BY <1>0, <2>0, <3>2, <3>3, <3>4 DEF StrayView, ViewIsLive
  <2>3. ASSUME NEW w \in Ids \cup {Tmux}, Select(t, w) PROVE StrayView' /\ ViewIsLive'
    <3>1. view' = w /\ wins' = wins /\ w \in Tabs(wins) \cup {Tmux}
      BY <2>3 DEF Select, Show
    <3> QED BY <1>0, <1>1, <2>0, <3>1 DEF StrayView, ViewIsLive
  <2>4. ASSUME Connect(t) PROVE StrayView' /\ ViewIsLive'
    <3>1. UNCHANGED <<wins, over>> /\ (view' = view \/ (view' = Lowest(Tabs(wins)) /\ Tabs(wins) # {}))
      BY <2>4 DEF Connect
    <3>2. CASE view' = view
      BY <1>0, <2>0, <3>1, <3>2, ViewKept
    <3>3. CASE view' \in Tabs(wins)
      BY <1>0, <1>1, <2>0, <3>1, <3>3 DEF StrayView, ViewIsLive
    <3> QED BY <1>2, <3>1, <3>2, <3>3
  <2>5. ASSUME \/ TmuxStarts(t) \/ \E e \in BOOLEAN : New(t, e)
               \/ \E p \in Ids : SplitPane(t, p) \/ \E w \in Ids, e \in BOOLEAN : SetKind(t, w, e)
        PROVE  StrayView' /\ ViewIsLive'
    BY <1>0, <2>0, <2>5, ViewKept DEF TmuxStarts, New, SplitPane, SetKind
  <2> QED BY <1>8, <2>1, <2>2, <2>3, <2>4, <2>5 DEF UserStep
<1>9. CASE PumpExit
  <2>1. link' = link /\ strays \subseteq strays' /\ Head(ev) \in Ids
    BY <1>0, <1>9 DEF PumpExit, DataOK
  <2>2. CASE Head(ev) \in mirror
    <3>1. Removed(Head(ev), <<>>) /\ <<>> \in Seq(Msgs) /\ NoMeta(<<>>)
      BY <1>9, <2>2 DEF PumpExit, NoMeta
    <3> QED BY <1>0, <2>1, <3>1, RemovedView
  <2>3. CASE Head(ev) \notin mirror
    BY <1>0, <1>9, <2>1, <2>3, ViewKept DEF PumpExit
  <2> QED BY <2>2, <2>3
<1>10. CASE PumpClosed
  <2>1. /\ wins' = NoWins
        /\ \/ view = Tmux /\ UNCHANGED <<view, over>>
           \/ view' = Tmux
           \/ over' = TRUE
    BY <1>0, <1>10, NoWinsSound, FallBackView DEF PumpClosed, TypeOK
  <2> QED BY <2>1, NoWinsSound DEF StrayView, ViewIsLive
<1>11. CASE TmuxEnds
  <2>1. /\ UNCHANGED <<wins, link, strays>>
        /\ \/ Tabs(wins) # {} /\ over' = over /\ (view' = view \/ view' = Lowest(Tabs(wins)))
           \/ Tabs(wins) = {} /\ over' = TRUE /\ view' = view
    BY <1>11 DEF TmuxEnds
  <2>2. CASE view' = view /\ over' = over
    BY <1>0, <2>1, <2>2, ViewKept
  <2>3. CASE view' \in Tabs(wins)
    BY <1>0, <1>1, <2>1, <2>3 DEF StrayView, ViewIsLive
  <2>4. CASE Tabs(wins) = {} /\ over' = TRUE
    BY <1>0, <2>1, <2>4 DEF StrayView, ViewIsLive
  <2> QED BY <1>2, <2>1, <2>2, <2>3, <2>4
<1>12. CASE Crash
  BY <1>12, NoWinsSound DEF Crash, StrayView, ViewIsLive
<1>13. CASE PtydStep
  <2>1. strays \subseteq strays'
    BY <1>13 DEF PtydStep, HandleSpawn, HandleKill, HandleSetEphemeral, HandleSetMeta, Sweep,
       ShellExits, Announce, PtydDies, PtydStarts, Stale
  <2> QED BY <1>0, <1>13, <2>1, PtydFrame, ViewKept
<1> QED BY <1>3, <1>4, <1>5, <1>6, <1>7, <1>8, <1>9, <1>10, <1>11, <1>12, <1>13
        DEF Next, LinkStep, OpStep

---------------------------------------------------------------------------
(* The layout that is saved. *)

(* A request that is handled. *)
LEMMA HandledSaved ==
  ASSUME DataOK, OneLink, Saved, NEW c \in Conns, NEW k, Next1(c, k),
         UNCHANGED <<link, cur, conn, wins>>,
         blob' = IF k = "meta" THEN Head(req[c]).wins ELSE blob,
         strays \subseteq strays', k = "meta" /\ c # cur /\ link # "none" => None \in strays'
  PROVE  Saved'
<1>1. /\ req' = [req EXCEPT ![c] = Tail(@)] /\ req[c] \in Seq(Msgs) /\ req[c] # <<>>
      /\ Head(req[c]).k = k
  BY HeadType
<1> SUFFICES ASSUME link = "up", conn[cur] = "open", None \notin strays'
             PROVE  Carries(req'[cur], blob', wins)
  BY DEF Saved
<1>2. cur \in Conns /\ Carries(req[cur], blob, wins)
  BY DEF OneLink, Saved
<1>3. CASE c = cur
  <2>1. Carries(Tail(req[cur]), IF Head(req[cur]).k = "meta" THEN Head(req[cur]).wins ELSE blob, wins)
    BY <1>1, <1>2, <1>3, CarriesTail
  <2>2. req'[cur] = Tail(req[cur])
    BY <1>1, <1>2, <1>3 DEF DataOK
  <2> QED BY <1>1, <1>3, <2>1, <2>2
<1>4. CASE c # cur
  <2>1. req'[cur] = req[cur] /\ blob' = blob
    BY <1>1, <1>2, <1>4 DEF DataOK
  <2> QED BY <1>2, <2>1
<1> QED BY <1>3, <1>4

LEMMA SavedStep ==
  ASSUME IInv, [Next]_vars
  PROVE  Saved'
<1>0. TypeOK /\ DataOK /\ Numbers /\ OneLink /\ Saved
  BY DEF IInv
<1>1. ASSUME UNCHANGED <<link, cur, conn, req, blob, wins>>, strays \subseteq strays' PROVE Saved'
  BY <1>0, <1>1 DEF Saved
<1>2. ASSUME link' # "up" PROVE Saved'
  BY <1>2 DEF Saved
<1>3. CASE Adopt
  <2>1. Survivors(listed) \in SUBSET Ids /\ listed.blob \in Layouts /\ listed.eph \in SUBSET Ids
    BY <1>0 DEF DataOK, Survivors
  <2>2. wins' \in Layouts
    BY <1>3, <2>1, ReconcileSound DEF Adopt
  <2>3. LastMeta(Each(Kill, listed.eph) \o <<SetMeta(wins')>>, wins')
    BY <2>1, <2>2, EachKill, CarriesSaved, EmptySeq
  <2>4. cur \in Conns /\ UNCHANGED <<cur, conn>>
    BY <1>0, <1>3 DEF Adopt, OneLink
  <2>5. conn[cur] = "open" => req'[cur] = Each(Kill, listed.eph) \o <<SetMeta(wins')>>
    BY <1>0, <1>3, <2>4 DEF Adopt, DataOK
  <2> QED BY <2>3, <2>4, <2>5 DEF Saved, Carries
<1>4. ASSUME NEW ms \in Seq(Msgs), NoMeta(ms), req' = Posted(ms),
             UNCHANGED <<link, cur, conn, blob, wins>>, strays \subseteq strays'
      PROVE  Saved'
  BY <1>0, <1>4, PostedSaved DEF Saved
<1>5. ASSUME wins' \in Layouts, NEW ms \in Seq(Msgs), req' = Save(ms), UNCHANGED <<link, cur, conn>>
      PROVE  Saved'
  BY <1>0, <1>5, SaveType DEF Saved, Carries
<1>6. wins' \in Layouts /\ <<>> \in Seq(Msgs)
  BY TypesStep DEF DataOK
<1>7. ASSUME NEW p \in Ids, NEW ms \in Seq(Msgs), NoMeta(ms), Removed(p, ms),
             UNCHANGED <<link, cur, conn, blob>>, strays \subseteq strays'
      PROVE  Saved'
  BY <1>0, <1>7, RemovedEffect DEF Saved
<1>8. ASSUME NEW t \in Tasks, OpStep(t) PROVE Saved'
  <2>1. CASE Spawn(t)
    <3> DEFINE i == NewId(op[t].eph, next)
               ms == <<[k |-> "spawn", id |-> i, eph |-> op[t].eph]>>
    <3>1. op[t].eph \in BOOLEAN /\ i \in Ids
      <4>1. op[t].pc = "ensuring" /\ next \in 1 .. MaxPane
        BY <1>0, <2>1 DEF Spawn, TypeOK
      <4>2. op[t].eph \in BOOLEAN
        BY <1>0, <4>1, OpType
      <4> QED BY <4>1, <4>2, LowType
    <3>2. ms \in Seq(Msgs) /\ NoMeta(ms)
      BY <3>1 DEF Msgs, NoMeta
    <3>3. req' = Posted(ms) /\ UNCHANGED <<link, cur, conn, blob, wins, strays>>
      BY <2>1 DEF Spawn
    <3> HIDE DEF ms
    <3> QED BY <1>4, <3>2, <3>3
  <2>2. CASE EnsureFails(t) \/ SpawnTimesOut(t)
    BY <1>1, <2>2 DEF EnsureFails, SpawnTimesOut, Failed
  <2>3. CASE FinishNew(t)
    BY <1>5, <1>6, <2>3 DEF FinishNew
  <2>4. CASE FinishSplit(t) /\ op[t].target \in Members(wins)
    BY <1>5, <1>6, <2>4 DEF FinishSplit
  <2>5. CASE FinishSplit(t) /\ op[t].target \notin Members(wins)
    <3>1. op[t].id \in Ids
      BY <1>0, <2>5, OpType DEF FinishSplit, HasId
    <3>2. <<Kill(op[t].id)>> \in Seq(Msgs) /\ NoMeta(<<Kill(op[t].id)>>)
      BY <3>1 DEF Kill, Msgs, NoMeta
    <3> QED BY <1>4, <2>5, <3>2 DEF FinishSplit, Returned
  <2> QED BY <1>8, <2>1, <2>2, <2>3, <2>4, <2>5 DEF OpStep
<1>9. ASSUME NEW t \in Tasks, UserStep(t) PROVE Saved'
  <2>1. ASSUME NEW p \in Ids, Close(t, p) PROVE Saved'
    <3>1. <<Kill(p)>> \in Seq(Msgs) /\ NoMeta(<<Kill(p)>>)
      BY DEF Kill, Msgs, NoMeta
    <3> QED BY <1>7, <2>1, <3>1 DEF Close
  <2>2. ASSUME NEW p \in Ids, BreakPane(t, p) PROVE Saved'
    BY <1>5, <1>6, <2>2 DEF BreakPane
  <2>3. ASSUME NEW w \in Ids, NEW e \in BOOLEAN, SetKind(t, w, e) PROVE Saved'
    <3> DEFINE ms == [n \in DOMAIN SetToSeq(wins[w]) |-> SetEph(SetToSeq(wins[w])[n], e)]
    <3>1. wins[w] \in SUBSET Ids
      BY <1>0 DEF DataOK, Layouts
    <3>2. ms \in Seq(Msgs) /\ NoMeta(ms)
      BY <3>1, EachFlip
    <3>3. req' = Posted(ms)
      BY <2>3 DEF SetKind, Each
    <3>4. UNCHANGED <<link, cur, conn, blob, wins, strays>>
      BY <2>3 DEF SetKind
    <3> HIDE DEF ms
    <3> QED BY <1>4, <3>2, <3>3, <3>4
  <2>4. ASSUME \/ Connect(t) \/ TmuxStarts(t) \/ \E e \in BOOLEAN : New(t, e)
               \/ \E p \in Ids : SplitPane(t, p) \/ \E w \in Ids \cup {Tmux} : Select(t, w)
        PROVE  Saved'
    BY <1>1, <2>4 DEF Connect, TmuxStarts, New, SplitPane, Select
  <2> QED BY <1>9, <2>1, <2>2, <2>3, <2>4 DEF UserStep
<1>10. CASE PumpExit
  <2>1. UNCHANGED <<link, cur, conn, blob>> /\ strays \subseteq strays' /\ Head(ev) \in Ids
    BY <1>0, <1>10 DEF PumpExit, DataOK
  <2>2. CASE Head(ev) \in mirror
    <3>1. Removed(Head(ev), <<>>) /\ NoMeta(<<>>)
      BY <1>10, <2>2 DEF PumpExit, NoMeta
    <3> QED BY <1>6, <1>7, <2>1, <3>1
  <2>3. CASE Head(ev) \notin mirror
    BY <1>1, <1>10, <2>1, <2>3 DEF PumpExit
  <2> QED BY <2>2, <2>3
<1>11. CASE PumpClosed \/ Crash \/ GetMeta \/ ReadFails \/ \E c \in Conns : List(c)
  BY <1>2, <1>11 DEF PumpClosed, Crash, GetMeta, ReadFails, List
<1>12. CASE PtydStep
  <2>1. strays \subseteq strays' /\ UNCHANGED <<link, cur, wins>>
    <3>1. strays \subseteq strays'
      BY <1>12 DEF PtydStep, HandleSpawn, HandleKill, HandleSetEphemeral, HandleSetMeta, Sweep,
         ShellExits, Announce, PtydDies, PtydStarts, Stale
    <3> QED BY <1>12, <3>1, PtydFrame
  <2>2. ASSUME NEW c \in Conns, HandleSpawn(c) PROVE Saved'
    BY <1>0, <2>1, <2>2, HandledSaved DEF HandleSpawn
  <2>3. ASSUME NEW c \in Conns, HandleKill(c) PROVE Saved'
    BY <1>0, <2>1, <2>3, HandledSaved DEF HandleKill
  <2>4. ASSUME NEW c \in Conns, HandleSetEphemeral(c) PROVE Saved'
    BY <1>0, <2>1, <2>4, HandledSaved DEF HandleSetEphemeral
  <2>5. ASSUME NEW c \in Conns, HandleSetMeta(c) PROVE Saved'
    BY <1>0, <2>1, <2>5, HandledSaved DEF HandleSetMeta, Stale
  <2>6. ASSUME NEW c \in Conns, Sweep(c) PROVE Saved'
    <3>1. UNCHANGED <<req, blob>> /\ conn' = [conn EXCEPT ![c] = "swept"]
      BY <2>6 DEF Sweep
    <3>2. conn'[cur] = "open" => conn[cur] = "open"
      BY <1>0, <3>1 DEF TypeOK
    <3> QED BY <1>0, <2>1, <3>1, <3>2 DEF Saved
  <2>7. ASSUME NEW i \in Ids, ShellExits(i) \/ Announce(i) PROVE Saved'
    BY <1>1, <2>7 DEF ShellExits, Announce
  <2>8. CASE PtydDies
    <3>1. link' = "up" => conn'[cur'] # "open"
      BY <1>0, <2>8 DEF PtydDies, OneLink
    <3> QED BY <3>1 DEF Saved
  <2>9. CASE PtydStarts
    BY <1>1, <2>9 DEF PtydStarts
  <2> QED BY <1>12, <2>2, <2>3, <2>4, <2>5, <2>6, <2>7, <2>8, <2>9 DEF PtydStep
<1>13. CASE UNCHANGED vars \/ Rest \/ TmuxEnds
  BY <1>1, <1>13 DEF Rest, TmuxEnds
<1> QED BY <1>3, <1>8, <1>9, <1>10, <1>11, <1>12, <1>13 DEF Next, LinkStep

LEMMA StepIInv == IInv /\ [Next]_vars => IInv'
  BY TypesStep, NumbersStep, OneLinkStep, AfterDeathStep, SavedStep, ViewStep DEF IInv

---------------------------------------------------------------------------
(* The mirror and ptyd. *)

(* Requests about pane i. *)
Is(m, k, i)  == m.k = k /\ m.id = i
Has(s, k, i) == \E n \in DOMAIN s : Is(s[n], k, i)
Silent(s, i) == \A n \in DOMAIN s : s[n].k = "meta" \/ s[n].id # i

(* A spawn of i waits among requests s; what comes after it is not about   *)
(* i, and if another i is held, by panes H, it is killed before.           *)
Waits(s, i, e, H) ==
  \E n \in DOMAIN s :
    /\ Is(s[n], "spawn", i) /\ s[n].eph = e
    /\ \A m \in DOMAIN s : m < n => ~Is(s[m], "spawn", i)
    /\ \A m \in DOMAIN s : m > n => s[m].k = "meta" \/ s[m].id # i
    /\ i \in H => \E m \in DOMAIN s : m < n /\ Is(s[m], "kill", i)

(* Requests s make the flag of i, now that of set B, what it is in E. *)
Flagged(s, i, B, E) ==
  \/ \E n \in DOMAIN s : /\ Is(s[n], "eph", i) /\ (s[n].eph <=> i \in E)
                         /\ \A m \in DOMAIN s : m > n => ~Is(s[m], "eph", i)
  \/ ~Has(s, "eph", i) /\ (i \in B <=> i \in E)

---------------------------------------------------------------------------
(* Requests added at the end. *)
LEMMA Joined ==
  ASSUME NEW s \in Seq(Msgs), NEW u \in Seq(Msgs)
  PROVE  /\ s \o u \in Seq(Msgs)
         /\ \A n \in DOMAIN s : n \in DOMAIN (s \o u) /\ (s \o u)[n] = s[n]
         /\ \A n \in DOMAIN u : Len(s) + n \in DOMAIN (s \o u) /\ (s \o u)[Len(s) + n] = u[n]
         /\ \A n \in DOMAIN (s \o u) :
              n \in DOMAIN s \/ (n - Len(s) \in DOMAIN u /\ (s \o u)[n] = u[n - Len(s)] /\ n > Len(s))
  OBVIOUS

LEMMA JoinedHas ==
  ASSUME NEW s \in Seq(Msgs), NEW u \in Seq(Msgs), NEW k, NEW i
  PROVE  Has(s \o u, k, i) <=> Has(s, k, i) \/ Has(u, k, i)
<1>1. ASSUME Has(s \o u, k, i) PROVE Has(s, k, i) \/ Has(u, k, i)
  <2>1. PICK n \in DOMAIN (s \o u) : Is((s \o u)[n], k, i)
    BY <1>1 DEF Has
  <2> QED BY <2>1, Joined DEF Has
<1>2. ASSUME Has(s, k, i) PROVE Has(s \o u, k, i)
  BY <1>2, Joined DEF Has
<1>3. ASSUME Has(u, k, i) PROVE Has(s \o u, k, i)
  <2>1. PICK n \in DOMAIN u : Is(u[n], k, i)
    BY <1>3 DEF Has
  <2>2. Len(s) + n \in DOMAIN (s \o u) /\ (s \o u)[Len(s) + n] = u[n]
    BY Joined
  <2> QED BY <2>1, <2>2 DEF Has
<1> QED BY <1>1, <1>2, <1>3

LEMMA JoinedSilent ==
  ASSUME NEW s \in Seq(Msgs), NEW u \in Seq(Msgs), NEW i, Silent(s, i), Silent(u, i)
  PROVE  Silent(s \o u, i)
  BY Joined DEF Silent

LEMMA SilentHas ==
  ASSUME NEW s, NEW i, Silent(s, i), NEW k \in {"spawn", "kill", "eph"}
  PROVE  ~Has(s, k, i)
  BY DEF Silent, Has, Is

LEMMA JoinedWaits ==
  ASSUME NEW s \in Seq(Msgs), NEW u \in Seq(Msgs), NEW i, NEW e, NEW H, Waits(s, i, e, H), Silent(u, i)
  PROVE  Waits(s \o u, i, e, H)
<1>1. PICK n \in DOMAIN s :
         /\ Is(s[n], "spawn", i) /\ s[n].eph = e
         /\ \A m \in DOMAIN s : m < n => ~Is(s[m], "spawn", i)
         /\ \A m \in DOMAIN s : m > n => s[m].k = "meta" \/ s[m].id # i
         /\ i \in H => \E m \in DOMAIN s : m < n /\ Is(s[m], "kill", i)
  BY DEF Waits
<1> DEFINE v == s \o u
<1>2. /\ \A m \in DOMAIN s : m \in DOMAIN v /\ v[m] = s[m]
      /\ \A m \in DOMAIN v :
           m \in DOMAIN s \/ (m - Len(s) \in DOMAIN u /\ v[m] = u[m - Len(s)] /\ m > Len(s))
  BY Joined
<1>3. n <= Len(s) /\ n \in Nat /\ Len(s) \in Nat /\ DOMAIN v \subseteq Nat
  OBVIOUS
<1> HIDE DEF v
<1>4. \A m \in DOMAIN v : m < n => ~Is(v[m], "spawn", i)
  BY <1>1, <1>2, <1>3
<1>5. \A m \in DOMAIN v : m > n => v[m].k = "meta" \/ v[m].id # i
  BY <1>1, <1>2, <1>3 DEF Silent
<1>6. i \in H => \E m \in DOMAIN v : m < n /\ Is(v[m], "kill", i)
  BY <1>1, <1>2
<1>7. n \in DOMAIN v /\ Is(v[n], "spawn", i) /\ v[n].eph = e
  BY <1>1, <1>2
<1> QED BY <1>4, <1>5, <1>6, <1>7 DEF Waits, v

LEMMA JoinedFlagged ==
  ASSUME NEW s \in Seq(Msgs), NEW u \in Seq(Msgs), NEW i, NEW B, NEW E, Flagged(s, i, B, E),
         ~Has(u, "eph", i)
  PROVE  Flagged(s \o u, i, B, E)
<1> DEFINE v == s \o u
<1>1. /\ \A m \in DOMAIN s : m \in DOMAIN v /\ v[m] = s[m]
      /\ \A m \in DOMAIN v : m \in DOMAIN s \/ (m - Len(s) \in DOMAIN u /\ v[m] = u[m - Len(s)])
  BY Joined
<1>2. Has(v, "eph", i) <=> Has(s, "eph", i)
  BY JoinedHas
<1> HIDE DEF v
<1>3. CASE ~Has(s, "eph", i) /\ (i \in B <=> i \in E)
  BY <1>2, <1>3 DEF Flagged, v
<1>4. ASSUME NEW n \in DOMAIN s, Is(s[n], "eph", i), s[n].eph <=> i \in E,
             \A m \in DOMAIN s : m > n => ~Is(s[m], "eph", i)
      PROVE  Flagged(v, i, B, E)
  <2>1. n \in DOMAIN v /\ Is(v[n], "eph", i) /\ (v[n].eph <=> i \in E)
    BY <1>1, <1>4
  <2>2. \A m \in DOMAIN v : m > n => ~Is(v[m], "eph", i)
    BY <1>1, <1>4 DEF Has
  <2> QED BY <2>1, <2>2 DEF Flagged
<1> QED BY <1>3, <1>4 DEF Flagged, v

(* The one change of kind among requests u decides. *)
LEMMA FlagDecided ==
  ASSUME NEW s \in Seq(Msgs), NEW u \in Seq(Msgs), NEW i, NEW B, NEW E, NEW n \in DOMAIN u,
         Is(u[n], "eph", i), u[n].eph <=> i \in E, \A m \in DOMAIN u : m > n => ~Is(u[m], "eph", i)
  PROVE  Flagged(s \o u, i, B, E)
<1> DEFINE v == s \o u
<1>1. /\ Len(s) + n \in DOMAIN v /\ v[Len(s) + n] = u[n]
      /\ \A m \in DOMAIN v : m > Len(s) => m - Len(s) \in DOMAIN u /\ v[m] = u[m - Len(s)]
  BY Joined
<1>2. Len(s) \in Nat /\ n \in Nat /\ DOMAIN v \subseteq Nat
  OBVIOUS
<1> HIDE DEF v
<1>3. \A m \in DOMAIN v : m > Len(s) + n => ~Is(v[m], "eph", i)
  <2> SUFFICES ASSUME NEW m \in DOMAIN v, m > Len(s) + n PROVE ~Is(v[m], "eph", i)
    OBVIOUS
  <2>1. m > Len(s) /\ m - Len(s) > n
    BY <1>2
  <2> QED BY <1>1, <2>1
<1> QED BY <1>1, <1>3 DEF Flagged, v

(* The first request handled. *)
LEMMA Rest1 ==
  ASSUME NEW s \in Seq(Msgs), s # <<>>
  PROVE  /\ Tail(s) \in Seq(Msgs) /\ 1 \in DOMAIN s /\ s[1] = Head(s)
         /\ \A n \in DOMAIN Tail(s) : n + 1 \in DOMAIN s /\ Tail(s)[n] = s[n + 1]
         /\ \A n \in DOMAIN s : n # 1 => n - 1 \in DOMAIN Tail(s) /\ Tail(s)[n - 1] = s[n]
  OBVIOUS

LEMMA TailHas ==
  ASSUME NEW s \in Seq(Msgs), s # <<>>, NEW k, NEW i
  PROVE  Has(s, k, i) <=> Is(Head(s), k, i) \/ Has(Tail(s), k, i)
<1>1. ASSUME Has(s, k, i), ~Is(Head(s), k, i) PROVE Has(Tail(s), k, i)
  <2>1. PICK n \in DOMAIN s : Is(s[n], k, i)
    BY <1>1 DEF Has
  <2>2. n # 1
    BY <1>1, <2>1, Rest1
  <2> QED BY <2>1, <2>2, Rest1 DEF Has
<1>2. ASSUME Has(Tail(s), k, i) PROVE Has(s, k, i)
  BY <1>2, Rest1 DEF Has
<1>3. ASSUME Is(Head(s), k, i) PROVE Has(s, k, i)
  BY <1>3, Rest1 DEF Has
<1> QED BY <1>1, <1>2, <1>3

LEMMA TailSilent ==
  ASSUME NEW s \in Seq(Msgs), s # <<>>, NEW i, Silent(s, i)
  PROVE  Silent(Tail(s), i) /\ (Head(s).k = "meta" \/ Head(s).id # i)
  BY Rest1 DEF Silent

LEMMA TailWaits ==
  ASSUME NEW s \in Seq(Msgs), s # <<>>, NEW i, NEW e, NEW H, Waits(s, i, e, H)
  PROVE  /\ Is(Head(s), "spawn", i) => i \notin H /\ Head(s).eph = e /\ Silent(Tail(s), i)
         /\ ~Is(Head(s), "spawn", i) =>
              \A G : (i \in G => i \in H /\ ~Is(Head(s), "kill", i)) => Waits(Tail(s), i, e, G)
<1>1. PICK n \in DOMAIN s :
         /\ Is(s[n], "spawn", i) /\ s[n].eph = e
         /\ \A m \in DOMAIN s : m < n => ~Is(s[m], "spawn", i)
         /\ \A m \in DOMAIN s : m > n => s[m].k = "meta" \/ s[m].id # i
         /\ i \in H => \E m \in DOMAIN s : m < n /\ Is(s[m], "kill", i)
  BY DEF Waits
<1> DEFINE u == Tail(s)
<1>2. /\ 1 \in DOMAIN s /\ s[1] = Head(s)
      /\ \A m \in DOMAIN u : m + 1 \in DOMAIN s /\ u[m] = s[m + 1]
      /\ \A m \in DOMAIN s : m # 1 => m - 1 \in DOMAIN u /\ u[m - 1] = s[m]
  BY Rest1
<1>3. DOMAIN s \subseteq Nat \ {0} /\ DOMAIN u \subseteq Nat \ {0}
  BY Rest1
<1> HIDE DEF u
<1>4. CASE n = 1
  <2>1. i \notin H
    BY <1>1, <1>3, <1>4
  <2>2. Silent(u, i)
    BY <1>1, <1>2, <1>3, <1>4 DEF Silent
  <2> QED BY <1>1, <1>2, <1>4, <2>1, <2>2 DEF u
<1>5. CASE n # 1
  <2>1. ~Is(Head(s), "spawn", i)
    BY <1>1, <1>2, <1>3, <1>5
  <2>2. n - 1 \in DOMAIN u /\ Is(u[n - 1], "spawn", i) /\ u[n - 1].eph = e
    BY <1>1, <1>2, <1>5
  <2>3. \A m \in DOMAIN u : m < n - 1 => ~Is(u[m], "spawn", i)
    BY <1>1, <1>2, <1>3
  <2>4. \A m \in DOMAIN u : m > n - 1 => u[m].k = "meta" \/ u[m].id # i
    BY <1>1, <1>2, <1>3
  <2>5. ASSUME i \in H, ~Is(Head(s), "kill", i)
        PROVE  \E m \in DOMAIN u : m < n - 1 /\ Is(u[m], "kill", i)
    <3>1. PICK m \in DOMAIN s : m < n /\ Is(s[m], "kill", i)
      BY <1>1, <2>5
    <3>2. m # 1
      BY <1>2, <2>5, <3>1
    <3>3. m - 1 \in DOMAIN u /\ u[m - 1] = s[m] /\ m - 1 < n - 1
      BY <1>2, <1>3, <3>1, <3>2
    <3> QED BY <3>1, <3>3
  <2> QED BY <2>1, <2>2, <2>3, <2>4, <2>5 DEF Waits, u
<1> QED BY <1>4, <1>5

LEMMA TailFlagged ==
  ASSUME NEW s \in Seq(Msgs), s # <<>>, NEW i, NEW B, NEW E, Flagged(s, i, B, E), NEW C,
         i \in C <=> (IF Is(Head(s), "eph", i) THEN Head(s).eph ELSE i \in B)
  PROVE  Flagged(Tail(s), i, C, E)
<1> DEFINE u == Tail(s)
<1>1. /\ 1 \in DOMAIN s /\ s[1] = Head(s)
      /\ \A m \in DOMAIN u : m + 1 \in DOMAIN s /\ u[m] = s[m + 1]
      /\ \A m \in DOMAIN s : m # 1 => m - 1 \in DOMAIN u /\ u[m - 1] = s[m]
  BY Rest1
<1>2. DOMAIN s \subseteq Nat \ {0} /\ DOMAIN u \subseteq Nat \ {0}
  BY Rest1
<1>3. CASE ~Has(s, "eph", i) /\ (i \in B <=> i \in E)
  <2>1. ~Has(u, "eph", i) /\ ~Is(Head(s), "eph", i)
    BY <1>3, TailHas
  <2> QED BY <1>3, <2>1 DEF Flagged
<1> HIDE DEF u
<1>4. ASSUME NEW n \in DOMAIN s, Is(s[n], "eph", i), s[n].eph <=> i \in E,
             \A m \in DOMAIN s : m > n => ~Is(s[m], "eph", i)
      PROVE  Flagged(u, i, C, E)
  <2>1. CASE n = 1
    <3>1. ~Has(u, "eph", i)
      BY <1>1, <1>2, <1>4, <2>1 DEF Has
    <3>2. i \in C <=> i \in E
      BY <1>1, <1>4, <2>1
    <3> QED BY <3>1, <3>2 DEF Flagged
  <2>2. CASE n # 1
    <3>1. n - 1 \in DOMAIN u /\ Is(u[n - 1], "eph", i) /\ (u[n - 1].eph <=> i \in E)
      BY <1>1, <1>4, <2>2
    <3>2. \A m \in DOMAIN u : m > n - 1 => ~Is(u[m], "eph", i)
      BY <1>1, <1>2, <1>4
    <3> QED BY <3>1, <3>2 DEF Flagged
  <2> QED BY <2>1, <2>2
<1> QED BY <1>3, <1>4 DEF Flagged, u

---------------------------------------------------------------------------
(* The exit of i is to be announced, or on its way. *)
Pending(i) == i \in dying \/ \E n \in DOMAIN ev : ev[n] = i

(* Operation t spawns pane i on the present connection. *)
Spawning(t, i) == HasId(t) /\ op[t].conn = cur /\ op[t].id = i

(* What ptyd has of i agrees, once requests s are handled, with a mymuxd   *)
(* that shows it, waits for it, has the reply in hand, or knows nothing of *)
(* it.                                                                     *)
Known(s, i) ==
  /\ ~Has(s, "spawn", i) /\ ~Has(s, "kill", i)
  /\ i \notin held => Pending(i)
  /\ i \in held => Flagged(s, i, ephemeral, mirrorEph)
Answered(s, i, e) ==
  /\ Silent(s, i)
  /\ i \notin held => Pending(i)
  /\ i \in held => (i \in ephemeral <=> e)
Unknown(s, i) == ~Has(s, "spawn", i) /\ (i \in held => Has(s, "kill", i))

PaneFollowed(i) ==
  /\ i \in mirror => Known(req[cur], i)
  /\ \A t \in Tasks : Spawning(t, i) =>
       IF op[t].pc = "waiting" THEN Waits(req[cur], i, op[t].eph, held)
                               ELSE Answered(req[cur], i, op[t].eph)
  /\ i \notin mirror /\ (\A t \in Tasks : ~Spawning(t, i)) => Unknown(req[cur], i)

Followed ==
  link = "up" /\ conn[cur] = "open" => \A i \in Ids \ strays : PaneFollowed(i)

(* What was listed is still true of the panes that have not exited. *)
Listed ==
  link \in {"listed", "read"} /\ conn[cur] = "open" =>
    \A i \in Ids \ strays :
      /\ i \in held => i \in listed.panes /\ (i \in ephemeral <=> i \in listed.eph)
      /\ i \in listed.panes \ held => Pending(i)

(* A new connection has carried nothing, and nobody waits on it. *)
NewConns ==
  /\ \A c \in Conns : conn[c] = "none" => req[c] = <<>>
  /\ \A t \in Tasks : HasId(t) => conn[op[t].conn] # "none"
  /\ link \in {"listed", "read"} =>
       req[cur] = <<>> /\ \A t \in Tasks : HasId(t) => op[t].conn # cur

(* With nothing in flight the mirror is then the truth. *)
LEMMA SettledTruth ==
  ASSUME TypeOK, DataOK, OneLink, Followed
  PROVE  MirrorTruth
<1> SUFFICES ASSUME Settled, NEW i \in Ids \ strays
             PROVE  (i \in mirror <=> i \in held) /\ (i \in mirrorEph <=> i \in ephemeral)
  BY DEF MirrorTruth
<1>1. PaneFollowed(i) /\ cur \in Conns
  BY DEF Settled, Followed, OneLink
<1>2. req[cur] = <<>>
  BY <1>1 DEF Settled
<1>3. \A k : ~Has(req[cur], k, i)
  BY <1>2 DEF Has
<1>4. ~Pending(i)
  BY DEF Settled, Pending
<1>5. \A t \in Tasks : ~Spawning(t, i)
  BY DEF Settled, Spawning, HasId
<1>6. i \in mirror => i \in held /\ (i \in ephemeral <=> i \in mirrorEph)
  BY <1>1, <1>3, <1>4 DEF PaneFollowed, Known, Flagged, Has
<1>7. i \notin mirror => i \notin held
  BY <1>1, <1>3, <1>5 DEF PaneFollowed, Unknown
<1> QED BY <1>6, <1>7 DEF TypeOK

---------------------------------------------------------------------------
(* What is known of a new connection. *)

(* Requests are posted to the open connection of a link that is up. *)
LEMMA PostedElse ==
  ASSUME DataOK, NEW ms
  PROVE  /\ link # "up" => Posted(ms) = req
         /\ \A c \in Conns :
              Posted(ms)[c] = req[c] \/ (link = "up" /\ c = cur /\ conn[c] = "open")
  BY DEF Posted, DataOK

LEMMA SaveElse ==
  ASSUME DataOK, NEW ms
  PROVE  /\ link # "up" => Save(ms) = req
         /\ \A c \in Conns :
              Save(ms)[c] = req[c] \/ (link = "up" /\ c = cur /\ conn[c] = "open")
  BY PostedElse DEF Save

LEMMA RemovedElse ==
  ASSUME DataOK, NEW p, NEW ms, Removed(p, ms)
  PROVE  /\ link # "up" => req' = req
         /\ \A c \in Conns :
              req'[c] = req[c] \/ (link = "up" /\ c = cur /\ conn[c] = "open")
  BY PostedElse, SaveElse DEF Removed

LEMMA NewConnsStep ==
  ASSUME IInv, NewConns, [Next]_vars
  PROVE  NewConns'
<1>0. TypeOK /\ DataOK /\ OneLink
  BY DEF IInv
<1>1. \A t \in Tasks : HasId(t) => op[t].conn \in Conns
  BY <1>0, OpType
<1>2. ASSUME UNCHANGED <<link, cur, conn>>,
             link # "up" => req' = req,
             \A c \in Conns : req'[c] = req[c] \/ (link = "up" /\ c = cur /\ conn[c] = "open"),
             \A t \in Tasks : HasId(t)' =>
                \/ HasId(t) /\ op'[t].conn = op[t].conn
                \/ link = "up" /\ op'[t].conn = cur
      PROVE  NewConns'
  BY <1>0, <1>1, <1>2 DEF NewConns, OneLink
<1>3. ASSUME NEW c \in Conns, List(c) PROVE NewConns'
  <2>1. \A t \in Tasks : HasId(t) => op[t].conn # c
    BY <1>3 DEF List, NewConns
  <2>2. /\ req' = req /\ op' = op /\ cur' = c /\ conn' = [conn EXCEPT ![c] = "open"]
        /\ conn[c] = "none"
    BY <1>3 DEF List
  <2> QED BY <1>0, <2>1, <2>2 DEF NewConns, HasId, TypeOK
<1>4. ASSUME link' \notin {"listed", "read"}, req' = req,
             \A c \in Conns : conn'[c] = "none" => conn[c] = "none",
             \A c \in Conns : conn[c] # "none" => conn'[c] # "none",
             \A t \in Tasks : HasId(t)' => HasId(t) /\ op'[t].conn = op[t].conn
      PROVE  NewConns'
  BY <1>1, <1>4 DEF NewConns
<1>5. ASSUME UNCHANGED <<link, cur, conn>>,
             \A c \in Conns : req'[c] = req[c] \/ (req[c] # <<>> /\ req'[c] = Tail(req[c])) \/ req'[c] = <<>>,
             \A t \in Tasks : HasId(t)' => HasId(t) /\ op'[t].conn = op[t].conn
      PROVE  NewConns'
  <2>1. \A c \in Conns : req[c] = <<>> => req'[c] = <<>>
    BY <1>5
  <2> QED BY <1>0, <1>1, <1>5, <2>1 DEF NewConns, OneLink
<1>6. CASE UNCHANGED vars \/ Rest
  BY <1>6 DEF Rest, NewConns, HasId
<1>7. CASE LinkStep
  <2>1. ASSUME GetMeta PROVE NewConns'
    BY <2>1 DEF GetMeta, NewConns, HasId
  <2>2. ASSUME ReadFails PROVE NewConns'
    BY <2>2, <1>4 DEF ReadFails, HasId
  <2>3. ASSUME Adopt PROVE NewConns'
    <3>1. link' = "up" /\ UNCHANGED <<cur, conn, op>>
      BY <2>3 DEF Adopt
    <3>2. \A c \in Conns : req'[c] = req[c] \/ conn[c] = "open"
      BY <2>3 DEF Adopt, DataOK
    <3> QED BY <3>1, <3>2, <1>1 DEF NewConns, HasId
  <2> QED BY <1>3, <1>7, <2>1, <2>2, <2>3 DEF LinkStep
<1>8. ASSUME NEW t \in Tasks, OpStep(t) PROVE NewConns'
  <2>1. ASSUME Spawn(t) PROVE NewConns'
    <3>1. link = "up" /\ UNCHANGED <<link, cur, conn>>
      BY <2>1 DEF Spawn
    <3>2. \A c \in Conns : req'[c] = req[c] \/ (link = "up" /\ c = cur /\ conn[c] = "open")
      BY <1>0, <2>1, PostedElse DEF Spawn
    <3>3. \A s \in Tasks : HasId(s)' => (HasId(s) /\ op'[s].conn = op[s].conn) \/ op'[s].conn = cur
      BY <1>0, <2>1 DEF Spawn, HasId, DataOK
    <3> QED BY <1>2, <3>1, <3>2, <3>3
  <2>2. ASSUME op' = [op EXCEPT ![t] = NoOp] 
        PROVE  \A s \in Tasks : HasId(s)' => HasId(s) /\ op'[s].conn = op[s].conn
    BY <1>0, <2>2 DEF HasId, DataOK, NoOp
  <2>3. ASSUME EnsureFails(t) \/ SpawnTimesOut(t) PROVE NewConns'
    BY <1>2, <2>2, <2>3 DEF EnsureFails, SpawnTimesOut, Failed
  <2>4. ASSUME FinishNew(t) PROVE NewConns'
    BY <1>0, <1>2, <2>2, <2>4, SaveElse DEF FinishNew, Returned
  <2>5. ASSUME FinishSplit(t) PROVE NewConns'
    <3>1. \/ req' = Save(<<>>)
          \/ req' = Posted(<<Kill(op[t].id)>>)
      BY <2>5 DEF FinishSplit
    <3> QED BY <1>0, <1>2, <2>2, <2>5, <3>1, SaveElse, PostedElse DEF FinishSplit, Returned
  <2> QED BY <1>8, <2>1, <2>3, <2>4, <2>5 DEF OpStep
<1>9. ASSUME NEW t \in Tasks, UserStep(t) PROVE NewConns'
  <2>1. UNCHANGED <<link, cur, conn>>
    BY <1>9, UserFrame
  <2>2. \A s \in Tasks : HasId(s)' => HasId(s) /\ op'[s].conn = op[s].conn
    BY <1>0, <1>9, UserOps DEF HasId
  <2>3. /\ link # "up" => req' = req
        /\ \A c \in Conns : req'[c] = req[c] \/ (link = "up" /\ c = cur /\ conn[c] = "open")
    <3>1. ASSUME NEW p \in Ids, Close(t, p) PROVE <2>3!1 /\ <2>3!2
      BY <1>0, <3>1, RemovedElse DEF Close
    <3>2. ASSUME NEW p \in Ids, BreakPane(t, p) PROVE <2>3!1 /\ <2>3!2
      BY <1>0, <3>2, SaveElse DEF BreakPane
    <3>3. ASSUME NEW w \in Ids, NEW e \in BOOLEAN, SetKind(t, w, e) PROVE <2>3!1 /\ <2>3!2
      BY <1>0, <3>3, PostedElse DEF SetKind
    <3>4. ASSUME req' = req PROVE <2>3!1 /\ <2>3!2
      BY <3>4
    <3> QED BY <1>9, <3>1, <3>2, <3>3, <3>4
            DEF UserStep, Connect, TmuxStarts, New, SplitPane, Select
  <2> QED BY <1>2, <2>1, <2>2, <2>3
<1>10. CASE PumpExit
  <2>1. UNCHANGED <<link, cur, conn, op>>
    BY <1>10 DEF PumpExit
  <2>2. /\ link # "up" => req' = req
        /\ \A c \in Conns : req'[c] = req[c] \/ (link = "up" /\ c = cur /\ conn[c] = "open")
    BY <1>0, <1>10, RemovedElse DEF PumpExit
  <2> QED BY <1>2, <2>1, <2>2 DEF HasId
<1>11. CASE PumpClosed
  BY <1>11, <1>4 DEF PumpClosed, HasId
<1>12. CASE TmuxEnds
  BY <1>12 DEF TmuxEnds, NewConns, HasId
<1>13. CASE Crash
  <2>1. \A t \in Tasks : ~HasId(t)'
    BY <1>13 DEF Crash, HasId, NoOp
  <2>2. link' = "none"
    BY <1>13 DEF Crash
  <2>3. \A c \in Conns : conn'[c] = "none" => conn[c] = "none" /\ c # cur
    BY <1>0, <1>13 DEF Crash, TypeOK, OneLink
  <2>4. \A c \in Conns : c # cur => req'[c] = req[c]
    BY <1>0, <1>13 DEF Crash, DataOK
  <2> QED BY <2>1, <2>2, <2>3, <2>4 DEF NewConns
<1>14. CASE PtydStep
  <2>1. ASSUME NEW c \in Conns, NEW k, Next1(c, k), UNCHANGED <<link, cur, conn>>,
               \A t \in Tasks : HasId(t)' => HasId(t) /\ op'[t].conn = op[t].conn
        PROVE  NewConns'
    <3>1. \A d \in Conns : req'[d] = req[d] \/ (req[d] # <<>> /\ req'[d] = Tail(req[d]))
      BY <1>0, <2>1, HeadType
    <3> QED BY <1>5, <2>1, <3>1
  <2>2. ASSUME NEW c \in Conns, HandleSpawn(c) PROVE NewConns'
    <3>1. \A t \in Tasks : \/ op'[t] \in {op[t], NoOp}
                           \/ op[t].pc = "waiting" /\ op'[t] = [op[t] EXCEPT !.pc = "answered"]
      BY <2>2 DEF HandleSpawn
    <3>2. ASSUME NEW t \in Tasks, HasId(t)' PROVE HasId(t) /\ op'[t].conn = op[t].conn
      <4>1. op'[t] # NoOp
        BY <3>2 DEF HasId, NoOp
      <4>2. op[t].pc = "waiting" => [op[t] EXCEPT !.pc = "answered"].conn = op[t].conn
        BY <1>0, OpType DEF Ops, DataOK
      <4> QED BY <3>1, <3>2, <4>1, <4>2 DEF HasId
    <3> QED BY <2>1, <2>2, <3>2 DEF HandleSpawn
  <2>3. ASSUME NEW c \in Conns, HandleKill(c) \/ HandleSetEphemeral(c) \/ HandleSetMeta(c)
        PROVE  NewConns'
    BY <2>1, <2>3 DEF HandleKill, HandleSetEphemeral, HandleSetMeta, HasId
  <2>4. ASSUME UNCHANGED <<link, cur, req, op>>, \A c \in Conns : conn'[c] = "none" <=> conn[c] = "none"
        PROVE  NewConns'
    BY <1>1, <2>4 DEF NewConns, HasId
  <2>5. ASSUME NEW c \in Conns, Sweep(c) PROVE NewConns'
    <3>1. \A d \in Conns : conn'[d] = "none" <=> conn[d] = "none"
      BY <1>0, <2>5 DEF Sweep, TypeOK
    <3> QED BY <2>4, <2>5, <3>1 DEF Sweep
  <2>6. ASSUME NEW i \in Ids, ShellExits(i) \/ Announce(i) PROVE NewConns'
    BY <2>4, <2>6 DEF ShellExits, Announce
  <2>7. ASSUME PtydDies PROVE NewConns'
    <3>1. \A d \in Conns : req'[d] = <<>> /\ (conn'[d] = "none" <=> conn[d] = "none")
      BY <2>7 DEF PtydDies
    <3> QED BY <1>0, <1>1, <2>7, <3>1 DEF PtydDies, NewConns, HasId, OneLink
  <2>8. ASSUME PtydStarts PROVE NewConns'
    BY <2>4, <2>8 DEF PtydStarts
  <2> QED BY <1>14, <2>2, <2>3, <2>5, <2>6, <2>7, <2>8 DEF PtydStep
<1> QED
  BY <1>6, <1>7, <1>8, <1>9, <1>10, <1>11, <1>12, <1>13, <1>14 DEF Next

---------------------------------------------------------------------------
(* What an adoption has read. *)

(* Panes S leave ptyd. *)
LEMMA DroppedPending ==
  ASSUME NEW S \in SUBSET Ids, Dropped(S), ev' = ev, NEW i \in Ids
  PROVE  /\ Pending(i) => Pending(i)'
         /\ i \in held => i \in held' \/ Pending(i)'
         /\ i \in held' => i \in held /\ (i \in ephemeral' <=> i \in ephemeral)
  BY DEF Dropped, Pending

(* The exit that is announced stays pending. *)
LEMMA AnnouncePending ==
  ASSUME DataOK, NEW j \in Ids, Announce(j), link # "none", conn[cur] = "open",
         NEW i \in Ids, i \notin held, Pending(i)
  PROVE  Pending(i)'
<1>1. ev \in Seq(Ids \cup {None})
  BY DEF DataOK
<1>2. CASE i = j
  <2>1. ev' = Append(ev, i)
    BY <1>2 DEF Announce
  <2>2. Len(ev) + 1 \in DOMAIN ev' /\ ev'[Len(ev) + 1] = i
    BY <1>1, <2>1
  <2> QED BY <2>2 DEF Pending
<1>3. CASE i # j
  <2>1. CASE i \in dying
    BY <1>3, <2>1 DEF Announce, Pending
  <2>2. ASSUME NEW n \in DOMAIN ev, ev[n] = i PROVE Pending(i)'
    <3>1. ev' = ev \/ ev' = Append(ev, j)
      BY DEF Announce
    <3>2. n \in DOMAIN ev' /\ ev'[n] = i
      BY <1>1, <2>2, <3>1
    <3> QED BY <3>2 DEF Pending
  <2> QED BY <2>1, <2>2 DEF Pending
<1> QED BY <1>2, <1>3

LEMMA ListedKept ==
  ASSUME Listed, UNCHANGED <<link, cur, listed>>, conn'[cur] = "open" => conn[cur] = "open",
         link \in {"listed", "read"} /\ conn[cur] = "open" =>
           \A i \in Ids \ strays' :
             /\ i \notin strays
             /\ i \in held' => i \in held /\ (i \in ephemeral' <=> i \in ephemeral)
             /\ i \in held \ held' => Pending(i)'
             /\ i \notin held /\ i \notin held' /\ Pending(i) => Pending(i)'
  PROVE  Listed'
  BY DEF Listed

LEMMA ListedStep ==
  ASSUME IInv, NewConns, Listed, [Next]_vars
  PROVE  Listed'
<1>0. TypeOK /\ DataOK /\ OneLink
  BY DEF IInv
<1>1. ASSUME link' \notin {"listed", "read"} PROVE Listed'
  BY <1>1 DEF Listed
<1>2. ASSUME UNCHANGED <<link, cur, listed, conn, ev, dying, held, ephemeral>>, strays \subseteq strays'
      PROVE  Listed'
  BY <1>2 DEF Listed, Pending
<1>3. CASE UNCHANGED vars \/ Rest
  BY <1>2, <1>3 DEF Rest
<1>4. CASE LinkStep
  <2>1. ASSUME NEW c \in Conns, List(c) PROVE Listed'
    <3>1. /\ listed'.panes = held /\ listed'.eph = ephemeral
          /\ held' = held /\ ephemeral' = ephemeral
      BY <2>1 DEF List, NotRead
    <3> QED BY <3>1 DEF Listed
  <2>2. ASSUME GetMeta PROVE Listed'
    <3>1. listed'.panes = listed.panes /\ listed'.eph = listed.eph
      BY <1>0, <2>2 DEF GetMeta, DataOK
    <3> QED BY <2>2, <3>1 DEF GetMeta, Listed, Pending
  <2> QED BY <1>1, <1>4, <2>1, <2>2 DEF LinkStep, ReadFails, Adopt
<1>5. CASE PumpExit \/ PumpClosed \/ TmuxEnds \/ Crash
  BY <1>1, <1>2, <1>5 DEF PumpExit, PumpClosed, TmuxEnds, Crash
<1>6. ASSUME NEW t \in Tasks, OpStep(t) PROVE Listed'
  BY <1>2, <1>6 DEF OpStep, Spawn, EnsureFails, SpawnTimesOut, FinishNew, FinishSplit, Returned
<1>7. ASSUME NEW t \in Tasks, UserStep(t) PROVE Listed'
  BY <1>2, <1>7
     DEF UserStep, Connect, TmuxStarts, New, SplitPane, Close, BreakPane, SetKind, Select
<1>8. CASE PtydStep
  <2>1. UNCHANGED <<link, cur, listed>>
    BY <1>8, PtydFrame
  <2>2. ASSUME NEW c \in Conns, NEW k, Next1(c, k), link \in {"listed", "read"}
        PROVE  c # cur /\ link # "none"
    BY <1>0, <2>2 DEF Next1, NewConns
  <2>3. ASSUME NEW c \in Conns, HandleSpawn(c) PROVE Listed'
    BY <2>1, <2>2, <2>3, ListedKept DEF HandleSpawn, Stale, Pending
  <2>4. ASSUME NEW c \in Conns, HandleSetEphemeral(c) PROVE Listed'
    BY <2>1, <2>2, <2>4, ListedKept DEF HandleSetEphemeral, Stale, Pending
  <2>5. ASSUME NEW c \in Conns, HandleSetMeta(c) PROVE Listed'
    BY <1>2, <2>5 DEF HandleSetMeta, Stale
  <2>6. ASSUME NEW S \in SUBSET Ids, Dropped(S), ev' = ev, strays' = strays,
               conn'[cur] = "open" => conn[cur] = "open"
        PROVE  Listed'
    BY <2>1, <2>6, DroppedPending, ListedKept
  <2>7. ASSUME NEW c \in Conns, HandleKill(c) PROVE Listed'
    BY <1>0, <2>6, <2>7 DEF HandleKill, TypeOK
  <2>8. ASSUME NEW c \in Conns, Sweep(c) PROVE Listed'
    <3>1. {i \in ephemeral : owner[i] = c} \in SUBSET Ids
      BY <1>0 DEF TypeOK
    <3>2. conn'[cur] = "open" => conn[cur] = "open"
      BY <1>0, <2>8 DEF Sweep, TypeOK
    <3> QED BY <2>6, <2>8, <3>1, <3>2 DEF Sweep
  <2>9. ASSUME NEW i \in Ids, ShellExits(i) PROVE Listed'
    BY <2>6, <2>9 DEF ShellExits
  <2>10. ASSUME NEW j \in Ids, Announce(j) PROVE Listed'
    <3>1. UNCHANGED <<conn, held, ephemeral, strays>>
      BY <2>10 DEF Announce
    <3>2. link \in {"listed", "read"} /\ conn[cur] = "open" =>
            \A i \in Ids : i \notin held /\ Pending(i) => Pending(i)'
      BY <1>0, <2>10, AnnouncePending
    <3> QED BY <2>1, <3>1, <3>2, ListedKept
  <2>11. ASSUME PtydDies PROVE Listed'
    <3>1. link \in {"listed", "read"} => conn'[cur] # "open"
      BY <1>0, <2>11 DEF PtydDies, OneLink
    <3> QED BY <2>1, <3>1 DEF Listed
  <2>12. ASSUME PtydStarts PROVE Listed'
    BY <1>2, <2>12 DEF PtydStarts
  <2> QED BY <1>8, <2>3, <2>4, <2>5, <2>7, <2>8, <2>9, <2>10, <2>11, <2>12 DEF PtydStep
<1> QED BY <1>3, <1>4, <1>5, <1>6, <1>7, <1>8 DEF Next

(* The kills, and the changes of kind, of panes S are about each of them,  *)
(* once, and about no other.                                               *)
LEMMA EachKillAbout ==
  ASSUME NEW S \in SUBSET Ids, NEW i \in Ids
  PROVE  /\ ~Has(Each(Kill, S), "spawn", i) /\ ~Has(Each(Kill, S), "eph", i)
         /\ Has(Each(Kill, S), "kill", i) <=> i \in S
<1> DEFINE ids == SetToSeq(S)
           ms  == [n \in DOMAIN ids |-> Kill(ids[n])]
<1>1. ids \in [1 .. Cardinality(S) -> S] /\ \A j \in S : \E n \in DOMAIN ids : ids[n] = j
  BY ListOf
<1> HIDE DEF ids
<1>2. \A n \in DOMAIN ms : n \in DOMAIN ids /\ ms[n].k = "kill" /\ ms[n].id = ids[n]
  BY DEF Kill
<1>3. Has(ms, "kill", i) <=> i \in S
  BY <1>1, <1>2 DEF Has, Is
<1>4. ~Has(ms, "spawn", i) /\ ~Has(ms, "eph", i)
  BY <1>2 DEF Has, Is
<1> QED BY <1>3, <1>4 DEF Each, ids

LEMMA EachFlipAbout ==
  ASSUME NEW S \in SUBSET Ids, NEW e \in BOOLEAN, NEW i \in Ids
  PROVE  LET ms == [n \in DOMAIN SetToSeq(S) |-> SetEph(SetToSeq(S)[n], e)]
         IN  /\ ~Has(ms, "spawn", i) /\ ~Has(ms, "kill", i)
             /\ i \notin S => Silent(ms, i)
             /\ i \in S => \E n \in DOMAIN ms :
                  /\ Is(ms[n], "eph", i) /\ ms[n].eph = e
                  /\ \A m \in DOMAIN ms : m > n => ~Is(ms[m], "eph", i)
<1> DEFINE ids == SetToSeq(S)
           ms  == [n \in DOMAIN ids |-> SetEph(ids[n], e)]
<1>1. /\ ids \in [1 .. Cardinality(S) -> S] /\ Cardinality(S) \in Nat
      /\ \A j \in S : \E n \in DOMAIN ids : ids[n] = j
      /\ \A m, n \in DOMAIN ids : ids[m] = ids[n] => m = n
  BY ListOf
<1> HIDE DEF ids
<1>2. /\ DOMAIN ms = DOMAIN ids
      /\ \A n \in DOMAIN ms : ms[n].k = "eph" /\ ms[n].id = ids[n] /\ ms[n].eph = e
  BY DEF SetEph
<1>3. ASSUME i \in S
      PROVE  \E n \in DOMAIN ms : /\ Is(ms[n], "eph", i) /\ ms[n].eph = e
                                  /\ \A m \in DOMAIN ms : m > n => ~Is(ms[m], "eph", i)
  <2>1. PICK n \in DOMAIN ids : ids[n] = i
    BY <1>1, <1>3
  <2>2. \A m \in DOMAIN ms : m > n => ~Is(ms[m], "eph", i)
    BY <1>1, <1>2, <2>1 DEF Is
  <2> QED BY <1>2, <2>1, <2>2 DEF Is
<1>4. ~Has(ms, "spawn", i) /\ ~Has(ms, "kill", i)
  BY <1>2 DEF Has, Is
<1>5. i \notin S => Silent(ms, i)
  BY <1>1, <1>2 DEF Silent
<1> QED BY <1>3, <1>4, <1>5 DEF ids

---------------------------------------------------------------------------
(* Requests u say of pane i what requests s say. *)
Same(s, u, i) ==
  /\ \A k \in {"spawn", "kill", "eph"} : Has(u, k, i) <=> Has(s, k, i)
  /\ Silent(s, i) => Silent(u, i)
  /\ \A e, H, G : Waits(s, i, e, H) /\ (i \in G => i \in H) => Waits(u, i, e, G)
  /\ \A B, C, E, F : Flagged(s, i, B, E) /\ (i \in C <=> i \in B) /\ (i \in F <=> i \in E)
                       => Flagged(u, i, C, F)

LEMMA SameRefl ==
  ASSUME NEW s, NEW i
  PROVE  Same(s, s, i)
<1>1. ASSUME NEW e, NEW H, NEW G, Waits(s, i, e, H), i \in G => i \in H
      PROVE  Waits(s, i, e, G)
  <2>1. PICK n \in DOMAIN s :
          /\ Is(s[n], "spawn", i) /\ s[n].eph = e
          /\ \A m \in DOMAIN s : m < n => ~Is(s[m], "spawn", i)
          /\ \A m \in DOMAIN s : m > n => s[m].k = "meta" \/ s[m].id # i
          /\ i \in H => \E m \in DOMAIN s : m < n /\ Is(s[m], "kill", i)
    BY <1>1 DEF Waits
  <2> QED BY <1>1, <2>1 DEF Waits
<1>2. ASSUME NEW B, NEW C, NEW E, NEW F, Flagged(s, i, B, E), i \in C <=> i \in B, i \in F <=> i \in E
      PROVE  Flagged(s, i, C, F)
  BY <1>2 DEF Flagged
<1> QED BY <1>1, <1>2 DEF Same

LEMMA SameTrans ==
  ASSUME NEW s, NEW u, NEW v, NEW i, Same(s, u, i), Same(u, v, i)
  PROVE  Same(s, v, i)
  BY DEF Same

LEMMA SameJoined ==
  ASSUME NEW s \in Seq(Msgs), NEW u \in Seq(Msgs), NEW i, Silent(u, i)
  PROVE  Same(s, s \o u, i)
<1> DEFINE v == s \o u
<1>1. \A k \in {"spawn", "kill", "eph"} : Has(v, k, i) <=> Has(s, k, i)
  BY JoinedHas, SilentHas
<1>2. Silent(s, i) => Silent(v, i)
  BY JoinedSilent
<1>3. \A e, H : Waits(s, i, e, H) => Waits(v, i, e, H)
  BY JoinedWaits
<1>4. ~Has(u, "eph", i)
  BY SilentHas
<1>5. \A B, E : Flagged(s, i, B, E) => Flagged(v, i, B, E)
  BY <1>4, JoinedFlagged
<1>6. Same(v, v, i)
  BY SameRefl
<1> HIDE DEF v
<1>7. Same(s, v, i)
  BY <1>1, <1>2, <1>3, <1>5, <1>6 DEF Same
<1> QED BY <1>7 DEF v

LEMMA SameTail ==
  ASSUME NEW s \in Seq(Msgs), s # <<>>, NEW i, Head(s).k = "meta" \/ Head(s).id # i
  PROVE  Same(s, Tail(s), i)
<1> DEFINE u == Tail(s)
<1>0. \A k \in {"spawn", "kill", "eph"} : ~Is(Head(s), k, i)
  BY DEF Is
<1>1. \A k \in {"spawn", "kill", "eph"} : Has(u, k, i) <=> Has(s, k, i)
  BY <1>0, TailHas
<1>2. Silent(s, i) => Silent(u, i)
  BY TailSilent
<1>3. \A e, H : Waits(s, i, e, H) => Waits(u, i, e, H)
  BY <1>0, TailWaits
<1>5. \A B, E : Flagged(s, i, B, E) => Flagged(u, i, B, E)
  BY <1>0, TailFlagged
<1>6. Same(u, u, i)
  BY SameRefl
<1> HIDE DEF u
<1>7. Same(s, u, i)
  BY <1>1, <1>2, <1>3, <1>5, <1>6 DEF Same
<1> QED BY <1>7 DEF u

(* A pane that no change concerns. *)
LEMMA PaneKept ==
  ASSUME NEW i \in Ids, PaneFollowed(i), Same(req[cur], req'[cur], i), cur' = cur,
         i \in mirror' <=> i \in mirror, i \in mirrorEph' <=> i \in mirrorEph,
         \A t \in Tasks : /\ Spawning(t, i)' <=> Spawning(t, i)
                          /\ Spawning(t, i) => op'[t].pc = op[t].pc /\ op'[t].eph = op[t].eph,
         i \in held' => i \in held /\ (i \in ephemeral' <=> i \in ephemeral),
         i \notin held' /\ (i \in held \/ Pending(i)) => Pending(i)'
  PROVE  PaneFollowed(i)'
<1>1. ASSUME i \in mirror' PROVE Known(req[cur], i)'
  <2>1. Known(req[cur], i)
    BY <1>1 DEF PaneFollowed
  <2> QED BY <2>1 DEF Known, Same
<1>2. ASSUME NEW t \in Tasks, Spawning(t, i)', op'[t].pc = "waiting"
      PROVE  Waits(req[cur], i, op[t].eph, held)'
  BY <1>2 DEF PaneFollowed, Same
<1>3. ASSUME NEW t \in Tasks, Spawning(t, i)', op'[t].pc # "waiting"
      PROVE  Answered(req[cur], i, op[t].eph)'
  <2>1. Answered(req[cur], i, op[t].eph)
    BY <1>3 DEF PaneFollowed
  <2> QED BY <1>3, <2>1 DEF Answered, Same
<1>4. ASSUME i \notin mirror', \A t \in Tasks : ~Spawning(t, i)'
      PROVE  Unknown(req[cur], i)'
  BY <1>4 DEF PaneFollowed, Unknown, Same
<1> QED BY <1>1, <1>2, <1>3, <1>4 DEF PaneFollowed

(* mymuxd's steps leave ptyd's panes alone. *)
LEMMA MuxKept ==
  ASSUME NEW i \in Ids, PaneFollowed(i), Same(req[cur], req'[cur], i),
         UNCHANGED <<cur, held, ephemeral, dying, ev>>,
         i \in mirror' <=> i \in mirror, i \in mirrorEph' <=> i \in mirrorEph,
         \A t \in Tasks : /\ Spawning(t, i)' <=> Spawning(t, i)
                          /\ Spawning(t, i) => op'[t].pc = op[t].pc /\ op'[t].eph = op[t].eph
  PROVE  PaneFollowed(i)'
  BY PaneKept DEF Pending

(* What is posted, with the link up. *)
LEMMA PostedSame ==
  ASSUME TypeOK, DataOK, OneLink, link = "up", conn[cur] = "open", NEW ms \in Seq(Msgs),
         req' = Posted(ms)
  PROVE  /\ req[cur] \in Seq(Msgs) /\ req'[cur] = req[cur] \o ms
         /\ \A i : Silent(ms, i) => Same(req[cur], req'[cur], i)
<1>1. cur \in Conns /\ req[cur] \in Seq(Msgs)
  BY DEF OneLink, DataOK
<1>2. req'[cur] = req[cur] \o ms
  BY <1>1, PostedType
<1> QED BY <1>1, <1>2, SameJoined

LEMMA MetaSilent ==
  ASSUME NEW w \in Layouts, NEW ms \in Seq(Msgs)
  PROVE  /\ ms \o <<SetMeta(w)>> \in Seq(Msgs)
         /\ \A i : Silent(ms, i) => Silent(ms \o <<SetMeta(w)>>, i)
         /\ \A k, i : k # "meta" => (Has(ms \o <<SetMeta(w)>>, k, i) <=> Has(ms, k, i))
<1> DEFINE u == <<SetMeta(w)>>
<1>1. SetMeta(w) \in Msgs /\ SetMeta(w).k = "meta"
  BY MetaMsg
<1>2. u \in Seq(Msgs) /\ DOMAIN u = {1} /\ u[1] = SetMeta(w)
  BY <1>1
<1> HIDE DEF u
<1>3. \A i : Silent(u, i)
  BY <1>1, <1>2 DEF Silent
<1>4. \A k, i : k # "meta" => ~Has(u, k, i)
  BY <1>1, <1>2 DEF Has, Is
<1>5. \A i : Silent(ms, i) => Silent(ms \o u, i)
  BY <1>2, <1>3, JoinedSilent
<1>6. \A k, i : k # "meta" => (Has(ms \o u, k, i) <=> Has(ms, k, i))
  BY <1>2, <1>4, JoinedHas
<1>7. ms \o u \in Seq(Msgs)
  BY <1>2
<1> QED BY <1>5, <1>6, <1>7 DEF u

LEMMA SavedSame ==
  ASSUME TypeOK, DataOK, OneLink, link = "up", conn[cur] = "open", NEW ms \in Seq(Msgs),
         wins' \in Layouts, req' = Save(ms)
  PROVE  /\ req[cur] \in Seq(Msgs)
         /\ \A i : Silent(ms, i) => Same(req[cur], req'[cur], i)
         /\ \A k, i : k # "meta" => (Has(req'[cur], k, i) <=> Has(req[cur], k, i) \/ Has(ms, k, i))
<1> DEFINE u == ms \o <<SetMeta(wins')>>
<1>1. /\ u \in Seq(Msgs)
      /\ \A i : Silent(ms, i) => Silent(u, i)
      /\ \A k, i : k # "meta" => (Has(u, k, i) <=> Has(ms, k, i))
  BY MetaSilent
<1>2. req' = Posted(u)
  BY DEF Save
<1> HIDE DEF u
<1>3. req[cur] \in Seq(Msgs) /\ req'[cur] = req[cur] \o u
      /\ \A i : Silent(u, i) => Same(req[cur], req'[cur], i)
  BY <1>1, <1>2, PostedSame
<1>4. \A k, i : Has(req'[cur], k, i) <=> Has(req[cur], k, i) \/ Has(u, k, i)
  BY <1>1, <1>3, JoinedHas
<1> QED BY <1>1, <1>3, <1>4

LEMMA NothingSilent == <<>> \in Seq(Msgs) /\ \A i : Silent(<<>>, i) /\ \A k : ~Has(<<>>, k, i)
  BY DEF Silent, Has

LEMMA OneSilent ==
  ASSUME NEW m \in Msgs
  PROVE  /\ <<m>> \in Seq(Msgs)
         /\ \A i : m.k # "meta" /\ m.id # i => Silent(<<m>>, i)
         /\ \A k, i : Has(<<m>>, k, i) <=> Is(m, k, i)
<1>1. DOMAIN <<m>> = {1} /\ <<m>>[1] = m
  OBVIOUS
<1> QED BY <1>1 DEF Silent, Has

(* Nobody else spawns the pane that t spawns. *)
LEMMA OneSpawner ==
  ASSUME Numbers, NEW t \in Tasks, HasId(t)
  PROVE  /\ op[t].id \notin mirror
         /\ \A s \in Tasks : Spawning(s, op[t].id) => s = t
  BY DEF Numbers, Spawning

(* When t forgets its spawn, the other panes are as they were. *)
LEMMA Forgotten ==
  ASSUME DataOK, NEW t \in Tasks, op' = [op EXCEPT ![t] = NoOp], cur' = cur, NEW i,
         ~HasId(t) \/ op[t].id # i \/ op[t].conn # cur
  PROVE  \A s \in Tasks : /\ Spawning(s, i)' <=> Spawning(s, i)
                          /\ Spawning(s, i) => op'[s].pc = op[s].pc /\ op'[s].eph = op[s].eph
<1>1. \A s \in Tasks : op'[s] = IF s = t THEN NoOp ELSE op[s]
  BY DEF DataOK
<1> QED BY <1>1 DEF Spawning, HasId, NoOp

---------------------------------------------------------------------------
(* A spawn is sent. *)
LEMMA SpawnFollowed ==
  ASSUME IInv, Followed, NEW t \in Tasks, Spawn(t)
  PROVE  Followed'
<1>0. TypeOK /\ DataOK /\ Numbers /\ OneLink
  BY DEF IInv
<1>1. SUFFICES ASSUME link = "up", conn[cur] = "open", NEW j \in Ids \ strays
               PROVE  PaneFollowed(j)'
  BY DEF Spawn, Followed
<1>2. op[t].eph \in BOOLEAN /\ op[t].pc = "ensuring" /\ next \in 1 .. MaxPane
  <2>1. op[t].pc = "ensuring" /\ next <= MaxPane
    BY DEF Spawn
  <2>2. op[t].eph \in BOOLEAN
    BY <1>0, <2>1, OpType
  <2> QED BY <1>0, <2>1, <2>2 DEF TypeOK
<1>3. PICK i \in Ids : i = NewId(op[t].eph, next) /\ Low(i) = next
  BY <1>2, LowType
<1>4. PICK m \in Msgs : /\ m = [k |-> "spawn", id |-> i, eph |-> op[t].eph]
                        /\ m.k = "spawn" /\ m.id = i /\ m.eph = op[t].eph
  <2> DEFINE n == [k |-> "spawn", id |-> i, eph |-> op[t].eph]
  <2>1. n \in [k : {"spawn", "eph"}, id : Ids, eph : BOOLEAN]
    BY <1>2
  <2>2. n \in Msgs
    BY <2>1 DEF Msgs
  <2> QED BY <2>2
<1>5. PaneFollowed(j)
  BY <1>1 DEF Followed
<1>6. req[cur] \in Seq(Msgs) /\ req'[cur] = req[cur] \o <<m>>
      /\ \A l : Silent(<<m>>, l) => Same(req[cur], req'[cur], l)
  BY <1>0, <1>1, <1>3, <1>4, OneSilent, PostedSame DEF Spawn
<1>7. \A s \in Tasks \ {t} : op'[s] = op[s]
  BY <1>0 DEF Spawn, DataOK
<1>8. op'[t].pc = "waiting" /\ op'[t].eph = op[t].eph /\ op'[t].id = i /\ op'[t].conn = cur
  BY <1>0, <1>3 DEF Spawn, DataOK
<1>9. /\ UNCHANGED <<cur, held, ephemeral, dying, ev, mirror, mirrorEph>>
  BY DEF Spawn
<1>10. ~HasId(t)
  BY <1>2 DEF HasId
<1>11. CASE j # i
  <2>1. Same(req[cur], req'[cur], j)
    BY <1>4, <1>6, <1>11, OneSilent
  <2>2. \A s \in Tasks : /\ Spawning(s, j)' <=> Spawning(s, j)
                         /\ Spawning(s, j) => op'[s].pc = op[s].pc /\ op'[s].eph = op[s].eph
    BY <1>7, <1>8, <1>9, <1>10, <1>11 DEF Spawning, HasId
  <2> QED BY <1>5, <1>9, <2>1, <2>2, MuxKept
<1>12. CASE j = i
  <2>1. i \notin mirror /\ \A s \in Tasks : HasId(s) => op[s].id # i
    <3>1. \A l \in mirror : Low(l) < next
      BY <1>0 DEF Numbers
    <3>2. \A s \in Tasks : HasId(s) => Low(op[s].id) < next
      BY <1>0 DEF Numbers
    <3> QED BY <1>2, <1>3, <3>1, <3>2
  <2>2. ~Has(req[cur], "spawn", i) /\ (i \in held => Has(req[cur], "kill", i))
    BY <1>5, <1>12, <2>1 DEF PaneFollowed, Unknown, Spawning
  <2>3. Waits(req[cur] \o <<m>>, i, op[t].eph, held)
    <3> DEFINE s == req[cur]
               v == s \o <<m>>
               n == Len(s) + 1
    <3>1. /\ n \in DOMAIN v /\ v[n] = m /\ DOMAIN v \subseteq 1 .. n
          /\ \A l \in DOMAIN s : l \in DOMAIN v /\ v[l] = s[l] /\ l < n
          /\ \A l \in DOMAIN v : l < n => l \in DOMAIN s /\ v[l] = s[l]
      BY <1>4, <1>6
    <3>2. \A l \in DOMAIN v : ~(l > n)
      BY <1>6, <3>1
    <3> HIDE DEF s, v, n
    <3>3. \A l \in DOMAIN v : l < n => ~Is(v[l], "spawn", i)
      BY <2>2, <3>1 DEF Has, s
    <3>4. i \in held => \E l \in DOMAIN v : l < n /\ Is(v[l], "kill", i)
      BY <2>2, <3>1 DEF Has, s
    <3>5. Waits(v, i, op[t].eph, held)
      BY <1>4, <3>1, <3>2, <3>3, <3>4 DEF Waits, Is
    <3> QED BY <3>5 DEF v, s
  <2>4. \A s \in Tasks : Spawning(s, i)' <=> s = t
    BY <1>7, <1>8, <1>9, <2>1 DEF Spawning, HasId
  <2>5. i \notin mirror'
    BY <1>9, <2>1
  <2>6. Waits(req[cur], i, op[t].eph, held)'
    BY <1>6, <1>8, <1>9, <2>3
  <2> QED BY <1>8, <1>12, <2>4, <2>5, <2>6 DEF PaneFollowed
<1> QED BY <1>11, <1>12

LEMMA KillSilent ==
  ASSUME NEW p \in Ids
  PROVE  /\ <<Kill(p)>> \in Seq(Msgs) /\ \A i : i # p => Silent(<<Kill(p)>>, i)
         /\ Has(<<Kill(p)>>, "kill", p) /\ ~Has(<<Kill(p)>>, "spawn", p)
<1>1. PICK m \in Msgs : m = Kill(p) /\ m.k = "kill" /\ m.id = p
  <2>1. Kill(p) \in [k : {"kill"}, id : Ids]
    BY DEF Kill
  <2>2. Kill(p) \in Msgs
    BY <2>1 DEF Msgs
  <2> QED BY <2>2 DEF Kill
<1> QED BY <1>1, OneSilent DEF Is

(* An answer is taken: pane i is mirrored, and the layout saved. *)
LEMMA MirroredFollowed ==
  ASSUME TypeOK, DataOK, OneLink, Numbers, link = "up", conn[cur] = "open",
         NEW t \in Tasks, op[t].pc = "answered", op[t].conn = cur,
         PaneFollowed(op[t].id), op' = [op EXCEPT ![t] = NoOp], Mirrored(t),
         wins' \in Layouts, req' = Save(<<>>), UNCHANGED <<cur, held, ephemeral, dying, ev>>,
         NEW i \in Ids, i = op[t].id
  PROVE  PaneFollowed(i)'
<1>1. Spawning(t, i) /\ Answered(req[cur], i, op[t].eph)
  BY DEF Spawning, HasId, PaneFollowed
<1>2. i \notin mirror /\ i \notin mirrorEph /\ \A s \in Tasks : Spawning(s, i) => s = t
  BY OneSpawner DEF HasId, TypeOK
<1>3. \A s \in Tasks : ~Spawning(s, i)'
  <2>1. \A s \in Tasks : op'[s] = IF s = t THEN NoOp ELSE op[s]
    BY DEF DataOK
  <2> QED BY <1>2, <2>1 DEF Spawning, HasId, NoOp
<1>4. i \in mirror' /\ (i \in mirrorEph' <=> op[t].eph)
  BY <1>2 DEF Mirrored
<1>5. Same(req[cur], req'[cur], i)
  BY NothingSilent, SavedSame
<1>6. Silent(req'[cur], i)
  BY <1>1, <1>5 DEF Answered, Same
<1>7. /\ ~Has(req'[cur], "spawn", i) /\ ~Has(req'[cur], "kill", i) /\ ~Has(req'[cur], "eph", i)
  BY <1>6, SilentHas
<1>8. i \in held => (i \in ephemeral' <=> i \in mirrorEph')
  BY <1>1, <1>4 DEF Answered
<1>9. i \notin held => Pending(i)'
  BY <1>1 DEF Answered, Pending
<1>10. Known(req[cur], i)'
  BY <1>7, <1>8, <1>9 DEF Known, Flagged
<1> QED BY <1>3, <1>4, <1>10 DEF PaneFollowed

LEMMA FinishNewFollowed ==
  ASSUME IInv, Followed, NEW t \in Tasks, FinishNew(t)
  PROVE  Followed'
<1>0. TypeOK /\ DataOK /\ Numbers /\ OneLink
  BY DEF IInv
<1>1. SUFFICES ASSUME link = "up", conn[cur] = "open", NEW j \in Ids \ strays'
               PROVE  PaneFollowed(j)'
  BY DEF FinishNew, Followed
<1>2. op[t].pc = "answered" /\ HasId(t) /\ op[t].id \in Ids
  BY <1>0, OpType DEF FinishNew, HasId
<1>3. j \notin strays /\ (j = op[t].id => op[t].conn = cur)
  BY <1>1 DEF FinishNew, Returned
<1>4. PaneFollowed(j)
  BY <1>1, <1>3 DEF Followed
<1>5. wins' \in Layouts
  BY <1>0, <1>2, NewPane, AddSingleSound DEF FinishNew, DataOK
<1>6. /\ op' = [op EXCEPT ![t] = NoOp] /\ Mirrored(t) /\ req' = Save(<<>>)
      /\ UNCHANGED <<cur, held, ephemeral, dying, ev>>
  BY DEF FinishNew, Returned
<1>7. CASE j = op[t].id
  BY <1>0, <1>1, <1>2, <1>3, <1>4, <1>5, <1>6, <1>7, MirroredFollowed
<1>8. CASE j # op[t].id
  <2>1. Same(req[cur], req'[cur], j)
    BY <1>0, <1>1, <1>5, <1>6, NothingSilent, SavedSame
  <2>2. (j \in mirror' <=> j \in mirror) /\ (j \in mirrorEph' <=> j \in mirrorEph)
    BY <1>6, <1>8 DEF Mirrored
  <2> QED BY <1>0, <1>4, <1>6, <1>8, <2>1, <2>2, Forgotten, MuxKept
<1> QED BY <1>7, <1>8

LEMMA FinishSplitFollowed ==
  ASSUME IInv, Followed, NEW t \in Tasks, FinishSplit(t)
  PROVE  Followed'
<1>0. TypeOK /\ DataOK /\ Numbers /\ OneLink
  BY DEF IInv
<1>1. SUFFICES ASSUME link = "up", conn[cur] = "open", NEW j \in Ids \ strays'
               PROVE  PaneFollowed(j)'
  BY DEF FinishSplit, Followed
<1>2. op[t].pc = "answered" /\ HasId(t) /\ op[t].id \in Ids
  BY <1>0, OpType DEF FinishSplit, HasId
<1>3. j \notin strays /\ (j = op[t].id => op[t].conn = cur)
  BY <1>1 DEF FinishSplit, Returned
<1>4. PaneFollowed(j)
  BY <1>1, <1>3 DEF Followed
<1>5. /\ op' = [op EXCEPT ![t] = NoOp]
      /\ UNCHANGED <<cur, held, ephemeral, dying, ev>>
  BY DEF FinishSplit, Returned
<1>6. CASE op[t].target \in Members(wins)
  <2>1. Mirrored(t) /\ req' = Save(<<>>) /\ wins' = Split(wins, op[t].target, op[t].id)
    BY <1>6 DEF FinishSplit
  <2>2. wins' \in Layouts
    <3>1. op[t].target # None
      BY DEF FinishSplit
    <3> QED BY <1>0, <1>2, <2>1, <3>1, NewPane, SplitSound DEF DataOK
  <2>3. CASE j = op[t].id
    BY <1>0, <1>1, <1>2, <1>3, <1>4, <1>5, <2>1, <2>2, <2>3, MirroredFollowed
  <2>4. CASE j # op[t].id
    <3>1. Same(req[cur], req'[cur], j)
      BY <1>0, <1>1, <2>1, <2>2, NothingSilent, SavedSame
    <3>2. (j \in mirror' <=> j \in mirror) /\ (j \in mirrorEph' <=> j \in mirrorEph)
      BY <2>1, <2>4 DEF Mirrored
    <3> QED BY <1>0, <1>4, <1>5, <2>4, <3>1, <3>2, Forgotten, MuxKept
  <2> QED BY <2>3, <2>4
<1>7. CASE op[t].target \notin Members(wins)
  <2> DEFINE u == <<Kill(op[t].id)>>
  <2>1. /\ mirror' = mirror \ {op[t].id} /\ mirrorEph' = mirrorEph \ {op[t].id}
        /\ req' = Posted(u)
    BY <1>7 DEF FinishSplit
  <2>2. /\ u \in Seq(Msgs) /\ \A i : i # op[t].id => Silent(u, i)
        /\ Has(u, "kill", op[t].id) /\ ~Has(u, "spawn", op[t].id)
    BY <1>2, KillSilent
  <2> HIDE DEF u
  <2>3. /\ req[cur] \in Seq(Msgs) /\ req'[cur] = req[cur] \o u
        /\ \A i : Silent(u, i) => Same(req[cur], req'[cur], i)
    BY <1>0, <1>1, <2>1, <2>2, PostedSame
  <2>4. CASE j = op[t].id
    <3>1. Spawning(t, j) /\ Answered(req[cur], j, op[t].eph)
      BY <1>2, <1>3, <1>4, <2>4 DEF Spawning, PaneFollowed
    <3>2. ~Has(req[cur], "spawn", j)
      BY <3>1, SilentHas DEF Answered
    <3>3. ~Has(req'[cur], "spawn", j) /\ Has(req'[cur], "kill", j)
      BY <2>2, <2>3, <2>4, <3>2, JoinedHas
    <3>4. \A s \in Tasks : ~Spawning(s, j)'
      <4>1. \A s \in Tasks : op'[s] = IF s = t THEN NoOp ELSE op[s]
        BY <1>0, <1>5 DEF DataOK
      <4>2. \A s \in Tasks : Spawning(s, j) => s = t
        BY <1>0, <1>2, <2>4, OneSpawner
      <4> QED BY <1>5, <4>1, <4>2 DEF Spawning, HasId, NoOp
    <3>5. j \notin mirror'
      BY <2>1, <2>4
    <3>6. Unknown(req[cur], j)'
      BY <1>5, <3>3 DEF Unknown
    <3> QED BY <3>4, <3>5, <3>6 DEF PaneFollowed
  <2>5. CASE j # op[t].id
    <3>1. Same(req[cur], req'[cur], j)
      BY <2>2, <2>3, <2>5
    <3>2. (j \in mirror' <=> j \in mirror) /\ (j \in mirrorEph' <=> j \in mirrorEph)
      BY <2>1, <2>5
    <3> QED BY <1>0, <1>4, <1>5, <2>5, <3>1, <3>2, Forgotten, MuxKept
  <2> QED BY <2>4, <2>5
<1> QED BY <1>6, <1>7

LEMMA OpFollowed ==
  ASSUME IInv, Followed, NEW t \in Tasks, OpStep(t)
  PROVE  Followed'
<1>0. TypeOK /\ DataOK /\ Numbers /\ OneLink
  BY DEF IInv
<1>1. ASSUME EnsureFails(t) PROVE Followed'
  BY <1>1 DEF EnsureFails, Followed
<1>2. ASSUME SpawnTimesOut(t) PROVE Followed'
  <2> SUFFICES ASSUME link = "up", conn[cur] = "open", NEW j \in Ids \ strays'
               PROVE  PaneFollowed(j)'
    BY <1>2 DEF SpawnTimesOut, Followed
  <2>1. j \notin strays /\ j # op[t].id /\ PaneFollowed(j)
    BY <1>2 DEF SpawnTimesOut, Followed
  <2>2. op' = [op EXCEPT ![t] = NoOp]
        /\ UNCHANGED <<cur, held, ephemeral, dying, ev, mirror, mirrorEph, req>>
    BY <1>2 DEF SpawnTimesOut, Failed
  <2>3. Same(req[cur], req'[cur], j)
    BY <2>2, SameRefl
  <2> QED BY <1>0, <2>1, <2>2, <2>3, Forgotten, MuxKept
<1> QED BY <1>1, <1>2, SpawnFollowed, FinishNewFollowed, FinishSplitFollowed DEF OpStep

---------------------------------------------------------------------------
(* A command changes no spawn that has begun. *)
LEMMA UserSpawning ==
  ASSUME DataOK, NEW t \in Tasks, UserStep(t), NEW i
  PROVE  \A s \in Tasks : /\ Spawning(s, i)' <=> Spawning(s, i)
                          /\ Spawning(s, i) => op'[s].pc = op[s].pc /\ op'[s].eph = op[s].eph
<1>1. op[t].pc = "idle"
  BY DEF UserStep, Connect, TmuxStarts, New, SplitPane, Close, BreakPane, SetKind, Select,
         Command, Idle
<1>2. cur' = cur
  BY UserFrame
<1>3. op' = op \/ (op'[t].pc = "ensuring" /\ \A s \in Tasks \ {t} : op'[s] = op[s])
  BY UserOps
<1> QED BY <1>1, <1>2, <1>3 DEF Spawning, HasId

(* A mirrored pane is not being spawned. *)
LEMMA MirroredNotSpawning ==
  ASSUME Numbers, NEW i \in mirror
  PROVE  \A t \in Tasks : ~Spawning(t, i)
  BY DEF Numbers, Spawning

(* A pane is closed. *)
LEMMA CloseFollowed ==
  ASSUME IInv, Followed, NEW t \in Tasks, NEW p \in Ids, UserStep(t), Close(t, p)
  PROVE  Followed'
<1>0. TypeOK /\ DataOK /\ Numbers /\ OneLink /\ Saved
  BY DEF IInv
<1>1. SUFFICES ASSUME link = "up", conn[cur] = "open", NEW j \in Ids \ strays
               PROVE  PaneFollowed(j)'
  BY DEF Close, Followed
<1>2. PaneFollowed(j)
  BY <1>1 DEF Followed
<1> DEFINE u == <<Kill(p)>>
<1>3. /\ u \in Seq(Msgs) /\ \A i : i # p => Silent(u, i)
      /\ Has(u, "kill", p) /\ ~Has(u, "spawn", p)
  BY KillSilent
<1>4. Forget(p) /\ Removed(p, u) /\ UNCHANGED <<cur, held, ephemeral, dying, ev>>
  BY DEF Close
<1>5. p \in mirror
  BY <1>0 DEF Close, Numbers
<1> HIDE DEF u
<1>6. /\ \A i : Silent(u, i) => Same(req[cur], req'[cur], i)
      /\ Has(req'[cur], "spawn", p) <=> Has(req[cur], "spawn", p)
      /\ Has(req'[cur], "kill", p)
  <2>1. wins' \in Layouts
    BY <1>0, <1>4, RemovePaneSound DEF Removed, DataOK
  <2>2. CASE req' = Save(u)
    BY <1>0, <1>1, <1>3, <2>1, <2>2, SavedSame
  <2>3. CASE req' = Posted(u)
    <3>1. /\ req[cur] \in Seq(Msgs) /\ req'[cur] = req[cur] \o u
          /\ \A i : Silent(u, i) => Same(req[cur], req'[cur], i)
      BY <1>0, <1>1, <1>3, <2>3, PostedSame
    <3>2. \A k, i : Has(req'[cur], k, i) <=> Has(req[cur], k, i) \/ Has(u, k, i)
      BY <1>3, <3>1, JoinedHas
    <3> QED BY <1>3, <3>1, <3>2
  <2> QED BY <1>4, <2>2, <2>3 DEF Removed
<1>7. \A s \in Tasks : /\ Spawning(s, j)' <=> Spawning(s, j)
                       /\ Spawning(s, j) => op'[s].pc = op[s].pc /\ op'[s].eph = op[s].eph
  BY <1>0, UserSpawning
<1>8. CASE j = p
  <2>1. ~Has(req[cur], "spawn", p)
    BY <1>2, <1>5, <1>8 DEF PaneFollowed, Known
  <2>2. j \notin mirror'
    BY <1>4, <1>8 DEF Forget
  <2>3. Unknown(req[cur], j)'
    BY <1>4, <1>6, <1>8, <2>1 DEF Unknown
  <2>4. \A s \in Tasks : ~Spawning(s, j)'
    BY <1>0, <1>5, <1>7, <1>8, MirroredNotSpawning
  <2> QED BY <2>2, <2>3, <2>4 DEF PaneFollowed
<1>9. CASE j # p
  <2>1. Same(req[cur], req'[cur], j)
    BY <1>3, <1>6, <1>9
  <2>2. (j \in mirror' <=> j \in mirror) /\ (j \in mirrorEph' <=> j \in mirrorEph)
    BY <1>4, <1>9 DEF Forget
  <2> QED BY <1>2, <1>4, <1>7, <2>1, <2>2, MuxKept
<1> QED BY <1>8, <1>9

(* The kind of a window's panes is changed. *)
LEMMA SetKindFollowed ==
  ASSUME IInv, Followed, NEW t \in Tasks, NEW w \in Ids, NEW e \in BOOLEAN, UserStep(t),
         SetKind(t, w, e)
  PROVE  Followed'
<1>0. TypeOK /\ DataOK /\ Numbers /\ OneLink
  BY DEF IInv
<1>1. SUFFICES ASSUME link = "up", conn[cur] = "open", NEW j \in Ids \ strays
               PROVE  PaneFollowed(j)'
  BY DEF SetKind, Followed
<1>2. PaneFollowed(j)
  BY <1>1 DEF Followed
<1>3. wins[w] \in SUBSET Ids /\ wins[w] \subseteq mirror
  BY <1>0 DEF TypeOK, Numbers, Members
<1> DEFINE u == [n \in DOMAIN SetToSeq(wins[w]) |-> SetEph(SetToSeq(wins[w])[n], e)]
<1>4. u \in Seq(Msgs)
  BY <1>3, EachFlip
<1>5. /\ ~Has(u, "spawn", j) /\ ~Has(u, "kill", j)
      /\ j \notin wins[w] => Silent(u, j)
      /\ j \in wins[w] => \E n \in DOMAIN u :
           /\ Is(u[n], "eph", j) /\ u[n].eph = e
           /\ \A m \in DOMAIN u : m > n => ~Is(u[m], "eph", j)
  BY <1>3, EachFlipAbout
<1>6. req' = Posted(u)
  BY DEF SetKind, Each
<1> HIDE DEF u
<1>7. UNCHANGED <<cur, held, ephemeral, dying, ev, mirror>>
      /\ mirrorEph' = IF e THEN mirrorEph \cup (wins[w] \cap mirror) ELSE mirrorEph \ wins[w]
  BY DEF SetKind
<1>8. /\ req[cur] \in Seq(Msgs) /\ req'[cur] = req[cur] \o u
      /\ \A i : Silent(u, i) => Same(req[cur], req'[cur], i)
  BY <1>0, <1>1, <1>4, <1>6, PostedSame
<1>9. \A s \in Tasks : /\ Spawning(s, j)' <=> Spawning(s, j)
                       /\ Spawning(s, j) => op'[s].pc = op[s].pc /\ op'[s].eph = op[s].eph
  BY <1>0, UserSpawning
<1>10. CASE j \in wins[w]
  <2>1. j \in mirror /\ j \in mirror' /\ (j \in mirrorEph' <=> e)
    BY <1>3, <1>7, <1>10
  <2>2. Known(req[cur], j)
    BY <1>2, <2>1 DEF PaneFollowed
  <2>3. ~Has(req'[cur], "spawn", j) /\ ~Has(req'[cur], "kill", j)
    BY <1>4, <1>5, <1>8, <2>2, JoinedHas DEF Known
  <2>4. Flagged(req'[cur], j, ephemeral', mirrorEph')
    <3>1. PICK n \in DOMAIN u : /\ Is(u[n], "eph", j) /\ u[n].eph = e
                                /\ \A m \in DOMAIN u : m > n => ~Is(u[m], "eph", j)
      BY <1>5, <1>10
    <3> QED BY <1>4, <1>8, <2>1, <3>1, FlagDecided
  <2>5. Known(req[cur], j)'
    BY <1>7, <2>2, <2>3, <2>4 DEF Known, Pending
  <2>6. \A s \in Tasks : ~Spawning(s, j)'
    BY <1>0, <1>9, <2>1, MirroredNotSpawning
  <2> QED BY <2>1, <2>5, <2>6 DEF PaneFollowed
<1>11. CASE j \notin wins[w]
  <2>1. Same(req[cur], req'[cur], j)
    BY <1>5, <1>8, <1>11
  <2>2. (j \in mirror' <=> j \in mirror) /\ (j \in mirrorEph' <=> j \in mirrorEph)
    BY <1>7, <1>11
  <2> QED BY <1>2, <1>7, <1>9, <2>1, <2>2, MuxKept
<1> QED BY <1>10, <1>11

LEMMA UserFollowed ==
  ASSUME IInv, Followed, NEW t \in Tasks, UserStep(t)
  PROVE  Followed'
<1>0. TypeOK /\ DataOK /\ Numbers /\ OneLink
  BY DEF IInv
<1>1. ASSUME UNCHANGED <<mirror, mirrorEph, req, held, ephemeral, dying>> PROVE Followed'
  <2> SUFFICES ASSUME link = "up", conn[cur] = "open", NEW j \in Ids \ strays
               PROVE  PaneFollowed(j)'
    BY UserFrame DEF Followed
  <2>1. PaneFollowed(j)
    BY DEF Followed
  <2>2. Same(req[cur], req'[cur], j)
    BY <1>1, UserFrame, SameRefl
  <2> QED BY <1>0, <1>1, <2>1, <2>2, UserFrame, UserSpawning, MuxKept
<1>2. ASSUME NEW p \in Ids, BreakPane(t, p) PROVE Followed'
  <2> SUFFICES ASSUME link = "up", conn[cur] = "open", NEW j \in Ids \ strays
               PROVE  PaneFollowed(j)'
    BY UserFrame DEF Followed
  <2>1. PaneFollowed(j)
    BY DEF Followed
  <2>2. wins' \in Layouts /\ req' = Save(<<>>)
    <3>1. RemovePane(wins, p) \in Layouts /\ \A i \in Ids : p \notin RemovePane(wins, p)[i]
      BY <1>0, RemovePaneSound DEF RemovePane, DataOK
    <3> QED BY <1>2, <3>1, AddSingleSound DEF BreakPane
  <2>3. Same(req[cur], req'[cur], j)
    BY <1>0, <2>2, NothingSilent, SavedSame
  <2>4. UNCHANGED <<cur, held, ephemeral, dying, ev, mirror, mirrorEph>>
    BY <1>2 DEF BreakPane
  <2> QED BY <1>0, <2>1, <2>3, <2>4, UserSpawning, MuxKept
<1> QED BY <1>1, <1>2, CloseFollowed, SetKindFollowed
        DEF UserStep, Connect, TmuxStarts, New, SplitPane, Select

---------------------------------------------------------------------------
(* An adoption mirrors the survivors and asks for the end of the others. *)
LEMMA AdoptFollowed ==
  ASSUME IInv, NewConns, Listed, Adopt
  PROVE  Followed'
<1>0. TypeOK /\ DataOK /\ OneLink
  BY DEF IInv
<1>1. SUFFICES ASSUME conn[cur] = "open", NEW j \in Ids \ strays
               PROVE  PaneFollowed(j)'
  BY DEF Adopt, Followed
<1>2. /\ j \in held => j \in listed.panes /\ (j \in ephemeral <=> j \in listed.eph)
      /\ j \in listed.panes \ held => Pending(j)
  BY <1>1 DEF Adopt, Listed
<1>3. \A t \in Tasks : ~Spawning(t, j)
  BY DEF Adopt, NewConns, Spawning
<1>4. listed.eph \in SUBSET Ids /\ listed.panes \in SUBSET Ids /\ listed.blob \in Layouts
  BY <1>0 DEF DataOK
<1>5. wins' \in Layouts
  <2>1. Survivors(listed) \in SUBSET Ids
    BY <1>4 DEF Survivors
  <2> QED BY <1>4, <2>1, ReconcileSound DEF Adopt
<1> DEFINE u == Each(Kill, listed.eph)
<1>6. req'[cur] = u \o <<SetMeta(wins')>>
  <2>1. cur \in Conns
    BY <1>0 DEF Adopt, OneLink
  <2> QED BY <1>0, <1>1, <2>1 DEF Adopt, DataOK
<1>7. /\ u \in Seq(Msgs) /\ ~Has(u, "spawn", j) /\ ~Has(u, "eph", j)
      /\ Has(u, "kill", j) <=> j \in listed.eph
  BY <1>4, EachKill, EachKillAbout
<1> HIDE DEF u
<1>8. /\ ~Has(req'[cur], "spawn", j) /\ ~Has(req'[cur], "eph", j)
      /\ Has(req'[cur], "kill", j) <=> j \in listed.eph
  BY <1>5, <1>6, <1>7, MetaSilent
<1>9. /\ UNCHANGED <<cur, op, held, ephemeral, dying, ev>>
      /\ mirror' = listed.panes \ listed.eph /\ mirrorEph' = {}
  BY DEF Adopt, Survivors
<1>10. \A t \in Tasks : ~Spawning(t, j)'
  BY <1>3, <1>9 DEF Spawning, HasId
<1>11. ASSUME j \in mirror' PROVE Known(req[cur], j)'
  <2>1. j \notin held => Pending(j)'
    BY <1>2, <1>9, <1>11 DEF Pending
  <2>2. Flagged(req'[cur], j, ephemeral', mirrorEph') \/ j \notin held
    BY <1>2, <1>8, <1>9, <1>11 DEF Flagged
  <2> QED BY <1>8, <1>9, <1>11, <2>1, <2>2 DEF Known
<1>12. ASSUME j \notin mirror' PROVE Unknown(req[cur], j)'
  BY <1>2, <1>8, <1>9, <1>12 DEF Unknown
<1> QED BY <1>10, <1>11, <1>12 DEF PaneFollowed

(* The pump takes the exit of a pane. *)
LEMMA ExitFollowed ==
  ASSUME IInv, Followed, PumpExit
  PROVE  Followed'
<1>0. TypeOK /\ DataOK /\ Numbers /\ OneLink
  BY DEF IInv
<1>1. SUFFICES ASSUME link = "up", conn[cur] = "open", NEW j \in Ids \ strays'
               PROVE  PaneFollowed(j)'
  BY DEF PumpExit, Followed
<1>2. ev # <<>> /\ ev \in Seq(Ids \cup {None}) /\ ev' = Tail(ev) /\ Head(ev) # None
  BY <1>0 DEF PumpExit, DataOK
<1>3. PICK i \in Ids : i = Head(ev)
  BY <1>2
<1>4. UNCHANGED <<cur, op, held, ephemeral, dying>>
  BY DEF PumpExit
<1>5. IF i \in mirror THEN Forget(i) /\ Removed(i, <<>>)
                      ELSE UNCHANGED <<mirror, mirrorEph, wins, req>>
  BY <1>3 DEF PumpExit
<1>6. /\ j \notin strays
      /\ j = i => i \notin held /\ \A t \in Tasks : ~(op[t].pc = "answered" /\ op[t].id = i)
  BY <1>1, <1>3 DEF PumpExit
<1>7. PaneFollowed(j)
  BY <1>1, <1>6 DEF Followed
<1>8. Same(req[cur], req'[cur], j)
  <2>1. CASE i \notin mirror
    BY <1>4, <1>5, <2>1, SameRefl
  <2>2. CASE req' = Save(<<>>) /\ i \in mirror
    <3>1. wins' \in Layouts
      BY <1>0, <1>5, <2>2, RemovePaneSound DEF Removed, DataOK
    <3> QED BY <1>0, <1>1, <2>2, <3>1, NothingSilent, SavedSame
  <2>3. CASE req' = Posted(<<>>)
    BY <1>0, <1>1, <2>3, NothingSilent, PostedSame
  <2> QED BY <1>5, <2>1, <2>2, <2>3 DEF Removed
<1>9. \A t \in Tasks : /\ Spawning(t, j)' <=> Spawning(t, j)
                       /\ Spawning(t, j) => op'[t].pc = op[t].pc /\ op'[t].eph = op[t].eph
  BY <1>4 DEF Spawning, HasId
<1>10. CASE j # i
  <2>1. (j \in mirror' <=> j \in mirror) /\ (j \in mirrorEph' <=> j \in mirrorEph)
    BY <1>5, <1>10 DEF Forget
  <2>2. Pending(j) => Pending(j)'
    <3>1. ASSUME NEW n \in DOMAIN ev, ev[n] = j PROVE Pending(j)'
      <4>1. n - 1 \in DOMAIN ev' /\ ev'[n - 1] = j
        BY <1>2, <1>3, <1>10, <3>1
      <4> QED BY <4>1 DEF Pending
    <3> QED BY <1>4, <3>1 DEF Pending
  <2> QED BY <1>4, <1>7, <1>8, <1>9, <2>1, <2>2, PaneKept DEF Known, Answered, Unknown, PaneFollowed
<1>11. CASE j = i
  <2>1. j \notin held' /\ j \notin mirror'
    BY <1>4, <1>5, <1>6, <1>11 DEF Forget
  <2>2. ASSUME NEW t \in Tasks, Spawning(t, j)
        PROVE  op[t].pc = "waiting" /\ Waits(req[cur], j, op[t].eph, held)'
    <3>1. op[t].pc = "waiting"
      BY <1>6, <1>11, <2>2 DEF Spawning, HasId
    <3>2. Waits(req[cur], j, op[t].eph, held)
      BY <1>7, <2>2, <3>1 DEF PaneFollowed
    <3> QED BY <1>4, <1>8, <3>1, <3>2 DEF Same
  <2>3. ASSUME \A t \in Tasks : ~Spawning(t, j) PROVE Unknown(req[cur], j)'
    <3>1. ~Has(req[cur], "spawn", j)
      BY <1>7, <2>3 DEF PaneFollowed, Known, Unknown
    <3> QED BY <1>4, <1>8, <2>1, <3>1 DEF Unknown, Same
  <2> QED BY <1>4, <1>9, <2>1, <2>2, <2>3 DEF PaneFollowed
<1> QED BY <1>10, <1>11

---------------------------------------------------------------------------
(* A request is handled that is not about pane j, or not of this link. *)
LEMMA HandledSame ==
  ASSUME DataOK, NEW c \in Conns, NEW k, Next1(c, k), cur \in Conns, cur' = cur, NEW j,
         c # cur \/ k = "meta" \/ Head(req[c]).id # j
  PROVE  Same(req[cur], req'[cur], j)
<1>1. /\ req' = [req EXCEPT ![c] = Tail(@)] /\ req[c] \in Seq(Msgs) /\ req[c] # <<>>
      /\ Head(req[c]).k = k
  BY HeadType
<1>2. CASE c # cur
  <2>1. req'[cur] = req[cur]
    BY <1>1, <1>2 DEF DataOK
  <2> QED BY <2>1, SameRefl
<1>3. CASE c = cur
  <2>1. req'[cur] = Tail(req[cur])
    BY <1>1, <1>3 DEF DataOK
  <2> QED BY <1>1, <1>3, <2>1, SameTail
<1> QED BY <1>2, <1>3

(* ptyd handles a spawn. *)
LEMMA HandleSpawnFollowed ==
  ASSUME IInv, Followed, NEW c \in Conns, HandleSpawn(c)
  PROVE  Followed'
<1>0. TypeOK /\ DataOK /\ Numbers /\ OneLink
  BY DEF IInv
<1>1. SUFFICES ASSUME link = "up", conn[cur] = "open", NEW j \in Ids \ strays'
               PROVE  PaneFollowed(j)'
  BY DEF HandleSpawn, Followed
<1>2. /\ Next1(c, "spawn") /\ cur \in Conns
      /\ UNCHANGED <<cur, mirror, mirrorEph, dying, ev>>
  BY <1>0, <1>1 DEF HandleSpawn, OneLink
<1>3. /\ req' = [req EXCEPT ![c] = Tail(@)] /\ req[c] \in Seq(Msgs) /\ req[c] # <<>>
      /\ Head(req[c]) \in Msgs /\ Head(req[c]).k = "spawn"
  BY <1>0, <1>2, HeadType
<1>4. PICK r \in Msgs : r = Head(req[c]) /\ r.k = "spawn" /\ r.id \in Ids /\ r.eph \in BOOLEAN
  BY <1>3 DEF Msgs
<1>5. /\ r.id \notin held => /\ held' = held \cup {r.id}
                             /\ ephemeral' = IF r.eph THEN ephemeral \cup {r.id} ELSE ephemeral
                             /\ c # cur => r.id \in strays'
      /\ r.id \in held => held' = held /\ ephemeral' = ephemeral
  BY <1>1, <1>4 DEF HandleSpawn, Stale
<1>6. \A t \in Tasks :
        IF op[t].pc = "waiting" /\ op[t].id = r.id /\ op[t].conn = c
        THEN op'[t] = IF r.id \notin held THEN [op[t] EXCEPT !.pc = "answered"] ELSE NoOp
        ELSE op'[t] = op[t]
  BY <1>4 DEF HandleSpawn
<1>7. strays \subseteq strays' /\ PaneFollowed(j)
  BY <1>1 DEF HandleSpawn, Stale, Followed
<1>8. CASE j # r.id \/ c # cur
  <2>1. Same(req[cur], req'[cur], j)
    BY <1>0, <1>2, <1>4, <1>8, HandledSame
  <2>2. \A t \in Tasks : /\ Spawning(t, j)' <=> Spawning(t, j)
                         /\ Spawning(t, j) => op'[t].pc = op[t].pc /\ op'[t].eph = op[t].eph
    <3> SUFFICES ASSUME NEW t \in Tasks
                 PROVE  /\ Spawning(t, j)' <=> Spawning(t, j)
                        /\ Spawning(t, j) => op'[t].pc = op[t].pc /\ op'[t].eph = op[t].eph
      OBVIOUS
    <3>1. CASE op[t].pc = "waiting" /\ op[t].id = r.id /\ op[t].conn = c
      <4>1. ~Spawning(t, j)
        BY <1>8, <3>1 DEF Spawning
      <4>2. [op[t] EXCEPT !.pc = "answered"].id = op[t].id
            /\ [op[t] EXCEPT !.pc = "answered"].conn = op[t].conn
        BY <1>0, <3>1 DEF DataOK, Ops
      <4>3. op'[t] = NoOp \/ op'[t] = [op[t] EXCEPT !.pc = "answered"]
        BY <1>6, <3>1
      <4>4. ~Spawning(t, j)'
        <5>1. CASE op'[t] = NoOp
          BY <5>1 DEF Spawning, HasId, NoOp
        <5>2. CASE op'[t] = [op[t] EXCEPT !.pc = "answered"]
          <6>1. op'[t].id = r.id /\ op'[t].conn = c
            BY <3>1, <4>2, <5>2
          <6> QED BY <1>2, <1>8, <6>1 DEF Spawning
        <5> QED BY <4>3, <5>1, <5>2
      <4> QED BY <4>1, <4>4
    <3>2. CASE op'[t] = op[t]
      BY <1>2, <3>2 DEF Spawning, HasId
    <3> QED BY <1>6, <3>1, <3>2
  <2>3. /\ j \in held' <=> j \in held
        /\ j \in ephemeral' <=> j \in ephemeral
    BY <1>1, <1>5, <1>8
  <2>4. Pending(j)' <=> Pending(j)
    BY <1>2 DEF Pending
  <2>5. j \notin held' /\ (j \in held \/ Pending(j)) => Pending(j)'
    BY <2>3, <2>4
  <2> QED BY <1>2, <1>7, <2>1, <2>2, <2>3, <2>5, PaneKept
<1>9. CASE j = r.id /\ c = cur
  <2>1. req'[cur] = Tail(req[cur]) /\ req[cur] \in Seq(Msgs) /\ req[cur] # <<>>
        /\ r = Head(req[cur])
    BY <1>0, <1>3, <1>4, <1>9 DEF DataOK
  <2>2. Is(r, "spawn", j) /\ Has(req[cur], "spawn", j)
    BY <1>4, <1>9, <2>1, TailHas DEF Is
  <2>3. j \notin mirror
    BY <1>7, <2>2 DEF PaneFollowed, Known
  <2>4. \A t \in Tasks : Spawning(t, j) =>
          op[t].pc = "waiting" /\ Waits(req[cur], j, op[t].eph, held)
    BY <1>7, <2>2, SilentHas DEF PaneFollowed, Answered
  <2>5. \E t \in Tasks : Spawning(t, j)
    BY <1>7, <2>2, <2>3 DEF PaneFollowed, Unknown
  <2>6. \A t \in Tasks : Spawning(t, j) =>
          j \notin held /\ r.eph = op[t].eph /\ Silent(Tail(req[cur]), j)
    BY <2>1, <2>2, <2>4, TailWaits
  <2>7. j \in held' /\ (j \in ephemeral' <=> r.eph) /\ Silent(req'[cur], j)
    BY <1>0, <1>5, <1>9, <2>1, <2>5, <2>6 DEF TypeOK
  <2>8. ASSUME NEW t \in Tasks, Spawning(t, j)'
        PROVE  op'[t].pc = "answered" /\ op'[t].eph = r.eph
    <3>1. Spawning(t, j)
      <4>1. CASE op'[t] = op[t]
        BY <1>2, <2>8, <4>1 DEF Spawning, HasId
      <4>2. CASE op[t].pc = "waiting" /\ op[t].id = r.id /\ op[t].conn = c
        BY <1>9, <4>2 DEF Spawning, HasId
      <4> QED BY <1>6, <4>1, <4>2
    <3>2. op[t].pc = "waiting" /\ op[t].id = r.id /\ op[t].conn = c /\ r.id \notin held
          /\ r.eph = op[t].eph
      BY <1>9, <2>4, <2>6, <3>1 DEF Spawning
    <3>3. op'[t] = [op[t] EXCEPT !.pc = "answered"]
      BY <1>6, <3>2
    <3>4. [op[t] EXCEPT !.pc = "answered"].pc = "answered"
          /\ [op[t] EXCEPT !.pc = "answered"].eph = op[t].eph
      BY <1>0, <3>2 DEF DataOK, Ops
    <3> QED BY <3>2, <3>3, <3>4
  <2>9. \E t \in Tasks : Spawning(t, j)'
    <3>1. PICK t \in Tasks : Spawning(t, j)
      BY <2>5
    <3>2. op[t].pc = "waiting" /\ op[t].id = r.id /\ op[t].conn = c /\ r.id \notin held
      BY <1>9, <2>4, <2>6, <3>1 DEF Spawning
    <3>3. op'[t] = [op[t] EXCEPT !.pc = "answered"]
      BY <1>6, <3>2
    <3>4. [op[t] EXCEPT !.pc = "answered"].pc = "answered"
          /\ [op[t] EXCEPT !.pc = "answered"].id = op[t].id
          /\ [op[t] EXCEPT !.pc = "answered"].conn = op[t].conn
      BY <1>0, <3>2 DEF DataOK, Ops
    <3> QED BY <1>2, <1>9, <3>2, <3>3, <3>4 DEF Spawning, HasId
  <2>10. \A t \in Tasks : Spawning(t, j)' => Answered(req[cur], j, op[t].eph)'
    BY <1>2, <2>7, <2>8 DEF Answered
  <2> QED BY <1>2, <2>3, <2>8, <2>9, <2>10 DEF PaneFollowed
<1> QED BY <1>8, <1>9

(* Panes leave ptyd. *)
LEMMA DroppedFollowed ==
  ASSUME NEW S \in SUBSET Ids, Dropped(S), NEW j \in Ids, PaneFollowed(j),
         Same(req[cur], req'[cur], j), UNCHANGED <<cur, mirror, mirrorEph, op, ev>>
  PROVE  PaneFollowed(j)'
<1>1. \A t \in Tasks : /\ Spawning(t, j)' <=> Spawning(t, j)
                       /\ Spawning(t, j) => op'[t].pc = op[t].pc /\ op'[t].eph = op[t].eph
  BY DEF Spawning, HasId
<1>2. /\ j \in held' => j \in held /\ (j \in ephemeral' <=> j \in ephemeral)
      /\ j \notin held' /\ (j \in held \/ Pending(j)) => Pending(j)'
  BY DroppedPending
<1> QED BY <1>1, <1>2, PaneKept

LEMMA HandleKillFollowed ==
  ASSUME IInv, Followed, NEW c \in Conns, HandleKill(c)
  PROVE  Followed'
<1>0. TypeOK /\ DataOK /\ Numbers /\ OneLink
  BY DEF IInv
<1>1. SUFFICES ASSUME link = "up", conn[cur] = "open", NEW j \in Ids \ strays
               PROVE  PaneFollowed(j)'
  BY DEF HandleKill, Followed
<1>2. /\ Next1(c, "kill") /\ cur \in Conns
      /\ UNCHANGED <<cur, mirror, mirrorEph, ev, op>>
  BY <1>0, <1>1 DEF HandleKill, OneLink
<1>3. /\ req' = [req EXCEPT ![c] = Tail(@)] /\ req[c] \in Seq(Msgs) /\ req[c] # <<>>
      /\ Head(req[c]).k = "kill"
  BY <1>0, <1>2, HeadType
<1> DEFINE S == {Head(req[c]).id} \cap held
<1>4. S \in SUBSET Ids /\ Dropped(S)
  BY <1>0 DEF HandleKill, TypeOK
<1>5. PaneFollowed(j)
  BY <1>1 DEF Followed
<1>6. CASE c # cur \/ Head(req[c]).id # j
  <2>1. Same(req[cur], req'[cur], j)
    BY <1>0, <1>2, <1>6, HandledSame
  <2> QED BY <1>2, <1>4, <1>5, <2>1, DroppedFollowed
<1>7. CASE c = cur /\ Head(req[c]).id = j
  <2>1. req'[cur] = Tail(req[cur]) /\ req[cur] \in Seq(Msgs) /\ req[cur] # <<>>
    BY <1>0, <1>3, <1>7 DEF DataOK
  <2>2. Is(Head(req[cur]), "kill", j) /\ ~Is(Head(req[cur]), "spawn", j) /\ Has(req[cur], "kill", j)
    BY <1>3, <1>7, <2>1, TailHas DEF Is
  <2>3. j \notin mirror
    BY <1>5, <2>2 DEF PaneFollowed, Known
  <2>4. j \notin held'
    BY <1>4, <1>7 DEF Dropped
  <2>5. ASSUME NEW t \in Tasks, Spawning(t, j)
        PROVE  op[t].pc = "waiting" /\ Waits(req'[cur], j, op[t].eph, held')
    <3>1. op[t].pc = "waiting" /\ Waits(req[cur], j, op[t].eph, held)
      BY <1>5, <2>2, <2>5, SilentHas DEF PaneFollowed, Answered
    <3> QED BY <2>1, <2>2, <2>4, <3>1, TailWaits
  <2>6. ASSUME \A t \in Tasks : ~Spawning(t, j) PROVE Unknown(req[cur], j)'
    <3>1. ~Has(req[cur], "spawn", j)
      BY <1>5, <2>3, <2>6 DEF PaneFollowed, Unknown
    <3>2. ~Has(req'[cur], "spawn", j)
      BY <2>1, <3>1, TailHas
    <3> QED BY <1>2, <2>4, <3>2 DEF Unknown
  <2>7. \A t \in Tasks : Spawning(t, j)' <=> Spawning(t, j)
    BY <1>2 DEF Spawning, HasId
  <2> QED BY <1>2, <2>3, <2>5, <2>6, <2>7 DEF PaneFollowed
<1> QED BY <1>6, <1>7

LEMMA HandleSetEphemeralFollowed ==
  ASSUME IInv, Followed, NEW c \in Conns, HandleSetEphemeral(c)
  PROVE  Followed'
<1>0. TypeOK /\ DataOK /\ Numbers /\ OneLink
  BY DEF IInv
<1>1. SUFFICES ASSUME link = "up", conn[cur] = "open", NEW j \in Ids \ strays'
               PROVE  PaneFollowed(j)'
  BY DEF HandleSetEphemeral, Followed
<1>2. /\ Next1(c, "eph") /\ cur \in Conns
      /\ UNCHANGED <<cur, mirror, mirrorEph, ev, op, held, dying>>
  BY <1>0, <1>1 DEF HandleSetEphemeral, OneLink
<1>3. /\ req' = [req EXCEPT ![c] = Tail(@)] /\ req[c] \in Seq(Msgs) /\ req[c] # <<>>
      /\ Head(req[c]) \in Msgs /\ Head(req[c]).k = "eph"
  BY <1>0, <1>2, HeadType
<1>4. PICK r \in Msgs : r = Head(req[c]) /\ r.k = "eph" /\ r.id \in Ids /\ r.eph \in BOOLEAN
  BY <1>3 DEF Msgs
<1>5. /\ ephemeral' = IF r.id \notin held THEN ephemeral
                      ELSE IF r.eph THEN ephemeral \cup {r.id} ELSE ephemeral \ {r.id}
      /\ strays \subseteq strays' /\ (c # cur => r.id \in strays')
  BY <1>1, <1>4 DEF HandleSetEphemeral, Stale
<1>6. PaneFollowed(j)
  BY <1>1, <1>5 DEF Followed
<1>7. \A t \in Tasks : /\ Spawning(t, j)' <=> Spawning(t, j)
                       /\ Spawning(t, j) => op'[t].pc = op[t].pc /\ op'[t].eph = op[t].eph
  BY <1>2 DEF Spawning, HasId
<1>8. CASE j # r.id
  <2>1. Same(req[cur], req'[cur], j)
    BY <1>0, <1>2, <1>4, <1>8, HandledSame
  <2>2. (j \in ephemeral' <=> j \in ephemeral) /\ (Pending(j)' <=> Pending(j))
    BY <1>2, <1>5, <1>8 DEF Pending
  <2> QED BY <1>2, <1>6, <1>7, <2>1, <2>2, PaneKept DEF Known
<1>9. CASE j = r.id
  <2>1. req'[cur] = Tail(req[cur]) /\ req[cur] \in Seq(Msgs) /\ req[cur] # <<>>
        /\ r = Head(req[cur])
    BY <1>0, <1>1, <1>3, <1>4, <1>5, <1>9 DEF DataOK
  <2>2. Is(r, "eph", j) /\ ~Is(r, "spawn", j) /\ ~Is(r, "kill", j) /\ Has(req[cur], "eph", j)
    BY <1>4, <1>9, <2>1, TailHas DEF Is
  <2>3. \A k \in {"spawn", "kill"} : Has(req'[cur], k, j) <=> Has(req[cur], k, j)
    BY <2>1, <2>2, TailHas
  <2>4. ASSUME j \in mirror PROVE Known(req[cur], j)'
    <3>1. Known(req[cur], j)
      BY <1>6, <2>4 DEF PaneFollowed
    <3>2. ASSUME j \in held PROVE Flagged(req'[cur], j, ephemeral', mirrorEph')
      <4>1. Flagged(req[cur], j, ephemeral, mirrorEph)
        BY <3>1, <3>2 DEF Known
      <4>2. j \in ephemeral' <=> r.eph
        BY <1>5, <1>9, <3>2
      <4> QED BY <1>2, <2>1, <2>2, <4>1, <4>2, TailFlagged
    <3> QED BY <1>2, <2>3, <3>1, <3>2 DEF Known, Pending
  <2>5. ASSUME NEW t \in Tasks, Spawning(t, j)
        PROVE  op[t].pc = "waiting" /\ Waits(req'[cur], j, op[t].eph, held')
    <3>1. op[t].pc = "waiting" /\ Waits(req[cur], j, op[t].eph, held)
      BY <1>6, <2>2, <2>5, SilentHas DEF PaneFollowed, Answered
    <3> QED BY <1>2, <2>1, <2>2, <3>1, TailWaits
  <2>6. ASSUME \A t \in Tasks : ~Spawning(t, j), j \notin mirror PROVE Unknown(req[cur], j)'
    BY <1>2, <1>6, <2>3, <2>6 DEF PaneFollowed, Unknown
  <2> QED BY <1>2, <1>7, <2>4, <2>5, <2>6 DEF PaneFollowed
<1> QED BY <1>8, <1>9

LEMMA PtydFollowed ==
  ASSUME IInv, Followed, PtydStep
  PROVE  Followed'
<1>0. TypeOK /\ DataOK /\ Numbers /\ OneLink
  BY DEF IInv
<1>1. UNCHANGED <<link, cur, mirror>>
  BY PtydFrame
<1>2. ASSUME NEW c \in Conns, HandleSetMeta(c) PROVE Followed'
  <2> SUFFICES ASSUME link = "up", conn[cur] = "open", NEW j \in Ids \ strays'
               PROVE  PaneFollowed(j)'
    BY <1>2 DEF HandleSetMeta, Followed
  <2>1. /\ PaneFollowed(j) /\ cur \in Conns /\ Next1(c, "meta")
        /\ UNCHANGED <<cur, mirror, mirrorEph, op, ev, held, ephemeral, dying>>
    BY <1>0, <1>2 DEF HandleSetMeta, Followed, Stale, OneLink
  <2>2. Same(req[cur], req'[cur], j)
    BY <1>0, <2>1, HandledSame
  <2>3. \A t \in Tasks : /\ Spawning(t, j)' <=> Spawning(t, j)
                         /\ Spawning(t, j) => op'[t].pc = op[t].pc /\ op'[t].eph = op[t].eph
    BY <2>1 DEF Spawning, HasId
  <2> QED BY <2>1, <2>2, <2>3, MuxKept
<1>3. ASSUME NEW S \in SUBSET Ids, Dropped(S), UNCHANGED <<mirrorEph, op, req, ev, strays>>,
             conn'[cur] = "open" => conn[cur] = "open"
      PROVE  Followed'
  <2> SUFFICES ASSUME link = "up", conn[cur] = "open", NEW j \in Ids \ strays
               PROVE  PaneFollowed(j)'
    BY <1>1, <1>3 DEF Followed
  <2>1. PaneFollowed(j)
    BY DEF Followed
  <2>2. Same(req[cur], req'[cur], j)
    BY <1>1, <1>3, SameRefl
  <2> QED BY <1>1, <1>3, <2>1, <2>2, DroppedFollowed
<1>4. ASSUME NEW c \in Conns, Sweep(c) PROVE Followed'
  <2>1. {i \in ephemeral : owner[i] = c} \in SUBSET Ids
    BY <1>0 DEF TypeOK
  <2>2. conn'[cur] = "open" => conn[cur] = "open"
    BY <1>0, <1>4 DEF Sweep, TypeOK
  <2> QED BY <1>3, <1>4, <2>1, <2>2 DEF Sweep
<1>5. ASSUME NEW i \in Ids, ShellExits(i) PROVE Followed'
  BY <1>3, <1>5 DEF ShellExits
<1>6. ASSUME NEW i \in Ids, Announce(i) PROVE Followed'
  <2> SUFFICES ASSUME link = "up", conn[cur] = "open", NEW j \in Ids \ strays
               PROVE  PaneFollowed(j)'
    BY <1>6 DEF Announce, Followed
  <2>1. /\ PaneFollowed(j)
        /\ UNCHANGED <<cur, mirror, mirrorEph, op, req, held, ephemeral>>
    BY <1>6 DEF Announce, Followed
  <2>2. Same(req[cur], req'[cur], j)
    BY <2>1, SameRefl
  <2>3. \A t \in Tasks : /\ Spawning(t, j)' <=> Spawning(t, j)
                         /\ Spawning(t, j) => op'[t].pc = op[t].pc /\ op'[t].eph = op[t].eph
    BY <2>1 DEF Spawning, HasId
  <2>4. j \notin held' /\ (j \in held \/ Pending(j)) => Pending(j)'
    BY <1>0, <1>6, <2>1, AnnouncePending
  <2> QED BY <2>1, <2>2, <2>3, <2>4, PaneKept
<1>7. ASSUME PtydDies PROVE Followed'
  <2>1. link = "up" => conn'[cur] # "open"
    BY <1>0, <1>7 DEF PtydDies, OneLink
  <2> QED BY <1>1, <2>1 DEF Followed
<1>8. ASSUME PtydStarts PROVE Followed'
  BY <1>8 DEF PtydStarts, Followed, PaneFollowed, Known, Answered, Unknown, Spawning, HasId, Pending
<1> QED BY <1>2, <1>4, <1>5, <1>6, <1>7, <1>8, HandleSpawnFollowed, HandleKillFollowed,
           HandleSetEphemeralFollowed DEF PtydStep

---------------------------------------------------------------------------
(* The panes are followed from an adoption to the death of either daemon. *)
LEMMA FollowedStep ==
  ASSUME IInv, NewConns, Listed, Followed, [Next]_vars
  PROVE  Followed'
<1>1. ASSUME link' # "up" PROVE Followed'
  BY <1>1 DEF Followed
<1>2. ASSUME UNCHANGED <<link, cur, conn, mirror, mirrorEph, op, req, ev, held, ephemeral, dying, strays>>
      PROVE  Followed'
  BY <1>2 DEF Followed, PaneFollowed, Known, Answered, Unknown, Spawning, HasId, Pending
<1>3. CASE UNCHANGED vars \/ Rest \/ TmuxEnds
  BY <1>2, <1>3 DEF Rest, TmuxEnds
<1>4. CASE LinkStep
  BY <1>1, <1>4, AdoptFollowed DEF LinkStep, GetMeta, ReadFails, List
<1>5. CASE PumpClosed \/ Crash
  BY <1>1, <1>5 DEF PumpClosed, Crash
<1> QED BY <1>3, <1>4, <1>5, ExitFollowed, PtydFollowed, OpFollowed, UserFollowed DEF Next

---------------------------------------------------------------------------
(* The theorems. *)

(* The invariant the others rest on. *)
THEOREM Invariant == Spec => []IInv
<1>1. Init => IInv
  BY InitIInv
<1>2. IInv /\ [Next]_vars => IInv'
  BY StepIInv
<1> QED BY <1>1, <1>2, PTL DEF Spec

(* Every variable has its type, for every value of the constants. *)
THEOREM TypeCorrect == Spec => []TypeOK
<1>1. IInv => TypeOK
  BY DEF IInv
<1> QED BY <1>1, Invariant, PTL

(* Whatever the interleaving, no pane is shown twice and none is shown     *)
(* that mymuxd does not know.                                              *)
THEOREM NoPaneTwice == Spec => []WindowsOfMirror
<1>1. IInv => WindowsOfMirror
  BY DEF IInv, DataOK, Layouts, Numbers, WindowsOfMirror
<1> QED BY <1>1, Invariant, PTL

(* The shared view is on a window that exists, or everybody was told, or   *)
(* it is on a pane of a ptyd that has died.                                *)
THEOREM ViewLive == Spec => []ViewIsLive
<1>1. IInv => ViewIsLive
  BY DEF IInv
<1> QED BY <1>1, Invariant, PTL

(* With nothing in flight ptyd keeps the present layout, unless a dead     *)
(* mymuxd's overwrote it.                                                  *)
THEOREM BlobFollowed == Spec => []BlobFollows
<1>1. IInv => BlobFollows
  <2> SUFFICES ASSUME IInv, Settled, None \notin strays PROVE blob = wins
    BY DEF BlobFollows
  <2>1. cur \in Conns /\ Carries(req[cur], blob, wins)
    BY DEF IInv, Settled, Saved, OneLink
  <2>2. req[cur] = <<>>
    BY <2>1 DEF Settled
  <2> QED BY <2>1, <2>2 DEF Carries, LastMeta
<1> QED BY <1>1, Invariant, PTL

(* Whatever met none of the races is the same in mymuxd and in ptyd once    *)
(* nothing is in flight.                                                   *)
THEOREM MirrorIsTruth == Spec => []MirrorTruth
<1> DEFINE Inv == IInv /\ NewConns /\ Listed /\ Followed
<1>1. Init => Inv
  <2>1. Init => NewConns /\ Listed /\ Followed
    BY DEF Init, NewConns, Listed, Followed, HasId, NoOp
  <2> QED BY <2>1, InitIInv
<1>2. Inv /\ [Next]_vars => Inv'
  BY StepIInv, NewConnsStep, ListedStep, FollowedStep
<1>3. Inv => MirrorTruth
  BY SettledTruth DEF IInv
<1> QED BY <1>1, <1>2, <1>3, PTL DEF Spec

(* A new pane never takes the id of a pane or of a window that lives.      *)
THEOREM NewIdsFresh == Spec => FreshIds
<1> DEFINE A == \A t \in Tasks : op[t].pc = "ensuring" /\ op'[t].pc = "waiting" =>
                  op'[t].id \notin mirror /\ wins[op'[t].id] = {}
<1>1. IInv /\ [Next]_vars => [A]_vars
  <2> SUFFICES ASSUME IInv, Next, NEW t \in Tasks, op[t].pc = "ensuring", op'[t].pc = "waiting"
               PROVE  op'[t].id \notin mirror /\ wins[op'[t].id] = {}
    BY DEF A
  <2>0. TypeOK /\ DataOK /\ Numbers
    BY DEF IInv
  <2>1. PICK s \in Tasks : Spawn(s)
    <3>1. CASE PtydStep
      BY <2>0, <3>1, PtydOps
    <3>2. ASSUME NEW s \in Tasks, UserStep(s) PROVE FALSE
      BY <2>0, <3>2, UserOps
    <3>3. ASSUME NEW s \in Tasks, OpStep(s), ~Spawn(s) PROVE FALSE
      BY <2>0, <3>3 DEF OpStep, EnsureFails, SpawnTimesOut, FinishNew, FinishSplit, Failed,
         Returned, NoOp, DataOK
    <3>4. CASE LinkStep \/ PumpExit \/ PumpClosed \/ TmuxEnds \/ Rest
      BY <3>4 DEF LinkStep, List, GetMeta, ReadFails, Adopt, PumpExit, PumpClosed, TmuxEnds, Rest
    <3>5. CASE Crash
      BY <3>5 DEF Crash, NoOp
    <3> QED BY <3>1, <3>2, <3>3, <3>4, <3>5 DEF Next
  <2>2. s = t
    BY <2>0, <2>1 DEF Spawn, DataOK
  <2> DEFINE i == NewId(op[t].eph, next)
  <2>3. op'[t].id = i /\ next \in 1 .. MaxPane
    BY <2>0, <2>1, <2>2 DEF Spawn, TypeOK, DataOK
  <2>4. i \in Ids /\ Low(i) = next
    BY <2>0, <2>3, OpType, LowType
  <2> HIDE DEF i
  <2>5. i \notin mirror
    BY <2>0, <2>3, <2>4 DEF Numbers
  <2>6. ASSUME NEW p \in wins[i] PROVE FALSE
    <3>1. Low(i) <= Low(p) /\ p \in Ids
      BY <2>0, <2>4 DEF DataOK, Layouts
    <3>2. Low(p) < next /\ Low(p) \in Nat
      BY <2>0, <2>4, <3>1, LowType DEF Numbers, Members
    <3> QED BY <2>3, <2>4, <3>1, <3>2
  <2> QED BY <2>3, <2>5, <2>6
<1> QED BY <1>1, Invariant, PTL DEF Spec, FreshIds
=============================================================================
