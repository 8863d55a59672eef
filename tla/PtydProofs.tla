----------------------------- MODULE PtydProofs -----------------------------
(***************************************************************************)
(* Proofs about the pane daemon, for any ids, any number of panes and any  *)
(* number of connections.  IInv is the inductive invariant: the properties *)
(* themselves, strengthened with what the map, the half-done spawns and    *)
(* the mutex say about a pane's reader and shell.  There is one lemma per  *)
(* conjunct and in each one step per action.                               *)
(***************************************************************************)
EXTENDS Ptyd, TLAPS

USE PtydAssumption DEF Panes, Conns, None, fieldVars, ttyVars, connVars, vars

---------------------------------------------------------------------------
(* A bound pane knows its id, and no spawn still has it in hand. *)
HeldInv ==
  \A i \in Ids : held[i] # None =>
     /\ idOf[held[i]] = i
     /\ held[i] <= spawned
     /\ \A c \in Conns : spawning[c] # held[i]

(* A pane between its two spawn steps is nobody else's. *)
SpawningInv ==
  \A c \in Conns : spawning[c] # None =>
     /\ conn[c] = "open"
     /\ spawning[c] <= spawned
     /\ reader[spawning[c]] = "none"
     /\ arcs[spawning[c]] = {}
     /\ child[spawning[c]] \in {"running", "exited"}
     /\ owner[spawning[c]] = c

(* Panes not spawned yet have not begun. *)
FreshInv ==
  \A p \in Panes : p > spawned =>
     child[p] = "none" /\ reader[p] = "none" /\ arcs[p] = {}

(* The mutex is held by the reader that is between its two steps, at EOF.  *)
LockInv ==
  \A p \in Panes :
    /\ reader[p] \in {"upgraded", "orphan"} <=> lock = p
    /\ lock = p => slave[p] = {}
    /\ child[p] = "running" => "shell" \in slave[p]
    /\ child[p] = "none" => p > spawned

(* The inductive invariant. *)
IInv ==
  /\ TypeOK
  /\ HeldInv
  /\ SpawningInv
  /\ FreshInv
  /\ LockInv
  /\ OwnerServes
  /\ HeldPaneAlive
  /\ DroppedIffUnheld
  /\ NoSilentDeath

---------------------------------------------------------------------------
(* The initial states satisfy it. *)
LEMMA InitIInv == Init => IInv
<1> SUFFICES ASSUME Init PROVE IInv
  OBVIOUS
<1>0. AnyId \in Ids
  BY DEF AnyId
<1>1. TypeOK
  BY <1>0 DEF Init, TypeOK, ReaderStates
<1>2. HeldInv /\ SpawningInv /\ FreshInv /\ LockInv /\ OwnerServes /\ HeldPaneAlive
  BY DEF Init, HeldInv, SpawningInv, FreshInv, LockInv, OwnerServes, HeldPaneAlive
<1>3. DroppedIffUnheld /\ NoSilentDeath
  BY DEF Init, DroppedIffUnheld, NoSilentDeath
<1> QED BY <1>1, <1>2, <1>3 DEF IInv

(* A drop changes only that pane's shell and slave side. *)
LEMMA DropPaneType ==
  ASSUME TypeOK, NEW p \in Panes, DropPane(p) \/ UNCHANGED ttyVars
  PROVE  /\ child' \in [Panes -> {"none", "running", "exited", "reaped"}]
         /\ slave' \in [Panes -> SUBSET {"shell", "job"}]
         /\ \A q \in Panes : q # p => child'[q] = child[q]
<1>1. CASE DropPane(p)
  <2>1. slave[p] \ {"shell"} \in SUBSET {"shell", "job"}
    BY DEF TypeOK
  <2> QED BY <1>1, <2>1 DEF TypeOK, DropPane
<1>2. CASE UNCHANGED ttyVars
  BY <1>2 DEF TypeOK
<1> QED BY <1>1, <1>2

(* The second half of a spawn: the step that touches the most conjuncts. *)
LEMMA InsertPaneStep ==
  ASSUME IInv, NEW c \in Conns, InsertPane(c)
  PROVE  /\ TypeOK' /\ HeldInv' /\ FreshInv'
         /\ OwnerServes' /\ NoSilentDeath' /\ DroppedIffUnheld'
<1> DEFINE p == spawning[c]
<1>1. p \in Panes /\ idOf[p] \in Ids /\ p <= spawned /\ reader[p] = "none"
      /\ arcs[p] = {} /\ child[p] \in {"running", "exited"} /\ owner[p] = c /\ conn[c] = "open"
  BY DEF InsertPane, IInv, TypeOK, SpawningInv
<1>2. \A d \in Conns : spawning[d] = p => d = c
  <2> SUFFICES ASSUME NEW d \in Conns, spawning[d] = spawning[c] PROVE d = c
    OBVIOUS
  <2>1. spawning[d] # None
    BY <1>1
  <2>2. owner[spawning[d]] = d
    BY <2>1 DEF IInv, SpawningInv
  <2> QED BY <1>1, <2>2
<1>4. ~Mapped(p)
  <2> SUFFICES ASSUME NEW i \in Ids, held[i] = spawning[c] PROVE FALSE
    BY DEF Mapped
  <2> QED BY <1>1 DEF IInv, HeldInv
<1> HIDE DEF p
<1>5. CASE Vacant(idOf[p])
  <2>1. /\ held[idOf[p]] = None
        /\ held' = [held EXCEPT ![idOf[p]] = p]
        /\ reader' = [reader EXCEPT ![p] = "reading"]
        /\ spawning' = [spawning EXCEPT ![c] = None]
        /\ UNCHANGED <<fieldVars, ttyVars, arcs, lock, conn, spawned, due>>
    BY <1>5 DEF InsertPane, Vacant, p
  <2>2. TypeOK'
    BY <1>1, <2>1 DEF TypeOK, IInv, ReaderStates
  <2>3. HeldInv'
    BY <1>1, <1>2, <2>1 DEF TypeOK, IInv, HeldInv
  <2>4. FreshInv'
    BY <1>1, <2>1 DEF IInv, FreshInv
  <2>5. OwnerServes'
    BY <1>1, <2>1 DEF IInv, OwnerServes
  <2>6. NoSilentDeath'
    <3> SUFFICES ASSUME NEW i \in due, held'[i] = None
                 PROVE  \E q \in Panes : idOf[q] = i /\ reader'[q] \in Pending
      BY <2>1 DEF NoSilentDeath
    <3>1. i \in Ids /\ held[i] = None
      BY <1>1, <2>1 DEF TypeOK, IInv
    <3>2. PICK q \in Panes : idOf[q] = i /\ reader[q] \in Pending
      BY <3>1 DEF IInv, NoSilentDeath
    <3> QED BY <2>1, <3>2 DEF Pending, TypeOK
  <2>7. DroppedIffUnheld'
    <3> SUFFICES ASSUME NEW q \in Panes, q <= spawned
                 PROVE  child'[q] = "reaped" <=> ~Strong(q)' /\ \A d \in Conns : spawning'[d] # q
      BY <2>1 DEF DroppedIffUnheld
    <3>1. CASE q = p
      <4>1. held'[idOf[p]] = p /\ idOf[p] \in Ids
        BY <1>1, <2>1 DEF TypeOK, IInv
      <4>2. Strong(q)'
        BY <3>1, <4>1 DEF Strong, Kept, Mapped
      <4>3. child'[q] # "reaped"
        BY <1>1, <2>1, <3>1
      <4> QED BY <4>2, <4>3
    <3>2. CASE q # p
      <4>1. Mapped(q)' <=> Mapped(q)
        BY <1>1, <2>1, <3>2 DEF Mapped
      <4>2. Strong(q)' <=> Strong(q)
        BY <2>1, <3>2, <4>1 DEF Strong, Kept
      <4>3. (\A d \in Conns : spawning'[d] # q) <=> (\A d \in Conns : spawning[d] # q)
        BY <2>1, <3>2 DEF TypeOK, IInv, p
      <4> QED BY <2>1, <4>2, <4>3 DEF IInv, DroppedIffUnheld
    <3> QED BY <3>1, <3>2
  <2> QED BY <2>2, <2>3, <2>4, <2>5, <2>6, <2>7
<1>6. CASE ~Vacant(idOf[p])
  <2>1. /\ arcs' = [arcs EXCEPT ![p] = @ \cup {c}]
        /\ spawning' = [spawning EXCEPT ![c] = None]
        /\ UNCHANGED <<held, reader, fieldVars, ttyVars, lock, conn, spawned, due>>
    BY <1>6 DEF InsertPane, p
  <2>2. arcs[p] \cup {c} \in SUBSET Conns
    BY <1>1
  <2>3. TypeOK' /\ HeldInv' /\ FreshInv'
    BY <1>1, <2>1, <2>2 DEF TypeOK, IInv, HeldInv, FreshInv
  <2>4. OwnerServes' /\ NoSilentDeath'
    BY <2>1 DEF IInv, OwnerServes, NoSilentDeath
  <2>5. DroppedIffUnheld'
    <3> SUFFICES ASSUME NEW q \in Panes, q <= spawned
                 PROVE  child'[q] = "reaped" <=> ~Strong(q)' /\ \A d \in Conns : spawning'[d] # q
      BY <2>1 DEF DroppedIffUnheld
    <3>1. CASE q = p
      BY <1>1, <2>1, <3>1 DEF Strong, TypeOK, IInv
    <3>2. CASE q # p
      <4>1. Strong(q)' <=> Strong(q)
        BY <1>1, <2>1, <3>2 DEF Strong, Kept, Mapped
      <4>2. (\A d \in Conns : spawning'[d] # q) <=> (\A d \in Conns : spawning[d] # q)
        BY <2>1, <3>2 DEF TypeOK, IInv, p
      <4> QED BY <2>1, <4>1, <4>2 DEF IInv, DroppedIffUnheld
    <3> QED BY <3>1, <3>2
  <2> QED BY <2>3, <2>4, <2>5
<1> QED BY <1>5, <1>6

(* Every step keeps the types. *)
LEMMA TypeStep ==
  ASSUME IInv, Next
  PROVE  TypeOK'
<1>1. ASSUME NEW c \in Conns, Accept(c) PROVE TypeOK'
  BY <1>1 DEF Accept, TypeOK, IInv
<1>2. ASSUME NEW c \in Conns, NEW i \in Ids, NEW e \in BOOLEAN, StartChild(c, i, e)
      PROVE  TypeOK'
  BY <1>2 DEF StartChild, TypeOK, IInv
<1>3. ASSUME NEW c \in Conns, InsertPane(c) PROVE TypeOK'
  BY <1>3, InsertPaneStep
<1>4. ASSUME NEW c \in Conns, NEW i \in Ids, NEW e \in BOOLEAN, SetEphemeral(c, i, e)
      PROVE  TypeOK'
  BY <1>4 DEF SetEphemeral, NewOwner, TypeOK, IInv
<1>5. ASSUME NEW c \in Conns, NEW i \in Ids, Kill(c, i) PROVE TypeOK'
  BY <1>5 DEF Kill, TypeOK, IInv
<1>6. ASSUME NEW c \in Conns, Close(c) PROVE TypeOK'
  BY <1>6 DEF Close, TypeOK, IInv
<1>7. ASSUME NEW c \in Conns, Sweep(c) PROVE TypeOK'
  BY <1>7 DEF Sweep, TypeOK, IInv
<1>8. ASSUME NEW c \in Conns, NEW p \in Panes, DropArc(c, p) PROVE TypeOK'
  <2>1. TypeOK
    BY DEF IInv
  <2>2. DropPane(p) \/ UNCHANGED ttyVars
    BY <1>8 DEF DropArc
  <2>3. arcs[p] \ {c} \in SUBSET Conns
    BY <2>1 DEF TypeOK
  <2> QED BY <2>3, <1>8, <2>1, <2>2, DropPaneType DEF TypeOK, DropArc
<1>9. ASSUME NEW p \in Panes, StartJob(p) PROVE TypeOK'
  BY <1>9 DEF StartJob, TypeOK, IInv
<1>10. ASSUME NEW p \in Panes, JobEnds(p) PROVE TypeOK'
  BY <1>10 DEF JobEnds, TypeOK, IInv
<1>11. ASSUME NEW p \in Panes, ShellExits(p) PROVE TypeOK'
  BY <1>11 DEF ShellExits, TypeOK, IInv
<1>12. ASSUME NEW p \in Panes, ReaderLocks(p) PROVE TypeOK'
  BY <1>12 DEF ReaderLocks, TypeOK, IInv, ReaderStates
<1>13. ASSUME NEW p \in Panes, ReaderDecides(p) PROVE TypeOK'
  <2>1. TypeOK
    BY DEF IInv
  <2>2. DropPane(p) \/ UNCHANGED ttyVars
    BY <1>13 DEF ReaderDecides
  <2>3. idOf[p] \in Ids
    BY <2>1 DEF TypeOK
  <2>4. held' \in [Ids -> Panes \cup {None}] /\ due' \in SUBSET Ids
    <3>1. CASE Ours(p)
      BY <1>13, <2>1, <2>3, <3>1 DEF ReaderDecides, TypeOK
    <3>2. CASE ~Ours(p)
      BY <1>13, <2>1, <3>2 DEF ReaderDecides, TypeOK
    <3> QED BY <3>1, <3>2
  <2>5. reader' \in [Panes -> ReaderStates]
    BY <1>13, <2>1 DEF TypeOK, ReaderDecides, ReaderStates
  <2> QED BY <1>13, <2>1, <2>2, <2>4, <2>5, DropPaneType DEF TypeOK, ReaderDecides
<1>14. ASSUME NEW p \in Panes, ReaderDrops(p) PROVE TypeOK'
  <2>1. TypeOK
    BY DEF IInv
  <2>2. DropPane(p) \/ UNCHANGED ttyVars
    BY <1>14 DEF ReaderDrops
  <2> QED BY <1>14, <2>1, <2>2, DropPaneType DEF TypeOK, ReaderDrops, ReaderStates
<1>15. ASSUME NEW p \in Panes, ReaderAnnounces(p) PROVE TypeOK'
  BY <1>15 DEF ReaderAnnounces, TypeOK, IInv, ReaderStates
<1>16. ASSUME Quiet PROVE TypeOK'
  BY <1>16 DEF Quiet, TypeOK, IInv
<1> QED
  BY <1>1, <1>2, <1>3, <1>4, <1>5, <1>6, <1>7, <1>8, <1>9, <1>10, <1>11, <1>12, <1>13, <1>14, <1>15, <1>16
  DEF Next, ConnStep, TtyStep, ReaderStep

(* Every step keeps HeldInv. *)
LEMMA HeldStep ==
  ASSUME IInv, Next
  PROVE  HeldInv'
<1>1. ASSUME NEW c \in Conns, Accept(c) PROVE HeldInv'
  BY <1>1 DEF Accept, HeldInv, IInv
<1>2. ASSUME NEW c \in Conns, NEW i \in Ids, NEW e \in BOOLEAN, StartChild(c, i, e)
      PROVE  HeldInv'
  BY <1>2 DEF StartChild, HeldInv, TypeOK, IInv
<1>3. ASSUME NEW c \in Conns, InsertPane(c) PROVE HeldInv'
  BY <1>3, InsertPaneStep
<1>4. ASSUME NEW c \in Conns, NEW i \in Ids, NEW e \in BOOLEAN, SetEphemeral(c, i, e)
      PROVE  HeldInv'
  BY <1>4 DEF SetEphemeral, HeldInv, IInv
<1>5. ASSUME NEW c \in Conns, NEW i \in Ids, Kill(c, i) PROVE HeldInv'
  BY <1>5 DEF Kill, HeldInv, IInv
<1>6. ASSUME NEW c \in Conns, Close(c) PROVE HeldInv'
  BY <1>6 DEF Close, HeldInv, IInv
<1>7. ASSUME NEW c \in Conns, Sweep(c) PROVE HeldInv'
  BY <1>7 DEF Sweep, HeldInv, IInv
<1>8. ASSUME NEW c \in Conns, NEW p \in Panes, DropArc(c, p) PROVE HeldInv'
  BY <1>8 DEF DropArc, HeldInv, IInv
<1>9. ASSUME NEW p \in Panes, StartJob(p) PROVE HeldInv'
  BY <1>9 DEF StartJob, HeldInv, IInv
<1>10. ASSUME NEW p \in Panes, JobEnds(p) PROVE HeldInv'
  BY <1>10 DEF JobEnds, HeldInv, IInv
<1>11. ASSUME NEW p \in Panes, ShellExits(p) PROVE HeldInv'
  BY <1>11 DEF ShellExits, HeldInv, IInv
<1>12. ASSUME NEW p \in Panes, ReaderLocks(p) PROVE HeldInv'
  BY <1>12 DEF ReaderLocks, HeldInv, IInv
<1>13. ASSUME NEW p \in Panes, ReaderDecides(p) PROVE HeldInv'
  BY <1>13 DEF ReaderDecides, HeldInv, TypeOK, IInv
<1>14. ASSUME NEW p \in Panes, ReaderDrops(p) PROVE HeldInv'
  BY <1>14 DEF ReaderDrops, HeldInv, IInv
<1>15. ASSUME NEW p \in Panes, ReaderAnnounces(p) PROVE HeldInv'
  BY <1>15 DEF ReaderAnnounces, HeldInv, IInv
<1>16. ASSUME Quiet PROVE HeldInv'
  BY <1>16 DEF Quiet, HeldInv, IInv
<1> QED
  BY <1>1, <1>2, <1>3, <1>4, <1>5, <1>6, <1>7, <1>8, <1>9, <1>10, <1>11, <1>12, <1>13, <1>14, <1>15, <1>16
  DEF Next, ConnStep, TtyStep, ReaderStep

(* Every step keeps SpawningInv. *)
LEMMA SpawningStep ==
  ASSUME IInv, Next
  PROVE  SpawningInv'
<1>1. ASSUME NEW c \in Conns, Accept(c) PROVE SpawningInv'
  BY <1>1 DEF Accept, IInv, SpawningInv
<1>2. ASSUME NEW c \in Conns, NEW i \in Ids, NEW e \in BOOLEAN, StartChild(c, i, e)
      PROVE  SpawningInv'
  BY <1>2 DEF StartChild, Idle, TypeOK, IInv, SpawningInv, FreshInv
<1>3. ASSUME NEW c \in Conns, InsertPane(c) PROVE SpawningInv'
  BY <1>3 DEF InsertPane, TypeOK, IInv, SpawningInv
<1>4. ASSUME NEW c \in Conns, NEW i \in Ids, NEW e \in BOOLEAN, SetEphemeral(c, i, e)
      PROVE  SpawningInv'
  BY <1>4 DEF SetEphemeral, HeldInv, IInv, SpawningInv
<1>5. ASSUME NEW c \in Conns, NEW i \in Ids, Kill(c, i) PROVE SpawningInv'
  BY <1>5 DEF Kill, HeldInv, IInv, SpawningInv
<1>6. ASSUME NEW c \in Conns, Close(c) PROVE SpawningInv'
  BY <1>6 DEF Close, Idle, IInv, SpawningInv
<1>7. ASSUME NEW c \in Conns, Sweep(c) PROVE SpawningInv'
  BY <1>7 DEF Sweep, Orphan, TypeOK, IInv, SpawningInv
<1>8. ASSUME NEW c \in Conns, NEW p \in Panes, DropArc(c, p)
      PROVE  SpawningInv'
  BY <1>8 DEF DropArc, DropPane, TypeOK, IInv, SpawningInv
<1>9. ASSUME NEW p \in Panes, StartJob(p) PROVE SpawningInv'
  BY <1>9 DEF StartJob, IInv, SpawningInv
<1>10. ASSUME NEW p \in Panes, JobEnds(p) PROVE SpawningInv'
  BY <1>10 DEF JobEnds, IInv, SpawningInv
<1>11. ASSUME NEW p \in Panes, ShellExits(p) PROVE SpawningInv'
  BY <1>11 DEF ShellExits, IInv, SpawningInv
<1>12. ASSUME NEW p \in Panes, ReaderLocks(p) PROVE SpawningInv'
  BY <1>12 DEF ReaderLocks, IInv, SpawningInv
<1>13. ASSUME NEW p \in Panes, ReaderDecides(p) PROVE SpawningInv'
  <2>1. TypeOK
    BY DEF IInv
  <2>2. reader[p] \in {"upgraded", "orphan"}
    BY <1>13 DEF ReaderDecides, IInv, LockInv
  <2>3. DropPane(p) \/ UNCHANGED ttyVars
    BY <1>13 DEF ReaderDecides
  <2>4. \A q \in Panes : q # p => child'[q] = child[q] /\ reader'[q] = reader[q]
    BY <1>13, <2>1, <2>3, DropPaneType DEF ReaderDecides, TypeOK
  <2> QED BY <1>13, <2>1, <2>2, <2>4 DEF ReaderDecides, IInv, TypeOK, SpawningInv
<1>14. ASSUME NEW p \in Panes, ReaderDrops(p) PROVE SpawningInv'
  BY <1>14 DEF ReaderDrops, DropPane, TypeOK, IInv, SpawningInv
<1>15. ASSUME NEW p \in Panes, ReaderAnnounces(p) PROVE SpawningInv'
  BY <1>15 DEF ReaderAnnounces, IInv, SpawningInv
<1>16. ASSUME Quiet PROVE SpawningInv'
  BY <1>16 DEF Quiet, IInv, SpawningInv
<1> QED
  BY <1>1, <1>2, <1>3, <1>4, <1>5, <1>6, <1>7, <1>8, <1>9, <1>10, <1>11, <1>12, <1>13, <1>14, <1>15, <1>16
  DEF Next, ConnStep, TtyStep, ReaderStep

(* Every step keeps FreshInv. *)
LEMMA FreshStep ==
  ASSUME IInv, Next
  PROVE  FreshInv'
<1>1. ASSUME NEW c \in Conns, Accept(c) PROVE FreshInv'
  BY <1>1 DEF Accept, IInv, FreshInv
<1>2. ASSUME NEW c \in Conns, NEW i \in Ids, NEW e \in BOOLEAN, StartChild(c, i, e)
      PROVE  FreshInv'
  BY <1>2 DEF StartChild, TypeOK, IInv, FreshInv
<1>3. ASSUME NEW c \in Conns, InsertPane(c) PROVE FreshInv'
  BY <1>3, InsertPaneStep
<1>4. ASSUME NEW c \in Conns, NEW i \in Ids, NEW e \in BOOLEAN, SetEphemeral(c, i, e)
      PROVE  FreshInv'
  BY <1>4 DEF SetEphemeral, IInv, FreshInv
<1>5. ASSUME NEW c \in Conns, NEW i \in Ids, Kill(c, i) PROVE FreshInv'
  BY <1>5 DEF Kill, HeldInv, TypeOK, IInv, FreshInv
<1>6. ASSUME NEW c \in Conns, Close(c) PROVE FreshInv'
  BY <1>6 DEF Close, IInv, FreshInv
<1>7. ASSUME NEW c \in Conns, Sweep(c) PROVE FreshInv'
  BY <1>7 DEF Sweep, HeldInv, TypeOK, IInv, FreshInv
<1>8. ASSUME NEW c \in Conns, NEW p \in Panes, DropArc(c, p) PROVE FreshInv'
  BY <1>8 DEF DropArc, DropPane, TypeOK, IInv, FreshInv
<1>9. ASSUME NEW p \in Panes, StartJob(p) PROVE FreshInv'
  BY <1>9 DEF StartJob, IInv, FreshInv
<1>10. ASSUME NEW p \in Panes, JobEnds(p) PROVE FreshInv'
  BY <1>10 DEF JobEnds, IInv, FreshInv
<1>11. ASSUME NEW p \in Panes, ShellExits(p) PROVE FreshInv'
  BY <1>11 DEF ShellExits, IInv, FreshInv, LockInv
<1>12. ASSUME NEW p \in Panes, ReaderLocks(p) PROVE FreshInv'
  BY <1>12 DEF ReaderLocks, IInv, FreshInv, LockInv
<1>13. ASSUME NEW p \in Panes, ReaderDecides(p) PROVE FreshInv'
  BY <1>13 DEF ReaderDecides, DropPane, TypeOK, IInv, FreshInv, LockInv
<1>14. ASSUME NEW p \in Panes, ReaderDrops(p) PROVE FreshInv'
  BY <1>14 DEF ReaderDrops, DropPane, TypeOK, IInv, FreshInv
<1>15. ASSUME NEW p \in Panes, ReaderAnnounces(p) PROVE FreshInv'
  BY <1>15 DEF ReaderAnnounces, IInv, FreshInv, LockInv
<1>16. ASSUME Quiet PROVE FreshInv'
  BY <1>16 DEF Quiet, IInv, FreshInv
<1> QED
  BY <1>1, <1>2, <1>3, <1>4, <1>5, <1>6, <1>7, <1>8, <1>9, <1>10, <1>11, <1>12, <1>13, <1>14, <1>15, <1>16
  DEF Next, ConnStep, TtyStep, ReaderStep

(* Every step keeps LockInv. *)
LEMMA LockStep ==
  ASSUME IInv, Next
  PROVE  LockInv'
<1>1. ASSUME NEW c \in Conns, Accept(c) PROVE LockInv'
  BY <1>1 DEF Accept, IInv, LockInv
<1>2. ASSUME NEW c \in Conns, NEW i \in Ids, NEW e \in BOOLEAN, StartChild(c, i, e)
      PROVE  LockInv'
  BY <1>2 DEF StartChild, TypeOK, IInv, FreshInv, LockInv
<1>3. ASSUME NEW c \in Conns, InsertPane(c) PROVE LockInv'
  BY <1>3 DEF InsertPane, TypeOK, IInv, LockInv
<1>4. ASSUME NEW c \in Conns, NEW i \in Ids, NEW e \in BOOLEAN, SetEphemeral(c, i, e)
      PROVE  LockInv'
  BY <1>4 DEF SetEphemeral, IInv, LockInv
<1>5. ASSUME NEW c \in Conns, NEW i \in Ids, Kill(c, i) PROVE LockInv'
  BY <1>5 DEF Kill, IInv, LockInv
<1>6. ASSUME NEW c \in Conns, Close(c) PROVE LockInv'
  BY <1>6 DEF Close, IInv, LockInv
<1>7. ASSUME NEW c \in Conns, Sweep(c) PROVE LockInv'
  BY <1>7 DEF Sweep, IInv, LockInv
<1>8. ASSUME NEW c \in Conns, NEW p \in Panes, DropArc(c, p) PROVE LockInv'
  BY <1>8 DEF DropArc, DropPane, TypeOK, IInv, LockInv
<1>9. ASSUME NEW p \in Panes, StartJob(p) PROVE LockInv'
  BY <1>9 DEF StartJob, IInv, LockInv
<1>10. ASSUME NEW p \in Panes, JobEnds(p) PROVE LockInv'
  BY <1>10 DEF JobEnds, IInv, LockInv
<1>11. ASSUME NEW p \in Panes, ShellExits(p) PROVE LockInv'
  BY <1>11 DEF ShellExits, TypeOK, IInv, LockInv
<1>12. ASSUME NEW p \in Panes, ReaderLocks(p) PROVE LockInv'
  BY <1>12 DEF ReaderLocks, TypeOK, IInv, LockInv
<1>13. ASSUME NEW p \in Panes, ReaderDecides(p) PROVE LockInv'
  BY <1>13 DEF ReaderDecides, DropPane, TypeOK, IInv, LockInv
<1>14. ASSUME NEW p \in Panes, ReaderDrops(p) PROVE LockInv'
  BY <1>14 DEF ReaderDrops, DropPane, TypeOK, IInv, LockInv
<1>15. ASSUME NEW p \in Panes, ReaderAnnounces(p) PROVE LockInv'
  BY <1>15 DEF ReaderAnnounces, IInv, LockInv
<1>16. ASSUME Quiet PROVE LockInv'
  BY <1>16 DEF Quiet, IInv, LockInv
<1> QED
  BY <1>1, <1>2, <1>3, <1>4, <1>5, <1>6, <1>7, <1>8, <1>9, <1>10, <1>11, <1>12, <1>13, <1>14, <1>15, <1>16
  DEF Next, ConnStep, TtyStep, ReaderStep

(* Every step keeps the owner of an ephemeral pane at work. *)
LEMMA OwnerStep ==
  ASSUME IInv, Next
  PROVE  OwnerServes'
<1>1. ASSUME NEW c \in Conns, Accept(c) PROVE OwnerServes'
  BY <1>1 DEF Accept, OwnerServes, IInv
<1>2. ASSUME NEW c \in Conns, NEW i \in Ids, NEW e \in BOOLEAN, StartChild(c, i, e)
      PROVE  OwnerServes'
  BY <1>2 DEF StartChild, Idle, OwnerServes, TypeOK, IInv
<1>3. ASSUME NEW c \in Conns, InsertPane(c) PROVE OwnerServes'
  BY <1>3, InsertPaneStep
<1>4. ASSUME NEW c \in Conns, NEW i \in Ids, NEW e \in BOOLEAN, SetEphemeral(c, i, e)
      PROVE  OwnerServes'
  <2>1. /\ held[i] \in Panes /\ held' = held /\ conn' = conn /\ conn[c] = "open"
        /\ ephemeral' = [ephemeral EXCEPT ![held[i]] = e]
        /\ owner' = [owner EXCEPT ![held[i]] = IF e THEN c ELSE @]
    BY <1>4 DEF SetEphemeral, NewOwner, Idle, IInv, TypeOK
  <2> SUFFICES ASSUME NEW j \in Ids, held[j] # None, ephemeral'[held[j]]
               PROVE  owner'[held[j]] # None /\ conn[owner'[held[j]]] \in {"open", "closing"}
    BY <2>1 DEF OwnerServes
  <2>2. CASE held[j] = held[i]
    BY <2>1, <2>2 DEF IInv, TypeOK
  <2>3. CASE held[j] # held[i]
    BY <2>1, <2>3 DEF IInv, OwnerServes
  <2> QED BY <2>2, <2>3
<1>5. ASSUME NEW c \in Conns, NEW i \in Ids, Kill(c, i) PROVE OwnerServes'
  BY <1>5 DEF Kill, OwnerServes, IInv
<1>6. ASSUME NEW c \in Conns, Close(c) PROVE OwnerServes'
  BY <1>6 DEF Close, OwnerServes, IInv
<1>7. ASSUME NEW c \in Conns, Sweep(c) PROVE OwnerServes'
  BY <1>7 DEF Sweep, Orphan, OwnerServes, IInv
<1>8. ASSUME NEW c \in Conns, NEW p \in Panes, DropArc(c, p)
      PROVE  OwnerServes'
  BY <1>8 DEF DropArc, OwnerServes, IInv
<1>9. ASSUME NEW p \in Panes, StartJob(p) PROVE OwnerServes'
  BY <1>9 DEF StartJob, OwnerServes, IInv
<1>10. ASSUME NEW p \in Panes, JobEnds(p) PROVE OwnerServes'
  BY <1>10 DEF JobEnds, OwnerServes, IInv
<1>11. ASSUME NEW p \in Panes, ShellExits(p) PROVE OwnerServes'
  BY <1>11 DEF ShellExits, OwnerServes, IInv
<1>12. ASSUME NEW p \in Panes, ReaderLocks(p) PROVE OwnerServes'
  BY <1>12 DEF ReaderLocks, OwnerServes, IInv
<1>13. ASSUME NEW p \in Panes, ReaderDecides(p) PROVE OwnerServes'
  <2>1. \A j \in Ids : held'[j] \in {held[j], None}
    BY <1>13 DEF ReaderDecides, Ours, IInv, TypeOK
  <2> QED BY <1>13, <2>1 DEF ReaderDecides, IInv, OwnerServes
<1>14. ASSUME NEW p \in Panes, ReaderDrops(p) PROVE OwnerServes'
  BY <1>14 DEF ReaderDrops, OwnerServes, IInv
<1>15. ASSUME NEW p \in Panes, ReaderAnnounces(p) PROVE OwnerServes'
  BY <1>15 DEF ReaderAnnounces, OwnerServes, IInv
<1>16. ASSUME Quiet PROVE OwnerServes'
  BY <1>16 DEF Quiet, OwnerServes, IInv
<1> QED
  BY <1>1, <1>2, <1>3, <1>4, <1>5, <1>6, <1>7, <1>8, <1>9, <1>10, <1>11, <1>12, <1>13, <1>14, <1>15, <1>16
  DEF Next, ConnStep, TtyStep, ReaderStep

(* Every step keeps bound panes alive. *)
LEMMA AliveStep ==
  ASSUME IInv, Next
  PROVE  HeldPaneAlive'
<1>1. ASSUME NEW c \in Conns, Accept(c) PROVE HeldPaneAlive'
  BY <1>1 DEF Accept, HeldPaneAlive, IInv
<1>2. ASSUME NEW c \in Conns, NEW i \in Ids, NEW e \in BOOLEAN, StartChild(c, i, e)
      PROVE  HeldPaneAlive'
  BY <1>2 DEF StartChild, HeldPaneAlive, IInv
<1>3. ASSUME NEW c \in Conns, InsertPane(c) PROVE HeldPaneAlive'
  <2>1. spawning[c] \in Panes /\ idOf[spawning[c]] \in Ids
    BY <1>3 DEF InsertPane, IInv, TypeOK
  <2>2. child[spawning[c]] \in {"running", "exited"}
    BY <1>3 DEF InsertPane, IInv, SpawningInv
  <2>3. UNCHANGED ttyVars
    BY <1>3 DEF InsertPane
  <2>4. CASE Vacant(idOf[spawning[c]])
    <3>1. /\ held' = [held EXCEPT ![idOf[spawning[c]]] = spawning[c]]
          /\ reader' = [reader EXCEPT ![spawning[c]] = "reading"]
      BY <1>3, <2>4 DEF InsertPane, Vacant
    <3> QED BY <2>1, <2>2, <2>3, <3>1 DEF IInv, TypeOK, HeldPaneAlive
  <2>5. CASE ~Vacant(idOf[spawning[c]])
    BY <1>3, <2>3, <2>5 DEF InsertPane, IInv, HeldPaneAlive
  <2> QED BY <2>4, <2>5
<1>4. ASSUME NEW c \in Conns, NEW i \in Ids, NEW e \in BOOLEAN, SetEphemeral(c, i, e)
      PROVE  HeldPaneAlive'
  BY <1>4 DEF SetEphemeral, HeldPaneAlive, IInv
<1>5. ASSUME NEW c \in Conns, NEW i \in Ids, Kill(c, i) PROVE HeldPaneAlive'
  BY <1>5 DEF Kill, HeldPaneAlive, IInv
<1>6. ASSUME NEW c \in Conns, Close(c) PROVE HeldPaneAlive'
  BY <1>6 DEF Close, HeldPaneAlive, IInv
<1>7. ASSUME NEW c \in Conns, Sweep(c) PROVE HeldPaneAlive'
  BY <1>7 DEF Sweep, HeldPaneAlive, IInv
<1>8. ASSUME NEW c \in Conns, NEW p \in Panes, DropArc(c, p)
      PROVE  HeldPaneAlive'
  <2>1. \A j \in Ids : held[j] # None => held[j] # p \/ Kept(p)
    BY DEF Kept, Mapped
  <2>2. \A q \in Panes : q # p \/ Kept(p) => child'[q] = child[q]
    BY <1>8 DEF DropArc, DropPane, IInv, TypeOK
  <2> QED BY <1>8, <2>1, <2>2 DEF DropArc, IInv, TypeOK, HeldPaneAlive
<1>9. ASSUME NEW p \in Panes, StartJob(p) PROVE HeldPaneAlive'
  BY <1>9 DEF StartJob, HeldPaneAlive, IInv
<1>10. ASSUME NEW p \in Panes, JobEnds(p) PROVE HeldPaneAlive'
  BY <1>10 DEF JobEnds, HeldPaneAlive, IInv
<1>11. ASSUME NEW p \in Panes, ShellExits(p) PROVE HeldPaneAlive'
  BY <1>11 DEF ShellExits, HeldPaneAlive, IInv
<1>12. ASSUME NEW p \in Panes, ReaderLocks(p) PROVE HeldPaneAlive'
  <2> SUFFICES ASSUME NEW j \in Ids, held[j] # None
               PROVE  reader'[held[j]] \in {"reading", "upgraded"}
    BY <1>12 DEF ReaderLocks, IInv, HeldPaneAlive
  <2>1. held[j] \in Panes /\ Strong(held[j]) /\ reader[held[j]] \in {"reading", "upgraded"}
    BY DEF Strong, Kept, Mapped, IInv, TypeOK, HeldPaneAlive
  <2> QED BY <1>12, <2>1 DEF ReaderLocks, IInv, TypeOK
<1>13. ASSUME NEW p \in Panes, ReaderDecides(p) PROVE HeldPaneAlive'
  BY <1>13 DEF ReaderDecides, DropPane, Ours, HeldPaneAlive, HeldInv, TypeOK, IInv, LockInv
<1>14. ASSUME NEW p \in Panes, ReaderDrops(p) PROVE HeldPaneAlive'
  BY <1>14 DEF ReaderDrops, DropPane, HeldPaneAlive, TypeOK, IInv
<1>15. ASSUME NEW p \in Panes, ReaderAnnounces(p) PROVE HeldPaneAlive'
  BY <1>15 DEF ReaderAnnounces, HeldPaneAlive, IInv
<1>16. ASSUME Quiet PROVE HeldPaneAlive'
  BY <1>16 DEF Quiet, HeldPaneAlive, IInv
<1> QED
  BY <1>1, <1>2, <1>3, <1>4, <1>5, <1>6, <1>7, <1>8, <1>9, <1>10, <1>11, <1>12, <1>13, <1>14, <1>15, <1>16
  DEF Next, ConnStep, TtyStep, ReaderStep

(* Steps that leave Arcs and reaping alone keep the account. *)
LEMMA AccountKept ==
  ASSUME IInv, UNCHANGED <<held, arcs, spawning, spawned>>,
         \A q \in Panes : child'[q] = "reaped" <=> child[q] = "reaped",
         \A q \in Panes : reader'[q] \in {"upgraded", "removed"}
                            <=> reader[q] \in {"upgraded", "removed"}
  PROVE  DroppedIffUnheld'
<1>1. \A q \in Panes : Mapped(q)' <=> Mapped(q)
  BY DEF Mapped
<1>2. \A q \in Panes : Strong(q)' <=> Strong(q)
  BY <1>1 DEF Strong, Kept
<1> QED BY <1>2 DEF IInv, DroppedIffUnheld

(* Every step keeps the account of Arcs: the last one out reaps. *)
LEMMA DroppedStep ==
  ASSUME IInv, Next
  PROVE  DroppedIffUnheld'
<1>1. ASSUME NEW c \in Conns, Accept(c) \/ Close(c) PROVE DroppedIffUnheld'
  <2> UNCHANGED <<held, arcs, spawning, spawned, child, reader>> BY <1>1 DEF Accept, Close
  <2> QED BY AccountKept
<1>2. ASSUME NEW c \in Conns, NEW i \in Ids, NEW e \in BOOLEAN, StartChild(c, i, e)
      PROVE  DroppedIffUnheld'
  <2> DEFINE p == spawned + 1
  <2>1. /\ p \in Panes /\ spawned' = p /\ spawning' = [spawning EXCEPT ![c] = p]
        /\ spawning[c] = None
        /\ child' = [child EXCEPT ![p] = "running"]
        /\ UNCHANGED <<held, reader, arcs, lock, conn, due>>
    BY <1>2 DEF StartChild, Idle, IInv, TypeOK
  <2> HIDE DEF p
  <2> SUFFICES ASSUME NEW q \in Panes, q <= spawned'
               PROVE  child'[q] = "reaped" <=> ~Strong(q)' /\ \A d \in Conns : spawning'[d] # q
    BY DEF DroppedIffUnheld
  <2>2. CASE q = p
    BY <2>1, <2>2 DEF IInv, TypeOK
  <2>3. CASE q # p
    <3>1. q <= spawned BY <2>1, <2>3 DEF p, IInv, TypeOK
    <3>2. Strong(q)' <=> Strong(q)
      BY <2>1 DEF Strong, Kept, Mapped
    <3>3. (\A d \in Conns : spawning'[d] # q) <=> (\A d \in Conns : spawning[d] # q)
      BY <2>1, <2>3
    <3>4. child'[q] = child[q]
      BY <2>1, <2>3 DEF TypeOK, IInv
    <3> QED BY <3>1, <3>2, <3>3, <3>4 DEF IInv, DroppedIffUnheld
  <2> QED BY <2>2, <2>3
<1>3. ASSUME NEW c \in Conns, InsertPane(c) PROVE DroppedIffUnheld'
  BY <1>3, InsertPaneStep
<1>4. ASSUME NEW c \in Conns, NEW i \in Ids, NEW e \in BOOLEAN, SetEphemeral(c, i, e)
      PROVE  DroppedIffUnheld'
  <2> UNCHANGED <<held, arcs, spawning, spawned, child, reader>> BY <1>4 DEF SetEphemeral
  <2> QED BY AccountKept
<1>5. ASSUME NEW c \in Conns, NEW i \in Ids, Kill(c, i) PROVE DroppedIffUnheld'
  <2>1. held[i] \in Panes /\ \A j \in Ids : held[j] = held[i] => j = i
    BY <1>5 DEF Kill, IInv, TypeOK, HeldInv
  <2> SUFFICES ASSUME NEW q \in Panes, q <= spawned
               PROVE  child'[q] = "reaped" <=> ~Strong(q)' /\ \A d \in Conns : spawning'[d] # q
    BY <1>5 DEF DroppedIffUnheld, Kill
  <2>2. CASE q = held[i]
    <3>1. Strong(q) /\ Strong(q)'
      BY <1>5, <2>1, <2>2 DEF Kill, Strong, Kept, Mapped, IInv, TypeOK
    <3> QED BY <1>5, <3>1 DEF Kill, IInv, DroppedIffUnheld
  <2>3. CASE q # held[i]
    <3>1. Mapped(q)' <=> Mapped(q)
      BY <1>5, <2>3 DEF Kill, Mapped
    <3>2. arcs'[q] = arcs[q]
      BY <1>5, <2>1, <2>3 DEF Kill, IInv, TypeOK
    <3> QED BY <1>5, <3>1, <3>2 DEF Kill, Strong, Kept, IInv, DroppedIffUnheld
  <2> QED BY <2>2, <2>3
<1>6. ASSUME NEW c \in Conns, Sweep(c) PROVE DroppedIffUnheld'
  <2> DEFINE doomed == {i \in Ids : held[i] # None /\ Orphan(c, held[i])}
  <2>1. /\ held' = [i \in Ids |-> IF i \in doomed THEN None ELSE held[i]]
        /\ arcs' = [p \in Panes |-> IF \E i \in doomed : held[i] = p
                                    THEN arcs[p] \cup {c} ELSE arcs[p]]
        /\ UNCHANGED <<child, reader, spawning, spawned>>
    BY <1>6 DEF Sweep
  <2>2. doomed \subseteq Ids /\ \A i \in doomed : held[i] # None
    OBVIOUS
  <2> HIDE DEF doomed
  <2>3. ASSUME NEW q \in Panes PROVE Strong(q)' <=> Strong(q)
    <3>1. CASE \E i \in doomed : held[i] = q
      BY <2>1, <2>2, <3>1 DEF Strong, Kept, Mapped
    <3>2. CASE ~\E i \in doomed : held[i] = q
      <4>1. Mapped(q)' <=> Mapped(q)
        BY <2>1, <2>2, <3>2 DEF Mapped
      <4> QED BY <2>1, <3>2, <4>1 DEF Strong, Kept
    <3> QED BY <3>1, <3>2
  <2> QED BY <2>1, <2>3 DEF IInv, DroppedIffUnheld
<1>7. ASSUME NEW c \in Conns, NEW p \in Panes, DropArc(c, p) PROVE DroppedIffUnheld'
  <2> SUFFICES ASSUME NEW q \in Panes, q <= spawned
               PROVE  child'[q] = "reaped" <=> ~Strong(q)' /\ \A d \in Conns : spawning'[d] # q
    BY <1>7 DEF DroppedIffUnheld, DropArc
  <2>1. Kept(q)' <=> Kept(q)
    BY <1>7 DEF DropArc, Kept, Mapped
  <2>2. child[q] = "reaped" <=> ~Strong(q) /\ \A d \in Conns : spawning[d] # q
    BY DEF IInv, DroppedIffUnheld
  <2>3. CASE q = p
    <3>1. arcs'[p] = arcs[p] \ {c} /\ c \in arcs[p] /\ \A d \in Conns : spawning'[d] # p
      <4>1. c \in arcs[p] /\ arcs'[p] = arcs[p] \ {c} /\ spawning' = spawning
        BY <1>7 DEF DropArc, IInv, TypeOK
      <4> QED BY <4>1 DEF IInv, SpawningInv
    <3>2. CASE Kept(p) \/ arcs[p] # {c}
      BY <1>7, <2>1, <2>2, <2>3, <3>1, <3>2 DEF DropArc, Strong
    <3>3. CASE ~Kept(p) /\ arcs[p] = {c}
      <4>1. child'[p] = "reaped" BY <1>7, <3>3 DEF DropArc, DropPane, IInv, TypeOK
      <4> QED BY <2>1, <2>3, <3>1, <3>3, <4>1 DEF Strong
    <3> QED BY <3>2, <3>3
  <2>4. CASE q # p
    <3>1. arcs'[q] = arcs[q] /\ child'[q] = child[q] /\ spawning' = spawning
      BY <1>7, <2>4 DEF DropArc, DropPane, IInv, TypeOK
    <3> QED BY <2>1, <2>2, <3>1 DEF Strong
  <2> QED BY <2>3, <2>4
<1>8. ASSUME NEW p \in Panes, StartJob(p) \/ JobEnds(p) \/ ReaderAnnounces(p) PROVE DroppedIffUnheld'
  <2> UNCHANGED <<held, arcs, spawning, spawned, child>> BY <1>8 DEF StartJob, JobEnds, ReaderAnnounces
  <2>1. \A q \in Panes : reader'[q] \in {"upgraded", "removed"} <=> reader[q] \in {"upgraded", "removed"}
    BY <1>8 DEF StartJob, JobEnds, ReaderAnnounces, IInv, TypeOK
  <2> QED BY <2>1, AccountKept
<1>9. ASSUME NEW p \in Panes, ShellExits(p) PROVE DroppedIffUnheld'
  <2> UNCHANGED <<held, arcs, spawning, spawned, reader>> BY <1>9 DEF ShellExits
  <2>1. \A q \in Panes : child'[q] = "reaped" <=> child[q] = "reaped"
    BY <1>9 DEF ShellExits
  <2> QED BY <2>1, AccountKept
<1>10. ASSUME NEW p \in Panes, ReaderLocks(p) PROVE DroppedIffUnheld'
  <2> SUFFICES ASSUME NEW q \in Panes, q <= spawned
               PROVE  child'[q] = "reaped" <=> ~Strong(q)' /\ \A d \in Conns : spawning'[d] # q
    BY <1>10 DEF DroppedIffUnheld, ReaderLocks
  <2>1. Mapped(q)' <=> Mapped(q)
    BY <1>10 DEF ReaderLocks, Mapped
  <2>2. Strong(q)' <=> Strong(q)
    BY <1>10, <2>1 DEF ReaderLocks, Strong, Kept
  <2> QED BY <1>10, <2>2 DEF ReaderLocks, IInv, DroppedIffUnheld
<1>11. ASSUME NEW p \in Panes, ReaderDecides(p) PROVE DroppedIffUnheld'
  <2> SUFFICES ASSUME NEW q \in Panes, q <= spawned
               PROVE  child'[q] = "reaped" <=> ~Strong(q)' /\ \A d \in Conns : spawning'[d] # q
    BY <1>11 DEF DroppedIffUnheld, ReaderDecides
  <2>1. child[q] = "reaped" <=> ~Strong(q) /\ \A d \in Conns : spawning[d] # q
    BY DEF IInv, DroppedIffUnheld
  <2>2. CASE q # p
    <3>1. Mapped(q)' <=> Mapped(q)
      BY <1>11, <2>2 DEF ReaderDecides, Ours, Mapped, IInv, TypeOK
    <3>2. child'[q] = child[q] /\ reader'[q] = reader[q] /\ arcs' = arcs /\ spawning' = spawning
      BY <1>11, <2>2 DEF ReaderDecides, DropPane, IInv, TypeOK
    <3> QED BY <2>1, <3>1, <3>2 DEF Strong, Kept
  <2>3. CASE q = p
    <3>1. reader[p] \in {"upgraded", "orphan"} /\ arcs' = arcs /\ spawning' = spawning
          /\ \A d \in Conns : spawning[d] # p
      BY <1>11 DEF ReaderDecides, IInv, LockInv, SpawningInv
    <3>2. CASE Ours(p)
      <4>1. reader'[p] = "removed" /\ Strong(p) /\ Mapped(p)
        BY <1>11, <3>2 DEF ReaderDecides, Ours, Strong, Kept, IInv, TypeOK, Mapped
      <4>2. child'[p] = child[p]
        BY <1>11, <4>1 DEF ReaderDecides, MeIsLast
      <4> QED BY <2>1, <2>3, <4>1, <4>2 DEF Strong, Kept
    <3>3. CASE ~Ours(p)
      <4>1. reader'[p] \notin {"upgraded", "removed"} /\ (Mapped(p)' <=> Mapped(p))
        BY <1>11, <3>3 DEF ReaderDecides, IInv, TypeOK, Mapped
      <4>2. Strong(p)' <=> Mapped(p) \/ arcs[p] # {}
        BY <3>1, <4>1 DEF Strong, Kept
      <4>3. CASE MeIsLast(p)
        <5>1. child'[p] = "reaped"
          BY <1>11, <4>3 DEF ReaderDecides, DropPane, IInv, TypeOK
        <5> QED BY <2>3, <3>1, <4>2, <4>3, <5>1 DEF MeIsLast
      <4>4. CASE ~MeIsLast(p)
        <5>1. child' = child
          BY <1>11, <4>4 DEF ReaderDecides
        <5>2. Strong(p)' <=> Strong(p)
          BY <3>1, <4>2, <4>4 DEF MeIsLast, Strong, Kept
        <5> QED BY <2>1, <2>3, <3>1, <5>1, <5>2
      <4> QED BY <4>3, <4>4
    <3> QED BY <3>2, <3>3
  <2> QED BY <2>2, <2>3
<1>12. ASSUME NEW p \in Panes, ReaderDrops(p) PROVE DroppedIffUnheld'
  <2> SUFFICES ASSUME NEW q \in Panes, q <= spawned
               PROVE  child'[q] = "reaped" <=> ~Strong(q)' /\ \A d \in Conns : spawning'[d] # q
    BY <1>12 DEF DroppedIffUnheld, ReaderDrops
  <2>1. child[q] = "reaped" <=> ~Strong(q) /\ \A d \in Conns : spawning[d] # q
    BY DEF IInv, DroppedIffUnheld
  <2>2. (Mapped(q)' <=> Mapped(q)) /\ arcs' = arcs /\ spawning' = spawning
    BY <1>12 DEF ReaderDrops, Mapped
  <2>3. CASE q # p
    <3>1. child'[q] = child[q] /\ reader'[q] = reader[q]
      BY <1>12, <2>3 DEF ReaderDrops, DropPane, IInv, TypeOK
    <3> QED BY <2>1, <2>2, <3>1 DEF Strong, Kept
  <2>4. CASE q = p
    <3>1. reader[p] = "removed" /\ reader'[p] = "announce" /\ \A d \in Conns : spawning[d] # p
      <4>1. reader[p] = "removed" /\ reader'[p] = "announce"
        BY <1>12 DEF ReaderDrops, IInv, TypeOK
      <4> QED BY <4>1 DEF IInv, SpawningInv
    <3>2. CASE Mapped(p) \/ arcs[p] # {}
      BY <1>12, <2>1, <2>2, <2>4, <3>1, <3>2 DEF ReaderDrops, Strong, Kept
    <3>3. CASE ~(Mapped(p) \/ arcs[p] # {})
      <4>1. child'[p] = "reaped"
        BY <1>12, <3>3 DEF ReaderDrops, DropPane, IInv, TypeOK
      <4> QED BY <2>2, <2>4, <3>1, <3>3, <4>1 DEF Strong, Kept
    <3> QED BY <3>2, <3>3
  <2> QED BY <2>3, <2>4
<1>13. ASSUME Quiet PROVE DroppedIffUnheld'
  <2> UNCHANGED vars BY <1>13 DEF Quiet
  <2> QED BY AccountKept
<1> QED
  BY <1>1, <1>2, <1>3, <1>4, <1>5, <1>6, <1>7, <1>8, <1>9, <1>10, <1>11, <1>12, <1>13
  DEF Next, ConnStep, TtyStep, ReaderStep

(* Every step keeps an announcement pending for a vacant, lost id. *)
LEMMA SilentStep ==
  ASSUME IInv, Next
  PROVE  NoSilentDeath'
<1>1. ASSUME NEW c \in Conns, Accept(c) PROVE NoSilentDeath'
  BY <1>1 DEF Accept, NoSilentDeath, IInv
<1>2. ASSUME NEW c \in Conns, NEW i \in Ids, NEW e \in BOOLEAN, StartChild(c, i, e)
      PROVE  NoSilentDeath'
  <2> SUFFICES ASSUME NEW j \in due, held[j] = None
               PROVE  \E q \in Panes : idOf'[q] = j /\ reader[q] \in Pending
    BY <1>2 DEF StartChild, NoSilentDeath
  <2>1. PICK q \in Panes : idOf[q] = j /\ reader[q] \in Pending
    BY DEF IInv, NoSilentDeath
  <2>2. q # spawned + 1
    BY <2>1 DEF IInv, TypeOK, FreshInv, Pending
  <2> QED BY <1>2, <2>1, <2>2 DEF StartChild, IInv, TypeOK
<1>3. ASSUME NEW c \in Conns, InsertPane(c) PROVE NoSilentDeath'
  BY <1>3, InsertPaneStep
<1>4. ASSUME NEW c \in Conns, NEW i \in Ids, NEW e \in BOOLEAN, SetEphemeral(c, i, e)
      PROVE  NoSilentDeath'
  BY <1>4 DEF SetEphemeral, NoSilentDeath, IInv
<1>5. ASSUME NEW c \in Conns, NEW i \in Ids, Kill(c, i) PROVE NoSilentDeath'
  BY <1>5 DEF Kill, NoSilentDeath, Pending, HeldPaneAlive, HeldInv, TypeOK, IInv
<1>6. ASSUME NEW c \in Conns, Close(c) PROVE NoSilentDeath'
  BY <1>6 DEF Close, NoSilentDeath, IInv
<1>7. ASSUME NEW c \in Conns, Sweep(c) PROVE NoSilentDeath'
  BY <1>7 DEF Sweep, NoSilentDeath, Pending, HeldPaneAlive, HeldInv, TypeOK, IInv
<1>8. ASSUME NEW c \in Conns, NEW p \in Panes, DropArc(c, p)
      PROVE  NoSilentDeath'
  BY <1>8 DEF DropArc, NoSilentDeath, IInv
<1>9. ASSUME NEW p \in Panes, StartJob(p) PROVE NoSilentDeath'
  BY <1>9 DEF StartJob, NoSilentDeath, IInv
<1>10. ASSUME NEW p \in Panes, JobEnds(p) PROVE NoSilentDeath'
  BY <1>10 DEF JobEnds, NoSilentDeath, IInv
<1>11. ASSUME NEW p \in Panes, ShellExits(p) PROVE NoSilentDeath'
  BY <1>11 DEF ShellExits, NoSilentDeath, IInv
<1>12. ASSUME NEW p \in Panes, ReaderLocks(p) PROVE NoSilentDeath'
  BY <1>12 DEF ReaderLocks, NoSilentDeath, Pending, IInv
<1>13. ASSUME NEW p \in Panes, ReaderDecides(p) PROVE NoSilentDeath'
  BY <1>13 DEF ReaderDecides, Announced, NoSilentDeath, Pending, TypeOK, IInv
<1>14. ASSUME NEW p \in Panes, ReaderDrops(p) PROVE NoSilentDeath'
  BY <1>14 DEF ReaderDrops, NoSilentDeath, Pending, IInv
<1>15. ASSUME NEW p \in Panes, ReaderAnnounces(p) PROVE NoSilentDeath'
  BY <1>15 DEF ReaderAnnounces, NoSilentDeath, IInv
<1>16. ASSUME Quiet PROVE NoSilentDeath'
  BY <1>16 DEF Quiet, NoSilentDeath, IInv
<1> QED
  BY <1>1, <1>2, <1>3, <1>4, <1>5, <1>6, <1>7, <1>8, <1>9, <1>10, <1>11, <1>12, <1>13, <1>14, <1>15, <1>16
  DEF Next, ConnStep, TtyStep, ReaderStep

(* The invariant is inductive. *)
LEMMA StepIInv == IInv /\ [Next]_vars => IInv'
<1> SUFFICES ASSUME IInv, [Next]_vars PROVE IInv'
  OBVIOUS
<1>1. CASE Next
  BY <1>1, TypeStep, HeldStep, SpawningStep, FreshStep, LockStep, OwnerStep,
     AliveStep, DroppedStep, SilentStep DEF IInv
<1>2. CASE UNCHANGED vars
  BY <1>2, AccountKept DEF IInv, TypeOK, HeldInv, SpawningInv, FreshInv, LockInv, OwnerServes, HeldPaneAlive, NoSilentDeath
<1> QED BY <1>1, <1>2

(* The inductive invariant holds of every behaviour, fair or not. *)
THEOREM Inductive == Safe => []IInv
  BY InitIInv, StepIInv, PTL DEF Safe

---------------------------------------------------------------------------
(* Every variable keeps its type: the pane table of main.rs. *)
THEOREM TypeCorrect == Safe => []TypeOK
<1>1. IInv => TypeOK
  BY DEF IInv
<1> QED BY <1>1, Inductive, PTL

(* No ephemeral pane outlives the sweep of the connection that owns it. *)
THEOREM EphemeralPanesAreSwept == Safe => []OwnerServes
<1>1. IInv => OwnerServes
  BY DEF IInv
<1> QED BY <1>1, Inductive, PTL

(* The map never hands out a pane that was dropped or announced. *)
THEOREM MapHoldsLivePanes == Safe => []HeldPaneAlive
<1>1. IInv => HeldPaneAlive
  BY DEF IInv
<1> QED BY <1>1, Inductive, PTL

(* Pane::drop runs exactly once the last Arc is gone: the races between    *)
(* Kill, the sweep and the reader's upgrade neither leak nor use a pane    *)
(* after its drop.                                                         *)
THEOREM LastArcReaps == Safe => []DroppedIffUnheld
<1>1. IInv => DroppedIffUnheld
  BY DEF IInv
<1> QED BY <1>1, Inductive, PTL

(* The single Exit path misses no pane: whoever removed it, a reader is    *)
(* still to announce the id or the id is in use again.                     *)
THEOREM ExitIsPending == Safe => []NoSilentDeath
<1>1. IInv => NoSilentDeath
  BY DEF IInv
<1> QED BY <1>1, Inductive, PTL

(* A racing spawn of the same id never overwrites the incumbent. *)
THEOREM IncumbentStays == Safe => NeverRebound
<1>1. IInv /\ [Next]_vars => [\A i \in Ids : held[i] # None => held'[i] \in {held[i], None}]_vars
  <2> SUFFICES ASSUME IInv, Next, NEW i \in Ids, held[i] # None
               PROVE  held'[i] \in {held[i], None}
    OBVIOUS
  <2>1. ASSUME NEW c \in Conns, ConnStep(c) PROVE held'[i] \in {held[i], None}
    BY <2>1 DEF ConnStep, Accept, StartChild, InsertPane, Vacant, SetEphemeral, Kill, Close, Sweep, DropArc, IInv, TypeOK
  <2>2. ASSUME NEW p \in Panes, TtyStep(p) PROVE held'[i] \in {held[i], None}
    BY <2>2 DEF TtyStep, StartJob, JobEnds, ShellExits
  <2>3. ASSUME NEW p \in Panes, ReaderStep(p) PROVE held'[i] \in {held[i], None}
    BY <2>3 DEF ReaderStep, ReaderLocks, ReaderDecides, ReaderDrops, ReaderAnnounces, IInv, TypeOK
  <2>4. CASE Quiet
    BY <2>4 DEF Quiet
  <2> QED BY <2>1, <2>2, <2>3, <2>4 DEF Next
<1> QED BY <1>1, Inductive, PTL DEF Safe, NeverRebound

(* What may take a pane out of the map, in one step. *)
Rightful(i) ==
  LET p == held[i] IN
    \/ lock = p /\ slave[p] = {}
    \/ \E c \in arcs'[p] : conn[c] = "open"
    \/ \E c \in arcs'[p] : conn[c] = "closing" /\ ephemeral[p] /\ owner[p] = c

(* A promoted or re-homed pane does not die with its ex-owner: a pane      *)
(* leaves the map at its own EOF, by Kill, or as an orphan of its owner.   *)
THEOREM OnlyRightfulRemovals == Safe => LeavesMapRightfully
<1>1. IInv /\ [Next]_vars =>
        [\A i \in Ids : held[i] # None /\ held'[i] # held[i] => Rightful(i)]_vars
  <2> SUFFICES ASSUME IInv, Next, NEW i \in Ids, held[i] # None, held'[i] # held[i]
               PROVE  Rightful(i)
    OBVIOUS
  <2>1. ASSUME NEW c \in Conns, NEW j \in Ids, Kill(c, j) PROVE Rightful(i)
    BY <2>1 DEF Kill, Idle, Rightful, IInv, TypeOK
  <2>2. ASSUME NEW c \in Conns, Sweep(c) PROVE Rightful(i)
    <3> DEFINE doomed == {j \in Ids : held[j] # None /\ Orphan(c, held[j])}
    <3>1. i \in doomed /\ held[i] \in Panes
      BY <2>2 DEF Sweep, IInv, TypeOK
    <3>2. c \in arcs'[held[i]] /\ conn[c] = "closing"
      BY <2>2, <3>1 DEF Sweep
    <3> QED BY <3>1, <3>2 DEF Rightful, Orphan
  <2>3. ASSUME NEW p \in Panes, ReaderDecides(p) PROVE Rightful(i)
    BY <2>3 DEF ReaderDecides, Ours, Rightful, IInv, TypeOK, LockInv
  <2>4. ASSUME NEW c \in Conns, InsertPane(c) PROVE FALSE
    BY <2>4 DEF InsertPane, Vacant, IInv, TypeOK
  <2>5. ASSUME NEW c \in Conns,
               Accept(c) \/ Close(c) \/ \E p \in Panes : DropArc(c, p)
        PROVE  FALSE
    BY <2>5 DEF Accept, Close, DropArc
  <2>6. ASSUME NEW c \in Conns, NEW j \in Ids, NEW e \in BOOLEAN,
               StartChild(c, j, e) \/ SetEphemeral(c, j, e)
        PROVE  FALSE
    BY <2>6 DEF StartChild, SetEphemeral
  <2>7. ASSUME NEW p \in Panes, TtyStep(p) PROVE FALSE
    BY <2>7 DEF TtyStep, StartJob, JobEnds, ShellExits
  <2>8. ASSUME NEW p \in Panes, ReaderLocks(p) \/ ReaderDrops(p) \/ ReaderAnnounces(p)
        PROVE  FALSE
    BY <2>8 DEF ReaderLocks, ReaderDrops, ReaderAnnounces
  <2>9. CASE Quiet
    BY <2>9 DEF Quiet
  <2> QED
    BY <2>1, <2>2, <2>3, <2>4, <2>5, <2>6, <2>7, <2>8, <2>9 DEF Next, ConnStep, ReaderStep
<1>2. [\A i \in Ids : held[i] # None /\ held'[i] # held[i] => Rightful(i)]_vars <=>
        [\A i \in Ids : held[i] # None /\ held'[i] # held[i] =>
           LET p == held[i] IN
             \/ lock = p /\ slave[p] = {}
             \/ \E c \in arcs'[p] : conn[c] = "open"
             \/ \E c \in arcs'[p] : conn[c] = "closing" /\ ephemeral[p] /\ owner[p] = c]_vars
  BY DEF Rightful
<1> QED BY <1>1, <1>2, Inductive, PTL DEF Safe, LeavesMapRightfully

---------------------------------------------------------------------------
(* The daemon implements PaneLife. *)

(* A pane's life is what it was when its four causes are. *)
LEMMA LifeFrame ==
  ASSUME NEW q \in Panes,
         q > spawned' <=> q > spawned,
         child'[q] = "reaped" <=> child[q] = "reaped",
         Mapped(q)' <=> Mapped(q),
         (\E c \in Conns : spawning'[c] = q) <=> (\E c \in Conns : spawning[c] = q)
  PROVE  LifeOf(q)' = LifeOf(q)
<1>1. CASE q > spawned
  BY <1>1 DEF LifeOf
<1>2. CASE ~(q > spawned) /\ child[q] = "reaped"
  BY <1>2 DEF LifeOf
<1>3. CASE ~(q > spawned) /\ child[q] # "reaped" /\ Mapped(q)
  BY <1>3 DEF LifeOf
<1>4. CASE ~(q > spawned) /\ child[q] # "reaped" /\ ~Mapped(q)
  BY <1>4 DEF LifeOf
<1> QED BY <1>1, <1>2, <1>3, <1>4

(* No pane changes its life when neither map, shells nor spawns change. *)
LEMMA LifeStutter ==
  ASSUME UNCHANGED <<held, spawning, spawned, due>>,
         \A q \in Panes : child'[q] = "reaped" <=> child[q] = "reaped"
  PROVE  UNCHANGED Life!lifeVars
<1>1. \A q \in Panes : LifeOf(q)' = LifeOf(q)
  BY LifeFrame DEF Mapped
<1> QED BY <1>1 DEF Life!lifeVars

(* What the invariant says of a pane's life. *)
LEMMA LifeFacts ==
  ASSUME IInv, NEW q \in Panes
  PROVE  /\ Mapped(q) => LifeOf(q) = "bound"
         /\ (\E c \in Conns : spawning[c] = q) => LifeOf(q) = "made" /\ ~Mapped(q)
         /\ q <= spawned /\ child[q] # "reaped" /\ ~Mapped(q)
               /\ ~(\E c \in Conns : spawning[c] = q) => LifeOf(q) = "lost"
<1>1. spawned \in Nat /\ q \in Nat /\ q # None
  BY DEF IInv, TypeOK
<1>2. ASSUME Mapped(q) PROVE q <= spawned /\ child[q] # "reaped" /\ ~(\E c \in Conns : spawning[c] = q)
  BY <1>1, <1>2 DEF Mapped, IInv, HeldInv, HeldPaneAlive
<1>3. ASSUME NEW c \in Conns, spawning[c] = q PROVE q <= spawned /\ child[q] # "reaped"
  BY <1>1, <1>3 DEF IInv, SpawningInv
<1> QED BY <1>1, <1>2, <1>3 DEF LifeOf

(* A drop of the last Arc reaps a lost pane. *)
LEMMA LifeReap ==
  ASSUME IInv, NEW p \in Panes, DropPane(p), Strong(p), ~Mapped(p),
         p <= spawned, \A c \in Conns : spawning[c] # p,
         UNCHANGED <<held, spawning, spawned, due>>
  PROVE  Life!Reap(p)
<1>1. child[p] # "reaped" /\ child'[p] = "reaped" /\ (\A q \in Panes \ {p} : child'[q] = child[q])
  BY DEF DropPane, IInv, TypeOK, DroppedIffUnheld
<1>2. LifeOf(p) = "lost"
  BY <1>1, LifeFacts
<1>3. LifeOf(p)' = "gone"
  BY <1>1 DEF LifeOf, IInv, TypeOK
<1>4. \A q \in Panes \ {p} : LifeOf(q)' = LifeOf(q)
  BY <1>1, LifeFrame DEF Mapped
<1> QED BY <1>2, <1>3, <1>4 DEF Life!Reap

(* The panes of some ids leave the map, alive. *)
LEMMA LifeLose ==
  ASSUME IInv, NEW S \in SUBSET Ids, S # {},
         \A i \in S : held[i] # None,
         held' = [i \in Ids |-> IF i \in S THEN None ELSE held[i]],
         due' = due \cup S,
         UNCHANGED <<child, spawning, spawned>>
  PROVE  Life!Lose(S)
<1> DEFINE lost(q) == \E i \in S : held[i] = q
<1>1. ASSUME NEW q \in Panes, lost(q) PROVE LifeOf(q)' = "lost"
  <2>1. Mapped(q) /\ q # None /\ q \in Nat /\ spawned \in Nat
    BY <1>1 DEF Mapped, IInv, TypeOK
  <2>2. q <= spawned /\ child[q] # "reaped" /\ idOf[q] \in S /\ (\A c \in Conns : spawning[c] # q)
    BY <1>1, <2>1 DEF IInv, HeldInv, HeldPaneAlive
  <2>3. ~Mapped(q)'
    <3> SUFFICES ASSUME NEW j \in Ids, held'[j] = q PROVE FALSE
      BY DEF Mapped
    <3>1. j \notin S /\ held[j] = q
      BY <2>1
    <3>2. idOf[q] = j
      BY <3>1, <2>1 DEF IInv, HeldInv
    <3> QED BY <3>1, <3>2, <2>2
  <2> QED BY <2>1, <2>2, <2>3 DEF LifeOf
<1>2. ASSUME NEW q \in Panes, ~lost(q) PROVE LifeOf(q)' = LifeOf(q)
  <2>1. Mapped(q)' <=> Mapped(q)
    BY <1>2 DEF Mapped, IInv, TypeOK
  <2> QED BY <2>1, LifeFrame
<1>3. [q \in Panes |-> LifeOf(q)]' = [q \in Panes |-> IF lost(q) THEN "lost" ELSE LifeOf(q)]
  BY <1>1, <1>2
<1> QED BY <1>3 DEF Life!Lose

(* Spawning, first half. *)
LEMMA LifeMake ==
  ASSUME IInv, NEW c \in Conns, NEW i \in Ids, NEW e \in BOOLEAN, StartChild(c, i, e),
         NEW p \in Panes, p = spawned + 1
  PROVE  Life!Make(p)
<1>1. /\ p # None /\ spawned \in Nat /\ spawned' = p
      /\ spawning[c] = None /\ spawning' = [spawning EXCEPT ![c] = p]
      /\ child' = [child EXCEPT ![p] = "running"]
      /\ UNCHANGED <<held, due>>
  BY DEF StartChild, Idle, IInv, TypeOK
<1>2. LifeOf(p) = "new"
  BY <1>1 DEF LifeOf
<1>3. ~Mapped(p)'
  BY <1>1 DEF Mapped, IInv, HeldInv
<1>4. child'[p] = "running" /\ spawning'[c] = p
  BY <1>1 DEF IInv, TypeOK
<1>5. LifeOf(p)' = "made"
  BY <1>1, <1>3, <1>4 DEF LifeOf
<1>6. ASSUME NEW q \in Panes, q # p PROVE LifeOf(q)' = LifeOf(q)
  <2>1. q > spawned' <=> q > spawned
    BY <1>1, <1>6
  <2>2. child'[q] = child[q] /\ (Mapped(q)' <=> Mapped(q))
    BY <1>1, <1>6 DEF Mapped, IInv, TypeOK
  <2>3. (\E d \in Conns : spawning'[d] = q) <=> (\E d \in Conns : spawning[d] = q)
    BY <1>1, <1>6 DEF IInv, TypeOK
  <2> QED BY <2>1, <2>2, <2>3, LifeFrame
<1> QED BY <1>1, <1>2, <1>5, <1>6 DEF Life!Make

(* Spawning, second half. *)
LEMMA LifeInsert ==
  ASSUME IInv, NEW c \in Conns, InsertPane(c), NEW p \in Panes, p = spawning[c]
  PROVE  Life!Next
<1>1. /\ p # None /\ idOf[p] \in Ids /\ p <= spawned
      /\ child[p] \in {"running", "exited"} /\ spawned \in Nat
  BY DEF InsertPane, IInv, TypeOK, SpawningInv
<1>2. \A d \in Conns : spawning[d] = p => d = c
  <2> SUFFICES ASSUME NEW d \in Conns, spawning[d] = p PROVE d = c
    OBVIOUS
  <2> QED BY <1>1 DEF IInv, SpawningInv
<1>3. LifeOf(p) = "made" /\ ~Mapped(p)
  BY <1>1, LifeFacts
<1>4. /\ spawning' = [spawning EXCEPT ![c] = None]
      /\ UNCHANGED <<child, spawned, due>>
  BY DEF InsertPane
<1>5. ASSUME NEW q \in Panes, q # p
      PROVE  (\E d \in Conns : spawning'[d] = q) <=> (\E d \in Conns : spawning[d] = q)
  BY <1>1, <1>4, <1>5 DEF IInv, TypeOK
<1>6. ~(\E d \in Conns : spawning'[d] = p)
  BY <1>1, <1>2, <1>4 DEF IInv, TypeOK
<1>7. CASE Vacant(idOf[p])
  <2>1. held[idOf[p]] = None /\ held' = [held EXCEPT ![idOf[p]] = p]
    BY <1>7 DEF InsertPane, Vacant
  <2>2. Mapped(p)'
    BY <1>1, <2>1 DEF Mapped, IInv, TypeOK
  <2>3. LifeOf(p)' = "bound"
    BY <1>1, <1>4, <2>2 DEF LifeOf
  <2>4. ASSUME NEW q \in Panes, q # p PROVE LifeOf(q)' = LifeOf(q)
    <3>1. Mapped(q)' <=> Mapped(q)
      BY <1>1, <2>1, <2>4 DEF Mapped, IInv, TypeOK
    <3> QED BY <1>4, <1>5, <2>4, <3>1, LifeFrame
  <2>5. Life!Bind(p, idOf[p])
    BY <1>1, <1>3, <1>4, <2>1, <2>3, <2>4 DEF Life!Bind
  <2> QED BY <1>1, <2>5 DEF Life!Next
<1>8. CASE ~Vacant(idOf[p])
  <2>1. held[idOf[p]] # None /\ UNCHANGED held
    BY <1>8 DEF InsertPane, Vacant
  <2>2. ~Mapped(p)'
    BY <1>3, <2>1 DEF Mapped
  <2>3. LifeOf(p)' = "lost"
    BY <1>1, <1>4, <1>6, <2>2 DEF LifeOf
  <2>4. \A q \in Panes \ {p} : LifeOf(q)' = LifeOf(q)
    BY <1>4, <1>5, <2>1, LifeFrame DEF Mapped
  <2>5. Life!Refuse(p)
    BY <1>1, <1>3, <1>4, <2>1, <2>3, <2>4 DEF Life!Refuse
  <2> QED BY <1>1, <2>5 DEF Life!Next
<1> QED BY <1>7, <1>8

(* The reader's second step loses its pane, drops it, or neither. *)
LEMMA LifeDecides ==
  ASSUME IInv, NEW p \in Panes, ReaderDecides(p)
  PROVE  Life!Next \/ UNCHANGED Life!lifeVars
<1>1. p <= spawned /\ (\A c \in Conns : spawning[c] # p) /\ idOf[p] \in Ids /\ p # None
  <2>1. lock = p /\ reader[p] \in {"upgraded", "orphan"}
    BY DEF ReaderDecides, IInv, LockInv
  <2>2. p <= spawned
    BY <2>1 DEF IInv, TypeOK, FreshInv
  <2>3. \A c \in Conns : spawning[c] # p
    BY <2>1 DEF IInv, SpawningInv
  <2> QED BY <2>2, <2>3 DEF IInv, TypeOK
<1>2. CASE Ours(p)
  <2>1. held[idOf[p]] = p /\ Mapped(p) /\ ~MeIsLast(p)
    BY <1>1, <1>2 DEF Ours, Mapped, MeIsLast
  <2>2. held' = [i \in Ids |-> IF i \in {idOf[p]} THEN None ELSE held[i]]
    BY <1>2 DEF ReaderDecides, IInv, TypeOK
  <2>3. due' = due \cup {idOf[p]} /\ UNCHANGED <<child, spawning, spawned>>
    BY <1>2, <2>1 DEF ReaderDecides
  <2>4. Life!Lose({idOf[p]})
    <3>1. {idOf[p]} \in SUBSET Ids /\ {idOf[p]} # {} /\ \A i \in {idOf[p]} : held[i] # None
      BY <1>1, <2>1
    <3> QED BY <2>2, <2>3, <3>1, LifeLose
  <2> QED BY <1>1, <2>4 DEF Life!Next
<1>3. CASE ~Ours(p) /\ MeIsLast(p)
  <2>1. DropPane(p) /\ Strong(p) /\ ~Mapped(p) /\ UNCHANGED <<held, spawning, spawned, due>>
    BY <1>3 DEF ReaderDecides, MeIsLast, Strong, Kept
  <2> QED BY <1>1, <2>1, LifeReap DEF Life!Next
<1>4. CASE ~Ours(p) /\ ~MeIsLast(p)
  <2>1. UNCHANGED <<held, spawning, spawned, due, child>>
    BY <1>4 DEF ReaderDecides
  <2> QED BY <2>1, LifeStutter
<1> QED BY <1>2, <1>3, <1>4

(* Every step of the daemon is a step of PaneLife or leaves it alone. *)
LEMMA LifeStep == IInv /\ [Next]_vars => [Life!Next]_(Life!lifeVars)
<1> SUFFICES ASSUME IInv, [Next]_vars PROVE Life!Next \/ UNCHANGED Life!lifeVars
  OBVIOUS
<1>1. ASSUME NEW c \in Conns, NEW i \in Ids, NEW e \in BOOLEAN, StartChild(c, i, e)
      PROVE  Life!Next
  <2>1. spawned + 1 \in Panes
    BY <1>1 DEF StartChild, IInv, TypeOK
  <2> QED BY <1>1, <2>1, LifeMake DEF Life!Next
<1>2. ASSUME NEW c \in Conns, InsertPane(c) PROVE Life!Next
  <2>1. spawning[c] \in Panes
    BY <1>2 DEF InsertPane, IInv, TypeOK
  <2> QED BY <1>2, <2>1, LifeInsert
<1>3. ASSUME NEW c \in Conns, NEW i \in Ids, Kill(c, i) PROVE Life!Next
  <2>1. held[i] # None /\ due' = due \cup {i} /\ UNCHANGED <<child, spawning, spawned>>
    BY <1>3 DEF Kill
  <2>2. held' = [j \in Ids |-> IF j \in {i} THEN None ELSE held[j]]
    BY <1>3 DEF Kill, IInv, TypeOK
  <2>3. {i} \in SUBSET Ids /\ {i} # {} /\ \A j \in {i} : held[j] # None
    BY <2>1
  <2>4. Life!Lose({i})
    BY <2>1, <2>2, <2>3, LifeLose
  <2> QED BY <2>4, <2>3 DEF Life!Next
<1>4. ASSUME NEW c \in Conns, Sweep(c) PROVE Life!Next \/ UNCHANGED Life!lifeVars
  <2> DEFINE doomed == {i \in Ids : held[i] # None /\ Orphan(c, held[i])}
  <2>1. /\ held' = [i \in Ids |-> IF i \in doomed THEN None ELSE held[i]]
        /\ due' = due \cup doomed
        /\ UNCHANGED <<child, spawning, spawned>>
    BY <1>4 DEF Sweep
  <2>2. doomed \in SUBSET Ids /\ \A i \in doomed : held[i] # None
    OBVIOUS
  <2> HIDE DEF doomed
  <2>3. CASE doomed # {}
    <3>1. Life!Lose(doomed)
      BY <2>1, <2>2, <2>3, LifeLose
    <3> QED BY <2>2, <3>1 DEF Life!Next
  <2>4. CASE doomed = {}
    <3>1. UNCHANGED <<held, due>>
      BY <2>1, <2>4 DEF IInv, TypeOK
    <3> QED BY <2>1, <3>1, LifeStutter
  <2> QED BY <2>3, <2>4
<1>5. ASSUME NEW c \in Conns, NEW p \in Panes, DropArc(c, p)
      PROVE  Life!Next \/ UNCHANGED Life!lifeVars
  <2>1. UNCHANGED <<held, spawning, spawned, due>> /\ arcs[p] # {}
    BY <1>5 DEF DropArc
  <2>2. p <= spawned /\ (\A d \in Conns : spawning[d] # p) /\ Strong(p)
    BY <2>1 DEF IInv, TypeOK, FreshInv, SpawningInv, Strong
  <2>3. CASE Kept(p) \/ arcs[p] # {c}
    <3>1. UNCHANGED child
      BY <1>5, <2>3 DEF DropArc
    <3> QED BY <2>1, <3>1, LifeStutter
  <2>4. CASE ~(Kept(p) \/ arcs[p] # {c})
    <3>1. DropPane(p) /\ ~Mapped(p)
      BY <1>5, <2>4 DEF DropArc, Kept
    <3> QED BY <2>1, <2>2, <3>1, LifeReap DEF Life!Next
  <2> QED BY <2>3, <2>4
<1>6. ASSUME NEW p \in Panes, ReaderDecides(p) PROVE Life!Next \/ UNCHANGED Life!lifeVars
  BY <1>6, LifeDecides
<1>7. ASSUME NEW p \in Panes, ReaderDrops(p) PROVE Life!Next \/ UNCHANGED Life!lifeVars
  <2>1. UNCHANGED <<held, spawning, spawned, due>> /\ reader[p] = "removed"
    BY <1>7 DEF ReaderDrops
  <2>2. p <= spawned /\ (\A d \in Conns : spawning[d] # p) /\ Strong(p)
    BY <2>1 DEF IInv, TypeOK, FreshInv, SpawningInv, Strong, Kept
  <2>3. CASE Mapped(p) \/ arcs[p] # {}
    <3>1. UNCHANGED child
      BY <1>7, <2>3 DEF ReaderDrops
    <3> QED BY <2>1, <3>1, LifeStutter
  <2>4. CASE ~(Mapped(p) \/ arcs[p] # {})
    <3>1. DropPane(p)
      BY <1>7, <2>4 DEF ReaderDrops
    <3> QED BY <2>1, <2>2, <2>4, <3>1, LifeReap DEF Life!Next
  <2> QED BY <2>3, <2>4
<1>8. ASSUME NEW p \in Panes, ReaderAnnounces(p) PROVE Life!Next \/ UNCHANGED Life!lifeVars
  <2>1. UNCHANGED <<held, spawning, spawned, child>> /\ due' = due \ {idOf[p]} /\ idOf[p] \in Ids
    BY <1>8 DEF ReaderAnnounces, IInv, TypeOK
  <2>2. \A q \in Panes : LifeOf(q)' = LifeOf(q)
    BY <2>1, LifeFrame DEF Mapped
  <2>3. CASE idOf[p] \in due
    <3>1. Life!Publish(idOf[p])
      BY <2>1, <2>2, <2>3 DEF Life!Publish
    <3> QED BY <2>1, <3>1 DEF Life!Next
  <2>4. CASE idOf[p] \notin due
    BY <2>1, <2>2, <2>4 DEF Life!lifeVars
  <2> QED BY <2>3, <2>4
<1>9. ASSUME NEW c \in Conns, Accept(c) \/ Close(c) \/ \E i \in Ids, e \in BOOLEAN : SetEphemeral(c, i, e)
      PROVE  UNCHANGED Life!lifeVars
  <2>1. UNCHANGED <<held, spawning, spawned, due, child>>
    BY <1>9 DEF Accept, Close, SetEphemeral
  <2> QED BY <2>1, LifeStutter
<1>10. ASSUME NEW p \in Panes, TtyStep(p) \/ ReaderLocks(p) PROVE UNCHANGED Life!lifeVars
  <2>1. UNCHANGED <<held, spawning, spawned, due>>
        /\ \A q \in Panes : child'[q] = "reaped" <=> child[q] = "reaped"
    BY <1>10 DEF TtyStep, StartJob, JobEnds, ShellExits, ReaderLocks, IInv, TypeOK
  <2> QED BY <2>1, LifeStutter
<1>11. CASE Quiet \/ UNCHANGED vars
  <2>1. UNCHANGED <<held, spawning, spawned, due, child>>
    BY <1>11 DEF Quiet
  <2> QED BY <2>1, LifeStutter
<1> QED
  BY <1>1, <1>2, <1>3, <1>4, <1>5, <1>6, <1>7, <1>8, <1>9, <1>10, <1>11 DEF Next, ConnStep, ReaderStep

(* The daemon starts where PaneLife does. *)
LEMMA LifeInit == Init => Life!Init
<1> SUFFICES ASSUME Init PROVE Life!Init
  OBVIOUS
<1>1. \A p \in Panes : LifeOf(p) = "new"
  BY DEF Init, LifeOf
<1> QED BY <1>1 DEF Init, Life!Init

(* main.rs implements PaneLife: the refinement the run ptyd checks.        *)
THEOREM DaemonImplementsPaneLife == Safe => LivesByTheBook
  BY LifeInit, LifeStep, Inductive, PTL DEF Safe, LivesByTheBook, Life!Spec
=============================================================================
