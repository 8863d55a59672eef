------------------------------- MODULE Ptyd -------------------------------
(***************************************************************************)
(* mymux-ptyd: the daemon that owns the pty panes.                         *)
(*                                                                         *)
(* Every client connection is one task that serves its requests one after  *)
(* the other; every pane has a blocking reader thread.  All of them share  *)
(* the id -> pane map behind one mutex, and a pane is dropped (its child   *)
(* killed and reaped) by whoever lets go of the last Arc to it.  A pane is *)
(* named by the order of its spawn, so that two panes that use one id, one *)
(* after the other, are different values.                                  *)
(*                                                                         *)
(* A critical section is one step when nothing outside the mutex can       *)
(* disturb it.  The reader's is two steps, because it upgrades a weak Arc  *)
(* and other threads let go of their Arcs without the mutex.               *)
(***************************************************************************)
EXTENDS Naturals

CONSTANTS Ids,      \* pane ids, chosen by the clients
          MaxPane,  \* bound: panes ever spawned
          MaxConn   \* bound: connections ever accepted

ASSUME PtydAssumption == Ids # {} /\ MaxPane \in Nat /\ MaxConn \in Nat

Panes == 1 .. MaxPane
Conns == 1 .. MaxConn
None  == 0

VARIABLES
  held,       \* store.panes: the pane an id is bound to, or None
  idOf, ephemeral, owner,   \* fields of a pane
  child,      \* its shell: "none", "running", "exited" (a zombie) or "reaped"
  slave,      \* who keeps its slave side open: the "shell", a background "job"
  reader,     \* where its reader thread is
  arcs,       \* the connection tasks that hold a strong Arc to it
  lock,       \* the pane whose reader is inside the mutex, or None
  conn,       \* where each connection's task is
  spawning,   \* the pane a connection's spawn_pane has started, not inserted
  spawned,    \* panes spawned so far
  due         \* ids that lost a pane and have had no Exit published since

fieldVars == <<idOf, ephemeral, owner>>
ttyVars   == <<child, slave>>
connVars  == <<conn, spawning>>
vars == <<held, fieldVars, ttyVars, reader, arcs, lock, connVars, spawned, due>>

---------------------------------------------------------------------------
Mapped(p) == \E i \in Ids : held[i] = p

(* Mutant: the reader thread captured a strong Arc instead of a weak one. *)
KeptWhileReading(p) ==
  Mapped(p) \/ reader[p] \in {"reading", "upgraded", "orphan", "removed"}

(* The map or the reader thread holds a strong Arc. *)
Kept(p) == Mapped(p) \/ reader[p] \in {"upgraded", "removed"}

(* Someone does, so Weak::upgrade succeeds. *)
Strong(p) == Kept(p) \/ arcs[p] # {}

(* Between two requests: the task keeps no Arc and no half-made pane. *)
Idle(c) ==
  /\ conn[c] = "open"
  /\ spawning[c] = None
  /\ \A p \in Panes : c \notin arcs[p]

(* Drop for Pane: kill the shell and wait for it. *)
DropPane(p) ==
  /\ child' = [child EXCEPT ![p] = "reaped"]
  /\ slave' = [slave EXCEPT ![p] = @ \ {"shell"}]

(* The id of a pane that was not spawned yet: never looked at. *)
AnyId == CHOOSE i \in Ids : TRUE

Init ==
  /\ held = [i \in Ids |-> None]
  /\ idOf = [p \in Panes |-> AnyId]
  /\ ephemeral = [p \in Panes |-> FALSE]
  /\ owner = [p \in Panes |-> None]
  /\ child = [p \in Panes |-> "none"]
  /\ slave = [p \in Panes |-> {}]
  /\ reader = [p \in Panes |-> "none"]
  /\ arcs = [p \in Panes |-> {}]
  /\ lock = None
  /\ conn = [c \in Conns |-> "none"]
  /\ spawning = [c \in Conns |-> None]
  /\ spawned = 0
  /\ due = {}

---------------------------------------------------------------------------
(* The connection tasks. *)

(* The accept loop numbers connections in order. *)
Accept(c) ==
  /\ conn[c] = "none"
  /\ \A d \in Conns : d < c => conn[d] # "none"
  /\ conn' = [conn EXCEPT ![c] = "open"]
  /\ UNCHANGED <<held, fieldVars, ttyVars, reader, arcs, lock, spawning, spawned, due>>

(* Req::Spawn, first half: the child runs before the id is looked up. *)
StartChild(c, i, e) ==
  /\ Idle(c)
  /\ spawned < MaxPane
  /\ LET p == spawned + 1 IN
       /\ spawned' = p
       /\ spawning' = [spawning EXCEPT ![c] = p]
       /\ idOf' = [idOf EXCEPT ![p] = i]
       /\ ephemeral' = [ephemeral EXCEPT ![p] = e]
       /\ owner' = [owner EXCEPT ![p] = c]
       /\ child' = [child EXCEPT ![p] = "running"]
       /\ slave' = [slave EXCEPT ![p] = {"shell"}]
  /\ UNCHANGED <<held, reader, arcs, lock, conn, due>>

(* Mutant: insert without looking at the entry first. *)
AnyEntry(i) == TRUE

Vacant(i) == held[i] = None

(* Req::Spawn, second half: a vacant entry takes the pane and its reader   *)
(* starts; an occupied one leaves the task with an Arc it drops unlocked.  *)
InsertPane(c) ==
  LET p == spawning[c] IN
  /\ p # None
  /\ lock = None
  /\ spawning' = [spawning EXCEPT ![c] = None]
  /\ \/ /\ Vacant(idOf[p])
        /\ held' = [held EXCEPT ![idOf[p]] = p]
        /\ reader' = [reader EXCEPT ![p] = "reading"]
        /\ UNCHANGED arcs
     \/ /\ ~Vacant(idOf[p])
        /\ arcs' = [arcs EXCEPT ![p] = @ \cup {c}]
        /\ UNCHANGED <<held, reader>>
  /\ UNCHANGED <<fieldVars, ttyVars, lock, conn, spawned, due>>

(* Mutants: a demotion keeps the old owner; the owner is the counter after *)
(* the increment.                                                          *)
KeepsOwner(c, p, e) == owner[p]
NextOwner(c, p, e)  == IF e THEN c + 1 ELSE owner[p]

NewOwner(c, p, e) == IF e THEN c ELSE owner[p]

(* Req::SetEphemeral: a demotion re-homes the pane to this connection. *)
SetEphemeral(c, i, e) ==
  /\ Idle(c)
  /\ lock = None
  /\ held[i] # None
  /\ ephemeral' = [ephemeral EXCEPT ![held[i]] = e]
  /\ owner' = [owner EXCEPT ![held[i]] = NewOwner(c, held[i], e)]
  /\ UNCHANGED <<held, idOf, ttyVars, reader, arcs, lock, connVars, spawned, due>>

(* Req::Kill: the map's Arc moves to the task, which drops it unlocked. *)
Kill(c, i) ==
  /\ Idle(c)
  /\ lock = None
  /\ held[i] # None
  /\ held' = [held EXCEPT ![i] = None]
  /\ arcs' = [arcs EXCEPT ![held[i]] = @ \cup {c}]
  /\ due' = due \cup {i}
  /\ UNCHANGED <<fieldVars, ttyVars, reader, lock, connVars, spawned>>

(* The client is gone: the task leaves its request loop. *)
Close(c) ==
  /\ Idle(c)
  /\ conn' = [conn EXCEPT ![c] = "closing"]
  /\ UNCHANGED <<held, fieldVars, ttyVars, reader, arcs, lock, spawning, spawned, due>>

(* Mutant: the flag is not read again under the mutex. *)
OrphanByOwner(c, p) == owner[p] = c

Orphan(c, p) == ephemeral[p] /\ owner[p] = c

(* Its sweep: flag and owner are read inside the mutex, for every pane. *)
Sweep(c) ==
  LET doomed == {i \in Ids : held[i] # None /\ Orphan(c, held[i])} IN
  /\ conn[c] = "closing"
  /\ lock = None
  /\ held' = [i \in Ids |-> IF i \in doomed THEN None ELSE held[i]]
  /\ arcs' = [p \in Panes |-> IF \E i \in doomed : held[i] = p
                              THEN arcs[p] \cup {c} ELSE arcs[p]]
  /\ due' = due \cup doomed
  /\ conn' = [conn EXCEPT ![c] = "swept"]
  /\ UNCHANGED <<fieldVars, ttyVars, reader, lock, spawning, spawned>>

(* A task lets go of an Arc, outside the mutex. *)
DropArc(c, p) ==
  /\ c \in arcs[p]
  /\ arcs' = [arcs EXCEPT ![p] = @ \ {c}]
  /\ IF Kept(p) \/ arcs[p] # {c} THEN UNCHANGED ttyVars ELSE DropPane(p)
  /\ UNCHANGED <<held, fieldVars, reader, lock, connVars, spawned, due>>

---------------------------------------------------------------------------
(* The programs on the pty. *)

StartJob(p) ==
  /\ child[p] = "running"
  /\ slave' = [slave EXCEPT ![p] = @ \cup {"job"}]
  /\ UNCHANGED <<held, fieldVars, child, reader, arcs, lock, connVars, spawned, due>>

JobEnds(p) ==
  /\ "job" \in slave[p]
  /\ slave' = [slave EXCEPT ![p] = @ \ {"job"}]
  /\ UNCHANGED <<held, fieldVars, child, reader, arcs, lock, connVars, spawned, due>>

ShellExits(p) ==
  /\ child[p] = "running"
  /\ child' = [child EXCEPT ![p] = "exited"]
  /\ slave' = [slave EXCEPT ![p] = @ \ {"shell"}]
  /\ UNCHANGED <<held, fieldVars, reader, arcs, lock, connVars, spawned, due>>

---------------------------------------------------------------------------
(* The reader thread. *)

(* EOF, once nobody holds the slave side: take the mutex, upgrade. *)
ReaderLocks(p) ==
  /\ reader[p] = "reading"
  /\ slave[p] = {}
  /\ lock = None
  /\ lock' = p
  /\ reader' = [reader EXCEPT ![p] = IF Strong(p) THEN "upgraded" ELSE "orphan"]
  /\ UNCHANGED <<held, fieldVars, ttyVars, arcs, connVars, spawned, due>>

(* Mutants: only the pane that was removed here is announced; the upgraded *)
(* Arc is never let go.                                                    *)
OnlyOurs(p)       == reader[p] = "upgraded" /\ held[idOf[p]] = p
NeverLast(p)      == FALSE

(* The map still holds this very pane. *)
Ours(p) == reader[p] = "upgraded" /\ held[idOf[p]] = p

(* The single Exit path: a pane that Kill or a sweep removed counts too. *)
Announced(p) == Ours(p) \/ held[idOf[p]] = None

(* The upgraded Arc goes at the end of the comparison; it may be the last. *)
MeIsLast(p) == reader[p] = "upgraded" /\ ~Mapped(p) /\ arcs[p] = {}

(* Remove this pane if it is ours, decide whether to announce, let go of   *)
(* the upgraded Arc and then of the mutex.                                 *)
ReaderDecides(p) ==
  /\ lock = p
  /\ lock' = None
  /\ IF Ours(p)
     THEN /\ held' = [held EXCEPT ![idOf[p]] = None]
          /\ due' = due \cup {idOf[p]}
     ELSE UNCHANGED <<held, due>>
  /\ reader' = [reader EXCEPT ![p] =
       IF Ours(p) THEN "removed" ELSE IF Announced(p) THEN "announce" ELSE "done"]
  /\ IF MeIsLast(p) THEN DropPane(p) ELSE UNCHANGED ttyVars
  /\ UNCHANGED <<fieldVars, arcs, connVars, spawned>>

(* drop(removed): the Arc that was the map's. *)
ReaderDrops(p) ==
  /\ reader[p] = "removed"
  /\ reader' = [reader EXCEPT ![p] = "announce"]
  /\ IF Mapped(p) \/ arcs[p] # {} THEN UNCHANGED ttyVars ELSE DropPane(p)
  /\ UNCHANGED <<held, fieldVars, arcs, lock, connVars, spawned, due>>

(* Publish Exit for the id, after the mutex was released. *)
ReaderAnnounces(p) ==
  /\ reader[p] = "announce"
  /\ reader' = [reader EXCEPT ![p] = "done"]
  /\ due' = due \ {idOf[p]}
  /\ UNCHANGED <<held, fieldVars, ttyVars, arcs, lock, connVars, spawned>>

---------------------------------------------------------------------------
(* Only programs are left to act, or nobody is: the bounds are used up. *)
Quiet ==
  /\ \A c \in Conns : conn[c] = "swept" /\ \A p \in Panes : c \notin arcs[p]
  /\ \A p \in Panes : reader[p] \in {"none", "done"} \/ slave[p] # {}
  /\ lock = None
  /\ UNCHANGED vars

ConnStep(c) ==
  \/ Accept(c) \/ InsertPane(c) \/ Close(c) \/ Sweep(c)
  \/ \E i \in Ids, e \in BOOLEAN : StartChild(c, i, e)
  \/ \E i \in Ids, e \in BOOLEAN : SetEphemeral(c, i, e)
  \/ \E i \in Ids : Kill(c, i)
  \/ \E p \in Panes : DropArc(c, p)

TtyStep(p) == StartJob(p) \/ JobEnds(p) \/ ShellExits(p)

ReaderStep(p) ==
  ReaderLocks(p) \/ ReaderDecides(p) \/ ReaderDrops(p) \/ ReaderAnnounces(p)

Next ==
  \/ \E c \in Conns : ConnStep(c)
  \/ \E p \in Panes : TtyStep(p) \/ ReaderStep(p)
  \/ Quiet

Safe == Init /\ [][Next]_vars

(* The daemon's own steps are taken; clients and shells do as they like. *)
Spec ==
  /\ Safe
  /\ \A c \in Conns : WF_vars(InsertPane(c)) /\ WF_vars(Sweep(c))
  /\ \A c \in Conns, p \in Panes : WF_vars(DropArc(c, p))
  /\ \A p \in Panes : WF_vars(ReaderStep(p))
---------------------------------------------------------------------------
(* Properties. *)

ReaderStates == {"none", "reading", "upgraded", "orphan", "removed", "announce", "done"}

(* Every variable has its type. *)
TypeOK ==
  /\ held \in [Ids -> Panes \cup {None}]
  /\ idOf \in [Panes -> Ids]
  /\ ephemeral \in [Panes -> BOOLEAN]
  /\ owner \in [Panes -> Conns \cup {None}]
  /\ child \in [Panes -> {"none", "running", "exited", "reaped"}]
  /\ slave \in [Panes -> SUBSET {"shell", "job"}]
  /\ reader \in [Panes -> ReaderStates]
  /\ arcs \in [Panes -> SUBSET Conns]
  /\ lock \in Panes \cup {None}
  /\ conn \in [Conns -> {"none", "open", "closing", "swept"}]
  /\ spawning \in [Conns -> Panes \cup {None}]
  /\ spawned \in 0 .. MaxPane
  /\ due \in SUBSET Ids

(* An ephemeral pane never outlives the sweep of the connection that owns  *)
(* it, whatever promotions, demotions and spawns raced with the hang-up.   *)
OwnerServes ==
  \A i \in Ids : held[i] # None /\ ephemeral[held[i]] =>
     owner[held[i]] # None /\ conn[owner[held[i]]] \in {"open", "closing"}

(* An id is never bound to a pane that was dropped, or whose reader has    *)
(* already taken it out of the map or announced it.                        *)
HeldPaneAlive ==
  \A i \in Ids : held[i] # None =>
     /\ child[held[i]] \in {"running", "exited"}
     /\ reader[held[i]] \in {"reading", "upgraded"}

(* A shell is reaped exactly when the last Arc to its pane is gone: no     *)
(* pane is dropped under somebody who still uses it, and none leaks.       *)
DroppedIffUnheld ==
  \A p \in Panes : p <= spawned =>
     (child[p] = "reaped" <=> ~Strong(p) /\ \A c \in Conns : spawning[c] # p)

(* No pane dies silently: while an id that lost a pane is vacant and no    *)
(* Exit was published for it since, some reader of that id is still to     *)
(* decide on one or to publish it.                                         *)
Pending == {"reading", "upgraded", "orphan", "removed", "announce"}
NoSilentDeath ==
  \A i \in due : held[i] = None =>
     \E p \in Panes : idOf[p] = i /\ reader[p] \in Pending

(* An id goes from a pane to vacant, never from a pane to another one: a   *)
(* racing spawn of the same id does not overwrite (and kill) the incumbent. *)
NeverRebound ==
  [][\A i \in Ids : held[i] # None => held'[i] \in {held[i], None}]_vars

(* A pane leaves the map only at its own EOF, by a Kill, or in the sweep   *)
(* of the connection that owns it now and only while it is ephemeral now.  *)
LeavesMapRightfully ==
  [][\A i \in Ids : held[i] # None /\ held'[i] # held[i] =>
       LET p == held[i] IN
         \/ lock = p /\ slave[p] = {}
         \/ \E c \in arcs'[p] : conn[c] = "open"
         \/ \E c \in arcs'[p] : conn[c] = "closing" /\ ephemeral[p] /\ owner[p] = c]_vars

(* Whatever the shell and its jobs do, a pane that is neither in the map   *)
(* nor being spawned is reaped.                                            *)
Reaped ==
  \A p \in Panes :
    (p <= spawned /\ ~Mapped(p)) ~> (child[p] = "reaped" \/ Mapped(p))

(* A lost pane is announced, unless its id is in use again or a background *)
(* job keeps the pty of a pane of that id open.                            *)
ExitPublished ==
  \A i \in Ids :
    (i \in due) ~> (i \notin due \/ held[i] # None
                     \/ \E p \in Panes : idOf[p] = i /\ "job" \in slave[p])

(* How a pane's life looks from outside. *)
LifeOf(p) ==
  IF p > spawned THEN "new"
  ELSE IF child[p] = "reaped" THEN "gone"
  ELSE IF Mapped(p) THEN "bound"
  ELSE IF \E c \in Conns : spawning[c] = p THEN "made" ELSE "lost"

Life == INSTANCE PaneLife WITH life <- [p \in Panes |-> LifeOf(p)], at <- held, owed <- due

(* Every behaviour of the daemon is one of PaneLife: the racing spawns,    *)
(* kills, hang-ups and reader threads never rebind an id in use, revive a  *)
(* pane, drop one that is bound, or take an id's pane without owing Exit.  *)
LivesByTheBook == Life!Spec
===========================================================================
