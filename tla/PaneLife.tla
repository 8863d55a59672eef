------------------------------ MODULE PaneLife ------------------------------
(***************************************************************************)
(* What the pane daemon promises its clients: the life of a pane.          *)
(*                                                                         *)
(* A pane is made, then bound to a vacant id or refused; it leaves its id  *)
(* once and never comes back, and is gone (its shell killed and reaped)    *)
(* after that and never while an id is bound to it.  An id that lost a     *)
(* pane owes its clients an Exit.  No connection, thread or mutex here.    *)
(***************************************************************************)
EXTENDS Naturals

CONSTANTS Ids, Panes, None

VARIABLES
  life,  \* "new", "made", "bound", "lost" or "gone"
  at,    \* the pane an id is bound to, or None
  owed   \* ids that lost a pane and have had no Exit since

lifeVars == <<life, at, owed>>

Init ==
  /\ life = [p \in Panes |-> "new"]
  /\ at = [i \in Ids |-> None]
  /\ owed = {}

Make(p) ==
  /\ life[p] = "new"
  /\ life' = [life EXCEPT ![p] = "made"]
  /\ UNCHANGED <<at, owed>>

Bind(p, i) ==
  /\ life[p] = "made"
  /\ at[i] = None
  /\ life' = [life EXCEPT ![p] = "bound"]
  /\ at' = [at EXCEPT ![i] = p]
  /\ UNCHANGED owed

(* The id is in use: the incumbent stays. *)
Refuse(p) ==
  /\ life[p] = "made"
  /\ \E i \in Ids : at[i] # None
  /\ life' = [life EXCEPT ![p] = "lost"]
  /\ UNCHANGED <<at, owed>>

(* The panes of some ids leave together. *)
Lose(S) ==
  /\ S # {} /\ \A i \in S : at[i] # None
  /\ life' = [p \in Panes |-> IF \E i \in S : at[i] = p THEN "lost" ELSE life[p]]
  /\ at' = [i \in Ids |-> IF i \in S THEN None ELSE at[i]]
  /\ owed' = owed \cup S

Reap(p) ==
  /\ life[p] = "lost"
  /\ life' = [life EXCEPT ![p] = "gone"]
  /\ UNCHANGED <<at, owed>>

Publish(i) ==
  /\ i \in owed
  /\ owed' = owed \ {i}
  /\ UNCHANGED <<life, at>>

Next ==
  \/ \E p \in Panes : Make(p) \/ Refuse(p) \/ Reap(p) \/ \E i \in Ids : Bind(p, i)
  \/ \E S \in SUBSET Ids : Lose(S)
  \/ \E i \in Ids : Publish(i)

Spec == Init /\ [][Next]_lifeVars
=============================================================================
