------------------------------- MODULE Agents -------------------------------
(***************************************************************************)
(* The agent badges of mymuxd: hook reports (GET /agent), the signals that *)
(* a pane's output leaves (note_output, note_alt), the sweep that turns    *)
(* signals into badges every two seconds, and the user's answers: looking, *)
(* deferring, consuming.                                                   *)
(*                                                                         *)
(* Times are abstracted to what the code compares them with: a badge is    *)
(* fresh within DONE_GRACE, a pane is quiet after IDLE, a bell is recent   *)
(* within BELL_WINDOW. The stamps needy_since_ms only order the panes, and *)
(* are modelled by that order (two stamps are never the same).             *)
(***************************************************************************)
EXTENDS Naturals, Sequences, FiniteSets, SequencesExt

CONSTANTS
    Panes,      \* pane ids, never issued twice
    NoEntry,    \* no entry
    Talking,    \* the panes that have output (bound)
    MaxChunk    \* length of an output chunk in marks (bound)

ASSUME AgentsAssumption ==
    IsFiniteSet(Panes) /\ Talking \subseteq Panes /\ MaxChunk \in Nat

VARIABLES
    live,       \* panes whose shell runs
    view,       \* panes the shared view shows
    badge,      \* AgentTracker.entries
    queue,      \* the needy panes, oldest stamp first
    heur,       \* AgentTracker.heur, without its consumed flag
    hushed,     \* the panes whose entry in heur has the consumed flag
    sweep       \* the panes the running sweep may badge, or NoEntry

agentsVars == <<live, view, badge, queue, heur, hushed, sweep>>

States == {"running", "waiting", "done"}
Needy == {"waiting", "done"}
Badge == [state : States, source : {"hook", "heuristic"}, fresh : BOOLEAN]
PaneHeur == [alt : BOOLEAN, quiet : BOOLEAN, bell : BOOLEAN, osc : BOOLEAN]

AgentsTypeOK ==
    /\ live \subseteq Panes /\ view \subseteq live
    /\ badge \in [Panes -> Badge \cup {NoEntry}]
    /\ queue \in Seq(Panes)
    /\ \A i, j \in DOMAIN queue : queue[i] = queue[j] => i = j
    /\ heur \in [Panes -> PaneHeur \cup {NoEntry}]
    /\ hushed \subseteq {p \in Panes : heur[p] # NoEntry}
    /\ sweep \in SUBSET Panes \cup {NoEntry}

NewHeur == [alt |-> FALSE, quiet |-> FALSE, bell |-> FALSE, osc |-> FALSE]

AgentsInit ==
    /\ live = Panes /\ view = {}
    /\ badge = [p \in Panes |-> NoEntry]
    /\ queue = <<>>
    /\ heur = [p \in Panes |-> NoEntry] /\ hushed = {}
    /\ sweep = NoEntry

-----------------------------------------------------------------------------
(* Badges and their place in the attention queue.                          *)

HasBadge(p, s) == badge[p] # NoEntry /\ badge[p].state = s
Queued(p) == \E i \in DOMAIN queue : queue[i] = p

Without(ps) ==
    LET kept[n \in 0..Len(queue)] ==
            IF n = 0 THEN <<>>
            ELSE IF queue[n] \in ps THEN kept[n - 1] ELSE Append(kept[n - 1], queue[n])
    IN  kept[Len(queue)]

\* mutant: every badge takes a new stamp
Restamp(p, s) ==
    queue' = IF s \in Needy THEN Append(Without({p}), p) ELSE Without({p})

\* The stamp of a badge that replaces another: a needy pane keeps its place,
\* one that becomes needy goes to the end, any other one has no stamp.
Stamp(p, s) ==
    queue' = IF s \notin Needy THEN Without({p})
             ELSE IF Queued(p) THEN queue ELSE Append(queue, p)

\* The age of a badge matters to a done one only.
Entry(s, source) == [state |-> s, source |-> source, fresh |-> s = "done"]

Unbadge(ps) ==
    /\ badge' = [p \in Panes |-> IF p \in ps THEN NoEntry ELSE badge[p]]
    /\ queue' = Without(ps)

Signals(p) == IF heur[p] = NoEntry THEN NewHeur ELSE heur[p]

-----------------------------------------------------------------------------
(* Hooks and the user.                                                     *)

\* set_agent does not ask whether the pane is there. A report is a new
\* exchange and lifts the suppression.
Report(p, s) ==
    /\ badge' = [badge EXCEPT ![p] = Entry(s, "hook")]
    /\ Stamp(p, s)
    /\ hushed' = hushed \ {p}
    /\ UNCHANGED <<live, view, heur, sweep>>

ReportIdle(p) ==
    /\ Unbadge({p})
    /\ UNCHANGED <<live, view, heur, hushed, sweep>>

Defer(p) ==
    /\ Queued(p)
    /\ queue' = Append(Without({p}), p)
    /\ UNCHANGED <<live, view, badge, heur, hushed, sweep>>

Consume(p) ==
    /\ Unbadge({p})
    /\ heur' = [heur EXCEPT ![p] = Signals(p)]
    /\ hushed' = hushed \cup {p}
    /\ UNCHANGED <<live, view, sweep>>

\* select_window, or a switch on tmux's side: what is done has been seen.
Look(ps) ==
    /\ view' = ps
    /\ Unbadge({p \in ps : HasBadge(p, "done")})
    /\ UNCHANGED <<live, heur, hushed, sweep>>

-----------------------------------------------------------------------------
(* Output. A chunk is a sequence of the marks that matter: the start of an *)
(* OSC, a string terminator, a BEL, and the switches of the alternate      *)
(* screen that the byte scan knows. No mark is split between chunks.       *)

Marks == {"osc", "st", "bel", "on", "off"}
Chunks == UNION {[1..n -> Marks] : n \in 0..MaxChunk}

Holds(c, m) == \E i \in DOMAIN c : c[i] = m
First(c, m) == CHOOSE i \in DOMAIN c : c[i] = m /\ \A j \in 1..(i - 1) : c[j] # m
After(c, m) == SubSeq(c, First(c, m) + 1, Len(c))

\* What ends an OSC in a chunk: a terminator, and a BEL if there is none.
Ends(c) ==
    IF Holds(c, "st") THEN {"st"} ELSE IF Holds(c, "bel") THEN {"bel"} ELSE {}

\* scan_bell: outside an OSC the start of one is looked for before a BEL.
Scanned[in_osc \in BOOLEAN, c \in Seq(Marks)] ==
    IF in_osc
    THEN IF Ends(c) = {} THEN [osc |-> TRUE, rings |-> FALSE]
         ELSE Scanned[FALSE, After(c, CHOOSE m \in Ends(c) : TRUE)]
    ELSE IF Holds(c, "osc") THEN Scanned[TRUE, After(c, "osc")]
    ELSE [osc |-> FALSE, rings |-> Holds(c, "bel")]

Scan(in_osc, c) == Scanned[in_osc, c]

\* A chunk that holds both switches leaves the screen off, in either order.
Heard(h, c) ==
    LET scan == Scan(h.osc, c)
    IN [alt |-> (h.alt \/ Holds(c, "on")) /\ ~Holds(c, "off"),
        quiet |-> FALSE,
        bell |-> h.bell \/ scan.rings,
        osc |-> scan.osc]

\* A bell, or the end of the alternate screen, lifts the suppression.
Lifts(h, c) == Scan(h.osc, c).rings \/ Holds(c, "off")

\* Output that was on its way when a pane was closed comes after its removal.
Output(p) ==
    /\ \E c \in Chunks :
          /\ heur' = [heur EXCEPT ![p] = Heard(Signals(p), c)]
          /\ hushed' = IF Lifts(Signals(p), c) THEN hushed \ {p} ELSE hushed
    /\ Unbadge(IF HasBadge(p, "done") /\ ~badge[p].fresh THEN {p} ELSE {})
    /\ UNCHANGED <<live, view, sweep>>

\* ptyd's report of the alternate screen, which lifts nothing.
NoteAlt(p, on) ==
    /\ heur' = [heur EXCEPT ![p] = [Signals(p) EXCEPT !.alt = on]]
    /\ UNCHANGED <<live, view, badge, queue, hushed, sweep>>

-----------------------------------------------------------------------------
(* Time, and the sweep.                                                    *)

GraceEnds(p) ==
    /\ HasBadge(p, "done") /\ badge[p].fresh
    /\ badge' = [badge EXCEPT ![p].fresh = FALSE]
    /\ UNCHANGED <<live, view, queue, heur, hushed, sweep>>

FallsQuiet(p) ==
    /\ heur[p] # NoEntry /\ ~heur[p].quiet
    /\ heur' = [heur EXCEPT ![p].quiet = TRUE]
    /\ UNCHANGED <<live, view, badge, queue, hushed, sweep>>

BellFades(p) ==
    /\ heur[p] # NoEntry /\ heur[p].bell
    /\ heur' = [heur EXCEPT ![p].bell = FALSE]
    /\ UNCHANGED <<live, view, badge, queue, hushed, sweep>>

\* mutant: the sweep does not ask what is on the screen
LooksAway ==
    /\ sweep = NoEntry
    /\ \E p \in Panes : heur[p] # NoEntry
    /\ \E agentish \in SUBSET live : sweep' = agentish
    /\ UNCHANGED <<live, view, badge, queue, heur, hushed>>

\* The sweep finds the panes with an agent in front (of those alive when it
\* reads /proc), then reads the view, and only then locks the tracker.
SweepLooks ==
    /\ sweep = NoEntry
    /\ \E p \in Panes : heur[p] # NoEntry
    /\ \E agentish \in SUBSET live : sweep' = agentish \ view
    /\ UNCHANGED <<live, view, badge, queue, heur, hushed>>

Swept == {p \in Panes : heur[p] # NoEntry /\ (badge[p] = NoEntry \/ badge[p].source # "hook")}

\* mutant: the sweep does not look for a suppression
DesiredAnyway(p) ==
    IF p \notin sweep \/ ~heur[p].alt THEN NoEntry
    ELSE IF ~heur[p].quiet THEN "running"
    ELSE IF heur[p].bell THEN "waiting" ELSE "done"

Desired(p) ==
    IF p \notin sweep \/ ~heur[p].alt \/ p \in hushed THEN NoEntry
    ELSE IF ~heur[p].quiet THEN "running"
    ELSE IF heur[p].bell THEN "waiting" ELSE "done"

\* Panes that become needy in one sweep are stamped one after the other.
SweepDecides ==
    /\ sweep # NoEntry
    /\ badge' = [p \in Panes |->
         IF p \notin Swept \/ HasBadge(p, Desired(p)) THEN badge[p]
         ELSE IF Desired(p) = NoEntry THEN NoEntry
         ELSE Entry(Desired(p), "heuristic")]
    /\ LET needy == {p \in Swept : Desired(p) \in Needy}
       IN \E news \in SetToSeqs({p \in needy : ~Queued(p)}) :
             queue' = Without(Swept \ needy) \o news
    /\ sweep' = NoEntry
    /\ UNCHANGED <<live, view, heur, hushed>>

-----------------------------------------------------------------------------
(* The end of a pane.                                                      *)

\* native_pane_removed
Removed(p) ==
    /\ p \in live
    /\ live' = live \ {p} /\ view' = view \ {p}
    /\ Unbadge({p})
    /\ heur' = [heur EXCEPT ![p] = NoEntry]
    /\ hushed' = hushed \ {p}
    /\ UNCHANGED sweep

\* A tmux pane, or one that died with ptyd: nothing is cleared.
Lost(p) ==
    /\ p \in live
    /\ live' = live \ {p} /\ view' = view \ {p}
    /\ UNCHANGED <<badge, queue, heur, hushed, sweep>>

AgentsNext ==
    \/ \E p \in Panes :
          \/ \E s \in States : Report(p, s)
          \/ ReportIdle(p) \/ Defer(p) \/ Consume(p)
          \/ GraceEnds(p) \/ FallsQuiet(p) \/ BellFades(p)
          \/ Removed(p) \/ Lost(p)
    \/ \E p \in Talking : Output(p) \/ \E on \in BOOLEAN : NoteAlt(p, on)
    \/ \E ps \in SUBSET live : Look(ps)
    \/ SweepLooks \/ SweepDecides

\* The sweep comes round every two seconds.
AgentsSpec == AgentsInit /\ [][AgentsNext]_agentsVars /\ WF_agentsVars(SweepLooks) /\ WF_agentsVars(SweepDecides)
-----------------------------------------------------------------------------
(* Properties.                                                             *)

\* An ask that the user consumed raises no badge again until the agent opens
\* a new exchange: whatever sweeps are under way, a pane that is hushed has
\* no badge, and whatever sets one has lifted the suppression (consume_agent).
Hushed == \A p \in hushed : badge[p] = NoEntry

\* The queue is ordered by when a pane first needed attention, across hook
\* reports and heuristics: no step moves an ask behind another one but a
\* defer, which leaves the badges as they are (AgentEntry::new).
Before(q, p, r) == \E i, j \in DOMAIN q : i < j /\ q[i] = p /\ q[j] = r
KeepsPlace ==
    [][\A p, r \in Panes :
          Before(queue, p, r) /\ Before(queue', r, p) => badge' = badge]_agentsVars

\* A pane on the screen keeps no heuristic badge, though a sweep that began
\* before the view changed may still raise one (run_heuristics).
Guessed(p) == badge[p] # NoEntry /\ badge[p].source = "heuristic"
SeenFades == \A p \in Panes : p \in view /\ Guessed(p) ~> ~(p \in view /\ Guessed(p))
=============================================================================
