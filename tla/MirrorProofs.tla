---------------------------- MODULE MirrorProofs ----------------------------
(***************************************************************************)
(* Proofs about the screens of the browser, for any number of panes,       *)
(* chunks, handlers and connections and any capacity of the channel.  IInv *)
(* is the inductive invariant of the chunks: they come in their order, and *)
(* what a terminal lacks is on its way to it.  ViewKnown, for one handler, *)
(* says where the view is written on its way to the browser.               *)
(***************************************************************************)
EXTENDS Mirror, SequenceTheorems, TLAPS

-----------------------------------------------------------------------------
(* The inductive invariant.                                                *)

\* What is in hand is about a pane, and a socket that is closed has no events.
Hands ==
    /\ \A h \in Handlers : task[h].at \in {"json", "seed"} => task[h].p \in Panes
    /\ \A h \in Handlers : task[h].at = "idle" => task[h] = Idle
    /\ sender.at = "seed" => sender.p \in Panes
    /\ conn = None <=> sender.at = "off"
    /\ sender.at = "off" => events = <<>> /\ ~lagged
    /\ timer \/ sender.at \in {"want", "seed", "run"} => shown \in Panes

\* The chunks of a pane come in their order: the newest one is never ahead of
\* another. Nothing has a chunk that was not written.
PipeInOrder ==
    \A i \in DOMAIN pipe :
        LET p == pipe[i].p
        IN  /\ pipe[i].n <= grid[p]
            /\ \/ pipe[i].n = grid[p]
               \/ \E j \in DOMAIN pipe : j > i /\ pipe[j].p = p /\ pipe[j].n = grid[p]

EventsInOrder ==
    \A i \in DOMAIN events : events[i].t = "output" =>
        LET p == events[i].p
        IN  /\ events[i].n \in 1..grid[p]
            /\ \/ events[i].n = grid[p]
               \/ \E j \in DOMAIN events : j > i /\ events[j].t = "output"
                                           /\ events[j].p = p /\ events[j].n = grid[p]
               \/ \E j \in DOMAIN pipe : pipe[j].p = p /\ pipe[j].n = grid[p]

Written ==
    /\ \A p \in Panes : term[p].has \subseteq 1..grid[p]
    /\ \A p \in Panes : \A k \in Seeds(p) : k <= grid[p]
    /\ sender.at = "seed" => sender.n <= grid[sender.p]

\* A client that has not had its seed since it connected or lagged has no
\* screen that is live, and what the seed in the send task's hand lacks comes.
BeforeSeed ==
    /\ \A p \in Panes : term[p].seeded => term[p].live
    /\ sender.at \in {"hello", "want", "seed"} => \A p \in Panes : ~term[p].live
    /\ sender.at = "seed" /\ ~lagged =>
           (sender.n + 1)..grid[sender.p] \subseteq Coming(sender.p)

\* What a terminal lacks is on its way: the newest chunk of one that is live,
\* every chunk of one that has its seed, and of one that waits every chunk
\* that a seed under way to it lacks.
Followed ==
    sender.at # "off" /\ ~lagged =>
        \A p \in Panes : term[p].held /\ ~term[p].passed =>
            /\ term[p].live => grid[p] = 0 \/ grid[p] \in term[p].has \cup Coming(p)
            /\ term[p].seeded => 1..grid[p] \subseteq term[p].has \cup Coming(p)
            /\ ~term[p].live => ~Passed(p)

IInv == TypeOK /\ Hands /\ PipeInOrder /\ EventsInOrder /\ Written /\ BeforeSeed /\ Followed

\* The view is known from what is on its way: the state in the handler's hand,
\* else the last one in the channel, else the pane that is shown.
ViewKnown(h) ==
    /\ task[h].at = "json" => task[h].p = view
    /\ task[h].at # "json" =>
           \A i \in DOMAIN events :
               events[i].t = "state" /\ (\A j \in DOMAIN events : j > i => events[j].t # "state")
                   => events[i].p = view
    /\ task[h].at # "json" /\ sender.at \in {"want", "seed", "run"} /\ ~lagged
           /\ (\A i \in DOMAIN events : events[i].t # "state") => shown = view

-----------------------------------------------------------------------------
(* Sequences.                                                              *)

\* Pushing one event, without and with overflow.
LEMMA Pushed ==
    ASSUME events \in Seq(Event), Len(events) <= Cap, lagged \in BOOLEAN, NEW e \in Event, Push(e)
    PROVE  /\ events' \in Seq(Event) /\ Len(events') <= Cap
           /\ lagged' \in BOOLEAN
           /\ lagged => lagged'
           /\ sender.at = "off" => events' = events /\ lagged' = lagged
           /\ sender.at # "off" /\ Len(events) < Cap =>
                 /\ lagged' = lagged
                 /\ Len(events') = Len(events) + 1
                 /\ \A i \in 1..Len(events) : events'[i] = events[i]
                 /\ events'[Len(events) + 1] = e
           /\ sender.at # "off" /\ ~(Len(events) < Cap) =>
                 /\ lagged'
                 /\ Len(events') = Len(events)
                 /\ \A i \in 1..(Len(events) - 1) : events'[i] = events[i + 1]
                 /\ events'[Len(events)] = e
                 /\ Len(events) > 0
<1>1. Cap \in Nat \ {0} /\ Len(events) \in Nat
    BY MirrorAssumption, LenProperties
<1>2. CASE sender.at = "off"
    BY <1>2 DEF Push
<1>3. CASE sender.at # "off" /\ Len(events) < Cap
    <2>1. events' = Append(events, e) /\ lagged' = lagged
        BY <1>1, <1>3 DEF Push
    <2> QED BY <1>1, <1>3, <2>1, AppendProperties
<1>4. CASE sender.at # "off" /\ ~(Len(events) < Cap)
    <2>1. Len(events) = Cap /\ events # <<>>
        BY <1>1, <1>4, EmptySeq
    <2>2. events' = Append(Tail(events), e) /\ lagged' = TRUE
        BY <1>4, <2>1 DEF Push
    <2>3. /\ Tail(events) \in Seq(Event) /\ Len(Tail(events)) = Len(events) - 1
          /\ \A i \in 1..(Len(events) - 1) : Tail(events)[i] = events[i + 1]
        BY <2>1, HeadTailProperties
    <2>4. /\ events' \in Seq(Event) /\ Len(events') = Len(Tail(events)) + 1
          /\ \A i \in 1..Len(Tail(events)) : events'[i] = Tail(events)[i]
          /\ events'[Len(Tail(events)) + 1] = e
        BY <2>2, <2>3, AppendProperties
    <2>5. Len(Tail(events)) + 1 = Len(events)
        BY <1>1, <2>3
    <2>6. Len(events') = Len(events) /\ events'[Len(events)] = e
        BY <2>4, <2>5
    <2>7. \A i \in 1..(Len(events) - 1) : events'[i] = events[i + 1]
        BY <1>1, <2>3, <2>4
    <2>8. Len(events') <= Cap /\ Len(events) > 0 /\ events' \in Seq(Event)
        BY <1>1, <2>1, <2>4, <2>6
    <2>9. lagged' \in BOOLEAN /\ lagged'
        BY <2>2
    <2> HIDE DEF Event
    <2> QED BY <1>4, <2>6, <2>7, <2>8, <2>9
<1> QED BY <1>2, <1>3, <1>4

\* What is left when the first element is taken.
LEMMA Popped ==
    ASSUME NEW S, NEW s \in Seq(S), s # <<>>
    PROVE  /\ Head(s) = s[1] /\ s[1] \in S
           /\ Len(s) \in Nat /\ Len(s) > 0
           /\ Tail(s) \in Seq(S) /\ Len(Tail(s)) = Len(s) - 1
           /\ \A i \in 1..(Len(s) - 1) : Tail(s)[i] = s[i + 1]
           /\ DOMAIN s = 1..Len(s) /\ DOMAIN Tail(s) = 1..(Len(s) - 1)
<1>1. Len(s) \in Nat /\ DOMAIN s = 1..Len(s) /\ Len(s) > 0
    BY LenProperties, EmptySeq
<1>2. Tail(s) \in Seq(S) /\ Len(Tail(s)) = Len(s) - 1
      /\ \A i \in 1..(Len(s) - 1) : Tail(s)[i] = s[i + 1]
    BY HeadTailProperties
<1>3. Head(s) = s[1] /\ s[1] \in S
    BY <1>1, ElementOfSeq
<1> QED BY <1>1, <1>2, <1>3, LenProperties

LEMMA InSeq ==
    ASSUME NEW S, NEW s \in Seq(S), NEW i \in DOMAIN s
    PROVE  s[i] \in S /\ i \in Nat
<1>1. i \in 1..Len(s)
    BY LenProperties
<1> QED BY <1>1, ElementOfSeq, LenProperties

-----------------------------------------------------------------------------
(* The terminals.                                                          *)

Terms == {ts \in [Panes -> Term] : \A p \in Panes : ~ts[p].held => ts[p] = NoTerm}

LEMMA WaitingIs ==
    ASSUME NEW t \in Term, NEW p
    PROVE  /\ Waiting(t, p) \in Term
           /\ Waiting(t, p).held /\ ~Waiting(t, p).live /\ ~Waiting(t, p).seeded
           /\ Waiting(t, p).has = t.has /\ Waiting(t, p).passed = Passed(p)
<1>1. Passed(p) \in BOOLEAN
    BY DEF Passed
<1> QED BY <1>1 DEF Waiting, Term

LEMMA NoTermIs ==
    /\ NoTerm \in Term
    /\ ~NoTerm.held /\ ~NoTerm.live /\ ~NoTerm.seeded /\ NoTerm.has = {} /\ ~NoTerm.passed
BY DEF NoTerm, Term

\* A terminal after distrustAll, and after it came into view: as it was, gone,
\* or waiting.
Renewed(t, old, p) ==
    /\ t.held /\ ~t.live /\ ~t.seeded
    /\ t.has = old.has /\ t.passed = Passed(p)

LEMMA DistrustedIs ==
    ASSUME term \in Terms
    PROVE  /\ Distrusted \in Terms
           /\ \A p \in Panes : Distrusted[p] = NoTerm \/ Renewed(Distrusted[p], term[p], p)
<1>1. ASSUME NEW p \in Panes
      PROVE  /\ Distrusted[p] \in Term
             /\ ~Distrusted[p].held => Distrusted[p] = NoTerm
             /\ Distrusted[p] = NoTerm \/ Renewed(Distrusted[p], term[p], p)
    <2>1. term[p] \in Term
        BY DEF Terms
    <2>2. Distrusted[p] = IF p = shown /\ term[p].held THEN Waiting(term[p], p) ELSE NoTerm
        BY DEF Distrusted
    <2> QED BY <2>1, <2>2, WaitingIs, NoTermIs DEF Renewed
<1>2. Distrusted \in [Panes -> Term]
    BY <1>1 DEF Distrusted
<1> QED BY <1>1, <1>2 DEF Terms

LEMMA AttachIs ==
    ASSUME NEW ts \in Terms, NEW p \in Panes, NEW drift \in BOOLEAN
    PROVE  /\ Attach(ts, p, drift) \in Terms
           /\ \A q \in Panes : \/ Attach(ts, p, drift)[q] = ts[q]
                               \/ Renewed(Attach(ts, p, drift)[q], ts[q], q)
<1>1. ts[p] \in Term /\ ts \in [Panes -> Term]
    BY DEF Terms
<1>2. \A q \in Panes :
        Attach(ts, p, drift)[q] = IF q = p /\ (~ts[p].held \/ (p # shown /\ drift))
                                  THEN Waiting(ts[p], p) ELSE ts[q]
    BY <1>1 DEF Attach
<1>3. Attach(ts, p, drift) \in [Panes -> Term]
    BY <1>1, WaitingIs DEF Attach
<1>4. ASSUME NEW q \in Panes
      PROVE  /\ ~Attach(ts, p, drift)[q].held => Attach(ts, p, drift)[q] = NoTerm
             /\ \/ Attach(ts, p, drift)[q] = ts[q]
                \/ Renewed(Attach(ts, p, drift)[q], ts[q], q)
    BY <1>1, <1>2, WaitingIs DEF Terms, Renewed
<1> QED BY <1>3, <1>4 DEF Terms

LEMMA ShowIs ==
    ASSUME NEW ts \in Terms, NEW p \in Panes, timer \in BOOLEAN, Show(ts, p)
    PROVE  /\ term' \in Terms
           /\ \A q \in Panes : term'[q] = ts[q] \/ Renewed(term'[q], ts[q], q)
           /\ shown' = p
           /\ timer' \in BOOLEAN
<1>1. PICK drift \in BOOLEAN : term' = Attach(ts, p, drift)
    BY DEF Show
<1>2. shown' = p /\ timer' \in BOOLEAN
    BY DEF Show
<1> QED BY <1>1, <1>2, AttachIs

LEMMA PaintIs ==
    ASSUME NEW ts \in Terms, NEW e \in Event, e.t \in {"output", "seed"},
           e.t = "output" => e.n \in Chunks
    PROVE  /\ Paint(ts, e) \in Terms
           /\ \A q \in Panes : q # e.p => Paint(ts, e)[q] = ts[q]
           /\ ~ts[e.p].held \/ (e.t = "seed" /\ ts[e.p].live) => Paint(ts, e)[e.p] = ts[e.p]
           /\ ts[e.p].held /\ ~(e.t = "seed" /\ ts[e.p].live) =>
                 /\ Paint(ts, e)[e.p].held /\ Paint(ts, e)[e.p].live
                 /\ Paint(ts, e)[e.p].passed = ts[e.p].passed
                 /\ e.t = "seed" => Paint(ts, e)[e.p].has = 1..e.n /\ Paint(ts, e)[e.p].seeded
                 /\ e.t = "output" => /\ Paint(ts, e)[e.p].has = ts[e.p].has \cup {e.n}
                                      /\ Paint(ts, e)[e.p].seeded = ts[e.p].seeded
<1> DEFINE p == e.p
           new == Painted(ts[p], e)
<1>1. p \in Panes /\ e.n \in 0..MaxOut /\ MaxOut \in Nat
    BY MirrorAssumption DEF Event
<1>2. ts[p] \in Term /\ ts \in [Panes -> Term]
    BY <1>1 DEF Terms
<1>3. CASE ~ts[p].held \/ (e.t = "seed" /\ ts[p].live)
    <2>1. Paint(ts, e) = ts
        BY <1>3 DEF Paint
    <2> QED BY <1>3, <2>1
<1>4. CASE ~(~ts[p].held \/ (e.t = "seed" /\ ts[p].live))
    <2>1. Paint(ts, e) = [ts EXCEPT ![p] = new]
        BY <1>1, <1>2, <1>4 DEF Paint
    <2>2. /\ new.has = IF e.t = "seed" THEN 1..e.n ELSE ts[p].has \cup {e.n}
          /\ new.live = TRUE /\ new.seeded = (ts[p].seeded \/ e.t = "seed")
          /\ new.held = ts[p].held /\ new.passed = ts[p].passed
        BY <1>2 DEF Term, Painted
    <2>3. (IF e.t = "seed" THEN 1..e.n ELSE ts[p].has \cup {e.n}) \in SUBSET Chunks
        BY <1>1, <1>2 DEF Term, Chunks
    <2>4. ts[p].held \in BOOLEAN /\ ts[p].passed \in BOOLEAN /\ ts[p].seeded \in BOOLEAN
        BY <1>2 DEF Term
    <2>5. new \in Term
        <3> DEFINE h == IF e.t = "seed" THEN 1..e.n ELSE ts[p].has \cup {e.n}
                   b == ts[p].seeded \/ e.t = "seed"
        <3>1. new = [ts[p] EXCEPT !.has = h, !.live = TRUE, !.seeded = b]
            BY DEF Painted
        <3>2. h \in SUBSET Chunks /\ b \in BOOLEAN
            BY <2>3
        <3> HIDE DEF h, b, new
        <3> QED BY <1>2, <3>1, <3>2 DEF Term
    <2>6. Paint(ts, e)[p] = new /\ \A q \in Panes : q # p => Paint(ts, e)[q] = ts[q]
        BY <1>1, <1>2, <2>1
    <2> HIDE DEF new
    <2>7. Paint(ts, e) \in [Panes -> Term]
        BY <1>1, <1>2, <2>1, <2>5
    <2>8. Paint(ts, e) \in Terms
        BY <1>4, <2>2, <2>4, <2>6, <2>7 DEF Terms
    <2>9. ts[p].seeded \in BOOLEAN /\ (e.t = "output" => e.t # "seed")
        BY <2>4
    <2> QED BY <1>4, <2>2, <2>4, <2>6, <2>8, <2>9
<1> QED BY <1>3, <1>4

\* A seed that the send task sends.
LEMMA SeedIs ==
    ASSUME term \in Terms, NEW p \in Panes, NEW n \in 0..MaxOut,
           term' = Paint([term EXCEPT ![p].passed = FALSE], Seed(p, n))
    PROVE  /\ term' \in Terms
           /\ \A q \in Panes : q # p => term'[q] = term[q]
           /\ ~term[p].held => term'[p] = term[p]
           /\ term[p].live => term'[p] = [term[p] EXCEPT !.passed = FALSE]
           /\ term[p].held /\ ~term[p].live => /\ term'[p].held /\ term'[p].live /\ term'[p].seeded
                                               /\ term'[p].has = 1..n
<1> DEFINE ts == [term EXCEPT ![p].passed = FALSE]
           e == Seed(p, n)
<1>1. term[p] \in Term /\ term \in [Panes -> Term]
    BY DEF Terms
<1>2. ts[p] = [term[p] EXCEPT !.passed = FALSE] /\ \A q \in Panes : q # p => ts[q] = term[q]
    BY <1>1
<1>3. [term[p] EXCEPT !.passed = FALSE] \in Term
    BY <1>1 DEF Term
<1>4. ~term[p].held => ts[p] = term[p] /\ term[p] = NoTerm
    BY <1>1, <1>2, NoTermIs DEF Terms, NoTerm
<1>5. ts[p].held = term[p].held /\ ts[p].live = term[p].live
    BY <1>1, <1>2 DEF Term
<1>6. ts \in Terms
    BY <1>1, <1>2, <1>3, <1>4, <1>5 DEF Terms
<1>7. e \in Event /\ e.t = "seed" /\ e.p = p /\ e.n = n
    BY DEF Seed, Event
<1> HIDE DEF ts, e
<1>8. term' = Paint(ts, e)
    BY DEF ts, e
<1>9. ~term[p].live \/ term[p].held
    BY <1>4, NoTermIs
<1>10. /\ term' \in Terms
       /\ \A q \in Panes : q # p => term'[q] = ts[q]
       /\ ~ts[p].held \/ ts[p].live => term'[p] = ts[p]
       /\ ts[p].held /\ ~ts[p].live => /\ term'[p].held /\ term'[p].live /\ term'[p].seeded
                                       /\ term'[p].has = 1..n
    <2>1. e.t \in {"output", "seed"} /\ e.t # "output"
        BY <1>7
    <2>2. /\ Paint(ts, e) \in Terms
          /\ \A q \in Panes : q # e.p => Paint(ts, e)[q] = ts[q]
          /\ ~ts[e.p].held \/ (e.t = "seed" /\ ts[e.p].live) => Paint(ts, e)[e.p] = ts[e.p]
          /\ ts[e.p].held /\ ~(e.t = "seed" /\ ts[e.p].live) =>
                /\ Paint(ts, e)[e.p].held /\ Paint(ts, e)[e.p].live
                /\ e.t = "seed" => Paint(ts, e)[e.p].has = 1..e.n /\ Paint(ts, e)[e.p].seeded
        BY <1>6, <1>7, <2>1, PaintIs
    <2> QED BY <1>7, <1>8, <2>2
<1> QED BY <1>2, <1>4, <1>5, <1>9, <1>10

-----------------------------------------------------------------------------
(* Types.                                                                  *)

LEMMA TypeIs ==
    ASSUME TypeOK
    PROVE  /\ term \in Terms
           /\ events \in Seq(Event) /\ Len(events) <= Cap /\ lagged \in BOOLEAN
           /\ timer \in BOOLEAN
           /\ None \notin Panes /\ None \notin Handlers
           /\ MaxOut \in Nat /\ 0 \in 0..MaxOut
           /\ \A p \in Panes : grid[p] \in 0..MaxOut
BY MirrorAssumption DEF TypeOK, Terms

\* The first event of the channel.
LEMMA HeadIs ==
    ASSUME TypeOK, EventsInOrder, events # <<>>
    PROVE  /\ Head(events) \in Event
           /\ Head(events).t = "output" => /\ Head(events).n \in Chunks
                                           /\ Head(events).n <= grid[Head(events).p]
<1>1. Head(events) = events[1] /\ 1 \in DOMAIN events /\ events[1] \in Event
    BY Popped, TypeIs
<1>2. grid[events[1].p] \in 0..MaxOut /\ MaxOut \in Nat
    BY <1>1, TypeIs DEF Event
<1> QED BY <1>1, <1>2 DEF EventsInOrder, Chunks

LEMMA TypesPush ==
    ASSUME TypeOK, NEW e \in Event, Push(e)
    PROVE  /\ events' \in Seq(Event) /\ Len(events') <= Cap /\ lagged' \in BOOLEAN
           /\ sender.at = "off" => events' = events /\ lagged' = lagged
BY Pushed, TypeIs

LEMMA TypesWrite ==
    ASSUME TypeOK, Hands, NEW p \in Panes, Write(p)
    PROVE  TypeOK' /\ Hands'
<1>1. grid[p] + 1 \in Chunks /\ grid[p] + 1 \in 0..MaxOut
    BY TypeIs DEF Write, Chunks
<1>2. grid' \in [Panes -> 0..MaxOut]
    BY <1>1 DEF Write, TypeOK
<1>3. pipe' \in Seq([p : Panes, n : Chunks])
    <2>1. [p |-> p, n |-> grid[p] + 1] \in [p : Panes, n : Chunks]
        BY <1>1
    <2> QED BY <2>1, AppendProperties DEF Write, TypeOK
<1> QED BY <1>2, <1>3 DEF Write, TypeOK, Hands, hub, ui

LEMMA TypesPump ==
    ASSUME TypeOK, Hands, Pump
    PROVE  TypeOK' /\ Hands'
<1>1. pipe \in Seq([p : Panes, n : Chunks]) /\ pipe # <<>>
    BY DEF TypeOK, Pump
<1>2. Head(pipe) \in [p : Panes, n : Chunks] /\ Tail(pipe) \in Seq([p : Panes, n : Chunks])
    BY <1>1, Popped
<1>3. Out(Head(pipe).p, Head(pipe).n) \in Event
    BY <1>2, TypeIs DEF Out, Event, Chunks
<1>4. Push(Out(Head(pipe).p, Head(pipe).n))
    BY DEF Pump
<1>5. /\ events' \in Seq(Event) /\ Len(events') <= Cap /\ lagged' \in BOOLEAN
      /\ sender.at = "off" => events' = events /\ lagged' = lagged
    BY <1>3, <1>4, TypesPush
<1> QED BY <1>2, <1>5 DEF Pump, TypeOK, Hands, ui

LEMMA TypesTimesOut ==
    ASSUME TypeOK, TimesOut
    PROVE  count' \in [cmds : 0..MaxCmds, conns : 0..MaxConns, fails : 0..MaxFails]
<1>1. count \in [cmds : 0..MaxCmds, conns : 0..MaxConns, fails : 0..MaxFails]
    BY DEF TypeOK
<1>2. count.fails + 1 \in 0..MaxFails
    BY <1>1, MirrorAssumption DEF TimesOut
<1>3. count' = [count EXCEPT !.fails = count.fails + 1]
    BY DEF TimesOut
<1> QED BY <1>1, <1>2, <1>3

LEMMA TypesHandler ==
    ASSUME TypeOK, Hands, NEW h \in Handlers, HandlerStep(h)
    PROVE  TypeOK' /\ Hands'
<1> USE TypeIs
<1>1. \A k \in Seq(Cmd) : k # <<>> => Head(k) \in Cmd /\ Tail(k) \in Seq(Cmd)
    BY Popped
<1>2. cmds[h] \in Seq(Cmd) /\ task[h] \in Work /\ view \in Panes /\ cmds \in [Handlers -> Seq(Cmd)]
      /\ task \in [Handlers -> Work]
    BY DEF TypeOK
<1>3. ASSUME NEW w \in Work, Begin(h, w),
             w.at \in {"json", "seed"} => w.p \in Panes, w.at = "idle" => w = Idle
      PROVE  /\ task' \in [Handlers -> Work]
             /\ \A g \in Handlers : task'[g].at \in {"json", "seed"} => task'[g].p \in Panes
             /\ \A g \in Handlers : task'[g].at = "idle" => task'[g] = Idle
    BY <1>2, <1>3 DEF Begin, Hands
<1>4. CASE Select(h)
    <2>1. Head(cmds[h]) \in Cmd /\ Tail(cmds[h]) \in Seq(Cmd)
        BY <1>1, <1>2, <1>4 DEF Select
    <2>2. Head(cmds[h]).p \in Panes /\ cmds' \in [Handlers -> Seq(Cmd)]
        BY <1>2, <1>4, <2>1 DEF Select, Cmd
    <2>3. Doing("json", Head(cmds[h]).p, 0) \in Work
        BY <2>2 DEF Doing, Work
    <2> QED BY <1>3, <1>4, <2>2, <2>3 DEF Select, Doing, TypeOK, Hands, ui
<1>5. CASE Emit(h)
    <2>1. State(task[h].p) \in Event
        BY <1>5 DEF Emit, Hands, State, Event
    <2>2. Doing("want", None, 0) \in Work
        BY DEF Doing, Work
    <2>3. /\ events' \in Seq(Event) /\ Len(events') <= Cap /\ lagged' \in BOOLEAN
          /\ sender.at = "off" => events' = events /\ lagged' = lagged
        BY <1>5, <2>1, TypesPush DEF Emit
    <2> QED BY <1>3, <1>5, <2>2, <2>3 DEF Emit, Doing, TypeOK, Hands, ui
<1>6. CASE Refresh(h)
    <2>1. Head(cmds[h]) \in Cmd /\ Tail(cmds[h]) \in Seq(Cmd)
        BY <1>1, <1>2, <1>6 DEF Refresh
    <2>2. Head(cmds[h]).p \in Panes /\ cmds' \in [Handlers -> Seq(Cmd)]
        BY <1>2, <1>6, <2>1 DEF Refresh, Cmd
    <2>3. Doing("want", Head(cmds[h]).p, 0) \in Work
        BY <2>2 DEF Doing, Work
    <2> QED BY <1>3, <1>6, <2>2, <2>3 DEF Refresh, Doing, TypeOK, Hands, ui, hub
<1>7. CASE Fetch(h)
    <2> DEFINE p == IF task[h].p = None THEN view ELSE task[h].p
    <2>1. p \in Panes
        BY <1>2 DEF Work
    <2>2. Doing("seed", p, grid[p]) \in Work /\ Idle \in Work
        BY <2>1 DEF Doing, Work, Idle
    <2>3. /\ task' \in [Handlers -> Work]
          /\ \A g \in Handlers : task'[g].at \in {"json", "seed"} => task'[g].p \in Panes
          /\ \A g \in Handlers : task'[g].at = "idle" => task'[g] = Idle
        <3>1. CASE Begin(h, Doing("seed", p, grid[p]))
            BY <1>3, <2>1, <2>2, <3>1 DEF Doing
        <3>2. CASE Begin(h, Idle)
            BY <1>3, <2>2, <3>2 DEF Idle
        <3> QED BY <1>7, <3>1, <3>2 DEF Fetch
    <2>4. count' \in [cmds : 0..MaxCmds, conns : 0..MaxConns, fails : 0..MaxFails]
        <3>1. CASE Answers
            BY <3>1 DEF Answers, TypeOK
        <3>2. CASE TimesOut
            BY <3>2, TypesTimesOut
        <3> QED BY <1>7, <3>1, <3>2 DEF Fetch
    <2> QED BY <1>7, <2>3, <2>4 DEF Fetch, TypeOK, Hands, ui, hub
<1>8. CASE EmitSeed(h)
    <2>1. Seed(task[h].p, task[h].n) \in Event
        BY <1>2, <1>8 DEF EmitSeed, Hands, Seed, Event, Work
    <2>2. Idle \in Work
        BY DEF Idle, Work
    <2>3. /\ events' \in Seq(Event) /\ Len(events') <= Cap /\ lagged' \in BOOLEAN
          /\ sender.at = "off" => events' = events /\ lagged' = lagged
        BY <1>8, <2>1, TypesPush DEF EmitSeed
    <2> QED BY <1>3, <1>8, <2>2, <2>3 DEF EmitSeed, Idle, TypeOK, Hands, ui
<1>9. CASE Leave(h)
    <2>1. cmds' \in [Handlers -> Seq(Cmd)]
        BY <1>2, <1>9, EmptySeq DEF Leave
    <2> QED BY <1>9, <2>1 DEF Leave, TypeOK, Hands, ui, hub
<1> QED BY <1>4, <1>5, <1>6, <1>7, <1>8, <1>9 DEF HandlerStep

\* The fields of Hands when the send task and the terminals change.
LEMMA TypesSender ==
    ASSUME TypeOK, Hands, EventsInOrder, SenderStep
    PROVE  TypeOK' /\ Hands'
<1> USE TypeIs
<1>1. view \in Panes /\ shown \in Panes \cup {None} /\ sender \in Sender
    BY DEF TypeOK
<1>2. ASSUME NEW at \in {"want", "run", "seed"}, NEW p \in Panes \cup {None}, NEW k \in 0..MaxOut
      PROVE  Doing(at, p, k) \in Sender /\ Doing(at, p, k).at = at /\ Doing(at, p, k).p = p
    BY DEF Doing, Sender
<1>3. CASE SendState
    <2>1. term' \in Terms /\ shown' \in Panes /\ timer' \in BOOLEAN
        BY <1>1, <1>3, ShowIs DEF SendState
    <2>2. sender' \in Sender /\ sender'.at = "want"
        BY <1>2, <1>3 DEF SendState, To
    <2> QED BY <1>3, <2>1, <2>2 DEF SendState, TypeOK, Terms, Hands, hub
<1>4. CASE Resync
    <2>1. term' \in Terms /\ shown' \in Panes /\ timer' \in BOOLEAN
        BY <1>1, <1>4, ShowIs, DistrustedIs DEF Resync
    <2>2. sender' \in Sender /\ sender'.at = "want"
        BY <1>2, <1>4 DEF Resync, To
    <2> QED BY <1>4, <2>1, <2>2 DEF Resync, TypeOK, Terms, Hands
<1>5. CASE FetchView
    <2>1. sender' \in Sender /\ sender'.at \in {"seed", "run"}
          /\ (sender'.at = "seed" => sender'.p \in Panes)
        BY <1>1, <1>2, <1>5 DEF FetchView, To
    <2>2. count' \in [cmds : 0..MaxCmds, conns : 0..MaxConns, fails : 0..MaxFails]
        BY <1>5, TypesTimesOut DEF FetchView, Answers, TypeOK
    <2> QED BY <1>5, <2>1, <2>2 DEF FetchView, TypeOK, Hands, hub, ui
<1>6. CASE SendSeed
    <2>1. sender.p \in Panes /\ sender.n \in 0..MaxOut
        BY <1>1, <1>6 DEF SendSeed, Hands, Sender
    <2>2. term' \in Terms
        BY <1>6, <2>1, SeedIs DEF SendSeed
    <2>3. sender' \in Sender /\ sender'.at = "run"
        BY <1>2, <1>6 DEF SendSeed, To
    <2> QED BY <1>6, <2>2, <2>3 DEF SendSeed, TypeOK, Terms, Hands, hub
<1>7. CASE SendEvent
    <2>1. events # <<>> /\ events' = Tail(events) /\ Receive(Head(events))
        BY <1>7 DEF SendEvent
    <2>2. events' \in Seq(Event) /\ Len(events') <= Cap
        <3>1. Tail(events) \in Seq(Event) /\ Len(Tail(events)) = Len(events) - 1 /\ Len(events) \in Nat
            BY <2>1, Popped
        <3> QED BY <2>1, <3>1, MirrorAssumption
    <2>3. /\ Head(events) \in Event
          /\ Head(events).t = "output" => Head(events).n \in Chunks
        BY <2>1, HeadIs
    <2>4. Head(events).t \in {"output", "seed", "state"} /\ Head(events).p \in Panes
        BY <2>3 DEF Event
    <2>5. term' \in Terms /\ shown' \in Panes \cup {None} /\ timer' \in BOOLEAN
          /\ (shown \in Panes => shown' \in Panes)
        <3>1. CASE Head(events).t = "state"
            BY <2>1, <2>4, <3>1, ShowIs DEF Receive
        <3>2. CASE Head(events).t # "state"
            BY <1>1, <2>1, <2>3, <2>4, <3>2, PaintIs DEF Receive
        <3> QED BY <3>1, <3>2
    <2> QED BY <1>7, <2>2, <2>5 DEF SendEvent, TypeOK, Terms, Hands
<1> QED BY <1>3, <1>4, <1>5, <1>6, <1>7 DEF SenderStep

\* The user, the timer and the link.
LEMMA TypesRest ==
    ASSUME TypeOK, Hands,
           \/ \E p \in Panes : Click(p)
           \/ Repaint \/ Disconnect
           \/ \E h \in Handlers : Connect(h)
    PROVE  TypeOK' /\ Hands'
<1> USE TypeIs
<1>1. /\ count \in [cmds : 0..MaxCmds, conns : 0..MaxConns, fails : 0..MaxFails]
      /\ MaxCmds \in Nat /\ MaxConns \in Nat
    BY MirrorAssumption DEF TypeOK
<1>2. ASSUME NEW c \in Cmd, conn # None, Ask(c)
      PROVE  cmds' \in [Handlers -> Seq(Cmd)]
    <2>1. conn \in Handlers /\ cmds \in [Handlers -> Seq(Cmd)]
        BY <1>2 DEF TypeOK
    <2>2. Append(cmds[conn], c) \in Seq(Cmd)
        BY <2>1, AppendProperties
    <2> QED BY <1>2, <2>1, <2>2 DEF Ask
<1>3. ASSUME NEW p \in Panes, Click(p) PROVE TypeOK' /\ Hands'
    <2>1. [t |-> "select", p |-> p] \in Cmd
        BY DEF Cmd
    <2>2. cmds' \in [Handlers -> Seq(Cmd)]
        BY <1>2, <1>3, <2>1 DEF Click
    <2>3. count' \in [cmds : 0..MaxCmds, conns : 0..MaxConns, fails : 0..MaxFails]
        <3>1. count.cmds + 1 \in 0..MaxCmds /\ count' = [count EXCEPT !.cmds = count.cmds + 1]
            BY <1>1, <1>3 DEF Click
        <3> QED BY <1>1, <3>1
    <2> QED BY <1>3, <2>2, <2>3 DEF Click, TypeOK, Hands, hub, ui
<1>4. CASE Repaint
    <2>1. shown \in Panes
        BY <1>4 DEF Repaint, Hands
    <2>2. [t |-> "refresh", p |-> shown] \in Cmd
        BY <2>1 DEF Cmd
    <2>3. cmds' \in [Handlers -> Seq(Cmd)]
        BY <1>2, <1>4, <2>2 DEF Repaint, TypeOK
    <2> QED BY <1>4, <2>3 DEF Repaint, TypeOK, Hands, hub
<1>5. Doing("hello", None, 0) \in Sender /\ Doing("off", None, 0) \in Sender
    BY DEF Doing, Sender
<1>6. <<>> \in Seq(Event) /\ Len(<<>>) <= Cap /\ DOMAIN <<>> = {}
    BY MirrorAssumption, EmptySeq
<1>7. CASE Disconnect
    BY <1>5, <1>6, <1>7 DEF Disconnect, Doing, TypeOK, Hands, ui
<1>8. ASSUME NEW h \in Handlers, Connect(h) PROVE TypeOK' /\ Hands'
    <2>1. count' \in [cmds : 0..MaxCmds, conns : 0..MaxConns, fails : 0..MaxFails]
        <3>1. count.conns + 1 \in 0..MaxConns /\ count' = [count EXCEPT !.conns = count.conns + 1]
            BY <1>1, <1>8 DEF Connect
        <3> QED BY <1>1, <3>1
    <2>2. term' \in Terms
        BY <1>8, DistrustedIs DEF Connect
    <2>3. sender' = Doing("hello", None, 0) /\ conn' = h /\ h # None
        BY <1>8 DEF Connect
    <2>4. sender'.at = "hello" /\ sender' \in Sender
        BY <1>5, <2>3 DEF Doing
    <2>5. TypeOK'
        BY <1>5, <1>6, <1>8, <2>1, <2>2, <2>3, <2>4 DEF Connect, TypeOK, Terms
    <2>6. Hands'
        BY <1>8, <2>3, <2>4 DEF Connect, Hands
    <2> QED BY <2>5, <2>6
<1> QED BY <1>3, <1>4, <1>7, <1>8

LEMMA Types == TypeOK /\ Hands /\ EventsInOrder /\ [Next]_vars => TypeOK' /\ Hands'
<1> SUFFICES ASSUME TypeOK, Hands, EventsInOrder, [Next]_vars PROVE TypeOK' /\ Hands'
    OBVIOUS
<1>1. CASE \E p \in Writing : Write(p)
    BY <1>1, TypesWrite, MirrorAssumption
<1>2. CASE Pump
    BY <1>2, TypesPump
<1>3. CASE \E h \in Handlers : HandlerStep(h)
    BY <1>3, TypesHandler
<1>4. CASE SenderStep
    BY <1>4, TypesSender
<1>5. CASE (\E p \in Panes : Click(p)) \/ Repaint \/ Disconnect \/ \E h \in Handlers : Connect(h)
    BY <1>5, TypesRest
<1>6. CASE UNCHANGED vars
    BY <1>6 DEF vars, TypeOK, Hands
<1> QED BY <1>1, <1>2, <1>3, <1>4, <1>5, <1>6 DEF Next

-----------------------------------------------------------------------------
(* The order of chunks.                                                    *)

Chunk == [p : Panes, n : Chunks]

LEMMA OrderWrite ==
    ASSUME TypeOK, PipeInOrder, EventsInOrder, NEW p \in Panes, Write(p)
    PROVE  PipeInOrder' /\ EventsInOrder'
<1> DEFINE m == Len(pipe)
<1>1. pipe \in Seq(Chunk) /\ m \in Nat /\ DOMAIN pipe = 1..m
    BY LenProperties DEF TypeOK, Chunk
<1>2. grid[p] \in Nat /\ grid \in [Panes -> 0..MaxOut] /\ MaxOut \in Nat
    BY TypeIs DEF TypeOK
<1>3. pipe' = Append(pipe, [p |-> p, n |-> grid[p] + 1]) /\ events' = events
      /\ grid' = [grid EXCEPT ![p] = grid[p] + 1]
    BY DEF Write, hub
<1>4. [p |-> p, n |-> grid[p] + 1] \in Chunk
    BY <1>2 DEF Write, Chunk, Chunks
<1>5. /\ DOMAIN pipe' = 1..(m + 1)
      /\ \A i \in 1..m : pipe'[i] = pipe[i]
      /\ pipe'[m + 1] = [p |-> p, n |-> grid[p] + 1]
    <2>1. /\ pipe' \in Seq(Chunk) /\ Len(pipe') = m + 1
          /\ \A i \in 1..m : pipe'[i] = pipe[i]
          /\ pipe'[m + 1] = [p |-> p, n |-> grid[p] + 1]
        BY <1>1, <1>3, <1>4, AppendProperties
    <2> QED BY <2>1, LenProperties
<1> HIDE DEF m
<1>6. m + 1 \in DOMAIN pipe' /\ pipe'[m + 1].p = p /\ pipe'[m + 1].n = grid'[p]
      /\ grid'[p] = grid[p] + 1 /\ \A q \in Panes : q # p => grid'[q] = grid[q]
    BY <1>1, <1>2, <1>3, <1>5
<1>7. PipeInOrder'
    <2> SUFFICES ASSUME NEW i \in DOMAIN pipe'
                 PROVE  /\ pipe'[i].n <= grid'[pipe'[i].p]
                        /\ \/ pipe'[i].n = grid'[pipe'[i].p]
                           \/ \E j \in DOMAIN pipe' : j > i /\ pipe'[j].p = pipe'[i].p
                                                      /\ pipe'[j].n = grid'[pipe'[i].p]
        BY DEF PipeInOrder
    <2>1. CASE i = m + 1
        BY <1>2, <1>6, <2>1
    <2>2. CASE i # m + 1
        <3>1. i \in 1..m /\ i \in DOMAIN pipe /\ i < m + 1 /\ pipe'[i] = pipe[i]
            BY <1>1, <1>5, <2>2
        <3>2. pipe[i].p \in Panes /\ pipe[i].n \in Nat
            <4>1. pipe[i] \in Chunk
                BY <1>1, <3>1, InSeq
            <4> QED BY <4>1 DEF Chunk, Chunks
        <3>3. CASE pipe[i].p = p
            <4>1. pipe[i].n <= grid[p]
                BY <3>1, <3>3 DEF PipeInOrder
            <4> QED BY <1>2, <1>6, <3>1, <3>2, <3>3, <4>1
        <3>4. CASE pipe[i].p # p
            <4>1. grid'[pipe[i].p] = grid[pipe[i].p]
                BY <1>6, <3>2, <3>4
            <4>2. /\ pipe[i].n <= grid[pipe[i].p]
                  /\ \/ pipe[i].n = grid[pipe[i].p]
                     \/ \E j \in DOMAIN pipe : j > i /\ pipe[j].p = pipe[i].p
                                               /\ pipe[j].n = grid[pipe[i].p]
                BY <3>1 DEF PipeInOrder
            <4>3. CASE pipe[i].n = grid[pipe[i].p]
                BY <3>1, <4>1, <4>2, <4>3
            <4>4. ASSUME NEW j \in DOMAIN pipe, j > i, pipe[j].p = pipe[i].p,
                         pipe[j].n = grid[pipe[i].p]
                  PROVE  \E k \in DOMAIN pipe' : k > i /\ pipe'[k].p = pipe'[i].p
                                               /\ pipe'[k].n = grid'[pipe'[i].p]
                <5>1. j \in DOMAIN pipe' /\ pipe'[j] = pipe[j]
                    BY <1>1, <1>5
                <5> QED BY <3>1, <4>1, <4>4, <5>1
            <4> QED BY <3>1, <4>1, <4>2, <4>3, <4>4
        <3> QED BY <3>3, <3>4
    <2> QED BY <2>1, <2>2
<1>8. EventsInOrder'
    <2> SUFFICES ASSUME NEW i \in DOMAIN events, events[i].t = "output"
                 PROVE  /\ events[i].n \in 1..grid'[events[i].p]
                        /\ \/ events[i].n = grid'[events[i].p]
                           \/ \E j \in DOMAIN events : j > i /\ events[j].t = "output"
                                 /\ events[j].p = events[i].p /\ events[j].n = grid'[events[i].p]
                           \/ \E j \in DOMAIN pipe' : pipe'[j].p = events[i].p
                                                      /\ pipe'[j].n = grid'[events[i].p]
        BY <1>3 DEF EventsInOrder
    <2>1. events[i].p \in Panes
        <3>1. events[i] \in Event
            BY TypeIs, InSeq
        <3> QED BY <3>1 DEF Event
    <2>2. /\ events[i].n \in 1..grid[events[i].p]
          /\ \/ events[i].n = grid[events[i].p]
             \/ \E j \in DOMAIN events : j > i /\ events[j].t = "output"
                   /\ events[j].p = events[i].p /\ events[j].n = grid[events[i].p]
             \/ \E j \in DOMAIN pipe : pipe[j].p = events[i].p /\ pipe[j].n = grid[events[i].p]
        BY DEF EventsInOrder
    <2>3. CASE events[i].p = p
        BY <1>2, <1>6, <2>2, <2>3
    <2>4. CASE events[i].p # p
        <3>1. grid'[events[i].p] = grid[events[i].p]
            BY <1>6, <2>1, <2>4
        <3>2. \A j \in DOMAIN pipe : j \in DOMAIN pipe' /\ pipe'[j] = pipe[j]
            BY <1>1, <1>5
        <3> QED BY <2>2, <3>1, <3>2
    <2> QED BY <2>3, <2>4
<1> QED BY <1>7, <1>8

\* An event is pushed: of output, the chunk that leaves the pipe.
LEMMA OrderPump ==
    ASSUME TypeOK, PipeInOrder, EventsInOrder, Hands, Pump
    PROVE  PipeInOrder' /\ EventsInOrder'
<1> DEFINE e == Out(Head(pipe).p, Head(pipe).n)
           m == Len(pipe)
           l == Len(events)
<1>1. pipe \in Seq(Chunk) /\ pipe # <<>> /\ pipe' = Tail(pipe) /\ grid' = grid /\ Push(e)
    BY DEF Pump, TypeOK, Chunk
<1>2. /\ Head(pipe) = pipe[1] /\ pipe[1] \in Chunk /\ 1 \in DOMAIN pipe
      /\ m \in Nat /\ m > 0 /\ DOMAIN pipe = 1..m
      /\ DOMAIN pipe' = 1..(m - 1) /\ \A i \in 1..(m - 1) : pipe'[i] = pipe[i + 1]
    BY <1>1, Popped
<1>3. /\ e \in Event /\ e.t = "output" /\ e.p = pipe[1].p /\ e.n = pipe[1].n
      /\ e.n \in Nat /\ e.n > 0 /\ grid[e.p] \in Nat
    BY <1>2, TypeIs DEF Out, Event, Chunk, Chunks
<1>4. events \in Seq(Event) /\ Len(events) <= Cap /\ lagged \in BOOLEAN
      /\ l \in Nat /\ DOMAIN events = 1..l
    BY TypeIs, LenProperties
<1> HIDE DEF e, m
<1>5. PipeInOrder'
    <2> SUFFICES ASSUME NEW i \in DOMAIN pipe'
                 PROVE  /\ pipe'[i].n <= grid'[pipe'[i].p]
                        /\ \/ pipe'[i].n = grid'[pipe'[i].p]
                           \/ \E j \in DOMAIN pipe' : j > i /\ pipe'[j].p = pipe'[i].p
                                                      /\ pipe'[j].n = grid'[pipe'[i].p]
        BY DEF PipeInOrder
    <2>1. i + 1 \in DOMAIN pipe /\ pipe'[i] = pipe[i + 1]
        BY <1>2
    <2>2. /\ pipe[i + 1].n <= grid[pipe[i + 1].p]
          /\ \/ pipe[i + 1].n = grid[pipe[i + 1].p]
             \/ \E j \in DOMAIN pipe : j > i + 1 /\ pipe[j].p = pipe[i + 1].p
                                       /\ pipe[j].n = grid[pipe[i + 1].p]
        BY <2>1 DEF PipeInOrder
    <2>3. ASSUME NEW j \in DOMAIN pipe, j > i + 1
          PROVE  j - 1 \in DOMAIN pipe' /\ j - 1 > i /\ pipe'[j - 1] = pipe[j]
        <3>1. j - 1 \in 1..(m - 1) /\ j - 1 > i /\ (j - 1) + 1 = j
            BY <1>2, <2>3
        <3> QED BY <1>2, <3>1
    <2> QED BY <1>1, <2>1, <2>2, <2>3
<1>6. e.n = grid[e.p] \/ \E j \in DOMAIN pipe' : pipe'[j].p = e.p /\ pipe'[j].n = grid[e.p]
    <2>1. e.n = grid[e.p] \/ \E j \in DOMAIN pipe : j > 1 /\ pipe[j].p = e.p /\ pipe[j].n = grid[e.p]
        BY <1>2, <1>3 DEF PipeInOrder
    <2>2. ASSUME NEW j \in DOMAIN pipe, j > 1
          PROVE  j - 1 \in DOMAIN pipe' /\ pipe'[j - 1] = pipe[j]
        <3>1. j - 1 \in 1..(m - 1) /\ (j - 1) + 1 = j
            BY <1>2, <2>2
        <3> QED BY <1>2, <3>1
    <2> QED BY <2>1, <2>2
<1>7. e.n <= grid[e.p]
    BY <1>2, <1>3 DEF PipeInOrder
\* Where an event was and where it is.
<1>8. ASSUME NEW k \in Nat, k \in {0, 1}, DOMAIN events' = 1..(l - k + 1), l - k \in Nat,
             \A i \in 1..(l - k) : events'[i] = events[i + k], events'[l - k + 1] = e
      PROVE  EventsInOrder'
    <2> SUFFICES ASSUME NEW i \in DOMAIN events', events'[i].t = "output"
                 PROVE  /\ events'[i].n \in 1..grid[events'[i].p]
                        /\ \/ events'[i].n = grid[events'[i].p]
                           \/ \E j \in DOMAIN events' : j > i /\ events'[j].t = "output"
                                 /\ events'[j].p = events'[i].p /\ events'[j].n = grid[events'[i].p]
                           \/ \E j \in DOMAIN pipe' : pipe'[j].p = events'[i].p
                                                      /\ pipe'[j].n = grid[events'[i].p]
        BY <1>1 DEF EventsInOrder
    <2>1. CASE i = l - k + 1
        BY <1>3, <1>6, <1>7, <1>8, <2>1
    <2>2. CASE i # l - k + 1
        <3>1. i \in 1..(l - k) /\ i + k \in DOMAIN events /\ events'[i] = events[i + k]
            BY <1>4, <1>8, <2>2
        <3> DEFINE p == events[i + k].p
        <3>2. /\ events[i + k].n \in 1..grid[p]
              /\ \/ events[i + k].n = grid[p]
                 \/ \E j \in DOMAIN events : j > i + k /\ events[j].t = "output"
                       /\ events[j].p = p /\ events[j].n = grid[p]
                 \/ \E j \in DOMAIN pipe : pipe[j].p = p /\ pipe[j].n = grid[p]
            BY <3>1 DEF EventsInOrder
        <3>3. ASSUME NEW j \in DOMAIN events, j > i + k
              PROVE  j - k \in DOMAIN events' /\ j - k > i /\ events'[j - k] = events[j]
            <4>1. j - k \in 1..(l - k) /\ j - k > i /\ (j - k) + k = j
                BY <1>4, <1>8, <3>1, <3>3
            <4> QED BY <1>8, <4>1
        <3>4. ASSUME NEW j \in DOMAIN pipe, pipe[j].p = p, pipe[j].n = grid[p]
              PROVE  \/ \E c \in DOMAIN events' : c > i /\ events'[c].t = "output"
                           /\ events'[c].p = p /\ events'[c].n = grid[p]
                     \/ \E c \in DOMAIN pipe' : pipe'[c].p = p /\ pipe'[c].n = grid[p]
            <4>1. CASE j = 1
                <5>1. l - k + 1 \in DOMAIN events' /\ l - k + 1 > i
                    BY <1>8, <3>1
                <5> QED BY <1>3, <1>8, <3>4, <4>1, <5>1
            <4>2. CASE j # 1
                <5>1. j - 1 \in 1..(m - 1) /\ (j - 1) + 1 = j
                    BY <1>2, <4>2
                <5>2. j - 1 \in DOMAIN pipe' /\ pipe'[j - 1] = pipe[j]
                    BY <1>2, <5>1
                <5> QED BY <3>4, <5>2
            <4> QED BY <4>1, <4>2
        <3> QED BY <3>1, <3>2, <3>3, <3>4
    <2> QED BY <2>1, <2>2
<1>9. EventsInOrder'
    <2>1. CASE sender.at = "off"
        <3>1. events' = <<>>
            BY <1>1, <2>1 DEF Push, Hands
        <3> QED BY <3>1 DEF EventsInOrder
    <2>2. CASE sender.at # "off" /\ Len(events) < Cap
        <3>1. /\ events' \in Seq(Event) /\ Len(events') = l + 1
              /\ \A i \in 1..l : events'[i] = events[i]
              /\ events'[l + 1] = e
            BY <1>1, <1>3, <1>4, <2>2, Pushed
        <3>2. DOMAIN events' = 1..(l - 0 + 1) /\ l - 0 \in Nat /\ 0 \in Nat
              /\ (\A i \in 1..(l - 0) : events'[i] = events[i + 0]) /\ events'[l - 0 + 1] = e
            BY <1>4, <3>1, LenProperties
        <3> HIDE DEF l
        <3> QED BY <1>8, <3>1, <3>2
    <2>3. CASE sender.at # "off" /\ ~(Len(events) < Cap)
        <3>1. /\ events' \in Seq(Event) /\ Len(events') = l /\ l > 0
              /\ \A i \in 1..(l - 1) : events'[i] = events[i + 1]
              /\ events'[l] = e
            BY <1>1, <1>3, <1>4, <2>3, Pushed
        <3>2. DOMAIN events' = 1..(l - 1 + 1) /\ l - 1 \in Nat /\ 1 \in Nat /\ events'[l - 1 + 1] = e
            BY <1>4, <3>1, LenProperties
        <3> HIDE DEF l
        <3> QED BY <1>8, <3>1, <3>2
    <2> QED BY <2>1, <2>2, <2>3
<1> QED BY <1>5, <1>9

\* Another event is pushed ...
LEMMA OrderPush ==
    ASSUME TypeOK, EventsInOrder, Hands, NEW e \in Event, e.t # "output", Push(e),
           pipe' = pipe, grid' = grid
    PROVE  EventsInOrder'
<1> DEFINE l == Len(events)
<1>1. events \in Seq(Event) /\ Len(events) <= Cap /\ lagged \in BOOLEAN
      /\ l \in Nat /\ DOMAIN events = 1..l
    BY TypeIs, LenProperties
<1>2. ASSUME NEW k \in Nat, k \in {0, 1}, DOMAIN events' = 1..(l - k + 1), l - k \in Nat,
             \A i \in 1..(l - k) : events'[i] = events[i + k], events'[l - k + 1] = e
      PROVE  EventsInOrder'
    <2> SUFFICES ASSUME NEW i \in DOMAIN events', events'[i].t = "output"
                 PROVE  /\ events'[i].n \in 1..grid[events'[i].p]
                        /\ \/ events'[i].n = grid[events'[i].p]
                           \/ \E j \in DOMAIN events' : j > i /\ events'[j].t = "output"
                                 /\ events'[j].p = events'[i].p /\ events'[j].n = grid[events'[i].p]
                           \/ \E j \in DOMAIN pipe : pipe[j].p = events'[i].p
                                                     /\ pipe[j].n = grid[events'[i].p]
        BY DEF EventsInOrder
    <2>1. i # l - k + 1
        BY <1>2
    <2>2. i \in 1..(l - k) /\ i + k \in DOMAIN events /\ events'[i] = events[i + k]
        BY <1>1, <1>2, <2>1
    <2> DEFINE p == events[i + k].p
    <2>3. /\ events[i + k].n \in 1..grid[p]
          /\ \/ events[i + k].n = grid[p]
             \/ \E j \in DOMAIN events : j > i + k /\ events[j].t = "output"
                   /\ events[j].p = p /\ events[j].n = grid[p]
             \/ \E j \in DOMAIN pipe : pipe[j].p = p /\ pipe[j].n = grid[p]
        BY <2>2 DEF EventsInOrder
    <2>4. ASSUME NEW j \in DOMAIN events, j > i + k
          PROVE  j - k \in DOMAIN events' /\ j - k > i /\ events'[j - k] = events[j]
        <3>1. j - k \in 1..(l - k) /\ j - k > i /\ (j - k) + k = j
            BY <1>1, <1>2, <2>2, <2>4
        <3> QED BY <1>2, <3>1
    <2> QED BY <2>2, <2>3, <2>4
<1>3. CASE sender.at = "off"
    <2>1. events' = <<>>
        BY <1>3 DEF Push, Hands
    <2> QED BY <2>1 DEF EventsInOrder
<1>4. CASE sender.at # "off" /\ Len(events) < Cap
    <2>1. /\ events' \in Seq(Event) /\ Len(events') = l + 1
          /\ \A i \in 1..l : events'[i] = events[i]
          /\ events'[l + 1] = e
        BY <1>1, <1>4, Pushed
    <2>2. DOMAIN events' = 1..(l - 0 + 1) /\ l - 0 \in Nat /\ 0 \in Nat
          /\ (\A i \in 1..(l - 0) : events'[i] = events[i + 0]) /\ events'[l - 0 + 1] = e
        BY <1>1, <2>1, LenProperties
    <2> HIDE DEF l
    <2> QED BY <1>2, <2>2
<1>5. CASE sender.at # "off" /\ ~(Len(events) < Cap)
    <2>1. /\ events' \in Seq(Event) /\ Len(events') = l /\ l > 0
          /\ \A i \in 1..(l - 1) : events'[i] = events[i + 1]
          /\ events'[l] = e
        BY <1>1, <1>5, Pushed
    <2>2. DOMAIN events' = 1..(l - 1 + 1) /\ l - 1 \in Nat /\ 1 \in Nat /\ events'[l - 1 + 1] = e
        BY <1>1, <2>1, LenProperties
    <2> HIDE DEF l
    <2> QED BY <1>2, <2>1, <2>2
<1> QED BY <1>3, <1>4, <1>5

\* ... and one is sent.
LEMMA OrderPop ==
    ASSUME TypeOK, EventsInOrder, events # <<>>, events' = Tail(events),
           pipe' = pipe, grid' = grid
    PROVE  EventsInOrder'
<1> DEFINE l == Len(events)
<1>1. /\ events \in Seq(Event) /\ l \in Nat /\ l > 0 /\ DOMAIN events = 1..l
      /\ DOMAIN events' = 1..(l - 1)
      /\ \A i \in 1..(l - 1) : events'[i] = events[i + 1]
    BY TypeIs, Popped
<1> HIDE DEF l
<1> SUFFICES ASSUME NEW i \in DOMAIN events', events'[i].t = "output"
             PROVE  /\ events'[i].n \in 1..grid[events'[i].p]
                    /\ \/ events'[i].n = grid[events'[i].p]
                       \/ \E j \in DOMAIN events' : j > i /\ events'[j].t = "output"
                             /\ events'[j].p = events'[i].p /\ events'[j].n = grid[events'[i].p]
                       \/ \E j \in DOMAIN pipe : pipe[j].p = events'[i].p
                                                 /\ pipe[j].n = grid[events'[i].p]
    BY DEF EventsInOrder
<1>2. i + 1 \in DOMAIN events /\ events'[i] = events[i + 1] /\ i \in Nat
    BY <1>1
<1> DEFINE p == events[i + 1].p
<1>3. /\ events[i + 1].n \in 1..grid[p]
      /\ \/ events[i + 1].n = grid[p]
         \/ \E j \in DOMAIN events : j > i + 1 /\ events[j].t = "output"
               /\ events[j].p = p /\ events[j].n = grid[p]
         \/ \E j \in DOMAIN pipe : pipe[j].p = p /\ pipe[j].n = grid[p]
    BY <1>2 DEF EventsInOrder
<1>4. ASSUME NEW j \in DOMAIN events, j > i + 1
      PROVE  j - 1 \in DOMAIN events' /\ j - 1 > i /\ events'[j - 1] = events[j]
    <2>1. j - 1 \in 1..(l - 1) /\ j - 1 > i /\ (j - 1) + 1 = j
        BY <1>1, <1>2, <1>4
    <2> QED BY <1>1, <2>1
<1> QED BY <1>2, <1>3, <1>4

LEMMA Order ==
    TypeOK /\ Hands /\ PipeInOrder /\ EventsInOrder /\ [Next]_vars => PipeInOrder' /\ EventsInOrder'
<1> SUFFICES ASSUME TypeOK, Hands, PipeInOrder, EventsInOrder, [Next]_vars
             PROVE  PipeInOrder' /\ EventsInOrder'
    OBVIOUS
<1>1. CASE \E p \in Writing : Write(p)
    BY <1>1, OrderWrite, MirrorAssumption
<1>2. CASE Pump
    BY <1>2, OrderPump
<1>3. ASSUME pipe' = pipe, grid' = grid PROVE PipeInOrder'
    BY <1>3 DEF PipeInOrder
<1>4. ASSUME pipe' = pipe, grid' = grid, events' = events \/ events' = <<>>
      PROVE  PipeInOrder' /\ EventsInOrder'
    <2>1. CASE events' = events
        BY <1>3, <1>4, <2>1 DEF EventsInOrder
    <2>2. CASE events' = <<>>
        BY <1>3, <1>4, <2>2 DEF EventsInOrder
    <2> QED BY <1>4, <2>1, <2>2
<1>5. ASSUME NEW h \in Handlers, HandlerStep(h) PROVE PipeInOrder' /\ EventsInOrder'
    <2>1. CASE Select(h) \/ Refresh(h) \/ Fetch(h) \/ Leave(h)
        BY <1>4, <2>1 DEF Select, Refresh, Fetch, Leave, hub
    <2>2. CASE Emit(h)
        <3>1. State(task[h].p) \in Event /\ State(task[h].p).t # "output"
            BY <2>2, TypeIs DEF Emit, Hands, State, Event
        <3> QED BY <1>3, <2>2, <3>1, OrderPush DEF Emit
    <2>3. CASE EmitSeed(h)
        <3>1. task[h] \in Work
            BY DEF TypeOK
        <3>2. Seed(task[h].p, task[h].n) \in Event /\ Seed(task[h].p, task[h].n).t # "output"
            BY <2>3, <3>1 DEF EmitSeed, Hands, Seed, Event, Work
        <3> QED BY <1>3, <2>3, <3>2, OrderPush DEF EmitSeed
    <2> QED BY <1>5, <2>1, <2>2, <2>3 DEF HandlerStep
<1>6. CASE SenderStep
    <2>1. CASE SendEvent
        BY <1>3, <2>1, OrderPop DEF SendEvent
    <2>2. CASE SendState \/ Resync \/ FetchView \/ SendSeed
        BY <1>4, <2>2 DEF SendState, Resync, FetchView, SendSeed, hub
    <2> QED BY <1>6, <2>1, <2>2 DEF SenderStep
<1>7. CASE (\E p \in Panes : Click(p)) \/ Repaint \/ Disconnect \/ \E h \in Handlers : Connect(h)
    BY <1>4, <1>7 DEF Click, Repaint, Disconnect, Connect, hub
<1>8. CASE UNCHANGED vars
    BY <1>4, <1>8 DEF vars
<1> QED BY <1>1, <1>2, <1>5, <1>6, <1>7, <1>8 DEF Next

-----------------------------------------------------------------------------
(* What is on its way, whatever its order.                                 *)

\* What the channel has after a push comes from the channel or is new; without
\* a lag all of it is still there, and the new event.
LEMMA PushedElements ==
    ASSUME TypeOK, Hands, NEW e \in Event, Push(e)
    PROVE  /\ \A i \in DOMAIN events' :
                  events'[i] = e \/ \E j \in DOMAIN events : events'[i] = events[j]
           /\ sender.at # "off" /\ ~lagged' =>
                 /\ ~lagged
                 /\ \A j \in DOMAIN events : \E i \in DOMAIN events' : events'[i] = events[j]
                 /\ \E i \in DOMAIN events' : events'[i] = e
<1> DEFINE l == Len(events)
<1>1. events \in Seq(Event) /\ Len(events) <= Cap /\ lagged \in BOOLEAN
      /\ l \in Nat /\ DOMAIN events = 1..l
    BY TypeIs, LenProperties
<1>2. CASE sender.at = "off"
    BY <1>2 DEF Push
<1>3. CASE sender.at # "off" /\ Len(events) < Cap
    <2>1. /\ events' \in Seq(Event) /\ Len(events') = l + 1 /\ lagged' = lagged
          /\ \A i \in 1..l : events'[i] = events[i]
          /\ events'[l + 1] = e
        BY <1>1, <1>3, Pushed
    <2>2. DOMAIN events' = 1..(l + 1)
        BY <2>1, LenProperties
    <2>3. ASSUME NEW i \in DOMAIN events' PROVE events'[i] = e \/ \E j \in DOMAIN events : events'[i] = events[j]
        <3>1. i = l + 1 \/ i \in 1..l
            BY <1>1, <2>2
        <3> QED BY <1>1, <2>1, <3>1
    <2>4. \A j \in DOMAIN events : j \in DOMAIN events' /\ events'[j] = events[j]
        BY <1>1, <2>1, <2>2
    <2>5. l + 1 \in DOMAIN events'
        BY <1>1, <2>2
    <2> QED BY <2>1, <2>3, <2>4, <2>5
<1>4. CASE sender.at # "off" /\ ~(Len(events) < Cap)
    <2>1. /\ events' \in Seq(Event) /\ Len(events') = l /\ lagged' /\ l > 0
          /\ \A i \in 1..(l - 1) : events'[i] = events[i + 1]
          /\ events'[l] = e
        BY <1>1, <1>4, Pushed
    <2>2. DOMAIN events' = 1..l
        BY <2>1, LenProperties
    <2>3. ASSUME NEW i \in DOMAIN events' PROVE events'[i] = e \/ \E j \in DOMAIN events : events'[i] = events[j]
        <3>1. i = l \/ (i \in 1..(l - 1) /\ i + 1 \in DOMAIN events)
            BY <1>1, <2>1, <2>2
        <3> QED BY <1>1, <2>1, <3>1
    <2> QED BY <2>1, <2>3
<1> QED BY <1>2, <1>3, <1>4

LEMMA PoppedElements ==
    ASSUME NEW S, NEW s \in Seq(S), s # <<>>
    PROVE  /\ \A i \in DOMAIN Tail(s) : \E j \in DOMAIN s : Tail(s)[i] = s[j]
           /\ \A j \in DOMAIN s : s[j] = Head(s) \/ \E i \in DOMAIN Tail(s) : Tail(s)[i] = s[j]
           /\ \E j \in DOMAIN s : s[j] = Head(s)
<1> DEFINE l == Len(s)
<1>1. /\ l \in Nat /\ l > 0 /\ Head(s) = s[1]
      /\ \A i \in 1..(l - 1) : Tail(s)[i] = s[i + 1]
      /\ DOMAIN s = 1..l /\ DOMAIN Tail(s) = 1..(l - 1)
    BY Popped
<1> HIDE DEF l
<1>2. ASSUME NEW i \in DOMAIN Tail(s) PROVE i + 1 \in DOMAIN s /\ Tail(s)[i] = s[i + 1]
    BY <1>1
<1>3. ASSUME NEW j \in DOMAIN s, j # 1 PROVE j - 1 \in DOMAIN Tail(s) /\ Tail(s)[j - 1] = s[j]
    <2>1. j - 1 \in 1..(l - 1) /\ (j - 1) + 1 = j
        BY <1>1, <1>3
    <2> QED BY <1>1, <2>1
<1>4. 1 \in DOMAIN s /\ s[1] = Head(s)
    BY <1>1
<1> QED BY <1>2, <1>3, <1>4

LEMMA ComingIs ==
    ASSUME NEW p, NEW k
    PROVE  k \in Coming(p) <=>
              \/ \E i \in DOMAIN pipe : pipe[i].p = p /\ pipe[i].n = k
              \/ \E i \in DOMAIN events : events[i].t = "output" /\ events[i].p = p /\ events[i].n = k
BY DEF Coming

LEMMA SeedsIs ==
    ASSUME NEW p, NEW k
    PROVE  k \in Seeds(p) <=>
              \/ \E i \in DOMAIN events : events[i].t = "seed" /\ events[i].p = p /\ events[i].n = k
              \/ \E h \in Handlers : task[h].at = "seed" /\ task[h].p = p /\ task[h].n = k
BY DEF Seeds

\* Nothing that is coming is lost, unless the client lags or it is received.
LEMMA ComingWrite ==
    ASSUME TypeOK, NEW q \in Panes, Write(q), NEW p \in Panes
    PROVE  /\ Coming(p) \subseteq Coming(p)'
           /\ grid[q] + 1 \in Coming(q)'
<1> DEFINE c == [p |-> q, n |-> grid[q] + 1]
           m == Len(pipe)
<1>1. pipe \in Seq(Chunk) /\ m \in Nat /\ DOMAIN pipe = 1..m
    BY LenProperties DEF TypeOK, Chunk
<1>2. c \in Chunk
    BY TypeIs DEF Write, Chunk, Chunks
<1>3. pipe' = Append(pipe, c) /\ events' = events
    BY DEF Write, hub
<1>4. /\ pipe' \in Seq(Chunk) /\ Len(pipe') = m + 1
      /\ \A i \in 1..m : pipe'[i] = pipe[i]
      /\ pipe'[m + 1] = c
    BY <1>1, <1>2, <1>3, AppendProperties
<1>5. DOMAIN pipe' = 1..(m + 1)
    BY <1>4, LenProperties
<1>6. \A i \in DOMAIN pipe : i \in DOMAIN pipe' /\ pipe'[i] = pipe[i]
    BY <1>1, <1>4, <1>5
<1>7. m + 1 \in DOMAIN pipe' /\ pipe'[m + 1].p = q /\ pipe'[m + 1].n = grid[q] + 1
    BY <1>1, <1>4, <1>5
<1> HIDE DEF m, c
<1>8. grid[q] + 1 \in Coming(q)'
    BY <1>7 DEF Coming
<1>9. Coming(p) \subseteq Coming(p)'
    <2> SUFFICES ASSUME NEW k \in Coming(p) PROVE k \in Coming(p)'
        OBVIOUS
    <2>1. CASE \E i \in DOMAIN pipe : pipe[i].p = p /\ pipe[i].n = k
        BY <1>6, <2>1 DEF Coming
    <2>2. CASE \E i \in DOMAIN events : events[i].t = "output" /\ events[i].p = p /\ events[i].n = k
        BY <1>3, <2>2 DEF Coming
    <2> QED BY <2>1, <2>2, ComingIs
<1> QED BY <1>8, <1>9

LEMMA ComingPump ==
    ASSUME TypeOK, Hands, Pump, sender.at # "off", ~lagged', NEW p \in Panes
    PROVE  Coming(p) \subseteq Coming(p)'
<1> DEFINE e == Out(Head(pipe).p, Head(pipe).n)
<1>1. pipe \in Seq(Chunk) /\ pipe # <<>> /\ pipe' = Tail(pipe) /\ Push(e)
    BY DEF Pump, TypeOK, Chunk
<1>2. Head(pipe) \in Chunk
    BY <1>1, Popped
<1>3. e \in Event /\ e.t = "output" /\ e.p = Head(pipe).p /\ e.n = Head(pipe).n
    BY <1>2, TypeIs DEF Out, Event, Chunk, Chunks
<1> HIDE DEF e
<1>4. /\ \A j \in DOMAIN events : \E i \in DOMAIN events' : events'[i] = events[j]
      /\ \E i \in DOMAIN events' : events'[i] = e
    BY <1>1, <1>3, PushedElements
<1>5. \A j \in DOMAIN pipe : pipe[j] = Head(pipe) \/ \E i \in DOMAIN pipe' : pipe'[i] = pipe[j]
    BY <1>1, PoppedElements
<1> SUFFICES ASSUME NEW k \in Coming(p) PROVE k \in Coming(p)'
    OBVIOUS
<1>6. CASE \E i \in DOMAIN pipe : pipe[i].p = p /\ pipe[i].n = k
    <2>1. PICK i \in DOMAIN pipe : pipe[i].p = p /\ pipe[i].n = k
        BY <1>6
    <2>2. CASE pipe[i] = Head(pipe)
        BY <1>3, <1>4, <2>1, <2>2 DEF Coming
    <2>3. CASE \E j \in DOMAIN pipe' : pipe'[j] = pipe[i]
        BY <2>1, <2>3 DEF Coming
    <2> QED BY <1>5, <2>2, <2>3
<1>7. CASE \E i \in DOMAIN events : events[i].t = "output" /\ events[i].p = p /\ events[i].n = k
    <2>1. PICK i \in DOMAIN events : events[i].t = "output" /\ events[i].p = p /\ events[i].n = k
        BY <1>7
    <2>2. PICK j \in DOMAIN events' : events'[j] = events[i]
        BY <1>4
    <2> QED BY <2>1, <2>2 DEF Coming
<1> QED BY <1>6, <1>7, ComingIs

LEMMA ComingPush ==
    ASSUME TypeOK, Hands, NEW e \in Event, Push(e), pipe' = pipe, sender.at # "off", ~lagged',
           NEW p \in Panes
    PROVE  Coming(p) \subseteq Coming(p)'
<1>1. \A j \in DOMAIN events : \E i \in DOMAIN events' : events'[i] = events[j]
    BY PushedElements
<1> SUFFICES ASSUME NEW k \in Coming(p) PROVE k \in Coming(p)'
    OBVIOUS
<1>2. CASE \E i \in DOMAIN pipe : pipe[i].p = p /\ pipe[i].n = k
    BY <1>2 DEF Coming
<1>3. CASE \E i \in DOMAIN events : events[i].t = "output" /\ events[i].p = p /\ events[i].n = k
    <2>1. PICK i \in DOMAIN events : events[i].t = "output" /\ events[i].p = p /\ events[i].n = k
        BY <1>3
    <2>2. PICK j \in DOMAIN events' : events'[j] = events[i]
        BY <1>1
    <2> QED BY <2>1, <2>2 DEF Coming
<1> QED BY <1>2, <1>3, ComingIs

LEMMA ComingPop ==
    ASSUME TypeOK, events # <<>>, events' = Tail(events), pipe' = pipe, NEW p \in Panes,
           NEW k \in Coming(p)
    PROVE  \/ k \in Coming(p)'
           \/ Head(events).t = "output" /\ Head(events).p = p /\ Head(events).n = k
<1>1. \A j \in DOMAIN events :
        events[j] = Head(events) \/ \E i \in DOMAIN events' : events'[i] = events[j]
    BY PoppedElements, TypeIs
<1>2. CASE \E i \in DOMAIN pipe : pipe[i].p = p /\ pipe[i].n = k
    BY <1>2 DEF Coming
<1>3. CASE \E i \in DOMAIN events : events[i].t = "output" /\ events[i].p = p /\ events[i].n = k
    <2>1. PICK i \in DOMAIN events : events[i].t = "output" /\ events[i].p = p /\ events[i].n = k
        BY <1>3
    <2>2. CASE \E j \in DOMAIN events' : events'[j] = events[i]
        BY <2>1, <2>2 DEF Coming
    <2> QED BY <1>1, <2>1, <2>2
<1> QED BY <1>2, <1>3, ComingIs

\* A seed that is under way was, or was taken just now.
LEMMA SeedsStep ==
    ASSUME TypeOK, Hands, [Next]_vars, NEW p \in Panes
    PROVE  Seeds(p)' \subseteq Seeds(p) \cup {grid[p]}
<1> DEFINE Old(e) == \/ e.t # "seed"
                     \/ \E j \in DOMAIN events : e = events[j]
                     \/ \E h \in Handlers : task[h].at = "seed" /\ e.p = task[h].p /\ e.n = task[h].n
           EventsFrom == \A i \in DOMAIN events' : Old(events'[i])
           TasksFrom == \A g \in Handlers : task'[g].at = "seed" =>
                            task'[g] = task[g] \/ task'[g].n = grid[task'[g].p]
<1>1. ASSUME NEW e \in Event, Push(e), Old(e) PROVE EventsFrom
    BY <1>1, PushedElements
<1>2. ASSUME events' = events \/ events' = <<>> PROVE EventsFrom
    BY <1>2
<1>3. ASSUME task' = task PROVE TasksFrom
    BY <1>3
<1>4. ASSUME NEW h \in Handlers, NEW w, Begin(h, w), w.at # "seed" \/ w.n = grid[w.p]
      PROVE  TasksFrom
    BY <1>4 DEF Begin, TypeOK
<1> HIDE DEF Old, EventsFrom, TasksFrom
<1>5. ASSUME NEW q \in Panes, Write(q) PROVE EventsFrom /\ TasksFrom
    BY <1>2, <1>3, <1>5 DEF Write, hub
<1>6. ASSUME Pump PROVE EventsFrom /\ TasksFrom
    <2> DEFINE e == Out(Head(pipe).p, Head(pipe).n)
    <2>1. pipe \in Seq(Chunk) /\ pipe # <<>> /\ Push(e) /\ task' = task
        BY <1>6 DEF Pump, TypeOK, Chunk
    <2>2. Head(pipe) \in Chunk
        BY <2>1, Popped
    <2>3. e \in Event /\ e.t = "output"
        BY <2>2, TypeIs DEF Out, Event, Chunk, Chunks
    <2>4. Old(e)
        BY <2>3 DEF Old
    <2> QED BY <1>1, <1>3, <2>1, <2>3, <2>4
<1>7. ASSUME NEW h \in Handlers, HandlerStep(h) PROVE EventsFrom /\ TasksFrom
    <2>1. CASE Select(h)
        BY <1>2, <1>4, <2>1 DEF Select, Doing
    <2>2. CASE Emit(h)
        <3>1. State(task[h].p) \in Event /\ State(task[h].p).t # "seed"
            BY <2>2, TypeIs DEF Emit, Hands, State, Event
        <3>2. Old(State(task[h].p))
            BY <3>1 DEF Old
        <3> QED BY <1>1, <1>4, <2>2, <3>1, <3>2 DEF Emit, Doing
    <2>3. CASE Refresh(h)
        BY <1>2, <1>4, <2>3 DEF Refresh, Doing, hub
    <2>4. CASE Fetch(h)
        BY <1>2, <1>4, <2>4 DEF Fetch, Doing, Idle, hub
    <2>5. CASE EmitSeed(h)
        <3>1. task[h] \in Work /\ task[h].at = "seed" /\ task[h].p \in Panes
            BY <2>5 DEF TypeOK, EmitSeed, Hands
        <3>2. /\ Seed(task[h].p, task[h].n) \in Event
              /\ Seed(task[h].p, task[h].n).p = task[h].p /\ Seed(task[h].p, task[h].n).n = task[h].n
            BY <3>1 DEF Seed, Event, Work
        <3>3. Old(Seed(task[h].p, task[h].n))
            BY <3>1, <3>2 DEF Old
        <3> QED BY <1>1, <1>4, <2>5, <3>2, <3>3 DEF EmitSeed, Idle
    <2>6. CASE Leave(h)
        BY <1>2, <1>3, <2>6 DEF Leave, hub
    <2> QED BY <1>7, <2>1, <2>2, <2>3, <2>4, <2>5, <2>6 DEF HandlerStep
<1>8. ASSUME SenderStep PROVE EventsFrom /\ TasksFrom
    <2>1. CASE SendEvent
        <3>1. events \in Seq(Event) /\ events # <<>> /\ events' = Tail(events) /\ task' = task
            BY <2>1, TypeIs DEF SendEvent
        <3>2. EventsFrom
            BY <3>1, PoppedElements DEF EventsFrom, Old
        <3> QED BY <1>3, <3>1, <3>2
    <2>2. CASE SendState \/ Resync \/ FetchView \/ SendSeed
        BY <1>2, <1>3, <2>2 DEF SendState, Resync, FetchView, SendSeed, hub
    <2> QED BY <1>8, <2>1, <2>2 DEF SenderStep
<1>9. ASSUME (\E q \in Panes : Click(q)) \/ Repaint \/ Disconnect \/ \E h \in Handlers : Connect(h)
      PROVE  EventsFrom /\ TasksFrom
    BY <1>2, <1>3, <1>9 DEF Click, Repaint, Disconnect, Connect, hub
<1>10. ASSUME UNCHANGED vars PROVE EventsFrom /\ TasksFrom
    BY <1>2, <1>3, <1>10 DEF vars
<1>11. EventsFrom /\ TasksFrom
    BY <1>5, <1>6, <1>7, <1>8, <1>9, <1>10, MirrorAssumption DEF Next
<1> SUFFICES ASSUME NEW k \in Seeds(p)' PROVE k \in Seeds(p) \/ k = grid[p]
    OBVIOUS
<1>12. CASE \E i \in DOMAIN events' : events'[i].t = "seed" /\ events'[i].p = p /\ events'[i].n = k
    <2>1. PICK i \in DOMAIN events' : events'[i].t = "seed" /\ events'[i].p = p /\ events'[i].n = k
        BY <1>12
    <2>2. Old(events'[i])
        BY <1>11, <2>1 DEF EventsFrom
    <2> QED BY <2>1, <2>2, SeedsIs DEF Old
<1>13. CASE \E h \in Handlers : task'[h].at = "seed" /\ task'[h].p = p /\ task'[h].n = k
    <2>1. PICK h \in Handlers : task'[h].at = "seed" /\ task'[h].p = p /\ task'[h].n = k
        BY <1>13
    <2>2. task'[h] = task[h] \/ k = grid[p]
        BY <1>11, <2>1 DEF TasksFrom
    <2> QED BY <2>1, <2>2, SeedsIs
<1> QED BY <1>12, <1>13 DEF Seeds

\* No step takes a chunk back.
LEMMA GridStep ==
    ASSUME TypeOK, [Next]_vars, NEW p \in Panes
    PROVE  grid[p] \in Nat /\ grid'[p] \in Nat /\ grid'[p] >= grid[p]
<1>1. grid \in [Panes -> 0..MaxOut] /\ MaxOut \in Nat
    BY MirrorAssumption DEF TypeOK
<1>2. (\E q \in Panes : Write(q)) \/ grid' = grid
    BY MirrorAssumption DEF Next, vars, Pump, Repaint, Disconnect, SenderStep, SendState, Resync,
       FetchView, SendSeed, SendEvent, HandlerStep, Select, Emit, Refresh, Fetch, EmitSeed, Leave,
       Click, Connect
<1>3. ASSUME NEW q \in Panes, Write(q) PROVE grid'[p] \in Nat /\ grid'[p] >= grid[p]
    BY <1>1, <1>3 DEF Write
<1> QED BY <1>1, <1>2, <1>3

\* While the client is connected and does not lag, what is coming stays so
\* until it is received, and what a pane writes comes.
LEMMA ComingStep ==
    ASSUME TypeOK, Hands, [Next]_vars, ~SendEvent, ~Resync,
           sender.at # "off", sender'.at # "off", ~lagged', NEW p \in Panes
    PROVE  /\ ~lagged
           /\ Coming(p) \subseteq Coming(p)'
           /\ grid'[p] = grid[p] \/ (grid'[p] = grid[p] + 1 /\ grid'[p] \in Coming(p)')
<1>1. ASSUME pipe' = pipe, events' = events PROVE Coming(p) \subseteq Coming(p)'
    BY <1>1 DEF Coming
<1>2. ASSUME NEW q \in Writing, Write(q)
      PROVE  /\ ~lagged /\ Coming(p) \subseteq Coming(p)'
             /\ grid'[p] = grid[p] \/ (grid'[p] = grid[p] + 1 /\ grid'[p] \in Coming(p)')
    <2>1. q \in Panes /\ grid \in [Panes -> 0..MaxOut]
        BY MirrorAssumption DEF TypeOK
    <2>2. Coming(p) \subseteq Coming(p)' /\ grid[q] + 1 \in Coming(q)'
        BY <1>2, <2>1, ComingWrite
    <2>3. CASE p = q
        BY <1>2, <2>1, <2>2, <2>3 DEF Write, hub
    <2>4. CASE p # q
        BY <1>2, <2>1, <2>2, <2>4 DEF Write, hub
    <2> QED BY <2>3, <2>4
<1>3. CASE Pump
    <2> DEFINE e == Out(Head(pipe).p, Head(pipe).n)
    <2>1. pipe \in Seq(Chunk) /\ pipe # <<>> /\ Push(e) /\ grid' = grid
        BY <1>3 DEF Pump, TypeOK, Chunk
    <2>2. Head(pipe) \in Chunk
        BY <2>1, Popped
    <2>3. e \in Event
        BY <2>2, TypeIs DEF Out, Event, Chunk, Chunks
    <2>4. ~lagged
        BY <2>1, <2>3, PushedElements
    <2> QED BY <1>3, <2>1, <2>4, ComingPump
<1>4. ASSUME NEW h \in Handlers, HandlerStep(h)
      PROVE  ~lagged /\ Coming(p) \subseteq Coming(p)' /\ grid' = grid
    <2>1. CASE Select(h) \/ Refresh(h) \/ Fetch(h) \/ Leave(h)
        BY <1>1, <2>1 DEF Select, Refresh, Fetch, Leave, hub
    <2>2. CASE Emit(h)
        <3>1. State(task[h].p) \in Event
            BY <2>2, TypeIs DEF Emit, Hands, State, Event
        <3> QED BY <2>2, <3>1, ComingPush, PushedElements DEF Emit
    <2>3. CASE EmitSeed(h)
        <3>1. task[h] \in Work
            BY DEF TypeOK
        <3>2. Seed(task[h].p, task[h].n) \in Event
            BY <2>3, <3>1 DEF EmitSeed, Hands, Seed, Event, Work
        <3> QED BY <2>3, <3>2, ComingPush, PushedElements DEF EmitSeed
    <2> QED BY <1>4, <2>1, <2>2, <2>3 DEF HandlerStep
<1>5. CASE SendState \/ FetchView \/ SendSeed
    <2>1. pipe' = pipe /\ events' = events /\ lagged' = lagged /\ grid' = grid
        BY <1>5 DEF SendState, FetchView, SendSeed, hub
    <2> QED BY <1>1, <2>1
<1>6. CASE (\E q \in Panes : Click(q)) \/ Repaint
    <2>1. pipe' = pipe /\ events' = events /\ lagged' = lagged /\ grid' = grid
        BY <1>6 DEF Click, Repaint, hub
    <2> QED BY <1>1, <2>1
<1>7. ASSUME Disconnect \/ \E h \in Handlers : Connect(h) PROVE FALSE
    BY <1>7 DEF Disconnect, Connect, Hands, Doing
<1>8. CASE UNCHANGED vars
    BY <1>1, <1>8 DEF vars
<1> QED BY <1>2, <1>3, <1>4, <1>5, <1>6, <1>7, <1>8 DEF Next, SenderStep

\* The terminals change when the send task sends, and when a socket is opened.
LEMMA TermStep ==
    ASSUME [Next]_vars, ~SendState, ~Resync, ~SendSeed, ~SendEvent,
           \A h \in Handlers : ~Connect(h)
    PROVE  term' = term
BY DEF Next, vars, ui, Write, Pump, Repaint, Disconnect, SenderStep, FetchView,
   HandlerStep, Select, Emit, Refresh, Fetch, EmitSeed, Leave, Click

\* After a resync, and on a new socket, each terminal is gone or waits.
LEMMA ResyncIs ==
    ASSUME TypeOK, Resync
    PROVE  \A q \in Panes : term'[q] = NoTerm \/ (/\ term'[q].held /\ ~term'[q].live /\ ~term'[q].seeded
                                                /\ term'[q].passed = Passed(q)
                                                /\ term'[q].has \subseteq term[q].has)
<1>1. term \in Terms /\ view \in Panes /\ timer \in BOOLEAN
    BY TypeIs DEF TypeOK
<1>2. /\ Distrusted \in Terms
      /\ \A q \in Panes : Distrusted[q] = NoTerm \/ Renewed(Distrusted[q], term[q], q)
    BY <1>1, DistrustedIs
<1>3. \A q \in Panes : term'[q] = Distrusted[q] \/ Renewed(term'[q], Distrusted[q], q)
    BY <1>1, <1>2, ShowIs DEF Resync
<1> QED BY <1>2, <1>3, NoTermIs DEF Renewed

\* Who changes what the send task does.
LEMMA SenderKept ==
    ASSUME [Next]_vars
    PROVE  /\ \/ sender' = sender
              \/ SendState \/ Resync \/ FetchView \/ SendSeed
              \/ Disconnect \/ \E h \in Handlers : Connect(h)
           /\ SendState \/ Resync => sender'.at = "want"
           /\ SendSeed => sender'.at = "run"
           /\ Disconnect => sender'.at = "off"
           /\ \A h \in Handlers : Connect(h) => sender'.at = "hello"
<1>1. SendState \/ Resync => sender'.at = "want"
    BY DEF SendState, Resync, To, Doing
<1>2. SendSeed => sender'.at = "run"
    BY DEF SendSeed, To, Doing
<1>3. Disconnect => sender'.at = "off"
    BY DEF Disconnect, Doing
<1>4. \A h \in Handlers : Connect(h) => sender'.at = "hello"
    BY DEF Connect, Doing
<1>5. \/ sender' = sender
      \/ SendState \/ Resync \/ FetchView \/ SendSeed
      \/ Disconnect \/ \E h \in Handlers : Connect(h)
    BY DEF Next, vars, Write, Pump, Repaint, SenderStep, SendEvent, HandlerStep, Select, Emit,
       Refresh, Fetch, EmitSeed, Leave, Click
<1> QED BY <1>1, <1>2, <1>3, <1>4, <1>5

LEMMA WrittenStep ==
    ASSUME TypeOK, Hands, EventsInOrder, Written, [Next]_vars
    PROVE  Written'
<1>1. \A p \in Panes : grid[p] \in Nat /\ grid'[p] \in Nat /\ grid'[p] >= grid[p]
    BY GridStep
<1>2. ASSUME NEW p \in Panes, NEW k \in Seeds(p)' PROVE k <= grid'[p]
    <2>1. k \in Seeds(p) \/ k = grid[p]
        BY SeedsStep
    <2>2. ASSUME k \in Seeds(p) PROVE k <= grid[p] /\ k \in Int
        <3>1. k \in Int
            <4>1. CASE \E i \in DOMAIN events : events[i].t = "seed" /\ events[i].p = p /\ events[i].n = k
                <5>1. PICK i \in DOMAIN events : events[i].n = k
                    BY <4>1
                <5>2. events[i] \in Event
                    BY TypeIs, InSeq
                <5> QED BY <5>1, <5>2 DEF Event
            <4>2. CASE \E h \in Handlers : task[h].at = "seed" /\ task[h].p = p /\ task[h].n = k
                BY <4>2 DEF TypeOK, Work
            <4> QED BY <2>2, <4>1, <4>2, SeedsIs
        <3> QED BY <2>2, <3>1 DEF Written
    <2> QED BY <1>1, <2>1, <2>2
<1>3. sender'.at = "seed" => sender'.n <= grid'[sender'.p]
    <2>1. CASE FetchView
        <3>1. view \in Panes /\ grid' = grid
            BY <2>1 DEF FetchView, TypeOK
        <3> QED BY <1>1, <2>1, <3>1 DEF FetchView, To, Doing
    <2>2. CASE sender' = sender
        <3>1. sender.at = "seed" => sender.n <= grid[sender.p] /\ sender.p \in Panes /\ sender.n \in Nat
            BY DEF Written, Hands, TypeOK, Sender
        <3> QED BY <1>1, <2>2, <3>1
    <2>3. CASE sender'.at # "seed"
        BY <2>3
    <2>4. FetchView \/ sender' = sender \/ sender'.at # "seed"
        BY SenderKept
    <2> QED BY <2>1, <2>2, <2>3, <2>4
<1>4. ASSUME NEW p \in Panes PROVE term'[p].has \subseteq 1..grid'[p]
    <2>1. term[p].has \subseteq 1..grid[p] /\ 1..grid[p] \subseteq 1..grid'[p]
        BY <1>1 DEF Written
    <2>2. term \in Terms /\ view \in Panes /\ timer \in BOOLEAN
        BY TypeIs DEF TypeOK
    <2>3. CASE SendState
        <3>1. term'[p] = term[p] \/ Renewed(term'[p], term[p], p)
            BY <2>2, <2>3, ShowIs DEF SendState
        <3> QED BY <2>1, <3>1 DEF Renewed
    <2>4. CASE Resync
        BY <2>1, <2>4, ResyncIs, NoTermIs
    <2>5. CASE SendSeed
        <3>1. sender.p \in Panes /\ sender.n \in 0..MaxOut /\ sender.n <= grid[sender.p] /\ grid' = grid
            BY <2>5 DEF SendSeed, Hands, TypeOK, Sender, Written
        <3>2. CASE p # sender.p
            BY <2>1, <2>2, <2>5, <3>1, <3>2, SeedIs DEF SendSeed
        <3>3. CASE p = sender.p
            <4>1. \/ term'[p] = term[p]
                  \/ term'[p] = [term[p] EXCEPT !.passed = FALSE]
                  \/ term'[p].has = 1..sender.n
                <5>1. ~term[p].held \/ term[p].live \/ (term[p].held /\ ~term[p].live)
                    OBVIOUS
                <5> QED BY <2>2, <2>5, <3>1, <3>3, <5>1, SeedIs DEF SendSeed
            <4>2. term[p] \in Term
                BY <2>2 DEF Terms
            <4>3. [term[p] EXCEPT !.passed = FALSE].has = term[p].has
                BY <4>2 DEF Term
            <4>4. 1..sender.n \subseteq 1..grid[p]
                BY <1>1, <3>1, <3>3
            <4> QED BY <2>1, <3>1, <4>1, <4>3, <4>4
        <3> QED BY <3>2, <3>3
    <2>6. CASE SendEvent
        <3> DEFINE e == Head(events)
        <3>1. events # <<>> /\ Receive(e) /\ grid' = grid /\ events \in Seq(Event)
            BY <2>6, TypeIs DEF SendEvent
        <3>2. e \in Event /\ (e.t = "output" => e.n \in Chunks /\ e.n <= grid[e.p])
            BY <3>1, HeadIs
        <3>3. \E j \in DOMAIN events : events[j] = e
            BY <3>1, PoppedElements
        <3>4. e.t = "seed" => e.n <= grid[e.p]
            <4>1. e.t = "seed" => e.n \in Seeds(e.p)
                BY <3>3, SeedsIs
            <4> QED BY <3>2, <4>1 DEF Event, Written
        <3>5. e.t \in {"output", "seed", "state"} /\ e.p \in Panes /\ e.n \in Nat
            BY <3>2 DEF Event
        <3> HIDE DEF e
        <3>6. CASE e.t = "state"
            <4>1. term'[p] = term[p] \/ Renewed(term'[p], term[p], p)
                BY <2>2, <3>1, <3>5, <3>6, ShowIs DEF Receive
            <4> QED BY <2>1, <4>1 DEF Renewed
        <3>7. CASE e.t # "state" /\ p # e.p
            <4>1. term'[p] = term[p]
                BY <2>2, <3>1, <3>2, <3>5, <3>7, PaintIs DEF Receive
            <4> QED BY <2>1, <4>1
        <3>8. CASE e.t # "state" /\ p = e.p
            <4>1. \/ term'[p] = term[p]
                  \/ e.t = "seed" /\ term'[p].has = 1..e.n
                  \/ e.t = "output" /\ term'[p].has = term[p].has \cup {e.n}
                <5>1. term' = Paint(term, e) /\ e.t \in {"output", "seed"}
                    BY <3>1, <3>5, <3>8 DEF Receive
                <5>2. CASE ~term[e.p].held \/ (e.t = "seed" /\ term[e.p].live)
                    BY <2>2, <3>2, <3>8, <5>1, <5>2, PaintIs
                <5>3. CASE term[e.p].held /\ ~(e.t = "seed" /\ term[e.p].live)
                    BY <2>2, <3>2, <3>8, <5>1, <5>3, PaintIs
                <5> QED BY <5>2, <5>3
            <4> QED BY <1>1, <2>1, <3>1, <3>2, <3>4, <3>5, <3>8, <4>1 DEF Chunks
        <3> QED BY <3>6, <3>7, <3>8
    <2>7. ASSUME NEW h \in Handlers, Connect(h) PROVE term'[p].has \subseteq 1..grid'[p]
        <3>1. term'[p] = NoTerm \/ Renewed(term'[p], term[p], p)
            BY <2>2, <2>7, DistrustedIs DEF Connect
        <3> QED BY <2>1, <3>1, NoTermIs DEF Renewed
    <2>8. CASE term' = term
        BY <2>1, <2>8
    <2> QED BY <2>3, <2>4, <2>5, <2>6, <2>7, <2>8, TermStep
<1> QED BY <1>2, <1>3, <1>4 DEF Written

\* A screen that is live has been painted; a state does not paint.
LEMMA BeforeSeedStep ==
    ASSUME TypeOK, Hands, EventsInOrder, BeforeSeed, [Next]_vars
    PROVE  BeforeSeed'
<1>1. term \in Terms /\ view \in Panes /\ timer \in BOOLEAN
    BY TypeIs DEF TypeOK
<1>2. ASSUME SendState
      PROVE  \A q \in Panes : ~term'[q].live /\ ~term'[q].seeded
    <2>1. \A q \in Panes : ~term[q].live /\ ~term[q].seeded
        BY <1>2 DEF BeforeSeed, SendState
    <2>2. \A q \in Panes : term'[q] = term[q] \/ Renewed(term'[q], term[q], q)
        BY <1>1, <1>2, ShowIs DEF SendState
    <2> QED BY <2>1, <2>2 DEF Renewed
<1>3. ASSUME Resync \/ \E h \in Handlers : Connect(h)
      PROVE  \A q \in Panes : ~term'[q].live /\ ~term'[q].seeded
    <2>1. CASE Resync
        BY <2>1, ResyncIs, NoTermIs
    <2>2. ASSUME NEW h \in Handlers, Connect(h)
          PROVE  \A q \in Panes : ~term'[q].live /\ ~term'[q].seeded
        BY <1>1, <2>2, DistrustedIs, NoTermIs DEF Connect, Renewed
    <2> QED BY <1>3, <2>1, <2>2
<1>4. ASSUME NEW q \in Panes, term'[q].seeded PROVE term'[q].live
    <2>1. term[q].seeded => term[q].live
        BY DEF BeforeSeed
    <2>2. CASE SendSeed
        <3>1. sender.p \in Panes /\ sender.n \in 0..MaxOut
            BY <2>2 DEF SendSeed, Hands, TypeOK, Sender
        <3>2. ~term[sender.p].live /\ ~term[sender.p].seeded
            BY <2>2, <3>1 DEF BeforeSeed, SendSeed
        <3> DEFINE p == sender.p
                   n == sender.n
        <3>5. term \in Terms /\ term' = Paint([term EXCEPT ![p].passed = FALSE], Seed(p, n))
            BY <1>1, <2>2 DEF SendSeed
        <3> HIDE DEF p, n
        <3>6. p \in Panes /\ n \in 0..MaxOut
            BY <3>1 DEF p, n
        <3>7. /\ \A r \in Panes : r # p => term'[r] = term[r]
              /\ ~term[p].held => term'[p] = term[p]
              /\ term[p].held /\ ~term[p].live => term'[p].live
            BY <3>5, <3>6, SeedIs
        <3>3. term'[sender.p] = term[sender.p] \/ term'[sender.p].live
            BY <3>2, <3>7 DEF p
        <3>4. q # sender.p => term'[q] = term[q]
            BY <3>7 DEF p
        <3> QED BY <1>4, <2>1, <3>2, <3>3, <3>4
    <2>3. CASE SendEvent
        <3> DEFINE e == Head(events)
        <3>1. events # <<>> /\ Receive(e) /\ events \in Seq(Event)
            BY <2>3, TypeIs DEF SendEvent
        <3>2. e \in Event /\ (e.t = "output" => e.n \in Chunks)
            BY <3>1, HeadIs
        <3>3. e.t \in {"output", "seed", "state"} /\ e.p \in Panes
            BY <3>2 DEF Event
        <3> HIDE DEF e
        <3>4. CASE e.t = "state"
            <4>1. term'[q] = term[q] \/ Renewed(term'[q], term[q], q)
                BY <1>1, <3>1, <3>3, <3>4, ShowIs DEF Receive
            <4> QED BY <1>4, <2>1, <4>1 DEF Renewed
        <3>5. CASE e.t # "state"
            <4>1. term' = Paint(term, e) /\ e.t \in {"output", "seed"}
                BY <3>1, <3>3, <3>5 DEF Receive
            <4>2. term'[q] = term[q] \/ term'[q].live
                BY <1>1, <3>2, <4>1, PaintIs
            <4> QED BY <1>4, <2>1, <4>2
        <3> QED BY <3>4, <3>5
    <2>4. CASE term' = term
        BY <1>4, <2>1, <2>4
    <2> QED BY <1>2, <1>3, <1>4, <2>2, <2>3, <2>4, TermStep
<1>5. ASSUME sender'.at \in {"hello", "want", "seed"} PROVE \A q \in Panes : ~term'[q].live
    <2>1. CASE sender' = sender
        <3>1. ~SendState /\ ~Resync /\ ~SendSeed /\ ~SendEvent
            BY <1>5, <2>1, SenderKept DEF SendState, Resync, SendSeed, SendEvent
        <3>2. CASE \E h \in Handlers : Connect(h)
            BY <1>3, <3>2
        <3>3. CASE \A h \in Handlers : ~Connect(h)
            BY <1>5, <2>1, <3>1, <3>3, TermStep DEF BeforeSeed
        <3> QED BY <3>2, <3>3
    <2>2. CASE FetchView
        BY <2>2 DEF FetchView, BeforeSeed, ui
    <2> QED BY <1>2, <1>3, <1>5, <2>1, <2>2, SenderKept
<1>6. ASSUME sender'.at = "seed", ~lagged'
      PROVE  ((sender.n + 1)..grid[sender.p] \subseteq Coming(sender.p))'
    <2>1. CASE FetchView
        <3>1. sender'.n = grid'[sender'.p]
            BY <1>6, <2>1 DEF FetchView, To, Doing
        <3>2. sender'.p \in Panes
            BY <1>6, <2>1 DEF FetchView, To, Doing, TypeOK
        <3>3. grid'[sender'.p] \in Nat
            BY <3>2, GridStep
        <3> QED BY <3>1, <3>3
    <2>2. CASE sender' = sender
        <3>1. sender.p \in Panes /\ sender.at = "seed" /\ sender.n \in Nat
            BY <1>6, <2>2 DEF Hands, TypeOK, Sender
        <3> PICK p \in Panes : p = sender.p
            BY <3>1
        <3>2. ~SendEvent /\ ~Resync
            BY <3>1 DEF SendEvent, Resync
        <3>3. /\ ~lagged
              /\ Coming(p) \subseteq Coming(p)'
              /\ grid'[p] = grid[p] \/ (grid'[p] = grid[p] + 1 /\ grid'[p] \in Coming(p)')
            BY <1>6, <2>2, <3>1, <3>2, ComingStep
        <3>4. (sender.n + 1)..grid[p] \subseteq Coming(p)
            BY <3>1, <3>3 DEF BeforeSeed
        <3>5. grid[p] \in Nat
            BY GridStep
        <3>6. (sender.n + 1)..grid'[p] \subseteq Coming(p)'
            BY <3>1, <3>3, <3>4, <3>5
        <3>7. sender'.p = p /\ sender'.n = sender.n
            BY <2>2
        <3>8. Coming(sender.p)' = Coming(p)'
            BY <3>7 DEF Coming
        <3> QED BY <3>6, <3>7, <3>8
    <2> QED BY <1>6, <2>1, <2>2, SenderKept
<1> QED BY <1>4, <1>5, <1>6 DEF BeforeSeed

\* A seed that nothing had passed is not passed by what comes later.
LEMMA PassedStep ==
    ASSUME TypeOK, Hands, [Next]_vars, NEW p \in Panes, ~Passed(p),
           Coming(p) \subseteq Coming(p)',
           grid'[p] = grid[p] \/ (grid'[p] = grid[p] + 1 /\ grid'[p] \in Coming(p)')
    PROVE  ~Passed(p)'
<1>1. grid[p] \in Nat
    BY GridStep
<1>2. ASSUME NEW k \in Seeds(p)' PROVE (k + 1)..grid'[p] \subseteq Coming(p)'
    <2>1. CASE k \in Seeds(p)
        <3>1. (k + 1)..grid[p] \subseteq Coming(p)
            BY <2>1 DEF Passed
        <3>2. ASSUME NEW c \in (k + 1)..grid'[p] PROVE c \in (k + 1)..grid[p] \/ c = grid'[p]
            BY <1>1, <3>2
        <3>3. CASE grid'[p] = grid[p]
            BY <3>1, <3>3
        <3>4. CASE grid'[p] = grid[p] + 1 /\ grid'[p] \in Coming(p)'
            BY <1>1, <3>1, <3>2, <3>4
        <3> QED BY <3>3, <3>4
    <2>2. CASE k = grid[p]
        <3>1. ASSUME NEW c \in (k + 1)..grid'[p] PROVE c \in Coming(p)'
            BY <1>1, <2>2, <3>1
        <3> QED BY <3>1
    <2> QED BY <2>1, <2>2, SeedsStep
<1> QED BY <1>2 DEF Passed

\* A terminal that keeps its screen keeps its promise.
LEMMA FollowedKept ==
    ASSUME TypeOK, Hands, Followed, [Next]_vars, sender.at # "off", ~lagged, NEW p \in Panes,
           Coming(p) \subseteq Coming(p)',
           grid'[p] = grid[p] \/ (grid'[p] = grid[p] + 1 /\ grid'[p] \in Coming(p)'),
           term'[p] = term[p], term[p].held, ~term[p].passed
    PROVE  /\ term'[p].live => grid'[p] = 0 \/ grid'[p] \in term'[p].has \cup Coming(p)'
           /\ term'[p].seeded => 1..grid'[p] \subseteq term'[p].has \cup Coming(p)'
           /\ ~term'[p].live => ~Passed(p)'
<1>1. grid[p] \in Nat
    BY GridStep
<1>2. /\ term[p].live => grid[p] = 0 \/ grid[p] \in term[p].has \cup Coming(p)
      /\ term[p].seeded => 1..grid[p] \subseteq term[p].has \cup Coming(p)
      /\ ~term[p].live => ~Passed(p)
    BY DEF Followed
<1>3. ASSUME NEW c \in 1..grid'[p] PROVE c \in 1..grid[p] \/ c \in Coming(p)'
    BY <1>1, <1>3
<1>4. ~term[p].live => ~Passed(p)'
    BY <1>2, PassedStep
<1> QED BY <1>1, <1>2, <1>3, <1>4

LEMMA FollowedStep ==
    ASSUME TypeOK, Hands, EventsInOrder, BeforeSeed, Followed, [Next]_vars
    PROVE  Followed'
<1>1. term \in Terms /\ view \in Panes /\ timer \in BOOLEAN
    BY TypeIs DEF TypeOK
<1> SUFFICES ASSUME sender'.at # "off", ~lagged', NEW p \in Panes, term'[p].held, ~term'[p].passed
             PROVE  /\ term'[p].live => grid'[p] = 0 \/ grid'[p] \in term'[p].has \cup Coming(p)'
                    /\ term'[p].seeded => 1..grid'[p] \subseteq term'[p].has \cup Coming(p)'
                    /\ ~term'[p].live => ~Passed(p)'
    BY DEF Followed
<1>2. grid[p] \in Nat
    BY GridStep
\* The terminal waits, and what is under way is as it was.
<1>3. ASSUME ~term'[p].live, ~term'[p].seeded, term'[p].passed = Passed(p),
             pipe' = pipe, events' = events, task' = task, grid' = grid
      PROVE  ~Passed(p)'
    BY <1>3 DEF Passed, Coming, Seeds
<1>4. CASE Resync
    <2>1. ~term'[p].live /\ ~term'[p].seeded /\ term'[p].passed = Passed(p)
        BY <1>4, ResyncIs, NoTermIs
    <2> QED BY <1>3, <1>4, <2>1 DEF Resync
<1>5. ASSUME NEW h \in Handlers, Connect(h)
      PROVE  /\ ~term'[p].live /\ ~term'[p].seeded /\ ~Passed(p)'
    <2>1. ~term'[p].live /\ ~term'[p].seeded /\ term'[p].passed = Passed(p)
        BY <1>1, <1>5, DistrustedIs, NoTermIs DEF Connect, Renewed
    <2>2. events' = events
        BY <1>5 DEF Connect, Hands
    <2> QED BY <1>3, <1>5, <2>1, <2>2 DEF Connect
<1>6. CASE SendState
    <2>1. term'[p] = term[p] \/ Renewed(term'[p], term[p], p)
        BY <1>1, <1>6, ShowIs DEF SendState
    <2>2. CASE term'[p] = term[p]
        <3>1. ~SendEvent /\ ~Resync /\ sender.at # "off"
            BY <1>6 DEF SendEvent, Resync, SendState
        <3> QED BY <2>2, <3>1, ComingStep, FollowedKept
    <2>3. CASE Renewed(term'[p], term[p], p)
        BY <1>3, <1>6, <2>3 DEF Renewed, SendState, hub
    <2> QED BY <2>1, <2>2, <2>3
<1>7. CASE SendSeed
    <2>1. sender.p \in Panes /\ sender.n \in 0..MaxOut /\ ~SendEvent /\ ~Resync /\ sender.at # "off"
        BY <1>7 DEF SendSeed, SendEvent, Resync, Hands, TypeOK, Sender
    <2>2. ~lagged /\ Coming(p) \subseteq Coming(p)' /\ grid'[p] = grid[p]
        BY <1>7, <2>1, ComingStep DEF SendSeed
    <2>3. CASE term'[p] = term[p]
        BY <2>1, <2>2, <2>3, FollowedKept
    <2>4. CASE p = sender.p /\ term[p].held
        <3>1. term'[p].held /\ term'[p].live /\ term'[p].seeded /\ term'[p].has = 1..sender.n
            BY <1>1, <1>7, <2>1, <2>4, SeedIs DEF SendSeed, BeforeSeed
        <3>2. (sender.n + 1)..grid[p] \subseteq Coming(p)'
            BY <1>7, <2>2, <2>4 DEF SendSeed, BeforeSeed
        <3>3. ASSUME NEW c \in 1..grid'[p] PROVE c \in term'[p].has \cup Coming(p)'
            BY <2>1, <2>2, <3>1, <3>2, <3>3, <1>2
        <3>4. grid'[p] = 0 \/ grid'[p] \in 1..grid'[p]
            BY <1>2, <2>2
        <3> QED BY <3>1, <3>3, <3>4
    <2>5. p # sender.p \/ ~term[p].held => term'[p] = term[p]
        BY <1>1, <1>7, <2>1, SeedIs DEF SendSeed
    <2> QED BY <2>3, <2>4, <2>5
<1>8. CASE SendEvent
    <2> DEFINE e == Head(events)
    <2>1. /\ events # <<>> /\ events \in Seq(Event) /\ events' = Tail(events) /\ Receive(e)
          /\ pipe' = pipe /\ grid' = grid /\ task' = task /\ sender.at = "run" /\ ~lagged
        BY <1>8, TypeIs DEF SendEvent
    <2>2. e \in Event /\ (e.t = "output" => e.n \in Chunks)
        BY <2>1, HeadIs
    <2>3. e.t \in {"output", "seed", "state"} /\ e.p \in Panes
        BY <2>2 DEF Event
    <2>4. \A k \in Coming(p) : k \in Coming(p)' \/ (e.t = "output" /\ e.p = p /\ e.n = k)
        BY <2>1, ComingPop
    <2>5. PICK f \in DOMAIN events : events[f] = e /\ f = 1
        <3>1. events[1] = e /\ 1 \in DOMAIN events
            BY <2>1, Popped
        <3> QED BY <3>1
    <2>6. Seeds(p)' \subseteq Seeds(p)
        <3>1. \A i \in DOMAIN events' : \E j \in DOMAIN events : events'[i] = events[j]
            BY <2>1, PoppedElements
        <3> QED BY <2>1, <3>1 DEF Seeds
    <2> HIDE DEF e
    <2>7. CASE e.t = "output" /\ e.p = p
        <3>1. term' = Paint(term, e)
            BY <2>1, <2>7 DEF Receive
        <3>2. term[p].held /\ term'[p].live /\ term'[p].has = term[p].has \cup {e.n}
              /\ term'[p].seeded = term[p].seeded /\ ~term[p].passed
            BY <1>1, <2>2, <2>7, <3>1, PaintIs
        <3>3. grid[p] \in {e.n} \cup Coming(p)'
            <4>1. \/ e.n = grid[p]
                  \/ \E j \in DOMAIN events : j > f /\ events[j].t = "output"
                        /\ events[j].p = p /\ events[j].n = grid[p]
                  \/ \E j \in DOMAIN pipe : pipe[j].p = p /\ pipe[j].n = grid[p]
                BY <2>5, <2>7 DEF EventsInOrder
            <4>2. e.n = grid[p] \/ grid[p] \in Coming(p)
                BY <4>1, ComingIs
            <4> QED BY <2>4, <4>2
        <3>4. term[p].seeded => 1..grid[p] \subseteq term[p].has \cup Coming(p)
            BY <2>1, <3>2 DEF Followed
        <3> QED BY <2>1, <2>4, <3>2, <3>3, <3>4
    <2>8. CASE ~(e.t = "output" /\ e.p = p)
        <3>1. Coming(p) \subseteq Coming(p)'
            BY <2>4, <2>8
        <3>2. CASE term'[p] = term[p]
            BY <2>1, <3>1, <3>2, FollowedKept
        <3>3. CASE e.t = "state" /\ Renewed(term'[p], term[p], p)
            <4>1. ~Passed(p)
                BY <3>3 DEF Renewed
            <4>2. ~Passed(p)'
                BY <2>1, <3>1, <4>1, PassedStep
            <4> QED BY <3>3, <4>2 DEF Renewed
        <3>4. CASE e.t = "seed" /\ e.p = p /\ term[p].held /\ ~term[p].live
            <4>1. term' = Paint(term, e)
                BY <2>1, <3>4 DEF Receive
            <4>2. /\ term'[p].live /\ term'[p].seeded /\ term'[p].has = 1..e.n
                  /\ ~term[p].passed
                BY <1>1, <2>2, <3>4, <4>1, PaintIs
            <4>3. ~Passed(p)
                BY <2>1, <3>4, <4>2 DEF Followed
            <4>4. e.n \in Seeds(p) /\ e.n \in Nat
                BY <2>2, <2>5, <3>4, SeedsIs DEF Event
            <4>5. (e.n + 1)..grid[p] \subseteq Coming(p)'
                BY <3>1, <4>3, <4>4 DEF Passed
            <4>6. ASSUME NEW c \in 1..grid'[p] PROVE c \in term'[p].has \cup Coming(p)'
                BY <1>2, <2>1, <4>2, <4>4, <4>5, <4>6
            <4>7. grid'[p] = 0 \/ grid'[p] \in 1..grid'[p]
                BY <1>2, <2>1
            <4> QED BY <4>2, <4>6, <4>7
        <3>5. \/ term'[p] = term[p]
              \/ e.t = "state" /\ Renewed(term'[p], term[p], p)
              \/ e.t = "seed" /\ e.p = p /\ term[p].held /\ ~term[p].live
            <4>1. CASE e.t = "state"
                BY <1>1, <2>1, <2>3, <4>1, ShowIs DEF Receive
            <4>2. CASE e.t # "state"
                <5>1. term' = Paint(term, e) /\ e.t \in {"output", "seed"}
                    BY <2>1, <2>3, <4>2 DEF Receive
                <5> QED BY <1>1, <2>2, <2>8, <5>1, PaintIs
            <4> QED BY <4>1, <4>2
        <3> QED BY <3>2, <3>3, <3>4, <3>5
    <2> QED BY <2>7, <2>8
<1>9. CASE ~SendState /\ ~Resync /\ ~SendSeed /\ ~SendEvent /\ \A h \in Handlers : ~Connect(h)
    <2>1. term' = term
        BY <1>9, TermStep
    <2>2. sender.at # "off"
        <3>1. \/ sender' = sender
              \/ FetchView
            BY <1>9, SenderKept
        <3> QED BY <3>1 DEF FetchView
    <2>3. /\ ~lagged /\ Coming(p) \subseteq Coming(p)'
          /\ grid'[p] = grid[p] \/ (grid'[p] = grid[p] + 1 /\ grid'[p] \in Coming(p)')
        BY <1>9, <2>2, ComingStep
    <2> QED BY <2>1, <2>2, <2>3, FollowedKept
<1> QED BY <1>4, <1>5, <1>6, <1>7, <1>8, <1>9

-----------------------------------------------------------------------------
(* The theorems.                                                           *)

\* The invariant: numbers of chunks come in their order, and what a terminal
\* lacks is on its way to it, through any overflow, resync, reconnection and
\* visit to another pane.
THEOREM Invariant == Spec => []IInv
<1>1. Init => IInv
    <2> SUFFICES ASSUME Init PROVE IInv
        OBVIOUS
    <2>1. TypeOK
        <3>1. /\ <<>> \in Seq([p : Panes, n : Chunks]) /\ <<>> \in Seq(Event) /\ <<>> \in Seq(Cmd)
              /\ Len(<<>>) = 0
            BY EmptySeq
        <3>2. Doing("off", None, 0) \in Sender /\ Idle \in Work
            BY MirrorAssumption DEF Doing, Sender, Idle, Work
        <3>3. term \in [Panes -> Term] /\ \A p \in Panes : ~term[p].held => term[p] = NoTerm
            BY NoTermIs DEF Init
        <3>4. grid \in [Panes -> 0..MaxOut] /\ 0 <= Cap
              /\ count \in [cmds : 0..MaxCmds, conns : 0..MaxConns, fails : 0..MaxFails]
            BY MirrorAssumption DEF Init
        <3>5. cmds \in [Handlers -> Seq(Cmd)] /\ task \in [Handlers -> Work]
            BY <3>1, <3>2 DEF Init
        <3> QED BY <3>1, <3>2, <3>3, <3>4, <3>5 DEF Init, TypeOK
    <2>2. Hands
        BY MirrorAssumption DEF Init, Hands, Doing, Idle
    <2>3. PipeInOrder /\ EventsInOrder
        BY DEF Init, PipeInOrder, EventsInOrder
    <2>4. \A p \in Panes : Seeds(p) = {}
        <3>1. \A h \in Handlers : task[h].at # "seed"
            BY DEF Init, Idle
        <3>2. DOMAIN events = {}
            BY DEF Init
        <3> QED BY <3>1, <3>2, SeedsIs DEF Seeds
    <2>5. Written /\ BeforeSeed /\ Followed
        BY <2>4, NoTermIs DEF Init, Written, BeforeSeed, Followed, Doing
    <2> QED BY <2>1, <2>2, <2>3, <2>5 DEF IInv
<1>2. IInv /\ [Next]_vars => IInv'
    BY Types, Order, WrittenStep, BeforeSeedStep, FollowedStep DEF IInv
<1> QED BY <1>1, <1>2, PTL DEF Spec

\* The type invariant.
THEOREM TypeCorrect == Spec => []TypeOK
BY Invariant, PTL DEF IInv

\* When nothing is on its way nothing is coming.
LEMMA QuietIs ==
    ASSUME IInv, Quiet
    PROVE  /\ shown \in Panes
           /\ term[shown].live \/ term[shown].seeded => term[shown].held
           /\ \A p \in Panes : Coming(p) = {}
           /\ \A p \in Panes : term[p].held /\ ~term[p].passed =>
                 /\ term[p].live => grid[p] = 0 \/ grid[p] \in term[p].has
                 /\ term[p].seeded => 1..grid[p] \subseteq term[p].has
<1>1. sender.at = "run" /\ ~lagged /\ pipe = <<>> /\ events = <<>>
    BY DEF Quiet
<1>2. shown \in Panes
    BY <1>1 DEF IInv, Hands
<1>3. term \in Terms
    BY TypeIs DEF IInv
<1>4. \A p \in Panes : Coming(p) = {}
    <2>1. DOMAIN pipe = {} /\ DOMAIN events = {}
        BY <1>1
    <2> QED BY <2>1, ComingIs DEF Coming
<1>5. term[shown].live \/ term[shown].seeded => term[shown].held
    BY <1>2, <1>3, NoTermIs DEF Terms
<1>6. \A p \in Panes : term[p].held /\ ~term[p].passed =>
        /\ term[p].live => grid[p] = 0 \/ grid[p] \in term[p].has \cup Coming(p)
        /\ term[p].seeded => 1..grid[p] \subseteq term[p].has \cup Coming(p)
    BY <1>1 DEF IInv, Followed
<1> QED BY <1>2, <1>4, <1>5, <1>6

\* "P2 lossless" (ws.rs), for any number of panes, chunks, handlers and
\* connections and any capacity of the channel: a terminal with its seed has
\* every chunk, and no more.
THEOREM NothingLost == Spec => []Lossless
<1>1. IInv => Lossless
    <2> SUFFICES ASSUME IInv, Quiet, term[shown].seeded, ~term[shown].passed
                 PROVE  term[shown].has = 1..grid[shown]
        BY DEF Lossless
    <2>1. term[shown].has \subseteq 1..grid[shown]
        BY QuietIs DEF IInv, Written
    <2>2. 1..grid[shown] \subseteq term[shown].has
        BY QuietIs
    <2> QED BY <2>1, <2>2
<1> QED BY <1>1, Invariant, PTL

\* A terminal that counts as live has the newest chunk, whatever seeds were
\* taken earlier and came later.
THEOREM NewestShown == Spec => []LiveIsCurrent
<1>1. IInv => LiveIsCurrent
    <2> SUFFICES ASSUME IInv, Quiet, term[shown].live, ~term[shown].passed, grid[shown] > 0
                 PROVE  grid[shown] \in term[shown].has
        BY DEF LiveIsCurrent
    <2>1. shown \in Panes /\ grid[shown] # 0
        BY QuietIs, TypeIs DEF IInv
    <2> QED BY <2>1, QuietIs
<1> QED BY <1>1, Invariant, PTL

-----------------------------------------------------------------------------
(* The view, with one handler.                                             *)

\* The last state of the channel says what the view is: after a push ...
LEMMA LastPushed ==
    ASSUME TypeOK, Hands, NEW e \in Event, Push(e), sender.at # "off",
           NEW i \in DOMAIN events', events'[i].t = "state",
           \A j \in DOMAIN events' : j > i => events'[j].t # "state"
    PROVE  \/ events'[i] = e
           \/ /\ e.t # "state"
              /\ \E k \in DOMAIN events : /\ events'[i] = events[k]
                                          /\ \A j \in DOMAIN events : j > k => events[j].t # "state"
<1> DEFINE l == Len(events)
<1>1. events \in Seq(Event) /\ Len(events) <= Cap /\ lagged \in BOOLEAN
      /\ l \in Nat /\ DOMAIN events = 1..l
    BY TypeIs, LenProperties
<1>2. CASE Len(events) < Cap
    <2>1. /\ events' \in Seq(Event) /\ Len(events') = l + 1
          /\ \A j \in 1..l : events'[j] = events[j]
          /\ events'[l + 1] = e
        BY <1>1, <1>2, Pushed
    <2>2. DOMAIN events' = 1..(l + 1)
        BY <2>1, LenProperties
    <2> HIDE DEF l
    <2>3. CASE i # l + 1
        <3>1. i \in DOMAIN events /\ events'[i] = events[i] /\ l + 1 \in DOMAIN events' /\ l + 1 > i
            BY <1>1, <2>1, <2>2, <2>3
        <3>2. \A j \in DOMAIN events : j > i => events[j].t # "state"
            BY <1>1, <2>1, <2>2
        <3> QED BY <2>1, <3>1, <3>2
    <2> QED BY <2>1, <2>3
<1>3. CASE ~(Len(events) < Cap)
    <2>1. /\ events' \in Seq(Event) /\ Len(events') = l /\ l > 0
          /\ \A j \in 1..(l - 1) : events'[j] = events[j + 1]
          /\ events'[l] = e
        BY <1>1, <1>3, Pushed
    <2>2. DOMAIN events' = 1..l
        BY <2>1, LenProperties
    <2> HIDE DEF l
    <2>3. CASE i # l
        <3>1. i + 1 \in DOMAIN events /\ events'[i] = events[i + 1] /\ l \in DOMAIN events' /\ l > i
            BY <1>1, <2>1, <2>2, <2>3
        <3>2. ASSUME NEW j \in DOMAIN events, j > i + 1 PROVE events[j].t # "state"
            <4>1. j - 1 \in 1..(l - 1) /\ (j - 1) + 1 = j /\ j - 1 > i /\ j - 1 \in DOMAIN events'
                BY <1>1, <2>2, <3>2
            <4> QED BY <2>1, <4>1
        <3> QED BY <2>1, <3>1, <3>2
    <2> QED BY <2>1, <2>3
<1> QED BY <1>2, <1>3

\* ... and without one in the channel there was none.
LEMMA NoState ==
    ASSUME TypeOK, Hands, NEW e \in Event, Push(e), sender.at # "off", ~lagged',
           \A i \in DOMAIN events' : events'[i].t # "state"
    PROVE  ~lagged /\ e.t # "state" /\ \A i \in DOMAIN events : events[i].t # "state"
BY PushedElements

LEMMA ViewPush ==
    ASSUME TypeOK, Hands, NEW h \in Handlers, ViewKnown(h), NEW e \in Event, Push(e),
           view' = view, shown' = shown, sender' = sender,
           \/ e.t # "state" /\ task'[h].at # "json" /\ task[h].at # "json"
           \/ e.t # "state" /\ task'[h] = task[h]
           \/ e.t = "state" /\ e.p = view /\ task'[h].at # "json"
    PROVE  ViewKnown(h)'
<1>1. task'[h].at = "json" => task'[h].p = view'
    BY DEF ViewKnown
<1>2. CASE sender.at = "off"
    <2>1. events' = <<>>
        BY <1>2 DEF Push, Hands
    <2> QED BY <1>1, <1>2, <2>1 DEF ViewKnown
<1>3. CASE sender.at # "off"
    <2>1. ASSUME task'[h].at # "json", NEW i \in DOMAIN events', events'[i].t = "state",
                 \A j \in DOMAIN events' : j > i => events'[j].t # "state"
          PROVE  events'[i].p = view'
        <3>1. CASE events'[i] = e
            BY <2>1, <3>1
        <3>2. CASE e.t # "state" /\ task[h].at # "json"
                   /\ \E k \in DOMAIN events : /\ events'[i] = events[k]
                                               /\ \A j \in DOMAIN events : j > k => events[j].t # "state"
            BY <2>1, <3>2 DEF ViewKnown
        <3> QED BY <1>3, <2>1, <3>1, <3>2, LastPushed
    <2>2. ASSUME task'[h].at # "json", sender'.at \in {"want", "seed", "run"}, ~lagged',
                 \A i \in DOMAIN events' : events'[i].t # "state"
          PROVE  shown' = view'
        <3>1. ~lagged /\ e.t # "state" /\ \A i \in DOMAIN events : events[i].t # "state"
            BY <1>3, <2>2, NoState
        <3> QED BY <2>2, <3>1 DEF ViewKnown
    <2> QED BY <1>1, <2>1, <2>2 DEF ViewKnown
<1> QED BY <1>2, <1>3

LEMMA ViewPop ==
    ASSUME TypeOK, EventsInOrder, NEW h \in Handlers, ViewKnown(h), SendEvent
    PROVE  ViewKnown(h)'
<1> DEFINE e == Head(events)
           l == Len(events)
<1>1. /\ events # <<>> /\ events \in Seq(Event) /\ events' = Tail(events) /\ Receive(e)
      /\ task' = task /\ view' = view /\ sender.at = "run" /\ sender' = sender /\ ~lagged
    BY TypeIs DEF SendEvent
<1>2. /\ l \in Nat /\ l > 0 /\ e = events[1] /\ 1 \in DOMAIN events /\ DOMAIN events = 1..l
      /\ DOMAIN events' = 1..(l - 1)
      /\ \A i \in 1..(l - 1) : events'[i] = events[i + 1]
    BY <1>1, Popped
<1>3. e \in Event
    BY <1>1, HeadIs
<1> HIDE DEF e, l
<1>4. \A j \in DOMAIN events : j > 1 => j - 1 \in DOMAIN events' /\ events'[j - 1] = events[j]
    <2> SUFFICES ASSUME NEW j \in DOMAIN events, j > 1
                 PROVE  j - 1 \in DOMAIN events' /\ events'[j - 1] = events[j]
        OBVIOUS
    <2>1. j - 1 \in 1..(l - 1) /\ (j - 1) + 1 = j
        BY <1>2
    <2> QED BY <1>2, <2>1
<1>5. ASSUME task[h].at # "json", NEW i \in DOMAIN events', events'[i].t = "state",
             \A j \in DOMAIN events' : j > i => events'[j].t # "state"
      PROVE  events'[i].p = view
    <2>1. i + 1 \in DOMAIN events /\ events'[i] = events[i + 1] /\ i \in Nat /\ i > 0
        BY <1>2
    <2>2. ASSUME NEW j \in DOMAIN events, j > i + 1 PROVE events[j].t # "state"
        <3>1. j > 1 /\ j - 1 > i
            BY <1>2, <2>1, <2>2
        <3> QED BY <1>4, <1>5, <3>1
    <2> QED BY <1>5, <2>1, <2>2 DEF ViewKnown
<1>6. ASSUME task[h].at # "json", \A i \in DOMAIN events' : events'[i].t # "state"
      PROVE  shown' = view
    <2>1. \A j \in DOMAIN events : j > 1 => events[j].t # "state"
        BY <1>4, <1>6
    <2>2. CASE e.t = "state"
        <3>1. e.p = view
            BY <1>2, <1>6, <2>1, <2>2 DEF ViewKnown
        <3> QED BY <1>1, <2>2, <3>1 DEF Receive, Show
    <2>3. CASE e.t # "state"
        <3>1. \A j \in DOMAIN events : j = 1 \/ j > 1
            BY <1>2
        <3>2. \A j \in DOMAIN events : events[j].t # "state"
            BY <1>2, <2>1, <2>3, <3>1
        <3>3. shown = view
            BY <1>1, <1>6, <3>2 DEF ViewKnown
        <3> QED BY <1>1, <2>3, <3>3 DEF Receive
    <2> QED BY <2>2, <2>3
<1>7. task[h].at = "json" => task[h].p = view
    BY DEF ViewKnown
<1> QED BY <1>1, <1>5, <1>6, <1>7 DEF ViewKnown

LEMMA ViewStep ==
    ASSUME TypeOK, Hands, EventsInOrder, NEW h, Handlers = {h}, ViewKnown(h), [Next]_vars
    PROVE  ViewKnown(h)'
<1>1. h \in Handlers /\ view \in Panes
    BY DEF TypeOK
<1>2. ASSUME UNCHANGED <<view, events, lagged, sender, shown>>,
             task'[h] = task[h] \/ (task[h].at # "json" /\ task'[h].at # "json")
      PROVE  ViewKnown(h)'
    BY <1>2 DEF ViewKnown
<1>3. ASSUME NEW p \in Panes, Write(p) PROVE ViewKnown(h)'
    BY <1>2, <1>3 DEF Write, hub, ui
<1>4. CASE Pump
    <2> DEFINE e == Out(Head(pipe).p, Head(pipe).n)
    <2>1. pipe \in Seq(Chunk) /\ pipe # <<>> /\ Push(e)
          /\ UNCHANGED <<view, shown, sender, task>>
        BY <1>4 DEF Pump, TypeOK, Chunk, ui
    <2>2. Head(pipe) \in Chunk
        BY <2>1, Popped
    <2>3. e \in Event /\ e.t # "state"
        BY <2>2, TypeIs DEF Out, Event, Chunk, Chunks
    <2> HIDE DEF e
    <2> QED BY <1>1, <2>1, <2>3, ViewPush
<1>5. ASSUME HandlerStep(h) PROVE ViewKnown(h)'
    <2>1. CASE Select(h)
        <3>1. task'[h].at = "json" /\ task'[h].p = view'
            BY <1>1, <2>1 DEF Select, Begin, Doing, TypeOK
        <3> QED BY <3>1 DEF ViewKnown
    <2>2. CASE Emit(h)
        <3>1. task[h].at = "json" /\ task[h].p = view
            BY <2>2 DEF Emit, ViewKnown
        <3>2. State(view) \in Event /\ State(view).t = "state" /\ State(view).p = view
            BY <1>1, TypeIs DEF State, Event
        <3>3. task'[h].at # "json" /\ UNCHANGED <<view, shown, sender>> /\ Push(State(view))
            BY <1>1, <2>2, <3>1 DEF Emit, Begin, Doing, TypeOK, ui
        <3> QED BY <1>1, <3>2, <3>3, ViewPush
    <2>3. CASE Refresh(h) \/ Fetch(h) \/ Leave(h)
        <3>1. task'[h] = task[h] \/ (task[h].at # "json" /\ task'[h].at # "json")
            BY <1>1, <2>3 DEF Refresh, Fetch, Leave, Begin, Doing, Idle, TypeOK
        <3> QED BY <1>2, <2>3, <3>1 DEF Refresh, Fetch, Leave, hub, ui
    <2>4. CASE EmitSeed(h)
        <3> DEFINE e == Seed(task[h].p, task[h].n)
        <3>1. task[h] \in Work /\ task[h].at = "seed" /\ task[h].p \in Panes
            BY <1>1, <2>4 DEF EmitSeed, Hands, TypeOK
        <3>2. e \in Event /\ e.t # "state"
            BY <3>1 DEF Seed, Event, Work
        <3>3. Push(e) /\ UNCHANGED <<view, shown, sender>> /\ task'[h].at # "json"
            BY <1>1, <2>4 DEF EmitSeed, Begin, Idle, TypeOK, ui
        <3> HIDE DEF e
        <3> QED BY <1>1, <3>1, <3>2, <3>3, ViewPush
    <2> QED BY <1>5, <2>1, <2>2, <2>3, <2>4 DEF HandlerStep
<1>6. CASE SendState \/ Resync
    <2>1. shown' = view /\ view' = view /\ events' = events /\ task' = task
        BY <1>6 DEF SendState, Resync, Show, hub
    <2> QED BY <2>1 DEF ViewKnown
<1>7. CASE FetchView \/ SendSeed
    <2>1. UNCHANGED <<view, events, lagged, task, shown>> /\ sender.at \in {"want", "seed"}
        BY <1>7 DEF FetchView, SendSeed, hub, ui
    <2> QED BY <2>1 DEF ViewKnown
<1>8. CASE SendEvent
    BY <1>1, <1>8, ViewPop
<1>9. CASE (\E p \in Panes : Click(p)) \/ Repaint \/ UNCHANGED vars
    BY <1>2, <1>9 DEF Click, Repaint, vars, hub, ui
<1>10. CASE Disconnect \/ Connect(h)
    <2>1. events' = <<>> /\ task' = task /\ view' = view /\ sender'.at \in {"off", "hello"}
        BY <1>10 DEF Disconnect, Connect, Doing
    <2> QED BY <2>1 DEF ViewKnown
<1> QED BY <1>3, <1>4, <1>5, <1>6, <1>7, <1>8, <1>9, <1>10, MirrorAssumption DEF Next, SenderStep

\* While one handler at a time reads commands, the browser ends up showing the
\* hub's view, also when the channel dropped the state that said so.
THEOREM ViewShown == ASSUME NEW h, Handlers = {h} PROVE Spec => []SameView
<1>1. Init => ViewKnown(h)
    <2> SUFFICES ASSUME Init PROVE ViewKnown(h)
        OBVIOUS
    <2>1. h \in Handlers
        OBVIOUS
    <2>2. task[h].at = "idle" /\ sender.at = "off" /\ DOMAIN events = {}
        BY <2>1 DEF Init, Idle, Doing
    <2> QED BY <2>2 DEF ViewKnown
<1>2. IInv /\ ViewKnown(h) /\ [Next]_vars => ViewKnown(h)'
    BY ViewStep DEF IInv
<1>3. IInv /\ ViewKnown(h) => SameView
    <2> SUFFICES ASSUME ViewKnown(h), Quiet PROVE shown = view
        BY DEF SameView
    <2>1. task[h].at # "json" /\ sender.at = "run" /\ ~lagged /\ DOMAIN events = {}
        BY DEF Quiet, Idle
    <2> QED BY <2>1 DEF ViewKnown
<1> QED BY <1>1, <1>2, <1>3, Invariant, PTL DEF Spec
=============================================================================
