---------------------------- MODULE DaemonProofs ----------------------------
(***************************************************************************)
(* Proofs about two parts of mymuxd: the agent badges, and the handlers    *)
(* that write to the user's directories. Each has its own specification.   *)
(*                                                                         *)
(* The badges, for any finite set of panes and chunks of any length: what  *)
(* the recursive scan of the output returns does not matter to them. First *)
(* the suppression (AgentsInv is its inductive invariant), then the order  *)
(* of the queue (QueueInv): a step puts nothing before what was in the     *)
(* queue already, with the exception of a defer.                           *)
(*                                                                         *)
(* The handlers, for any number of requests and directories. RepoInv is    *)
(* the inductive invariant: the properties themselves and what the probes  *)
(* of op_state have found out so far while nobody moved the sequencer.     *)
(***************************************************************************)
EXTENDS Agents, Repo, FiniteSetTheorems, SequenceTheorems, WellFoundedInduction, TLAPS

USE DEF agentsVars

(* The inductive invariant: badge is a function of the panes. *)
AgentsInv == badge = [p \in Panes |-> badge[p]] /\ hushed \subseteq Panes /\ Hushed

(* The initial states satisfy it. *)
LEMMA InitAgentsInv == AgentsInit => AgentsInv
  BY DEF AgentsInit, AgentsInv, Hushed

(* Badges that are taken away, with no suppression set, do no harm. *)
LEMMA UnbadgeStep ==
  ASSUME AgentsInv, NEW ps, Unbadge(ps), hushed' \subseteq hushed \cup (ps \cap Panes)
  PROVE  AgentsInv'
  BY DEF AgentsInv, Hushed, Unbadge

(* Nor does a step that leaves the badges alone. *)
LEMMA QuietStep ==
  ASSUME AgentsInv, badge' = badge, hushed' \subseteq hushed
  PROVE  AgentsInv'
  BY DEF AgentsInv, Hushed

(* A sweep that decides passes by what is suppressed. *)
LEMMA SweepStep ==
  ASSUME AgentsInv, SweepDecides
  PROVE  AgentsInv'
<1>1. badge' = [p \in Panes |-> badge'[p]] /\ hushed' = hushed
  BY DEF SweepDecides
<1>2. ASSUME NEW p \in hushed PROVE badge'[p] = NoEntry
  <2>1. p \in Panes /\ badge[p] = NoEntry
    BY <1>2 DEF AgentsInv, Hushed
  <2>2. Desired(p) = NoEntry
    BY <1>2 DEF Desired
  <2>3. badge'[p] \in {badge[p], NoEntry}
    BY <2>1, <2>2 DEF SweepDecides
  <2> QED BY <2>1, <2>3
<1> QED BY <1>1, <1>2 DEF AgentsInv, Hushed

(* Every action keeps the invariant. *)
LEMMA StepAgentsInv ==
  ASSUME AgentsInv, AgentsNext
  PROVE  AgentsInv'
<1>1. ASSUME NEW p \in Panes, NEW s \in States, Report(p, s) PROVE AgentsInv'
  <2>1. badge' = [badge EXCEPT ![p] = Entry(s, "hook")] /\ hushed' = hushed \ {p}
    BY <1>1 DEF Report
  <2> QED BY <2>1 DEF AgentsInv, Hushed
<1>2. ASSUME NEW p \in Panes, ReportIdle(p) PROVE AgentsInv'
  BY <1>2, UnbadgeStep DEF ReportIdle
<1>3. ASSUME NEW p \in Panes, Defer(p) PROVE AgentsInv'
  BY <1>3, QuietStep DEF Defer
<1>4. ASSUME NEW p \in Panes, Consume(p) PROVE AgentsInv'
  BY <1>4, UnbadgeStep DEF Consume
<1>5. ASSUME NEW p \in Talking, Output(p) PROVE AgentsInv'
  <2>1. hushed' \subseteq hushed
    BY <1>5 DEF Output
  <2>2. PICK ps : Unbadge(ps)
    BY <1>5 DEF Output
  <2> QED BY <2>1, <2>2, UnbadgeStep
<1>6. ASSUME NEW p \in Talking, NEW on \in BOOLEAN, NoteAlt(p, on) PROVE AgentsInv'
  BY <1>6, QuietStep DEF NoteAlt
<1>7. ASSUME NEW p \in Panes, GraceEnds(p) PROVE AgentsInv'
  <2>1. badge[p] # NoEntry /\ hushed' = hushed /\ \E b : badge' = [badge EXCEPT ![p] = b]
    BY <1>7 DEF GraceEnds, HasBadge
  <2> QED BY <2>1 DEF AgentsInv, Hushed
<1>8. ASSUME NEW p \in Panes, FallsQuiet(p) \/ BellFades(p) PROVE AgentsInv'
  BY <1>8, QuietStep DEF FallsQuiet, BellFades
<1>9. ASSUME NEW p \in Panes, Removed(p) PROVE AgentsInv'
  <2>1. Unbadge({p}) /\ hushed' = hushed \ {p}
    BY <1>9 DEF Removed
  <2> QED BY <2>1, UnbadgeStep
<1>10. ASSUME NEW p \in Panes, Lost(p) PROVE AgentsInv'
  BY <1>10, QuietStep DEF Lost
<1>11. ASSUME NEW ps \in SUBSET live, Look(ps) PROVE AgentsInv'
  <2>1. PICK qs : Unbadge(qs)
    BY <1>11 DEF Look
  <2>2. hushed' = hushed
    BY <1>11 DEF Look
  <2> QED BY <2>1, <2>2, UnbadgeStep
<1>12. ASSUME SweepLooks PROVE AgentsInv'
  BY <1>12, QuietStep DEF SweepLooks
<1> QED
  BY <1>1, <1>2, <1>3, <1>4, <1>5, <1>6, <1>7, <1>8, <1>9, <1>10, <1>11, <1>12, SweepStep
  DEF AgentsNext

(* A pane whose ask the user consumed keeps no badge, and no sweep and no  *)
(* output on its way raises one: not for any interleaving of hooks, output *)
(* and sweeps (consume_agent, run_heuristics).                             *)
THEOREM HushedStaysHushed == AgentsSpec => []Hushed
<1>1. AgentsInv /\ [AgentsNext]_agentsVars => AgentsInv'
  <2>1. ASSUME AgentsInv, UNCHANGED agentsVars PROVE AgentsInv'
    BY <2>1, QuietStep
  <2> QED BY <2>1, StepAgentsInv
<1>2. AgentsInv => Hushed
  BY DEF AgentsInv
<1> QED BY InitAgentsInv, <1>1, <1>2, PTL DEF AgentsSpec

-----------------------------------------------------------------------------
(* The order of the queue.                                                 *)

(* What is in a sequence, and that nothing is twice.                       *)
In(q, p) == \E i \in DOMAIN q : q[i] = p
Unique(q) == \A p : ~Before(q, p, p)

(* Naturals up to a bound, one after the other: a set that holds 0 and     *)
(* every successor holds all of them.                                      *)
LEMMA UpTo ==
  ASSUME NEW N \in Nat, NEW S, 0 \in S, \A n \in 0..N : n \in S /\ n < N => n + 1 \in S
  PROVE  \A n \in 0..N : n \in S
<1> DEFINE T == {n \in 0..N : n \notin S}
           R == {x \in Nat \X Nat : x[1] < x[2]}
<1>1. IsWellFoundedOn(R, Nat)
  <2>1. R = OpToRel(<, Nat)
    BY DEF OpToRel
  <2> QED BY <2>1, NatLessThanWellFounded
<1> SUFFICES ASSUME T # {} PROVE FALSE
  OBVIOUS
<1>2. T \subseteq Nat
  OBVIOUS
<1>3. PICK x \in T : \A y \in T : ~ (<<y, x>> \in R)
  BY <1>1, <1>2, WFMin
<1>4. x \in 1..N
  BY <1>3
<1>5. x - 1 \in 0..N /\ x - 1 < N /\ (x - 1) + 1 = x /\ x - 1 < x
  BY <1>4
<1>6. x - 1 \notin S
  BY <1>3, <1>5
<1>7. <<x - 1, x>> \in R /\ x - 1 \in T
  BY <1>2, <1>5, <1>6
<1> QED BY <1>3, <1>7

(* One step of the filter, and all of them.                                *)
Kept(s, ps, n, t) == IF s[n] \in ps THEN t ELSE Append(t, s[n])
Sieve(s, ps) ==
  LET kept[n \in 0..Len(s)] ==
          IF n = 0 THEN <<>> ELSE Kept(s, ps, n, kept[n - 1])
  IN  kept[Len(s)]

LEMMA WithoutIs == \A ps : Without(ps) = Sieve(queue, ps)
BY DEF Without, Sieve, Kept

(* The function that the filter is defined by exists.                      *)
LEMMA SieveSteps ==
  ASSUME NEW s, NEW ps, Len(s) \in Nat
  PROVE  \E f : /\ f[0] = <<>> /\ Sieve(s, ps) = f[Len(s)]
                /\ \A n \in 1..Len(s) : f[n] = Kept(s, ps, n, f[n - 1])
<1> DEFINE N == Len(s)
           Body(g, M) == [n \in 0..M |-> IF n = 0 THEN <<>> ELSE Kept(s, ps, n, g[n - 1])]
           S == {M \in 0..N : \E g : g = Body(g, M)}
<1>1. 0 \in S
  <2> DEFINE g == [n \in 0..0 |-> <<>>]
  <2>1. g = Body(g, 0)
    OBVIOUS
  <2>2. 0 \in 0..N
    OBVIOUS
  <2> HIDE DEF g, Body
  <2> QED BY <2>1, <2>2
<1>2. ASSUME NEW M \in 0..N, M \in S, M < N PROVE M + 1 \in S
  <2>1. PICK g : g = Body(g, M)
    BY <1>2
  <2> DEFINE h == [n \in 0..(M + 1) |-> IF n = M + 1 THEN Kept(s, ps, n, g[M]) ELSE g[n]]
  <2>2. \A n \in 0..M : g[n] = IF n = 0 THEN <<>> ELSE Kept(s, ps, n, g[n - 1])
    BY <2>1
  <2>3. ASSUME NEW n \in 0..(M + 1)
        PROVE  h[n] = IF n = 0 THEN <<>> ELSE Kept(s, ps, n, h[n - 1])
    <3>1. CASE n = 0
      <4>1. 0 \in 0..M /\ 0 # M + 1
        OBVIOUS
      <4> QED BY <2>2, <3>1, <4>1
    <3>2. CASE n \in 1..M
      <4>1. n \in 0..M /\ n # M + 1 /\ n # 0 /\ n - 1 \in 0..(M + 1) /\ n - 1 # M + 1
        BY <3>2
      <4> QED BY <2>2, <4>1
    <3>3. CASE n = M + 1
      <4>1. n - 1 = M /\ M \in 0..(M + 1) /\ M # M + 1 /\ n # 0
        BY <3>3
      <4> QED BY <3>3, <4>1
    <3> QED BY <3>1, <3>2, <3>3
  <2>4. h = Body(h, M + 1)
    BY <2>3
  <2>5. M + 1 \in 0..N
    BY <1>2
  <2> HIDE DEF h, Body
  <2> QED BY <2>4, <2>5
<1> HIDE DEF S
<1>3. N \in S
  <2>1. \A M \in 0..N : M \in S /\ M < N => M + 1 \in S
    BY <1>2
  <2>2. N \in Nat /\ N \in 0..N
    OBVIOUS
  <2> HIDE DEF N
  <2>3. \A M \in 0..N : M \in S
    BY <1>1, <2>1, <2>2, UpTo
  <2> QED BY <2>2, <2>3
<1> DEFINE f == CHOOSE g : g = Body(g, N)
<1>4. f = Body(f, N)
  <2>1. \E g : g = Body(g, N)
    BY <1>3 DEF S
  <2> QED BY <2>1
<1>5. Sieve(s, ps) = f[N]
  BY DEF Sieve
<1> HIDE DEF f
<1>6. \A n \in 0..N : f[n] = IF n = 0 THEN <<>> ELSE Kept(s, ps, n, f[n - 1])
  BY <1>4
<1> QED BY <1>5, <1>6

(* Appending.                                                              *)
LEMMA Joined ==
  ASSUME NEW q \in Seq(Panes), NEW t \in Seq(Panes)
  PROVE  /\ q \o t \in Seq(Panes)
         /\ \A p : In(q \o t, p) <=> In(q, p) \/ In(t, p)
         /\ \A p, r : Before(q \o t, p, r) =>
                Before(q, p, r) \/ Before(t, p, r) \/ (In(q, p) /\ In(t, r))
<1> DEFINE u == q \o t
           m == Len(q)
           k == Len(t)
<1>1. /\ m \in Nat /\ k \in Nat /\ u \in Seq(Panes)
      /\ DOMAIN q = 1..m /\ DOMAIN t = 1..k /\ DOMAIN u = 1..(m + k)
  BY LenProperties, ConcatProperties
<1>2. \A i \in 1..m : u[i] = q[i] /\ i \in 1..(m + k)
  BY <1>1, ConcatProperties
<1>3. \A i \in 1..k : u[m + i] = t[i] /\ m + i \in 1..(m + k)
  <2> SUFFICES ASSUME NEW i \in 1..k PROVE u[m + i] = t[i] /\ m + i \in 1..(m + k)
    OBVIOUS
  <2>1. m + i \in 1..(m + k) /\ ~(m + i <= m) /\ (m + i) - m = i
    BY <1>1
  <2> QED BY <2>1, ConcatProperties
<1>4. \A i \in 1..(m + k) : i \in 1..m \/ (i - m \in 1..k /\ i = m + (i - m))
  BY <1>1
<1> HIDE DEF u, m, k
<1>5. \A i \in 1..(m + k) : (i \in 1..m /\ u[i] = q[i]) \/ (i - m \in 1..k /\ u[i] = t[i - m])
  BY <1>2, <1>3, <1>4
<1>6. ASSUME NEW p PROVE In(u, p) <=> In(q, p) \/ In(t, p)
  <2>1. In(u, p) => In(q, p) \/ In(t, p)
    BY <1>1, <1>5 DEF In
  <2>2. In(q, p) => In(u, p)
    BY <1>1, <1>2 DEF In
  <2>3. In(t, p) => In(u, p)
    BY <1>1, <1>3 DEF In
  <2> QED BY <2>1, <2>2, <2>3
<1>7. ASSUME NEW p, NEW r, Before(u, p, r)
      PROVE  Before(q, p, r) \/ Before(t, p, r) \/ (In(q, p) /\ In(t, r))
  <2>1. PICK i, j \in 1..(m + k) : i < j /\ u[i] = p /\ u[j] = r
    BY <1>1, <1>7 DEF Before
  <2>2. CASE j \in 1..m
    <3>1. i \in 1..m
      BY <1>1, <2>1, <2>2
    <3> QED BY <1>1, <1>2, <2>1, <2>2, <3>1 DEF Before
  <2>3. CASE j - m \in 1..k /\ u[j] = t[j - m]
    <3>1. CASE i \in 1..m /\ u[i] = q[i]
      BY <1>1, <2>1, <2>3, <3>1 DEF In
    <3>2. CASE i - m \in 1..k /\ u[i] = t[i - m]
      <4>1. i - m < j - m
        BY <1>1, <2>1
      <4> QED BY <1>1, <2>1, <2>3, <3>2, <4>1 DEF Before
    <3> QED BY <1>5, <2>1, <3>1, <3>2
  <2> QED BY <1>5, <2>1, <2>2, <2>3
<1> QED BY <1>1, <1>6, <1>7 DEF u

LEMMA Single ==
  ASSUME NEW x \in Panes
  PROVE  /\ <<x>> \in Seq(Panes)
         /\ \A p : In(<<x>>, p) <=> p = x
         /\ \A p, r : ~Before(<<x>>, p, r)
<1> DEFINE s == <<x>>
<1>1. DOMAIN s = 1..1 /\ s[1] = x /\ s \in Seq(Panes)
  OBVIOUS
<1>2. 1..1 = {1}
  OBVIOUS
<1> HIDE DEF s
<1>3. (\A p : In(s, p) <=> p = x) /\ \A p, r : ~Before(s, p, r)
  BY <1>1, <1>2 DEF In, Before
<1> QED BY <1>1, <1>3 DEF s

LEMMA Appended ==
  ASSUME NEW q \in Seq(Panes), NEW x \in Panes
  PROVE  /\ Append(q, x) \in Seq(Panes)
         /\ \A p : In(Append(q, x), p) <=> In(q, p) \/ p = x
         /\ \A p, r : Before(Append(q, x), p, r) => Before(q, p, r) \/ (In(q, p) /\ r = x)
<1> DEFINE t == <<x>>
           u == Append(q, x)
<1>1. u = q \o t
  BY AppendIsConcat
<1>2. t \in Seq(Panes) /\ (\A p : In(t, p) <=> p = x) /\ \A p, r : ~Before(t, p, r)
  BY Single
<1> HIDE DEF t, u
<1>3. /\ u \in Seq(Panes)
      /\ \A p : In(u, p) <=> In(q, p) \/ In(t, p)
      /\ \A p, r : Before(u, p, r) =>
             Before(q, p, r) \/ Before(t, p, r) \/ (In(q, p) /\ In(t, r))
  BY <1>1, <1>2, Joined
<1> QED BY <1>2, <1>3 DEF u

(* The filter keeps what is not in ps, in its order.                       *)
LEMMA SieveIs ==
  ASSUME NEW s \in Seq(Panes), NEW ps
  PROVE  /\ Sieve(s, ps) \in Seq(Panes)
         /\ \A p : In(Sieve(s, ps), p) => In(s, p) /\ p \notin ps
         /\ \A p, r : Before(Sieve(s, ps), p, r) => Before(s, p, r)
<1> DEFINE N == Len(s)
           \* Of the first n elements.
           Good(q, n) ==
             /\ q \in Seq(Panes)
             /\ \A p : In(q, p) => p \notin ps /\ \E i \in 1..n : s[i] = p
             /\ \A p, r : Before(q, p, r) => \E i, j \in 1..n : i < j /\ s[i] = p /\ s[j] = r
<1>1. N \in Nat /\ DOMAIN s = 1..N /\ \A n \in 1..N : s[n] \in Panes
  BY LenProperties, ElementOfSeq
<1>2. PICK f : /\ f[0] = <<>> /\ Sieve(s, ps) = f[N]
               /\ \A n \in 1..N : f[n] = Kept(s, ps, n, f[n - 1])
  BY <1>1, SieveSteps
<1> HIDE DEF N
<1> DEFINE S == {n \in 0..N : Good(f[n], n)}
<1>m. \A n \in 0..N : n \in S <=> Good(f[n], n)
  <2> HIDE DEF Good
  <2> QED OBVIOUS
<1> HIDE DEF S
<1>3. 0 \in S
  <2>1. <<>> \in Seq(Panes) /\ DOMAIN <<>> = {}
    BY EmptySeq
  <2> DEFINE none == <<>>
  <2>2. none \in Seq(Panes) /\ \A p : ~In(none, p) /\ \A r : ~Before(none, p, r)
    BY <2>1 DEF In, Before
  <2> HIDE DEF none
  <2>3. Good(none, 0)
    BY <2>2
  <2>4. 0 \in 0..N
    BY <1>1
  <2>5. f[0] = none
    BY <1>2 DEF none
  <2> HIDE DEF Good
  <2> QED BY <1>m, <2>3, <2>4, <2>5
<1>4. ASSUME NEW n \in 0..N, n \in S, n < N PROVE n + 1 \in S
  <2>1. /\ n + 1 \in 0..N /\ n + 1 \in 1..N /\ (n + 1) - 1 = n
        /\ \A i \in 1..n : i \in 1..(n + 1) /\ i < n + 1
    BY <1>1, <1>4
  <2> DEFINE q == f[n]
             x == s[n + 1]
  <2>2. Good(q, n)
    <3> HIDE DEF Good
    <3> QED BY <1>m, <1>4
  <2>3. f[n + 1] = IF x \in ps THEN q ELSE Append(q, x)
    BY <1>2, <2>1 DEF Kept
  <2> HIDE DEF q
  <2>4. CASE x \in ps
    <3>1. Good(q, n + 1)
      BY <2>1, <2>2
    <3> HIDE DEF Good
    <3> QED BY <1>m, <2>1, <2>3, <2>4, <3>1
  <2>5. CASE x \notin ps
    <3> DEFINE u == Append(q, x)
    <3>1. q \in Seq(Panes) /\ x \in Panes
      BY <1>1, <2>1, <2>2
    <3>2. /\ u \in Seq(Panes) /\ \A p : In(u, p) <=> In(q, p) \/ p = x
          /\ \A p, r : Before(u, p, r) => Before(q, p, r) \/ (In(q, p) /\ r = x)
      BY <3>1, Appended
    <3> HIDE DEF u
    <3>3. ASSUME NEW p, In(u, p) PROVE p \notin ps /\ \E i \in 1..(n + 1) : s[i] = p
      BY <2>1, <2>2, <2>5, <3>2, <3>3
    <3>4. ASSUME NEW p, NEW r, Before(u, p, r)
          PROVE  \E i, j \in 1..(n + 1) : i < j /\ s[i] = p /\ s[j] = r
      <4>1. CASE Before(q, p, r)
        BY <2>1, <2>2, <4>1
      <4>2. CASE In(q, p) /\ r = x
        <5>1. PICK i \in 1..n : s[i] = p
          BY <2>2, <4>2
        <5>2. n + 1 \in 1..(n + 1)
          OBVIOUS
        <5> QED BY <2>1, <4>2, <5>1, <5>2
      <4> QED BY <3>2, <3>4, <4>1, <4>2
    <3>5. Good(u, n + 1)
      BY <3>2, <3>3, <3>4
    <3>6. f[n + 1] = u
      BY <2>3, <2>5 DEF u
    <3> HIDE DEF Good
    <3> QED BY <1>m, <2>1, <3>5, <3>6
  <2> QED BY <2>4, <2>5
<1>5. Good(f[N], N)
  <2>1. \A n \in 0..N : n \in S /\ n < N => n + 1 \in S
    BY <1>4
  <2>2. \A n \in 0..N : n \in S
    BY <1>1, <1>3, <2>1, UpTo
  <2>3. N \in 0..N
    BY <1>1
  <2> HIDE DEF Good
  <2> QED BY <1>m, <2>2, <2>3
<1> DEFINE t == f[N]
<1>6. Sieve(s, ps) = t /\ Good(t, N)
  <2> HIDE DEF Good
  <2> QED BY <1>2, <1>5
<1> HIDE DEF t
<1>7. ASSUME NEW p, In(t, p) PROVE In(s, p) /\ p \notin ps
  BY <1>1, <1>6, <1>7 DEF In
<1>8. ASSUME NEW p, NEW r, Before(t, p, r) PROVE Before(s, p, r)
  <2>1. \E i, j \in 1..N : i < j /\ s[i] = p /\ s[j] = r
    BY <1>6, <1>8
  <2> QED BY <1>1, <2>1 DEF Before
<1> QED BY <1>6, <1>7, <1>8

(* The invariant of the queue, and what a step may do to it: put nothing   *)
(* before anything that was there already.                                 *)
QueueInv == queue \in Seq(Panes) /\ Unique(queue)
Follows(q, u) ==
  /\ u \in Seq(Panes) /\ Unique(u)
  /\ \A p, r : Before(u, r, p) => Before(q, r, p) \/ ~In(q, p)

LEMMA FollowsKeepsPlace ==
  ASSUME QueueInv, NEW u, Follows(queue, u), NEW p, NEW r, Before(queue, p, r)
  PROVE  ~Before(u, r, p)
<1> SUFFICES ASSUME Before(u, r, p) PROVE FALSE
  OBVIOUS
<1>1. In(queue, p)
  BY DEF Before, In
<1>2. Before(queue, r, p)
  BY <1>1 DEF Follows
<1>3. DOMAIN queue = 1..Len(queue) /\ Len(queue) \in Nat
  BY LenProperties DEF QueueInv
<1>4. PICK i, j \in DOMAIN queue : i < j /\ queue[i] = p /\ queue[j] = r
  BY DEF Before
<1>5. PICK k, l \in DOMAIN queue : k < l /\ queue[k] = r /\ queue[l] = p
  BY <1>2 DEF Before
<1>6. i < l \/ k < j
  BY <1>3, <1>4, <1>5
<1>7. CASE i < l
  <2>1. Before(queue, p, p)
    BY <1>4, <1>5, <1>7 DEF Before
  <2> QED BY <2>1 DEF QueueInv, Unique
<1>8. CASE k < j
  <2>1. Before(queue, r, r)
    BY <1>4, <1>5, <1>8 DEF Before
  <2> QED BY <2>1 DEF QueueInv, Unique
<1> QED BY <1>6, <1>7, <1>8

LEMMA WithoutFollows ==
  ASSUME QueueInv, NEW ps
  PROVE  /\ Follows(queue, Without(ps))
         /\ \A p : In(Without(ps), p) => In(queue, p) /\ p \notin ps
<1>1. /\ Without(ps) \in Seq(Panes)
      /\ \A p : In(Without(ps), p) => In(queue, p) /\ p \notin ps
      /\ \A p, r : Before(Without(ps), p, r) => Before(queue, p, r)
  BY WithoutIs, SieveIs DEF QueueInv
<1> QED BY <1>1 DEF QueueInv, Unique, Follows

LEMMA AppendFollows ==
  ASSUME QueueInv, NEW p \in Panes, ~In(queue, p)
  PROVE  Follows(queue, Append(queue, p))
<1>1. /\ Append(queue, p) \in Seq(Panes)
      /\ \A x, r : Before(Append(queue, p), x, r) => Before(queue, x, r) \/ (In(queue, x) /\ r = p)
  BY Appended DEF QueueInv
<1> QED BY <1>1 DEF QueueInv, Unique, Follows

LEMMA StampFollows ==
  ASSUME QueueInv, NEW p \in Panes, NEW s, Stamp(p, s)
  PROVE  Follows(queue, queue')
<1>1. CASE queue' = Without({p})
  BY <1>1, WithoutFollows
<1>2. CASE queue' = queue
  BY <1>2 DEF QueueInv, Follows
<1>3. CASE ~Queued(p) /\ queue' = Append(queue, p)
  BY <1>3, AppendFollows DEF Queued, In
<1> QED BY <1>1, <1>2, <1>3 DEF Stamp

(* The panes that a sweep adds come after all others.                      *)
LEMMA SweepFollows ==
  ASSUME QueueInv, SweepDecides
  PROVE  Follows(queue, queue')
<1> DEFINE needy == {p \in Swept : Desired(p) \in Needy}
           ps == Swept \ needy
           S == {p \in needy : ~Queued(p)}
           q == Without(ps)
<1>1. PICK news \in SetToSeqs(S) : queue' = q \o news
  BY DEF SweepDecides
<1>2. S \subseteq Panes /\ \A p \in S : ~In(queue, p)
  BY DEF Swept, Queued, In
<1> HIDE DEF S
<1>3. Cardinality(S) \in Nat
  <2>1. IsFiniteSet(S)
    BY <1>2, AgentsAssumption, FS_Subset
  <2> QED BY <2>1, FS_CardinalityType
<1>4. /\ news \in [1..Cardinality(S) -> S]
      /\ \A i, j \in 1..Cardinality(S) : i # j => news[i] # news[j]
  BY <1>1 DEF SetToSeqs
<1>5. /\ news \in Seq(Panes) /\ \A p : In(news, p) => ~In(queue, p)
      /\ \A p : ~Before(news, p, p)
  <2>1. news \in Seq(Panes)
    BY <1>2, <1>3, <1>4
  <2>2. DOMAIN news = 1..Cardinality(S)
    BY <1>4
  <2>3. \A p : In(news, p) => ~In(queue, p)
    BY <1>2, <1>4, <2>2 DEF In
  <2>4. \A i, j \in DOMAIN news : i < j => i # j
    BY <1>3, <2>2
  <2>5. \A p : ~Before(news, p, p)
    BY <1>4, <2>2, <2>4 DEF Before
  <2> QED BY <2>1, <2>3, <2>5
<1>6. /\ q \in Seq(Panes) /\ \A p : In(q, p) => In(queue, p)
      /\ \A p, r : Before(q, p, r) => Before(queue, p, r)
  BY WithoutIs, SieveIs DEF QueueInv
<1> HIDE DEF q
<1>7. /\ queue' \in Seq(Panes)
      /\ \A p, r : Before(queue', p, r) =>
             Before(q, p, r) \/ Before(news, p, r) \/ (In(q, p) /\ In(news, r))
  BY <1>1, <1>5, <1>6, Joined
<1>8. \A p, r : Before(news, p, r) => In(news, r)
  BY DEF Before, In
<1>9. Unique(queue')
  BY <1>5, <1>6, <1>7 DEF QueueInv, Unique
<1> QED BY <1>5, <1>6, <1>7, <1>8, <1>9 DEF Follows

(* A defer alone moves a pane that is in the queue, behind the others.     *)
LEMMA DeferKeeps ==
  ASSUME QueueInv, NEW p \in Panes, Defer(p)
  PROVE  QueueInv' /\ badge' = badge
<1> DEFINE q == Without({p})
<1>1. queue' = Append(q, p) /\ badge' = badge
  BY DEF Defer
<1>2. q \in Seq(Panes) /\ Unique(q) /\ ~In(q, p)
  BY WithoutFollows DEF Follows
<1> HIDE DEF q
<1>3. /\ queue' \in Seq(Panes)
      /\ \A x, r : Before(queue', x, r) => Before(q, x, r) \/ (In(q, x) /\ r = p)
  BY <1>1, <1>2, Appended
<1> QED BY <1>1, <1>2, <1>3 DEF QueueInv, Unique

LEMMA QueueStep ==
  ASSUME QueueInv, [AgentsNext]_agentsVars
  PROVE  Follows(queue, queue') \/ (QueueInv' /\ badge' = badge)
<1>1. ASSUME queue' = queue PROVE Follows(queue, queue')
  BY <1>1 DEF QueueInv, Follows
<1>2. ASSUME NEW ps, Unbadge(ps) PROVE Follows(queue, queue')
  BY <1>2, WithoutFollows DEF Unbadge
<1>3. ASSUME NEW p \in Panes, NEW s \in States, Report(p, s) PROVE Follows(queue, queue')
  BY <1>3, StampFollows DEF Report
<1>4. ASSUME NEW p \in Panes, ReportIdle(p) \/ Consume(p) \/ Removed(p) PROVE Follows(queue, queue')
  <2>1. Unbadge({p})
    BY <1>4 DEF ReportIdle, Consume, Removed
  <2> QED BY <1>2, <2>1
<1>5. ASSUME NEW p \in Panes, GraceEnds(p) \/ FallsQuiet(p) \/ BellFades(p) \/ Lost(p)
      PROVE  Follows(queue, queue')
  BY <1>1, <1>5 DEF GraceEnds, FallsQuiet, BellFades, Lost
<1>6. ASSUME NEW p \in Talking, Output(p) PROVE Follows(queue, queue')
  <2>1. PICK ps : Unbadge(ps)
    BY <1>6 DEF Output
  <2> QED BY <1>2, <2>1
<1>7. ASSUME NEW p \in Talking, NEW on \in BOOLEAN, NoteAlt(p, on) PROVE Follows(queue, queue')
  BY <1>1, <1>7 DEF NoteAlt
<1>8. ASSUME NEW ps \in SUBSET live, Look(ps) PROVE Follows(queue, queue')
  <2>1. PICK qs : Unbadge(qs)
    BY <1>8 DEF Look
  <2> QED BY <1>2, <2>1
<1>9. ASSUME SweepLooks \/ UNCHANGED agentsVars PROVE Follows(queue, queue')
  BY <1>1, <1>9 DEF SweepLooks
<1> QED BY <1>3, <1>4, <1>5, <1>6, <1>7, <1>8, <1>9, SweepFollows, DeferKeeps DEF AgentsNext

(* The queue of asks is in the order in which they came, whatever hooks,   *)
(* sweeps and looks meet: only a defer puts one behind another.            *)
THEOREM AsksKeepTheirPlace == AgentsSpec => KeepsPlace
<1>1. AgentsInit => QueueInv
  <2> SUFFICES ASSUME queue = <<>> PROVE QueueInv
    BY DEF AgentsInit
  <2>1. queue \in Seq(Panes) /\ DOMAIN queue = {}
    BY EmptySeq
  <2> QED BY <2>1 DEF QueueInv, Unique, Before
<1>2. QueueInv /\ [AgentsNext]_agentsVars => QueueInv'
  BY QueueStep DEF Follows, QueueInv
<1>3. QueueInv /\ [AgentsNext]_agentsVars =>
        [\A p, r \in Panes : Before(queue, p, r) /\ Before(queue', r, p) => badge' = badge]_agentsVars
  BY QueueStep, FollowsKeepsPlace
<1> QED BY <1>1, <1>2, <1>3, PTL DEF AgentsSpec, KeepsPlace

-----------------------------------------------------------------------------
(* The handlers that write to the user's directories. *)

USE RepoAssumption DEF vars, tree

(* What a steady request for continue or abort knows. *)
ProbeInv ==
  \A t \in steady : task[t].verb = "op" =>
     /\ task[t].pc = "heads" => op[task[t].root] # "rebase"
     /\ task[t].pc = "ready" => task[t].saw = op[task[t].root]

(* A request under way has a directory. *)
RootInv == \A t \in Tasks : task[t].pc # "idle" => task[t].root \in Roots

(* The inductive invariant. *)
RepoInv == TypeOK /\ RootInv /\ SavesStayInside /\ StopsAtReply /\ ProbeInv

(* The initial states satisfy it. *)
LEMMA InitRepoInv == Init => RepoInv
  BY DEF Init, RepoInv, TypeOK, RootInv, SavesStayInside, StopsAtReply, ProbeInv, Idle, Steps, Verbs

(* A request that has just come. *)
LEMMA NewRequest ==
  ASSUME NEW t \in Tasks, NEW verb, NEW pc, Requested(t, verb, pc)
  PROVE  /\ task' = [task EXCEPT ![t] = [pc |-> pc, verb |-> verb, root |-> cwd, saw |-> None]]
         /\ task[t].pc = "idle"
  BY DEF Requested, Busy

(* What ProbeHeads finds. *)
LEMMA HeadFound ==
  ASSUME RepoInv, NEW t \in Tasks, ProbeHeads(t)
  PROVE  \/ Reply(t)
         \/ \E s \in Heads(Root(t)) : s \in Sequencers /\ Saw(t, s, "ready")
<1>1. CASE Heads(Root(t)) # {}
  <2>1. PICK s \in Heads(Root(t)) : Saw(t, s, "ready")
    BY <1>1 DEF ProbeHeads
  <2>2. op[Root(t)] \in Sequencers \cup {None}
    BY DEF ProbeHeads, At, Root, RepoInv, TypeOK, RootInv
  <2>3. s \in Sequencers
    BY <2>1, <2>2 DEF Heads
  <2> QED BY <2>1, <2>3
<1>2. CASE Heads(Root(t)) = {}
  BY <1>2 DEF ProbeHeads
<1> QED BY <1>1, <1>2

(* Every action keeps the types: a task that holds index.lock runs git there. *)
LEMMA TypeStep ==
  ASSUME RepoInv, Acts, Remembers
  PROVE  TypeOK'
<1>1. ASSUME NEW t \in Tasks, Save(t) PROVE TypeOK'
  <2>1. Requested(t, "save", "temp")
    BY <1>1 DEF Save
  <2>0. "save" \in Verbs /\ "temp" \in Steps
    BY DEF Verbs, Steps
  <2>2. UNCHANGED <<cwd, tree, lock, op, helpers>> /\ temps' = temps \cup {t} /\ steady' \subseteq Tasks
    BY <1>1 DEF Save, Remembers
  <2> QED BY <2>0, <2>1, <2>2, NewRequest DEF RepoInv, TypeOK, Steps, Verbs
<1>2. ASSUME NEW t \in Tasks, SaveFails(t) PROVE TypeOK'
  BY <1>2 DEF SaveFails, At, Reply, Idle, RepoInv, TypeOK, RootInv, Steps, Verbs, Remembers
<1>3. ASSUME NEW t \in Tasks, Written(t) PROVE TypeOK'
  BY <1>3 DEF Written, At, Goto, RepoInv, TypeOK, RootInv, Steps, Verbs, Remembers
<1>4. ASSUME NEW t \in Tasks, Renamed(t) PROVE TypeOK'
  BY <1>4 DEF Renamed, At, Reply, Idle, Root, RepoInv, TypeOK, RootInv, Steps, Verbs, Remembers
<1>5. ASSUME NEW t \in Tasks, Request(t) PROVE TypeOK'
  BY <1>5 DEF Request, Starts, Spawned, Refused, Reply, Idle, Busy, Staging, Moving, Refs, Indexed, RepoInv, TypeOK, RootInv, Steps, Verbs, Remembers
<1>6. ASSUME NEW t \in Tasks, Ask(t) PROVE TypeOK'
  <2>1. PICK verb \in {"discard", "op"} : Requested(t, verb, "probe")
    BY <1>6 DEF Ask
  <2>2. verb \in Verbs /\ "probe" \in Steps
    BY DEF Verbs, Steps
  <2> QED BY <1>6, <2>1, <2>2, NewRequest DEF Ask, RepoInv, TypeOK, Steps, Verbs, Remembers
<1>7. ASSUME NEW t \in Tasks, ProbeFile(t) PROVE TypeOK'
  <2>1. /\ task[t].pc = "probe" /\ UNCHANGED <<cwd, file, outside, tracked, lock, op, temps, helpers>>
        /\ \E saw \in {"tracked", "untracked"} : Saw(t, saw, "ready")
    BY <1>7 DEF ProbeFile, At
  <2> QED BY <2>1 DEF Saw, RepoInv, TypeOK, Steps, Remembers
<1>8. ASSUME NEW t \in Tasks, Discard(t) PROVE TypeOK'
  <2>1. PICK verb \in {"clean", "restore"} : Starts(t, verb, cwd)
    BY <1>8 DEF Discard
  <2>2. CASE ~Refused(verb, cwd) /\ Spawned(t, verb, cwd, "run")
    BY <1>8, <2>2 DEF Discard, At, Spawned, Refused, RepoInv, TypeOK, Steps, Verbs, Remembers
  <2>3. CASE Reply(t) /\ UNCHANGED lock
    BY <1>8, <2>3 DEF Discard, At, Reply, Idle, RepoInv, TypeOK, Steps, Remembers
  <2> QED BY <2>1, <2>2, <2>3 DEF Starts
<1>9. ASSUME NEW t \in Tasks, ProbeDirs(t) PROVE TypeOK'
  <2>1. /\ task[t].pc = "probe" /\ UNCHANGED <<cwd, file, outside, tracked, lock, op, temps, helpers>>
        /\ \/ "rebase" \in Sequencers /\ Saw(t, "rebase", "ready")
           \/ Goto(t, "heads")
    BY <1>9 DEF ProbeDirs, At, Root, RepoInv, TypeOK, RootInv
  <2>2. CASE "rebase" \in Sequencers /\ Saw(t, "rebase", "ready")
    BY <2>1, <2>2 DEF Saw, RepoInv, TypeOK, Steps, Remembers
  <2>3. CASE Goto(t, "heads")
    BY <2>1, <2>3 DEF Goto, RepoInv, TypeOK, Steps, Remembers
  <2> QED BY <2>1, <2>2, <2>3
<1>10. ASSUME NEW t \in Tasks, ProbeHeads(t) PROVE TypeOK'
  <2>1. CASE Reply(t)
    BY <1>10, <2>1 DEF ProbeHeads, At, Reply, Idle, RepoInv, TypeOK, Steps, Verbs, Remembers
  <2>2. CASE \E s \in Heads(Root(t)) : s \in Sequencers /\ Saw(t, s, "ready")
    <3>1. PICK s \in Heads(Root(t)) : s \in Sequencers /\ Saw(t, s, "ready")
      BY <2>2
    <3>2. task[t].pc = "heads" /\ UNCHANGED <<cwd, tree, lock, op, temps, helpers>>
      BY <1>10 DEF ProbeHeads, At
    <3> QED BY <3>1, <3>2 DEF Saw, RepoInv, TypeOK, Steps, Verbs, Remembers
  <2> QED BY <1>10, <2>1, <2>2, HeadFound
<1>11. ASSUME NEW t \in Tasks, Drive(t) PROVE TypeOK'
  <2>1. /\ task[t].pc = "ready" /\ Root(t) \in Roots /\ Starts(t, "op", Root(t))
        /\ UNCHANGED <<cwd, file, outside, tracked, op, temps, helpers>>
    BY <1>11 DEF Drive, At, Root, RepoInv, RootInv
  <2>2. CASE ~Refused("op", Root(t)) /\ Spawned(t, "op", Root(t), "run")
    BY <2>1, <2>2 DEF Spawned, Refused, RepoInv, TypeOK, Steps, Verbs, Remembers
  <2>3. CASE Reply(t) /\ UNCHANGED lock
    BY <2>1, <2>3 DEF Reply, Idle, RepoInv, TypeOK, Steps, Remembers
  <2> QED BY <2>1, <2>2, <2>3 DEF Starts
<1>12. ASSUME NEW t \in Tasks, Fed(t) PROVE TypeOK'
  BY <1>12 DEF Fed, At, Goto, RepoInv, TypeOK, RootInv, Steps, Verbs, Remembers
<1>13. ASSUME NEW t \in Tasks, HelperStarts(t) PROVE TypeOK'
  BY <1>13 DEF HelperStarts, At, RepoInv, TypeOK, RootInv, Steps, Verbs, Remembers
<1>14. ASSUME NEW t \in Tasks, LeaderEnds(t) PROVE TypeOK'
  <2>1. /\ task[t].pc = "run" /\ Root(t) \in Roots
        /\ Done(task[t].verb, Root(t)) \/ UNCHANGED <<file, tracked, op>>
        /\ lock' = [r \in Roots |-> IF lock[r] = t THEN None ELSE lock[r]]
        /\ Goto(t, "drain") \/ Reply(t)
        /\ UNCHANGED <<cwd, outside, temps, helpers>>
    BY <1>14 DEF LeaderEnds, At, Root, Freed, RepoInv, RootInv
  <2>2. /\ file' \in [Roots -> {"none", "file", "link", "torn"}] /\ tracked' \subseteq Roots
        /\ op' \in [Roots -> Sequencers \cup {None}]
    BY <2>1 DEF Done, RepoInv, TypeOK
  <2>3. /\ task' \in [Tasks -> [pc : Steps, verb : Verbs \cup {None}, root : Roots \cup {None},
                                saw : {None, "untracked", "tracked"} \cup Sequencers]]
        /\ \A q \in Tasks : q # t => task'[q] = task[q]
    BY <2>1 DEF Goto, Reply, Idle, RepoInv, TypeOK, Steps
  <2>4. /\ lock' \in [Roots -> Tasks \cup {None, "stale"}]
        /\ \A r \in Roots : lock'[r] \in Tasks => lock'[r] = lock[r] /\ lock[r] # t
    BY <2>1 DEF RepoInv, TypeOK
  <2> QED BY <2>1, <2>2, <2>3, <2>4 DEF RepoInv, TypeOK, Remembers
<1>15. ASSUME NEW t \in Tasks, Drained(t) PROVE TypeOK'
  BY <1>15 DEF Drained, At, Reply, Idle, RepoInv, TypeOK, RootInv, Steps, Verbs, Remembers
<1>16. ASSUME NEW t \in Tasks, Deadline(t) PROVE TypeOK'
  BY <1>16 DEF Deadline, Timed, Goto, Stale, RepoInv, TypeOK, RootInv, Steps, Verbs, Remembers
<1>17. ASSUME NEW t \in Tasks, GroupKilled(t) PROVE TypeOK'
  BY <1>17 DEF GroupKilled, At, Group, Reply, Idle, RepoInv, TypeOK, RootInv, Steps, Verbs, Remembers
<1>18. ASSUME NEW t \in Tasks, Abandoned(t) PROVE TypeOK'
  BY <1>18 DEF Abandoned, Busy, Reply, Idle, Stale, RepoInv, TypeOK, RootInv, Steps, Verbs, Remembers
<1>19. ASSUME HelperEnds PROVE TypeOK'
  BY <1>19 DEF HelperEnds, RepoInv, TypeOK, RootInv, Steps, Verbs, Remembers
<1>20. ASSUME Cd PROVE TypeOK'
  BY <1>20 DEF Cd, RepoInv, TypeOK, RootInv, Steps, Verbs, Remembers
<1>21. ASSUME NEW r \in Roots, Edit(r) PROVE TypeOK'
  BY <1>21 DEF Edit, RepoInv, TypeOK, RootInv, Steps, Verbs, Remembers
<1>22. ASSUME NEW r \in Roots, UserGit(r) PROVE TypeOK'
  BY <1>22 DEF UserGit, RepoInv, TypeOK, RootInv, Steps, Verbs, Remembers
<1>23. ASSUME NEW r \in Roots, UserUnlocks(r) PROVE TypeOK'
  BY <1>23 DEF UserUnlocks, RepoInv, TypeOK, RootInv, Steps, Verbs, Remembers
<1> QED BY <1>1, <1>2, <1>3, <1>4, <1>5, <1>6, <1>7, <1>8, <1>9, <1>10, <1>11, <1>12, <1>13, <1>14, <1>15, <1>16, <1>17, <1>18, <1>19, <1>20, <1>21, <1>22, <1>23 DEF Acts, Step

(* Every action keeps the directories. *)
LEMMA RootStep ==
  ASSUME RepoInv, Acts, Remembers
  PROVE  RootInv'
<1>1. ASSUME NEW t \in Tasks, Save(t) PROVE RootInv'
  BY <1>1 DEF Save, Requested, Idle, Busy, RepoInv, TypeOK, RootInv
<1>2. ASSUME NEW t \in Tasks, SaveFails(t) PROVE RootInv'
  BY <1>2 DEF SaveFails, At, Reply, Idle, RepoInv, TypeOK, RootInv
<1>3. ASSUME NEW t \in Tasks, Written(t) PROVE RootInv'
  BY <1>3 DEF Written, At, Goto, RepoInv, TypeOK, RootInv
<1>4. ASSUME NEW t \in Tasks, Renamed(t) PROVE RootInv'
  BY <1>4 DEF Renamed, At, Reply, Idle, Root, RepoInv, TypeOK, RootInv
<1>5. ASSUME NEW t \in Tasks, Request(t) PROVE RootInv'
  BY <1>5 DEF Request, Starts, Spawned, Refused, Reply, Idle, Busy, Staging, Moving, Refs, Indexed, RepoInv, TypeOK, RootInv
<1>6. ASSUME NEW t \in Tasks, Ask(t) PROVE RootInv'
  BY <1>6 DEF Ask, Requested, Idle, Busy, RepoInv, TypeOK, RootInv
<1>7. ASSUME NEW t \in Tasks, ProbeFile(t) PROVE RootInv'
  BY <1>7 DEF ProbeFile, At, Root, Saw, RepoInv, TypeOK, RootInv
<1>8. ASSUME NEW t \in Tasks, Discard(t) PROVE RootInv'
  BY <1>8 DEF Discard, At, Starts, Spawned, Refused, Reply, Idle, Indexed, Staging, Moving, RepoInv, TypeOK, RootInv
<1>9. ASSUME NEW t \in Tasks, ProbeDirs(t) PROVE RootInv'
  BY <1>9 DEF ProbeDirs, At, Root, Saw, Goto, RepoInv, TypeOK, RootInv
<1>10. ASSUME NEW t \in Tasks, ProbeHeads(t) PROVE RootInv'
  <2>1. CASE Reply(t)
    BY <1>10, <2>1 DEF ProbeHeads, At, Reply, Idle, RepoInv, TypeOK, RootInv
  <2>2. CASE \E s \in Heads(Root(t)) : s \in Sequencers /\ Saw(t, s, "ready")
    <3>1. PICK s \in Heads(Root(t)) : s \in Sequencers /\ Saw(t, s, "ready")
      BY <2>2
    <3>2. task[t].pc = "heads" /\ UNCHANGED <<cwd, tree, lock, op, temps, helpers>>
      BY <1>10 DEF ProbeHeads, At
    <3> QED BY <3>1, <3>2 DEF Saw, RepoInv, TypeOK, RootInv
  <2> QED BY <1>10, <2>1, <2>2, HeadFound
<1>11. ASSUME NEW t \in Tasks, Drive(t) PROVE RootInv'
  BY <1>11 DEF Drive, At, Root, Starts, Spawned, Refused, Reply, Idle, Indexed, Staging, Moving, RepoInv, TypeOK, RootInv
<1>12. ASSUME NEW t \in Tasks, Fed(t) PROVE RootInv'
  BY <1>12 DEF Fed, At, Goto, RepoInv, TypeOK, RootInv
<1>13. ASSUME NEW t \in Tasks, HelperStarts(t) PROVE RootInv'
  BY <1>13 DEF HelperStarts, At, RepoInv, TypeOK, RootInv
<1>14. ASSUME NEW t \in Tasks, LeaderEnds(t) PROVE RootInv'
  BY <1>14 DEF LeaderEnds, At, Root, Done, Freed, Goto, Reply, Idle, RepoInv, TypeOK, RootInv
<1>15. ASSUME NEW t \in Tasks, Drained(t) PROVE RootInv'
  BY <1>15 DEF Drained, At, Reply, Idle, RepoInv, TypeOK, RootInv
<1>16. ASSUME NEW t \in Tasks, Deadline(t) PROVE RootInv'
  BY <1>16 DEF Deadline, Timed, Goto, Stale, RepoInv, TypeOK, RootInv
<1>17. ASSUME NEW t \in Tasks, GroupKilled(t) PROVE RootInv'
  BY <1>17 DEF GroupKilled, At, Group, Reply, Idle, RepoInv, TypeOK, RootInv
<1>18. ASSUME NEW t \in Tasks, Abandoned(t) PROVE RootInv'
  BY <1>18 DEF Abandoned, Busy, Reply, Idle, Stale, RepoInv, TypeOK, RootInv
<1>19. ASSUME HelperEnds PROVE RootInv'
  BY <1>19 DEF HelperEnds, RepoInv, TypeOK, RootInv
<1>20. ASSUME Cd PROVE RootInv'
  BY <1>20 DEF Cd, RepoInv, TypeOK, RootInv
<1>21. ASSUME NEW r \in Roots, Edit(r) PROVE RootInv'
  BY <1>21 DEF Edit, RepoInv, TypeOK, RootInv
<1>22. ASSUME NEW r \in Roots, UserGit(r) PROVE RootInv'
  BY <1>22 DEF UserGit, RepoInv, TypeOK, RootInv
<1>23. ASSUME NEW r \in Roots, UserUnlocks(r) PROVE RootInv'
  BY <1>23 DEF UserUnlocks, RepoInv, TypeOK, RootInv
<1> QED BY <1>1, <1>2, <1>3, <1>4, <1>5, <1>6, <1>7, <1>8, <1>9, <1>10, <1>11, <1>12, <1>13, <1>14, <1>15, <1>16, <1>17, <1>18, <1>19, <1>20, <1>21, <1>22, <1>23 DEF Acts, Step

(* No action tears a file. *)
LEMMA SavesStep ==
  ASSUME RepoInv, Acts, Remembers
  PROVE  SavesStayInside'
<1>1. ASSUME NEW t \in Tasks, Save(t) PROVE SavesStayInside'
  BY <1>1 DEF Save, Requested, Idle, Busy, RepoInv, TypeOK, SavesStayInside
<1>2. ASSUME NEW t \in Tasks, SaveFails(t) PROVE SavesStayInside'
  BY <1>2 DEF SaveFails, At, Reply, Idle, RepoInv, TypeOK, SavesStayInside
<1>3. ASSUME NEW t \in Tasks, Written(t) PROVE SavesStayInside'
  BY <1>3 DEF Written, At, Goto, RepoInv, TypeOK, SavesStayInside
<1>4. ASSUME NEW t \in Tasks, Renamed(t) PROVE SavesStayInside'
  BY <1>4 DEF Renamed, At, Reply, Idle, Root, RepoInv, TypeOK, SavesStayInside
<1>5. ASSUME NEW t \in Tasks, Request(t) PROVE SavesStayInside'
  BY <1>5 DEF Request, Starts, Spawned, Refused, Reply, Idle, Busy, Staging, Moving, Refs, Indexed, RepoInv, TypeOK, SavesStayInside
<1>6. ASSUME NEW t \in Tasks, Ask(t) PROVE SavesStayInside'
  BY <1>6 DEF Ask, Requested, Idle, Busy, RepoInv, TypeOK, SavesStayInside
<1>7. ASSUME NEW t \in Tasks, ProbeFile(t) PROVE SavesStayInside'
  <2>1. t \notin temps /\ UNCHANGED <<temps, file, outside>>
    BY <1>7 DEF ProbeFile, At, RepoInv, SavesStayInside
  <2>2. \A u \in Tasks \ {t} : task'[u] = task[u]
    BY <1>7 DEF ProbeFile, Saw, RepoInv, TypeOK
  <2> QED BY <2>1, <2>2 DEF RepoInv, TypeOK, SavesStayInside
<1>8. ASSUME NEW t \in Tasks, Discard(t) PROVE SavesStayInside'
  BY <1>8 DEF Discard, At, Starts, Spawned, Refused, Reply, Idle, Indexed, Staging, Moving, RepoInv, TypeOK, SavesStayInside
<1>9. ASSUME NEW t \in Tasks, ProbeDirs(t) PROVE SavesStayInside'
  BY <1>9 DEF ProbeDirs, At, Root, Saw, Goto, RepoInv, TypeOK, SavesStayInside
<1>10. ASSUME NEW t \in Tasks, ProbeHeads(t) PROVE SavesStayInside'
  <2>1. CASE Reply(t)
    BY <1>10, <2>1 DEF ProbeHeads, At, Reply, Idle, RepoInv, TypeOK, SavesStayInside
  <2>2. CASE \E s \in Heads(Root(t)) : s \in Sequencers /\ Saw(t, s, "ready")
    <3>1. PICK s \in Heads(Root(t)) : s \in Sequencers /\ Saw(t, s, "ready")
      BY <2>2
    <3>2. task[t].pc = "heads" /\ UNCHANGED <<cwd, tree, lock, op, temps, helpers>>
      BY <1>10 DEF ProbeHeads, At
    <3> QED BY <3>1, <3>2 DEF Saw, RepoInv, TypeOK, SavesStayInside
  <2> QED BY <1>10, <2>1, <2>2, HeadFound
<1>11. ASSUME NEW t \in Tasks, Drive(t) PROVE SavesStayInside'
  BY <1>11 DEF Drive, At, Root, Starts, Spawned, Refused, Reply, Idle, Indexed, Staging, Moving, RepoInv, TypeOK, SavesStayInside
<1>12. ASSUME NEW t \in Tasks, Fed(t) PROVE SavesStayInside'
  BY <1>12 DEF Fed, At, Goto, RepoInv, TypeOK, SavesStayInside
<1>13. ASSUME NEW t \in Tasks, HelperStarts(t) PROVE SavesStayInside'
  BY <1>13 DEF HelperStarts, At, RepoInv, TypeOK, SavesStayInside
<1>14. ASSUME NEW t \in Tasks, LeaderEnds(t) PROVE SavesStayInside'
  BY <1>14 DEF LeaderEnds, At, Root, Done, Freed, Goto, Reply, Idle, RepoInv, TypeOK, SavesStayInside
<1>15. ASSUME NEW t \in Tasks, Drained(t) PROVE SavesStayInside'
  BY <1>15 DEF Drained, At, Reply, Idle, RepoInv, TypeOK, SavesStayInside
<1>16. ASSUME NEW t \in Tasks, Deadline(t) PROVE SavesStayInside'
  BY <1>16 DEF Deadline, Timed, Goto, Stale, RepoInv, TypeOK, SavesStayInside
<1>17. ASSUME NEW t \in Tasks, GroupKilled(t) PROVE SavesStayInside'
  BY <1>17 DEF GroupKilled, At, Group, Reply, Idle, RepoInv, TypeOK, SavesStayInside
<1>18. ASSUME NEW t \in Tasks, Abandoned(t) PROVE SavesStayInside'
  BY <1>18 DEF Abandoned, Busy, Reply, Idle, Stale, RepoInv, TypeOK, SavesStayInside
<1>19. ASSUME HelperEnds PROVE SavesStayInside'
  BY <1>19 DEF HelperEnds, RepoInv, TypeOK, SavesStayInside
<1>20. ASSUME Cd PROVE SavesStayInside'
  BY <1>20 DEF Cd, RepoInv, TypeOK, SavesStayInside
<1>21. ASSUME NEW r \in Roots, Edit(r) PROVE SavesStayInside'
  BY <1>21 DEF Edit, RepoInv, TypeOK, SavesStayInside
<1>22. ASSUME NEW r \in Roots, UserGit(r) PROVE SavesStayInside'
  BY <1>22 DEF UserGit, RepoInv, TypeOK, SavesStayInside
<1>23. ASSUME NEW r \in Roots, UserUnlocks(r) PROVE SavesStayInside'
  BY <1>23 DEF UserUnlocks, RepoInv, TypeOK, SavesStayInside
<1> QED BY <1>1, <1>2, <1>3, <1>4, <1>5, <1>6, <1>7, <1>8, <1>9, <1>10, <1>11, <1>12, <1>13, <1>14, <1>15, <1>16, <1>17, <1>18, <1>19, <1>20, <1>21, <1>22, <1>23 DEF Acts, Step

(* No action leaves a helper behind. *)
LEMMA ReplyStep ==
  ASSUME RepoInv, Acts, Remembers
  PROVE  StopsAtReply'
<1>1. ASSUME NEW t \in Tasks, Save(t) PROVE StopsAtReply'
  BY <1>1 DEF Save, Requested, Idle, Busy, RepoInv, TypeOK, StopsAtReply
<1>2. ASSUME NEW t \in Tasks, SaveFails(t) PROVE StopsAtReply'
  BY <1>2 DEF SaveFails, At, Reply, Idle, RepoInv, TypeOK, StopsAtReply
<1>3. ASSUME NEW t \in Tasks, Written(t) PROVE StopsAtReply'
  BY <1>3 DEF Written, At, Goto, RepoInv, TypeOK, StopsAtReply
<1>4. ASSUME NEW t \in Tasks, Renamed(t) PROVE StopsAtReply'
  BY <1>4 DEF Renamed, At, Reply, Idle, Root, RepoInv, TypeOK, StopsAtReply
<1>5. ASSUME NEW t \in Tasks, Request(t) PROVE StopsAtReply'
  BY <1>5 DEF Request, Starts, Spawned, Refused, Reply, Idle, Busy, Staging, Moving, Refs, Indexed, RepoInv, TypeOK, StopsAtReply
<1>6. ASSUME NEW t \in Tasks, Ask(t) PROVE StopsAtReply'
  BY <1>6 DEF Ask, Requested, Idle, Busy, RepoInv, TypeOK, StopsAtReply
<1>7. ASSUME NEW t \in Tasks, ProbeFile(t) PROVE StopsAtReply'
  BY <1>7 DEF ProbeFile, At, Root, Saw, RepoInv, TypeOK, StopsAtReply
<1>8. ASSUME NEW t \in Tasks, Discard(t) PROVE StopsAtReply'
  BY <1>8 DEF Discard, At, Starts, Spawned, Refused, Reply, Idle, Indexed, Staging, Moving, RepoInv, TypeOK, StopsAtReply
<1>9. ASSUME NEW t \in Tasks, ProbeDirs(t) PROVE StopsAtReply'
  BY <1>9 DEF ProbeDirs, At, Root, Saw, Goto, RepoInv, TypeOK, StopsAtReply
<1>10. ASSUME NEW t \in Tasks, ProbeHeads(t) PROVE StopsAtReply'
  <2>1. CASE Reply(t)
    BY <1>10, <2>1 DEF ProbeHeads, At, Reply, Idle, RepoInv, TypeOK, StopsAtReply
  <2>2. CASE \E s \in Heads(Root(t)) : s \in Sequencers /\ Saw(t, s, "ready")
    <3>1. PICK s \in Heads(Root(t)) : s \in Sequencers /\ Saw(t, s, "ready")
      BY <2>2
    <3>2. task[t].pc = "heads" /\ UNCHANGED <<cwd, tree, lock, op, temps, helpers>>
      BY <1>10 DEF ProbeHeads, At
    <3> QED BY <3>1, <3>2 DEF Saw, RepoInv, TypeOK, StopsAtReply
  <2> QED BY <1>10, <2>1, <2>2, HeadFound
<1>11. ASSUME NEW t \in Tasks, Drive(t) PROVE StopsAtReply'
  BY <1>11 DEF Drive, At, Root, Starts, Spawned, Refused, Reply, Idle, Indexed, Staging, Moving, RepoInv, TypeOK, StopsAtReply
<1>12. ASSUME NEW t \in Tasks, Fed(t) PROVE StopsAtReply'
  BY <1>12 DEF Fed, At, Goto, RepoInv, TypeOK, StopsAtReply
<1>13. ASSUME NEW t \in Tasks, HelperStarts(t) PROVE StopsAtReply'
  BY <1>13 DEF HelperStarts, At, RepoInv, TypeOK, StopsAtReply
<1>14. ASSUME NEW t \in Tasks, LeaderEnds(t) PROVE StopsAtReply'
  BY <1>14 DEF LeaderEnds, At, Root, Done, Freed, Goto, Reply, Idle, RepoInv, TypeOK, StopsAtReply
<1>15. ASSUME NEW t \in Tasks, Drained(t) PROVE StopsAtReply'
  BY <1>15 DEF Drained, At, Reply, Idle, RepoInv, TypeOK, StopsAtReply
<1>16. ASSUME NEW t \in Tasks, Deadline(t) PROVE StopsAtReply'
  BY <1>16 DEF Deadline, Timed, Goto, Stale, RepoInv, TypeOK, StopsAtReply
<1>17. ASSUME NEW t \in Tasks, GroupKilled(t) PROVE StopsAtReply'
  BY <1>17 DEF GroupKilled, At, Group, Reply, Idle, RepoInv, TypeOK, StopsAtReply
<1>18. ASSUME NEW t \in Tasks, Abandoned(t) PROVE StopsAtReply'
  BY <1>18 DEF Abandoned, Busy, Reply, Idle, Stale, RepoInv, TypeOK, StopsAtReply
<1>19. ASSUME HelperEnds PROVE StopsAtReply'
  BY <1>19 DEF HelperEnds, RepoInv, TypeOK, StopsAtReply
<1>20. ASSUME Cd PROVE StopsAtReply'
  BY <1>20 DEF Cd, RepoInv, TypeOK, StopsAtReply
<1>21. ASSUME NEW r \in Roots, Edit(r) PROVE StopsAtReply'
  BY <1>21 DEF Edit, RepoInv, TypeOK, StopsAtReply
<1>22. ASSUME NEW r \in Roots, UserGit(r) PROVE StopsAtReply'
  BY <1>22 DEF UserGit, RepoInv, TypeOK, StopsAtReply
<1>23. ASSUME NEW r \in Roots, UserUnlocks(r) PROVE StopsAtReply'
  BY <1>23 DEF UserUnlocks, RepoInv, TypeOK, StopsAtReply
<1> QED BY <1>1, <1>2, <1>3, <1>4, <1>5, <1>6, <1>7, <1>8, <1>9, <1>10, <1>11, <1>12, <1>13, <1>14, <1>15, <1>16, <1>17, <1>18, <1>19, <1>20, <1>21, <1>22, <1>23 DEF Acts, Step

(* No action falsifies what a steady request knows. *)
LEMMA ProbeStep ==
  ASSUME RepoInv, Acts, Remembers
  PROVE  ProbeInv'
<1>1. ASSUME NEW t \in Tasks, Save(t) PROVE ProbeInv'
  BY <1>1 DEF Save, Requested, Idle, Busy, RepoInv, TypeOK, ProbeInv, Remembers
<1>2. ASSUME NEW t \in Tasks, SaveFails(t) PROVE ProbeInv'
  BY <1>2 DEF SaveFails, At, Reply, Idle, RepoInv, TypeOK, ProbeInv, Remembers
<1>3. ASSUME NEW t \in Tasks, Written(t) PROVE ProbeInv'
  BY <1>3 DEF Written, At, Goto, RepoInv, TypeOK, ProbeInv, Remembers
<1>4. ASSUME NEW t \in Tasks, Renamed(t) PROVE ProbeInv'
  BY <1>4 DEF Renamed, At, Reply, Idle, Root, RepoInv, TypeOK, ProbeInv, Remembers
<1>5. ASSUME NEW t \in Tasks, Request(t) PROVE ProbeInv'
  BY <1>5 DEF Request, Starts, Spawned, Refused, Reply, Idle, Busy, Staging, Moving, Refs, Indexed, RepoInv, TypeOK, ProbeInv, Remembers
<1>6. ASSUME NEW t \in Tasks, Ask(t) PROVE ProbeInv'
  BY <1>6 DEF Ask, Requested, Idle, Busy, RepoInv, TypeOK, ProbeInv, Remembers
<1>7. ASSUME NEW t \in Tasks, ProbeFile(t) PROVE ProbeInv'
  BY <1>7 DEF ProbeFile, At, Root, Saw, RepoInv, TypeOK, ProbeInv, Remembers
<1>8. ASSUME NEW t \in Tasks, Discard(t) PROVE ProbeInv'
  BY <1>8 DEF Discard, At, Starts, Spawned, Refused, Reply, Idle, Indexed, Staging, Moving, RepoInv, TypeOK, ProbeInv, Remembers
<1>9. ASSUME NEW t \in Tasks, ProbeDirs(t) PROVE ProbeInv'
  <2>1. CASE op[Root(t)] = "rebase"
    BY <1>9, <2>1 DEF ProbeDirs, At, Root, Saw, RepoInv, TypeOK, ProbeInv, Remembers
  <2>2. CASE op[Root(t)] # "rebase"
    BY <1>9, <2>2 DEF ProbeDirs, At, Root, Goto, RepoInv, TypeOK, ProbeInv, Remembers
  <2> QED BY <2>1, <2>2
<1>10. ASSUME NEW t \in Tasks, ProbeHeads(t) PROVE ProbeInv'
  <2>1. CASE Reply(t)
    BY <1>10, <2>1 DEF ProbeHeads, At, Reply, Idle, RepoInv, TypeOK, ProbeInv, Remembers
  <2>2. CASE \E s \in Heads(Root(t)) : s \in Sequencers /\ Saw(t, s, "ready")
    <3>1. PICK s \in Heads(Root(t)) : s \in Sequencers /\ Saw(t, s, "ready")
      BY <2>2
    <3>2. task[t].pc = "heads" /\ UNCHANGED <<cwd, tree, lock, op, temps, helpers>>
      BY <1>10 DEF ProbeHeads, At
    <3> QED BY <3>1, <3>2 DEF Saw, Heads, Root, RepoInv, TypeOK, ProbeInv, Remembers
  <2> QED BY <1>10, <2>1, <2>2, HeadFound
<1>11. ASSUME NEW t \in Tasks, Drive(t) PROVE ProbeInv'
  BY <1>11 DEF Drive, At, Root, Starts, Spawned, Refused, Reply, Idle, Indexed, Staging, Moving, RepoInv, TypeOK, ProbeInv, Remembers
<1>12. ASSUME NEW t \in Tasks, Fed(t) PROVE ProbeInv'
  BY <1>12 DEF Fed, At, Goto, RepoInv, TypeOK, ProbeInv, Remembers
<1>13. ASSUME NEW t \in Tasks, HelperStarts(t) PROVE ProbeInv'
  BY <1>13 DEF HelperStarts, At, RepoInv, TypeOK, ProbeInv, Remembers
<1>14. ASSUME NEW t \in Tasks, LeaderEnds(t) PROVE ProbeInv'
  BY <1>14 DEF LeaderEnds, At, Root, Done, Freed, Goto, Reply, Idle, RepoInv, TypeOK, ProbeInv, Remembers
<1>15. ASSUME NEW t \in Tasks, Drained(t) PROVE ProbeInv'
  BY <1>15 DEF Drained, At, Reply, Idle, RepoInv, TypeOK, ProbeInv, Remembers
<1>16. ASSUME NEW t \in Tasks, Deadline(t) PROVE ProbeInv'
  BY <1>16 DEF Deadline, Timed, Goto, Stale, RepoInv, TypeOK, ProbeInv, Remembers
<1>17. ASSUME NEW t \in Tasks, GroupKilled(t) PROVE ProbeInv'
  BY <1>17 DEF GroupKilled, At, Group, Reply, Idle, RepoInv, TypeOK, ProbeInv, Remembers
<1>18. ASSUME NEW t \in Tasks, Abandoned(t) PROVE ProbeInv'
  BY <1>18 DEF Abandoned, Busy, Reply, Idle, Stale, RepoInv, TypeOK, ProbeInv, Remembers
<1>19. ASSUME HelperEnds PROVE ProbeInv'
  BY <1>19 DEF HelperEnds, RepoInv, TypeOK, ProbeInv, Remembers
<1>20. ASSUME Cd PROVE ProbeInv'
  BY <1>20 DEF Cd, RepoInv, TypeOK, ProbeInv, Remembers
<1>21. ASSUME NEW r \in Roots, Edit(r) PROVE ProbeInv'
  BY <1>21 DEF Edit, RepoInv, TypeOK, ProbeInv, Remembers
<1>22. ASSUME NEW r \in Roots, UserGit(r) PROVE ProbeInv'
  BY <1>22 DEF UserGit, RepoInv, TypeOK, ProbeInv, Remembers
<1>23. ASSUME NEW r \in Roots, UserUnlocks(r) PROVE ProbeInv'
  BY <1>23 DEF UserUnlocks, RepoInv, TypeOK, ProbeInv, Remembers
<1> QED BY <1>1, <1>2, <1>3, <1>4, <1>5, <1>6, <1>7, <1>8, <1>9, <1>10, <1>11, <1>12, <1>13, <1>14, <1>15, <1>16, <1>17, <1>18, <1>19, <1>20, <1>21, <1>22, <1>23 DEF Acts, Step

(* The invariant is inductive. *)
LEMMA StepRepoInv == RepoInv /\ [Next]_vars => RepoInv'
<1> SUFFICES ASSUME RepoInv, [Next]_vars PROVE RepoInv'
  OBVIOUS
<1>1. CASE Next
  BY <1>1, TypeStep, RootStep, SavesStep, ReplyStep, ProbeStep DEF RepoInv, Next
<1>2. CASE UNCHANGED vars
  BY <1>2 DEF RepoInv, TypeOK, RootInv, SavesStayInside, StopsAtReply, ProbeInv
<1> QED BY <1>1, <1>2

(* The inductive invariant holds of every behaviour. *)
THEOREM RepoInductive == Spec => []RepoInv
  BY InitRepoInv, StepRepoInv, PTL DEF Spec

---------------------------------------------------------------------------
(* Every variable keeps its type, and index.lock names a task only while   *)
(* that task's git runs where the lock is.                                 *)
THEOREM RepoTypeCorrect == Spec => []TypeOK
<1>1. RepoInv => TypeOK
  BY DEF RepoInv
<1> QED BY <1>1, RepoInductive, PTL

(* fs_write: no interleaving of saves, edits and deaths tears a file, and  *)
(* none writes through a link.                                             *)
THEOREM SavesAreAtomic == Spec => []SavesStayInside
<1>1. RepoInv => SavesStayInside
  BY DEF RepoInv
<1> QED BY <1>1, RepoInductive, PTL

(* run_git and read_capped: an answered request has left no process of its *)
(* group behind.                                                           *)
THEOREM NothingOutlivesItsReply == Spec => []StopsAtReply
<1>1. RepoInv => StopsAtReply
  BY DEF RepoInv
<1> QED BY <1>1, RepoInductive, PTL

(* op_state: two probes, one after the other, name the right sequencer if  *)
(* nobody moved it, though a stopped rebase looks like a cherry-pick, too. *)
THEOREM DrivesWhatIsInProgress == Spec => []RightSequencer
<1>1. RepoInv => RightSequencer
  BY DEF RepoInv, ProbeInv, RightSequencer, At, Root
<1> QED BY <1>1, RepoInductive, PTL
=============================================================================
