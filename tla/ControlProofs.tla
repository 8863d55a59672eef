---------------------------- MODULE ControlProofs ----------------------------
(***************************************************************************)
(* Proofs about the control client of tmux, for any number of slots,       *)
(* windows, panes and operations.  state.running, which ensure_started     *)
(* tests before it starts a client, tells the truth.  And the model        *)
(* mirrors tmux: Synced is what is left, when the reader has read          *)
(* everything, of Stays, Goes and Views, which say at every moment where   *)
(* the truth about a window is to be found: in a line that is still        *)
(* unread, in a look at tmux that is due or in hand, or in the model.      *)
(***************************************************************************)
EXTENDS Control, SequenceTheorems, FiniteSetTheorems, WellFoundedInduction, TLAPS

-----------------------------------------------------------------------------
(* What unread lines say.                                                  *)

\* One is in K; the last one in K is in G; whatever is in K is followed by one
\* in G; the first one that is not about a reply is in K.
Has(s, K) == \E i \in DOMAIN s : s[i] \in K
LastIn(s, K, G) ==
    \A i \in DOMAIN s :
        s[i] \in K /\ (\A j \in DOMAIN s : j > i => s[j] \notin K) => s[i] \in G
Ensue(s, K, G) == \A i \in DOMAIN s : s[i] \in K => \E j \in DOMAIN s : j > i /\ s[j] \in G
Opens(s, K) ==
    \E i \in DOMAIN s : s[i] \in K /\ \A j \in DOMAIN s : j < i => s[j].verb \in {"begin", "end", "error"}

\* A reply that begins ends with the next line.
Ends == {"end", "error"}
Paired(s) ==
    \A i \in DOMAIN s : s[i].verb = "begin" => i + 1 \in DOMAIN s /\ s[i + 1].verb \in Ends

Says(verb, w) == {l \in Line : l.verb = verb /\ l.w = w}
Lays(w, ps) == {l \in Line : l.verb = "layout-change" /\ l.w = w /\ l.ps = ps}
About(w) == {l \in Line : l.w = w}
Touches(w) ==
    {l \in Line : l.w = w /\ l.verb \in {"layout-change", "window-add", "window-renamed",
                                         "window-pane-changed"}}
Switches == {l \in Line : l.verb = "session-window-changed"}
Exits == {l \in Line : l.verb = "exit"}

-----------------------------------------------------------------------------
(* Sequences.                                                              *)

\* Lines that are written are appended.
LEMMA Appended ==
    ASSUME NEW S, NEW s \in Seq(S), NEW t \in Seq(S)
    PROVE  /\ s \o t \in Seq(S)
           /\ \A K : Has(s \o t, K) <=> Has(s, K) \/ Has(t, K)
           /\ \A K, G : LastIn(t, K, G) /\ (Has(t, K) \/ LastIn(s, K, G)) => LastIn(s \o t, K, G)
           /\ \A K, G : Ensue(t, K, G) /\ (Has(t, G) \/ Ensue(s, K, G)) => Ensue(s \o t, K, G)
           /\ \A K : Opens(s, K) => Opens(s \o t, K)
           /\ Paired(s) /\ Paired(t) => Paired(s \o t)
<1> DEFINE u == s \o t
           m == Len(s)
           n == Len(t)
<1>1. /\ m \in Nat /\ n \in Nat /\ u \in Seq(S)
      /\ DOMAIN s = 1..m /\ DOMAIN t = 1..n /\ DOMAIN u = 1..(m + n)
    BY LenProperties, ConcatProperties
<1>2. \A i \in 1..m : u[i] = s[i]
    BY <1>1, ConcatProperties
<1>3. \A i \in 1..n : u[m + i] = t[i]
    <2> SUFFICES ASSUME NEW i \in 1..n PROVE u[m + i] = t[i]
        OBVIOUS
    <2>1. m + i \in 1..(m + n) /\ ~(m + i <= m) /\ (m + i) - m = i
        BY <1>1
    <2> QED BY <2>1, ConcatProperties
<1>4. \A i \in 1..(m + n) : i \in 1..m \/ \E k \in 1..n : i = m + k
    <2> SUFFICES ASSUME NEW i \in 1..(m + n), i \notin 1..m PROVE \E k \in 1..n : i = m + k
        OBVIOUS
    <2>1. i - m \in 1..n /\ i = m + (i - m)
        BY <1>1
    <2> QED BY <2>1
<1> HIDE DEF u, m, n
<1>5. ASSUME NEW K PROVE Has(u, K) <=> Has(s, K) \/ Has(t, K)
    <2>1. ASSUME Has(u, K) PROVE Has(s, K) \/ Has(t, K)
        <3>1. PICK i \in 1..(m + n) : u[i] \in K
            BY <1>1, <2>1 DEF Has
        <3>2. CASE i \in 1..m
            BY <1>1, <1>2, <3>1, <3>2 DEF Has
        <3>3. ASSUME NEW k \in 1..n, i = m + k PROVE Has(t, K)
            BY <1>1, <1>3, <3>1, <3>3 DEF Has
        <3> QED BY <1>4, <3>2, <3>3
    <2>2. ASSUME NEW i \in 1..m, s[i] \in K PROVE Has(u, K)
        <3>1. i \in 1..(m + n) /\ u[i] \in K
            BY <1>1, <1>2, <2>2
        <3> QED BY <1>1, <3>1 DEF Has
    <2>3. ASSUME NEW i \in 1..n, t[i] \in K PROVE Has(u, K)
        <3>1. m + i \in 1..(m + n) /\ u[m + i] \in K
            BY <1>1, <1>3, <2>3
        <3> QED BY <1>1, <3>1 DEF Has
    <2> QED BY <1>1, <2>1, <2>2, <2>3 DEF Has
<1>6. ASSUME NEW K, NEW G, LastIn(t, K, G), Has(t, K) \/ LastIn(s, K, G) PROVE LastIn(u, K, G)
    <2> SUFFICES ASSUME NEW i \in 1..(m + n), u[i] \in K,
                        \A j \in 1..(m + n) : j > i => u[j] \notin K
                 PROVE  u[i] \in G
        BY <1>1 DEF LastIn
    <2>1. ASSUME i \in 1..m PROVE u[i] \in G
        <3>1. ASSUME NEW j \in 1..n PROVE t[j] \notin K
            <4>1. m + j \in 1..(m + n) /\ m + j > i
                BY <1>1, <2>1
            <4> QED BY <1>3, <4>1
        <3>2. ~Has(t, K)
            BY <1>1, <3>1 DEF Has
        <3>3. ASSUME NEW j \in 1..m, j > i PROVE s[j] \notin K
            <4>1. j \in 1..(m + n)
                BY <1>1
            <4> QED BY <1>2, <3>3, <4>1
        <3>4. s[i] \in K /\ u[i] = s[i]
            BY <1>2, <2>1
        <3> QED BY <1>1, <1>6, <2>1, <3>2, <3>3, <3>4 DEF LastIn
    <2>2. ASSUME NEW k \in 1..n, i = m + k PROVE u[i] \in G
        <3>1. ASSUME NEW j \in 1..n, j > k PROVE t[j] \notin K
            <4>1. m + j \in 1..(m + n) /\ m + j > i
                BY <1>1, <2>2, <3>1
            <4> QED BY <1>3, <4>1
        <3>2. t[k] \in K /\ u[i] = t[k]
            BY <1>3, <2>2
        <3> QED BY <1>1, <1>6, <3>1, <3>2 DEF LastIn
    <2> QED BY <1>4, <2>1, <2>2
<1>7. ASSUME NEW K, NEW G, Ensue(t, K, G), Has(t, G) \/ Ensue(s, K, G) PROVE Ensue(u, K, G)
    <2> SUFFICES ASSUME NEW i \in 1..(m + n), u[i] \in K
                 PROVE  \E j \in 1..(m + n) : j > i /\ u[j] \in G
        BY <1>1 DEF Ensue
    <2>1. ASSUME i \in 1..m, NEW j \in 1..n, t[j] \in G PROVE \E k \in 1..(m + n) : k > i /\ u[k] \in G
        <3>1. m + j \in 1..(m + n) /\ m + j > i /\ u[m + j] \in G
            BY <1>1, <1>3, <2>1
        <3> QED BY <3>1
    <2>2. ASSUME i \in 1..m, Ensue(s, K, G) PROVE \E k \in 1..(m + n) : k > i /\ u[k] \in G
        <3>1. PICK j \in 1..m : j > i /\ s[j] \in G
            BY <1>1, <1>2, <2>2 DEF Ensue
        <3>2. j \in 1..(m + n) /\ u[j] \in G
            BY <1>1, <1>2, <3>1
        <3> QED BY <3>1, <3>2
    <2>3. ASSUME NEW k \in 1..n, i = m + k PROVE \E j \in 1..(m + n) : j > i /\ u[j] \in G
        <3>1. PICK j \in 1..n : j > k /\ t[j] \in G
            BY <1>1, <1>3, <1>7, <2>3 DEF Ensue
        <3>2. m + j \in 1..(m + n) /\ m + j > i /\ u[m + j] \in G
            BY <1>1, <1>3, <2>3, <3>1
        <3> QED BY <3>2
    <2> QED BY <1>1, <1>4, <1>7, <2>1, <2>2, <2>3 DEF Has
<1>8. ASSUME NEW K, Opens(s, K) PROVE Opens(u, K)
    <2>1. PICK i \in 1..m : s[i] \in K /\ \A j \in 1..m : j < i => s[j].verb \in {"begin", "end", "error"}
        BY <1>1, <1>8 DEF Opens
    <2>2. i \in 1..(m + n) /\ u[i] \in K
        BY <1>1, <1>2, <2>1
    <2>3. ASSUME NEW j \in 1..(m + n), j < i PROVE u[j].verb \in {"begin", "end", "error"}
        <3>1. j \in 1..m
            BY <1>1, <2>3
        <3> QED BY <1>2, <2>1, <2>3, <3>1
    <2> QED BY <1>1, <2>2, <2>3 DEF Opens
<1>9. ASSUME Paired(s), Paired(t) PROVE Paired(u)
    <2> SUFFICES ASSUME NEW i \in 1..(m + n), u[i].verb = "begin"
                 PROVE  i + 1 \in 1..(m + n) /\ u[i + 1].verb \in Ends
        BY <1>1 DEF Paired
    <2>1. ASSUME i \in 1..m PROVE i + 1 \in 1..(m + n) /\ u[i + 1].verb \in Ends
        <3>1. i + 1 \in 1..m /\ s[i + 1].verb \in Ends
            BY <1>1, <1>2, <1>9, <2>1 DEF Paired
        <3> QED BY <1>1, <1>2, <3>1
    <2>2. ASSUME NEW k \in 1..n, i = m + k PROVE i + 1 \in 1..(m + n) /\ u[i + 1].verb \in Ends
        <3>1. k + 1 \in 1..n /\ t[k + 1].verb \in Ends
            BY <1>1, <1>3, <1>9, <2>2 DEF Paired
        <3>2. i + 1 = m + (k + 1) /\ i + 1 \in 1..(m + n)
            BY <1>1, <2>2, <3>1
        <3> QED BY <1>3, <3>1, <3>2
    <2> QED BY <1>4, <2>1, <2>2
<1> QED BY <1>1, <1>5, <1>6, <1>7, <1>8, <1>9 DEF u

\* The line that is read is the first.
LEMMA Taken ==
    ASSUME NEW S, NEW s \in Seq(S), s # <<>>
    PROVE  /\ Head(s) \in S /\ Tail(s) \in Seq(S)
           /\ \A K : Has(s, K) <=> Head(s) \in K \/ Has(Tail(s), K)
           /\ \A K, G : LastIn(s, K, G) => /\ LastIn(Tail(s), K, G)
                                           /\ Head(s) \in K => Has(Tail(s), K) \/ Head(s) \in G
           /\ \A K, G : Ensue(s, K, G) => /\ Ensue(Tail(s), K, G)
                                          /\ Head(s) \in K => Has(Tail(s), G)
           /\ \A K : Opens(s, K) =>
                  Head(s) \in K \/ (Head(s).verb \in {"begin", "end", "error"} /\ Opens(Tail(s), K))
           /\ Paired(s) => /\ Paired(Tail(s))
                           /\ Head(s).verb = "begin" => Tail(s) # <<>> /\ Head(Tail(s)).verb \in Ends
<1> DEFINE t == Tail(s)
           n == Len(s)
<1>1. /\ n \in Nat /\ n > 0 /\ t \in Seq(S) /\ Len(t) = n - 1
      /\ DOMAIN s = 1..n /\ DOMAIN t = 1..(n - 1) /\ Head(s) = s[1] /\ Head(s) \in S
    <2>1. n \in Nat /\ n > 0 /\ DOMAIN s = 1..n
        BY LenProperties, EmptySeq
    <2>2. t \in Seq(S) /\ Len(t) = n - 1 /\ Head(s) = s[1] /\ Head(s) \in S
        BY HeadTailProperties
    <2>3. DOMAIN t = 1..(n - 1)
        BY <2>2, LenProperties
    <2> QED BY <2>1, <2>2, <2>3
<1>2. \A i \in 1..(n - 1) : t[i] = s[i + 1]
    BY <1>1, HeadTailProperties
<1>3. \A i \in 1..n : i # 1 => i - 1 \in 1..(n - 1) /\ t[i - 1] = s[i]
    <2> SUFFICES ASSUME NEW i \in 1..n, i # 1 PROVE i - 1 \in 1..(n - 1) /\ t[i - 1] = s[i]
        OBVIOUS
    <2>1. i - 1 \in 1..(n - 1) /\ (i - 1) + 1 = i
        BY <1>1
    <2> QED BY <1>2, <2>1
<1>4. \A i \in 1..(n - 1) : i + 1 \in 1..n
    BY <1>1
<1> HIDE DEF t, n
<1>5. ASSUME NEW K PROVE Has(s, K) <=> Head(s) \in K \/ Has(t, K)
    <2>1. ASSUME NEW i \in 1..n, s[i] \in K PROVE Head(s) \in K \/ Has(t, K)
        BY <1>1, <1>3, <2>1 DEF Has
    <2>2. ASSUME Head(s) \in K PROVE Has(s, K)
        BY <1>1, <2>2 DEF Has
    <2>3. ASSUME NEW i \in 1..(n - 1), t[i] \in K PROVE Has(s, K)
        BY <1>1, <1>2, <1>4, <2>3 DEF Has
    <2> QED BY <1>1, <2>1, <2>2, <2>3 DEF Has
<1>6. ASSUME NEW K, NEW G, LastIn(s, K, G)
      PROVE  LastIn(t, K, G) /\ (Head(s) \in K => Has(t, K) \/ Head(s) \in G)
    <2>1. ASSUME NEW i \in 1..(n - 1), t[i] \in K, \A j \in 1..(n - 1) : j > i => t[j] \notin K
          PROVE  t[i] \in G
        <3>1. ASSUME NEW j \in 1..n, j > i + 1 PROVE s[j] \notin K
            <4>1. j # 1 /\ j - 1 > i
                BY <1>1, <3>1
            <4> QED BY <1>3, <2>1, <4>1
        <3> QED BY <1>1, <1>2, <1>4, <1>6, <2>1, <3>1 DEF LastIn
    <2>2. ASSUME Head(s) \in K, ~Has(t, K) PROVE Head(s) \in G
        <3>1. ASSUME NEW j \in 1..n, j > 1 PROVE s[j] \notin K
            <4>1. j # 1
                BY <3>1
            <4> QED BY <1>1, <1>3, <2>2, <4>1 DEF Has
        <3>2. 1 \in 1..n
            BY <1>1
        <3> QED BY <1>1, <1>6, <2>2, <3>1, <3>2 DEF LastIn
    <2> QED BY <1>1, <2>1, <2>2 DEF LastIn
<1>7. ASSUME NEW K, NEW G, Ensue(s, K, G)
      PROVE  Ensue(t, K, G) /\ (Head(s) \in K => Has(t, G))
    <2>1. ASSUME NEW i \in 1..(n - 1), t[i] \in K PROVE \E j \in 1..(n - 1) : j > i /\ t[j] \in G
        <3>1. PICK j \in 1..n : j > i + 1 /\ s[j] \in G
            BY <1>1, <1>2, <1>4, <1>7, <2>1 DEF Ensue
        <3>2. j # 1 /\ j - 1 > i
            BY <1>1, <3>1
        <3> QED BY <1>3, <3>1, <3>2
    <2>2. ASSUME Head(s) \in K PROVE Has(t, G)
        <3>1. 1 \in 1..n
            BY <1>1
        <3>2. PICK j \in 1..n : j > 1 /\ s[j] \in G
            BY <1>1, <1>7, <2>2, <3>1 DEF Ensue
        <3>3. j # 1
            BY <3>2
        <3> QED BY <1>1, <1>3, <3>2, <3>3 DEF Has
    <2> QED BY <1>1, <2>1, <2>2 DEF Ensue
<1>8. ASSUME NEW K, Opens(s, K), Head(s) \notin K
      PROVE  Head(s).verb \in {"begin", "end", "error"} /\ Opens(t, K)
    <2>1. PICK i \in 1..n : s[i] \in K /\ \A j \in 1..n : j < i => s[j].verb \in {"begin", "end", "error"}
        BY <1>1, <1>8 DEF Opens
    <2>2. i # 1 /\ 1 \in 1..n /\ 1 < i
        BY <1>1, <1>8, <2>1
    <2>3. ASSUME NEW j \in 1..(n - 1), j < i - 1 PROVE t[j].verb \in {"begin", "end", "error"}
        <3>1. j + 1 \in 1..n /\ j + 1 < i
            BY <1>1, <2>3
        <3> QED BY <1>2, <2>1, <3>1
    <2>4. i - 1 \in 1..(n - 1) /\ t[i - 1] \in K
        BY <1>3, <2>1, <2>2
    <2> QED BY <1>1, <2>1, <2>2, <2>3, <2>4 DEF Opens
<1>9. ASSUME Paired(s)
      PROVE  Paired(t) /\ (Head(s).verb = "begin" => t # <<>> /\ Head(t).verb \in Ends)
    <2>1. ASSUME NEW i \in 1..(n - 1), t[i].verb = "begin" PROVE i + 1 \in 1..(n - 1) /\ t[i + 1].verb \in Ends
        <3>1. (i + 1) + 1 \in 1..n /\ s[(i + 1) + 1].verb \in Ends
            BY <1>1, <1>2, <1>4, <1>9, <2>1 DEF Paired
        <3>2. i + 1 \in 1..(n - 1)
            BY <1>1, <3>1
        <3> QED BY <1>2, <3>1, <3>2
    <2>2. ASSUME Head(s).verb = "begin" PROVE t # <<>> /\ Head(t).verb \in Ends
        <3>1. 1 + 1 \in 1..n /\ s[1 + 1].verb \in Ends
            <4>1. 1 \in 1..n
                BY <1>1
            <4> QED BY <1>1, <1>9, <2>2, <4>1 DEF Paired
        <3>2. 1 \in 1..(n - 1) /\ t[1] = s[1 + 1]
            BY <1>1, <1>2, <3>1
        <3>3. t # <<>>
            BY <1>1, <3>2, EmptySeq
        <3> QED BY <1>1, <3>1, <3>2, <3>3, HeadTailProperties
    <2> QED BY <1>1, <2>1, <2>2 DEF Paired
<1> QED BY <1>1, <1>5, <1>6, <1>7, <1>8, <1>9 DEF t

\* One line, and two.
LEMMA OneLine ==
    ASSUME NEW a
    PROVE  /\ \A K : Has(<<a>>, K) <=> a \in K
           /\ \A K, G : LastIn(<<a>>, K, G) <=> (a \in K => a \in G)
           /\ \A K, G : Ensue(<<a>>, K, G) <=> a \notin K
           /\ Paired(<<a>>) <=> a.verb # "begin"
<1>1. DOMAIN <<a>> = 1..1 /\ <<a>>[1] = a
    OBVIOUS
<1>2. 1..1 = {1}
    OBVIOUS
<1> DEFINE s == <<a>>
<1>3. DOMAIN s = {1} /\ s[1] = a
    BY <1>1, <1>2
<1> HIDE DEF s
<1>4. /\ \A K : Has(s, K) <=> a \in K
      /\ \A K, G : LastIn(s, K, G) <=> (a \in K => a \in G)
      /\ \A K, G : Ensue(s, K, G) <=> a \notin K
      /\ Paired(s) <=> a.verb # "begin"
    BY <1>3 DEF Has, LastIn, Ensue, Paired
<1> QED BY <1>4 DEF s

LEMMA TwoLines ==
    ASSUME NEW a, NEW b
    PROVE  /\ \A K : Has(<<a, b>>, K) <=> a \in K \/ b \in K
           /\ \A K, G : LastIn(<<a, b>>, K, G) <=> /\ b \in K => b \in G
                                                   /\ a \in K => b \in K \/ a \in G
           /\ \A K, G : Ensue(<<a, b>>, K, G) <=> b \notin K /\ (a \in K => b \in G)
           /\ Paired(<<a, b>>) <=> b.verb # "begin" /\ (a.verb = "begin" => b.verb \in Ends)
<1>1. DOMAIN <<a, b>> = 1..2 /\ <<a, b>>[1] = a /\ <<a, b>>[2] = b
    OBVIOUS
<1>2. 1..2 = {1, 2}
    OBVIOUS
<1> DEFINE s == <<a, b>>
<1>3. DOMAIN s = {1, 2} /\ s[1] = a /\ s[2] = b
    BY <1>1, <1>2
<1> HIDE DEF s
<1>4. \A K : Has(s, K) <=> a \in K \/ b \in K
    BY <1>3 DEF Has
<1>5. \A K, G : LastIn(s, K, G) <=> /\ b \in K => b \in G
                                    /\ a \in K => b \in K \/ a \in G
    BY <1>3 DEF LastIn
<1>6. \A K, G : Ensue(s, K, G) <=> b \notin K /\ (a \in K => b \in G)
    BY <1>3 DEF Ensue
<1>7. Paired(s) <=> b.verb # "begin" /\ (a.verb = "begin" => b.verb \in Ends)
    BY <1>3 DEF Paired
<1> QED BY <1>4, <1>5, <1>6, <1>7 DEF s

-----------------------------------------------------------------------------
(* The inductive invariant.                                                *)

Models ==
    {m \in [windows : [Windows -> Window], window : Windows \cup {None}, pane : Panes \cup {None}] :
        \A w \in Windows : ~m.windows[w].here => m.windows[w] = Gone}

\* What is so of tmux: a window that is gone has nothing left, ids are given
\* once, and the current window is there.
Servers ==
    {t \in [windows : [Windows -> Window], window : Windows \cup {None},
            nextw : 0..MaxWin, nextp : 0..MaxPane] :
        \A w \in Windows :
            /\ ~t.windows[w].here => t.windows[w] = Gone
            /\ w >= t.nextw => ~t.windows[w].here
            /\ w = t.window => t.windows[w].here}

\* The client that was started last runs, and no other one's remains wrote to
\* its model.
Served == mine # None /\ client[mine] = "up" /\ ~torn
Unread == lines[mine]
Reader == reader[mine]

\* What the model has of a window, or will have once the pulled layouts are in.
Found(w) ==
    IF Reader.at = "fix" /\ Reader.pulled # None /\ Reader.pulled[w].here
    THEN Reader.pulled[w] ELSE model.windows[w]

\* Nothing unread is cut or of a window that is yet to come.
Whole ==
    /\ Alive /\ Reader.at # "off"
    /\ Reader.block => Unread # <<>> /\ Head(Unread).verb \in Ends
    /\ Paired(Unread) /\ ~Has(Unread, Exits)
    /\ \A w \in Windows : w >= tmux.nextw => ~Has(Unread, About(w))

\* A window of tmux: its layout is in the last line that tells one, or it will
\* be pulled, or it is found.
Stays ==
    \A w \in Windows : tmux.windows[w].here =>
        /\ ~Has(Unread, Says("window-close", w))
        /\ LastIn(Unread, Says("layout-change", w), Lays(w, tmux.windows[w].layout))
        /\ \/ Has(Unread, Says("layout-change", w)) \/ Has(Unread, Says("window-add", w))
           \/ Reader.at = "pull"
           \/ Found(w).here /\ Found(w).layout = tmux.windows[w].layout

\* A window that is gone: if anything still brings it back, a line that closes
\* it comes after.
Goes ==
    \A w \in Windows : ~tmux.windows[w].here =>
        /\ Ensue(Unread, Touches(w), Says("window-close", w))
        /\ Found(w).here => Has(Unread, Says("window-close", w))

\* The current window: in the last line that tells it, or in the model, or the
\* only one and not read yet.
Views ==
    /\ LastIn(Unread, Switches, Says("session-window-changed", tmux.window))
    /\ told /\ ~Has(Unread, Switches) =>
           \/ model.window = tmux.window
           \/ model.window = None /\ Opens(Unread, Says("layout-change", tmux.window))

Mirrors == Whole /\ Stays /\ Goes /\ Views

IInv == TypeOK /\ tmux \in Servers /\ OneClient /\ (Served => Mirrors)

-----------------------------------------------------------------------------
(* Windows and lines.                                                      *)

LEMMA Bounds ==
    /\ MaxWin \in Nat \ {0} /\ MaxPane \in Nat \ {0} /\ MaxOps \in Nat
    /\ 0 \in Windows /\ 0 \in Panes /\ Windows \subseteq Nat /\ Panes \subseteq Nat
    /\ None \notin Windows /\ None \notin Panes /\ None \notin [Windows -> Window]
    /\ \A n \in 0..MaxWin : n < MaxWin => n \in Windows /\ n + 1 \in 0..MaxWin
    /\ \A n \in 0..MaxPane : n < MaxPane => n \in Panes /\ n + 1 \in 0..MaxPane
BY ControlAssumption DEF Windows, Panes

LEMMA LineSound ==
    ASSUME NEW l \in Line
    PROVE  /\ l.ps \in Seq(Panes)
           /\ l.verb \in {"output", "window-pane-changed"} => l.ps # <<>>
           /\ l.verb \in {"begin", "end", "error", "exit", "output"} <=> l.w = None
           /\ l.w # None => l.w \in Windows
           /\ l.verb \in {"begin", "end", "error", "exit", "output", "session-window-changed",
                          "window-add", "window-close", "window-renamed", "window-pane-changed",
                          "layout-change"}
<1>1. <<>> \in Seq(Panes)
    BY EmptySeq
<1> QED BY <1>1, Bounds DEF Line

LEMMA LineIs ==
    /\ \A v \in {"begin", "end", "error", "exit"} : L(v, None, <<>>) \in Line
    /\ \A w \in Windows :
         \A v \in {"session-window-changed", "window-add", "window-close", "window-renamed"} :
             L(v, w, <<>>) \in Line
    /\ \A w \in Windows, ps \in Seq(Panes) : L("layout-change", w, ps) \in Line
    /\ \A p \in Panes : /\ L("output", None, <<p>>) \in Line
                        /\ \A w \in Windows : L("window-pane-changed", w, <<p>>) \in Line
<1>1. \A p \in Panes : <<p>> \in Seq(Panes) \ {<<>>}
    OBVIOUS
<1> QED BY <1>1 DEF L, Line

LEMMA LineHas ==
    \A v, w, ps : L(v, w, ps).verb = v /\ L(v, w, ps).w = w /\ L(v, w, ps).ps = ps
BY DEF L

\* One line, and two, in the invariant's terms.
Touching == {"layout-change", "window-add", "window-renamed", "window-pane-changed"}

LEMMA SaysOne ==
    ASSUME NEW a \in Line
    PROVE  /\ <<a>> \in Seq(Line)
           /\ \A x, v : Has(<<a>>, Says(x, v)) <=> a.verb = x /\ a.w = v
           /\ Has(<<a>>, Switches) <=> a.verb = "session-window-changed"
           /\ Has(<<a>>, Exits) <=> a.verb = "exit"
           /\ \A v : Has(<<a>>, About(v)) <=> a.w = v
           /\ \A v, ps : LastIn(<<a>>, Says("layout-change", v), Lays(v, ps))
                             <=> (a.verb = "layout-change" /\ a.w = v => a.ps = ps)
           /\ \A v : LastIn(<<a>>, Switches, Says("session-window-changed", v))
                         <=> (a.verb = "session-window-changed" => a.w = v)
           /\ \A v : Ensue(<<a>>, Touches(v), Says("window-close", v))
                         <=> ~(a.w = v /\ a.verb \in Touching)
           /\ Paired(<<a>>) <=> a.verb # "begin"
<1> DEFINE s == <<a>>
<1>1. /\ \A K : Has(s, K) <=> a \in K
      /\ \A K, G : LastIn(s, K, G) <=> (a \in K => a \in G)
      /\ \A K, G : Ensue(s, K, G) <=> a \notin K
      /\ Paired(s) <=> a.verb # "begin"
    BY OneLine
<1>2. s \in Seq(Line)
    OBVIOUS
<1> HIDE DEF s
<1>3. \A x, v : a \in Says(x, v) <=> a.verb = x /\ a.w = v
    BY DEF Says
<1>4. a \in Switches <=> a.verb = "session-window-changed"
    BY DEF Switches
<1>5. a \in Exits <=> a.verb = "exit"
    BY DEF Exits
<1>6. \A v : a \in About(v) <=> a.w = v
    BY DEF About
<1>7. \A v, ps : a \in Lays(v, ps) <=> a.verb = "layout-change" /\ a.w = v /\ a.ps = ps
    BY DEF Lays
<1>8. \A v : a \in Touches(v) <=> a.w = v /\ a.verb \in Touching
    BY DEF Touches, Touching
<1>9. \A x, v : Has(s, Says(x, v)) <=> a.verb = x /\ a.w = v
    BY <1>1, <1>3
<1>10. \A v : Has(s, About(v)) <=> a.w = v
    BY <1>1, <1>6
<1>11. Has(s, Switches) <=> a.verb = "session-window-changed"
    BY <1>1, <1>4
<1>12. Has(s, Exits) <=> a.verb = "exit"
    BY <1>1, <1>5
<1>13. \A v, ps : LastIn(s, Says("layout-change", v), Lays(v, ps))
                      <=> (a.verb = "layout-change" /\ a.w = v => a.ps = ps)
    BY <1>1, <1>3, <1>7
<1>14. \A v : LastIn(s, Switches, Says("session-window-changed", v))
                  <=> (a.verb = "session-window-changed" => a.w = v)
    BY <1>1, <1>3, <1>4
<1>15. \A v : Ensue(s, Touches(v), Says("window-close", v)) <=> ~(a.w = v /\ a.verb \in Touching)
    BY <1>1, <1>8
<1> QED BY <1>1, <1>2, <1>9, <1>10, <1>11, <1>12, <1>13, <1>14, <1>15 DEF s

LEMMA SaysTwo ==
    ASSUME NEW a \in Line, NEW b \in Line
    PROVE  /\ <<a, b>> \in Seq(Line)
           /\ \A x, v : Has(<<a, b>>, Says(x, v)) <=> \/ a.verb = x /\ a.w = v
                                                      \/ b.verb = x /\ b.w = v
           /\ Has(<<a, b>>, Switches) <=> "session-window-changed" \in {a.verb, b.verb}
           /\ Has(<<a, b>>, Exits) <=> "exit" \in {a.verb, b.verb}
           /\ \A v : Has(<<a, b>>, About(v)) <=> v \in {a.w, b.w}
           /\ \A v, ps : LastIn(<<a, b>>, Says("layout-change", v), Lays(v, ps)) <=>
                  /\ b.verb = "layout-change" /\ b.w = v => b.ps = ps
                  /\ a.verb = "layout-change" /\ a.w = v =>
                         a.ps = ps \/ (b.verb = "layout-change" /\ b.w = v)
           /\ \A v : LastIn(<<a, b>>, Switches, Says("session-window-changed", v)) <=>
                  /\ b.verb = "session-window-changed" => b.w = v
                  /\ a.verb = "session-window-changed" => a.w = v \/ b.verb = "session-window-changed"
           /\ \A v : Ensue(<<a, b>>, Touches(v), Says("window-close", v)) <=>
                  /\ ~(b.w = v /\ b.verb \in Touching)
                  /\ a.w = v /\ a.verb \in Touching => b.w = v /\ b.verb = "window-close"
           /\ Paired(<<a, b>>) <=> b.verb # "begin" /\ (a.verb = "begin" => b.verb \in Ends)
<1> DEFINE s == <<a, b>>
<1>1. /\ \A K : Has(s, K) <=> a \in K \/ b \in K
      /\ \A K, G : LastIn(s, K, G) <=> /\ b \in K => b \in G
                                       /\ a \in K => b \in K \/ a \in G
      /\ \A K, G : Ensue(s, K, G) <=> b \notin K /\ (a \in K => b \in G)
      /\ Paired(s) <=> b.verb # "begin" /\ (a.verb = "begin" => b.verb \in Ends)
    BY TwoLines
<1>2. s \in Seq(Line)
    OBVIOUS
<1> HIDE DEF s
<1>3. \A l \in Line : \A x, v : l \in Says(x, v) <=> l.verb = x /\ l.w = v
    BY DEF Says
<1>4. \A l \in Line : l \in Switches <=> l.verb = "session-window-changed"
    BY DEF Switches
<1>5. \A l \in Line : l \in Exits <=> l.verb = "exit"
    BY DEF Exits
<1>6. \A l \in Line : \A v : l \in About(v) <=> l.w = v
    BY DEF About
<1>7. \A l \in Line : \A v, ps : l \in Lays(v, ps) <=> l.verb = "layout-change" /\ l.w = v /\ l.ps = ps
    BY DEF Lays
<1>8. \A l \in Line : \A v : l \in Touches(v) <=> l.w = v /\ l.verb \in Touching
    BY DEF Touches, Touching
<1>9. \A x, v : Has(s, Says(x, v)) <=> (a.verb = x /\ a.w = v) \/ (b.verb = x /\ b.w = v)
    BY <1>1, <1>3
<1>10. \A v : Has(s, About(v)) <=> v \in {a.w, b.w}
    BY <1>1, <1>6
<1>11. Has(s, Switches) <=> "session-window-changed" \in {a.verb, b.verb}
    BY <1>1, <1>4
<1>12. Has(s, Exits) <=> "exit" \in {a.verb, b.verb}
    BY <1>1, <1>5
<1>13. \A v, ps : LastIn(s, Says("layout-change", v), Lays(v, ps)) <=>
           /\ b.verb = "layout-change" /\ b.w = v => b.ps = ps
           /\ a.verb = "layout-change" /\ a.w = v =>
                  a.ps = ps \/ (b.verb = "layout-change" /\ b.w = v)
    BY <1>1, <1>3, <1>7
<1>14. \A v : LastIn(s, Switches, Says("session-window-changed", v)) <=>
           /\ b.verb = "session-window-changed" => b.w = v
           /\ a.verb = "session-window-changed" => a.w = v \/ b.verb = "session-window-changed"
    BY <1>1, <1>3, <1>4
<1>15. \A v : Ensue(s, Touches(v), Says("window-close", v)) <=>
           /\ ~(b.w = v /\ b.verb \in Touching)
           /\ a.w = v /\ a.verb \in Touching => b.w = v /\ b.verb = "window-close"
    BY <1>1, <1>3, <1>8
<1> QED BY <1>1, <1>2, <1>9, <1>10, <1>11, <1>12, <1>13, <1>14, <1>15 DEF s

-----------------------------------------------------------------------------
(* The fold and the look.                                                  *)

\* A set of naturals has a least element.
LEMMA HasLowest ==
    ASSUME NEW S, S \subseteq Nat, S # {}
    PROVE  \E x \in S : \A y \in S : x <= y
<1> DEFINE R == {p \in Nat \X Nat : p[1] < p[2]}
<1>1. IsWellFoundedOn(R, Nat)
    <2>1. R = OpToRel(<, Nat)
        BY DEF OpToRel
    <2> QED BY <2>1, NatLessThanWellFounded
<1>2. PICK x \in S : \A y \in S : ~ (<<y, x>> \in R)
    BY <1>1, WFMin
<1>3. ASSUME NEW y \in S PROVE x <= y
    <2>1. x \in Nat /\ y \in Nat /\ ~(y < x)
        BY <1>2
    <2> QED BY <2>1
<1> QED BY <1>3

LEMMA FirstIs ==
    ASSUME NEW f
    PROVE  First(f) \in Windows \cup {None}
<1>1. CASE Known(f) = {}
    BY <1>1 DEF First
<1>2. CASE Known(f) # {}
    <2>1. Known(f) \subseteq Windows /\ Known(f) \subseteq Nat
        BY Bounds DEF Known
    <2>2. \E x \in Known(f) : \A y \in Known(f) : x <= y
        BY <1>2, <2>1, HasLowest
    <2>3. Lowest(Known(f)) \in Known(f)
        BY <2>2 DEF Lowest
    <2> QED BY <1>2, <2>1, <2>3 DEF First
<1> QED BY <1>1, <1>2

LEMMA EntryIs ==
    ASSUME NEW m \in Models, NEW w \in Windows
    PROVE  /\ Entry(m, w) \in Window /\ Entry(m, w).here
           /\ m.windows[w].here => Entry(m, w) = m.windows[w]
<1>1. m.windows[w] \in Window
    BY DEF Models
<1>2. Bare \in Window /\ Bare.here
    BY EmptySeq DEF Bare, Window
<1> QED BY <1>1, <1>2 DEF Entry

\* Writing an entry, that is there, or taking one away.
With(m, w, e, c, p) == [m EXCEPT !.windows[w] = e, !.window = c, !.pane = p]
LEMMA EntrySet ==
    ASSUME NEW m \in Models, NEW w \in Windows, NEW e \in Window, ~e.here => e = Gone,
           NEW c \in Windows \cup {None}, NEW p \in Panes \cup {None}
    PROVE  /\ With(m, w, e, c, p) \in Models /\ With(m, w, e, c, p).window = c
           /\ \A v \in Windows : With(m, w, e, c, p).windows[v] = IF v = w THEN e ELSE m.windows[v]
<1> DEFINE n == With(m, w, e, c, p)
<1>1. m \in [windows : [Windows -> Window], window : Windows \cup {None}, pane : Panes \cup {None}]
    BY DEF Models
<1>2. n.windows = [m.windows EXCEPT ![w] = e] /\ n.window = c
    BY <1>1 DEF With
<1>3. \A v \in Windows : n.windows[v] = IF v = w THEN e ELSE m.windows[v]
    BY <1>1, <1>2
<1>4. n \in [windows : [Windows -> Window], window : Windows \cup {None}, pane : Panes \cup {None}]
    BY <1>1 DEF With
<1> HIDE DEF n
<1>5. \A v \in Windows : ~n.windows[v].here => n.windows[v] = Gone
    BY <1>3 DEF Models
<1>6. n \in Models
    BY <1>4, <1>5 DEF Models
<1> QED BY <1>2, <1>3, <1>6 DEF n

Onto(m, c, p) == [m EXCEPT !.window = c, !.pane = p]
LEMMA FoldOther ==
    ASSUME NEW m \in Models, NEW c \in Windows \cup {None}, NEW p \in Panes \cup {None}
    PROVE  /\ Onto(m, c, p) \in Models /\ Onto(m, c, p).windows = m.windows
           /\ Onto(m, c, p).window = c
<1>1. m \in [windows : [Windows -> Window], window : Windows \cup {None}, pane : Panes \cup {None}]
    BY DEF Models
<1> QED BY <1>1 DEF Models, Onto

\* What a line does to the model.
LEMMA FoldSound ==
    ASSUME NEW m \in Models, NEW l \in Line
    PROVE  /\ Fold(m, l) \in Models
           /\ \A w \in Windows :
                /\ Fold(m, l).windows[w].here <=>
                       \/ l.w = w /\ l.verb \in Touching
                       \/ m.windows[w].here /\ ~(l.verb = "window-close" /\ l.w = w)
                /\ l.verb = "layout-change" /\ l.w = w => Fold(m, l).windows[w].layout = l.ps
                /\ m.windows[w].here /\ ~(l.verb \in {"layout-change", "window-close"} /\ l.w = w)
                       => Fold(m, l).windows[w].layout = m.windows[w].layout
           /\ l.verb = "session-window-changed" => Fold(m, l).window = l.w
           /\ m.window # None /\ l.verb # "session-window-changed"
                  /\ ~(l.verb = "window-close" /\ l.w = m.window) => Fold(m, l).window = m.window
           /\ m.window = None /\ l.verb = "layout-change" => Fold(m, l).window = l.w
           /\ l.verb \in {"begin", "end", "error", "exit"} => Fold(m, l) = m
<1>1. /\ m.window \in Windows \cup {None} /\ m.pane \in Panes \cup {None}
      /\ \A w \in Windows : m.windows[w] \in Window
    BY DEF Models
<1>2. CASE l.verb \in {"begin", "end", "error", "exit"}
    <2>1. Fold(m, l) = m
        BY <1>2 DEF Fold
    <2> QED BY <1>2, <2>1 DEF Touching
<1>3. CASE l.verb = "output"
    <2>1. Head(l.ps) \in Panes
        BY <1>3, LineSound, HeadTailProperties
    <2> DEFINE p == OrElse(m.pane, Head(l.ps))
    <2>2. p \in Panes \cup {None}
        BY <1>1, <2>1 DEF OrElse
    <2>3. Fold(m, l) = Onto(m, m.window, p)
        BY <1>1, <1>3 DEF Fold, FoldOutput, Models, Onto
    <2> HIDE DEF p
    <2>4. Fold(m, l) \in Models /\ Fold(m, l).windows = m.windows /\ Fold(m, l).window = m.window
        BY <1>1, <2>2, <2>3, FoldOther
    <2> QED BY <1>3, <2>4 DEF Touching
<1>4. CASE l.verb = "session-window-changed"
    <2>1. l.w \in Windows
        BY <1>4, LineSound
    <2> DEFINE it == m.windows[l.w]
               p == OrElse(OrElse(it.pane, FirstOf(it.layout)), m.pane)
    <2>2. it.pane \in Panes \cup {None} /\ it.layout \in Seq(Panes)
        BY <1>1, <2>1 DEF Window
    <2>3. FirstOf(it.layout) \in Panes \cup {None}
        BY <2>2, HeadTailProperties DEF FirstOf
    <2>4. p \in Panes \cup {None}
        BY <1>1, <2>2, <2>3 DEF OrElse
    <2>5. Fold(m, l) = Onto(m, l.w, p)
        BY <1>4 DEF Fold, FoldSwitch, Onto
    <2> HIDE DEF p, it
    <2>6. Fold(m, l) \in Models /\ Fold(m, l).windows = m.windows /\ Fold(m, l).window = l.w
        BY <2>1, <2>4, <2>5, FoldOther
    <2> QED BY <1>4, <2>6 DEF Touching
<1>5. CASE l.verb \in {"layout-change", "window-pane-changed", "window-add", "window-renamed"}
    <2>1. l.w \in Windows /\ l.ps \in Seq(Panes)
        BY <1>5, LineSound
    <2>2. Entry(m, l.w) \in Window /\ Entry(m, l.w).here
          /\ (m.windows[l.w].here => Entry(m, l.w) = m.windows[l.w])
        BY <2>1, EntryIs
    <2>3. ASSUME NEW e \in Window, NEW c \in Windows \cup {None}, NEW p \in Panes \cup {None},
                 e.here, Fold(m, l) = With(m, l.w, e, c, p),
                 l.verb = "layout-change" => e.layout = l.ps,
                 l.verb # "layout-change" => e.layout = Entry(m, l.w).layout,
                 m.window # None => c = m.window,
                 l.verb = "layout-change" /\ m.window = None => c = l.w
          PROVE  /\ Fold(m, l) \in Models
                 /\ \A w \in Windows :
                      /\ Fold(m, l).windows[w].here <=> l.w = w \/ m.windows[w].here
                      /\ l.verb = "layout-change" /\ l.w = w => Fold(m, l).windows[w].layout = l.ps
                      /\ m.windows[w].here /\ ~(l.verb = "layout-change" /\ l.w = w)
                             => Fold(m, l).windows[w].layout = m.windows[w].layout
                 /\ m.window # None => Fold(m, l).window = m.window
                 /\ m.window = None /\ l.verb = "layout-change" => Fold(m, l).window = l.w
        <3> DEFINE n == With(m, l.w, e, c, p)
        <3>1. ~e.here => e = Gone
            BY <2>3
        <3>2. /\ n \in Models /\ n.window = c
              /\ \A v \in Windows : n.windows[v] = IF v = l.w THEN e ELSE m.windows[v]
            BY <2>1, <3>1, EntrySet
        <3>3. Fold(m, l) = n
            BY <2>3
        <3> HIDE DEF n
        <3>4. /\ Fold(m, l) \in Models /\ Fold(m, l).window = c
              /\ \A v \in Windows : Fold(m, l).windows[v] = IF v = l.w THEN e ELSE m.windows[v]
            BY <3>2, <3>3
        <3> QED BY <2>2, <2>3, <3>4
    <2> DEFINE c == OrElse(m.window, l.w)
    <2>4. /\ c \in Windows \cup {None} /\ (m.window # None => c = m.window)
          /\ (m.window = None => c = l.w)
        BY <1>1, <2>1 DEF OrElse
    <2>5. CASE l.verb = "layout-change"
        <3> DEFINE e == [Entry(m, l.w) EXCEPT !.layout = l.ps]
        <3>1. e \in Window /\ e.here /\ e.layout = l.ps
            BY <2>1, <2>2 DEF Window
        <3>2. Fold(m, l) = With(m, l.w, e, c, m.pane)
            BY <2>5, <1>1 DEF Fold, FoldLayout, Models, With
        <3> HIDE DEF e, c
        <3> QED BY <1>1, <2>3, <2>4, <2>5, <3>1, <3>2 DEF Touching
    <2>6. CASE l.verb = "window-pane-changed"
        <3> DEFINE e == [Entry(m, l.w) EXCEPT !.pane = Head(l.ps)]
        <3>1. Head(l.ps) \in Panes
            BY <2>6, LineSound, HeadTailProperties
        <3>2. e \in Window /\ e.here /\ e.layout = Entry(m, l.w).layout
            BY <2>2, <3>1 DEF Window
        <3>3. Fold(m, l) = With(m, l.w, e, c, Head(l.ps))
            BY <2>6 DEF Fold, FoldPane, With
        <3> HIDE DEF e, c
        <3> QED BY <1>1, <2>3, <2>4, <2>6, <3>1, <3>2, <3>3 DEF Touching
    <2>7. CASE l.verb = "window-add"
        <3>1. Fold(m, l) = With(m, l.w, Entry(m, l.w), c, m.pane)
            BY <2>7, <1>1 DEF Fold, FoldAdd, Models, With
        <3> HIDE DEF c
        <3> QED BY <1>1, <2>2, <2>3, <2>4, <2>7, <3>1 DEF Touching
    <2>8. CASE l.verb = "window-renamed"
        <3>1. Fold(m, l) = With(m, l.w, Entry(m, l.w), m.window, m.pane)
            BY <2>8, <1>1 DEF Fold, FoldRenamed, Models, With
        <3> QED BY <1>1, <2>2, <2>3, <2>8, <3>1 DEF Touching
    <2> QED BY <1>5, <2>5, <2>6, <2>7, <2>8
<1>6. CASE l.verb = "window-close"
    <2>1. l.w \in Windows
        BY <1>6, LineSound
    <2> DEFINE rest == [m.windows EXCEPT ![l.w] = Gone]
               c == IF m.window = l.w THEN First(rest) ELSE m.window
    <2>2. c \in Windows \cup {None} /\ (m.window # l.w => c = m.window)
        BY <1>1, FirstIs
    <2>3. Fold(m, l) = With(m, l.w, Gone, c, m.pane)
        BY <1>1, <1>6 DEF Fold, FoldClose, Models, With
    <2>4. Gone \in Window /\ ~Gone.here
        BY EmptySeq DEF Gone, Window
    <2> HIDE DEF c
    <2>5. /\ Fold(m, l) \in Models /\ Fold(m, l).window = c
          /\ \A v \in Windows : Fold(m, l).windows[v] = IF v = l.w THEN Gone ELSE m.windows[v]
        BY <1>1, <2>1, <2>2, <2>3, <2>4, EntrySet
    <2> QED BY <1>6, <2>2, <2>4, <2>5 DEF Touching
<1> QED BY <1>2, <1>3, <1>4, <1>5, <1>6, LineSound

\* What the pulled layouts do to it.
LEMMA MergeSound ==
    ASSUME NEW m \in Models, NEW f \in [Windows -> Window]
    PROVE  /\ Merge(m, f) \in Models /\ Merge(m, f).window = m.window
           /\ \A w \in Windows :
                /\ Merge(m, f).windows[w].here <=> f[w].here \/ m.windows[w].here
                /\ Merge(m, f).windows[w].layout = IF f[w].here THEN f[w].layout
                                                                ELSE m.windows[w].layout
<1> DEFINE g == [w \in Windows |->
                    IF f[w].here THEN [here |-> TRUE, layout |-> f[w].layout, pane |-> m.windows[w].pane]
                    ELSE m.windows[w]]
<1>1. m \in [windows : [Windows -> Window], window : Windows \cup {None}, pane : Panes \cup {None}]
    BY DEF Models
<1>2. /\ Merge(m, f).windows = g /\ Merge(m, f).window = m.window
      /\ g \in [Windows -> Window] =>
             Merge(m, f) \in [windows : [Windows -> Window], window : Windows \cup {None},
                              pane : Panes \cup {None}]
    BY <1>1 DEF Merge
<1>3. \A w \in Windows : g[w] \in Window
    BY <1>1 DEF Window
<1>4. \A w \in Windows : /\ g[w].here <=> f[w].here \/ m.windows[w].here
                         /\ g[w].layout = IF f[w].here THEN f[w].layout ELSE m.windows[w].layout
                         /\ ~g[w].here => g[w] = Gone
    BY DEF Models, Window
<1>5. g \in [Windows -> Window]
    BY <1>3
<1> HIDE DEF g
<1> QED BY <1>1, <1>2, <1>4, <1>5 DEF Models

LEMMA FixSound ==
    ASSUME NEW m \in Models
    PROVE  FixPane(m) \in Models /\ FixPane(m).windows = m.windows /\ FixPane(m).window = m.window
<1>1. m \in [windows : [Windows -> Window], window : Windows \cup {None}, pane : Panes \cup {None}]
    BY DEF Models
<1>2. ASSUME NEW p \in Panes
      PROVE  /\ [m EXCEPT !.pane = p] \in Models /\ [m EXCEPT !.pane = p].windows = m.windows
             /\ [m EXCEPT !.pane = p].window = m.window
    BY <1>1 DEF Models
<1>3. CASE m.window = None
    BY <1>3 DEF FixPane
<1>4. CASE m.window # None
    <2> DEFINE it == m.windows[m.window]
               shown == ToSet(it.layout)
               p == IF it.pane \in shown THEN it.pane ELSE Head(it.layout)
    <2>1. it \in Window /\ it.layout \in Seq(Panes)
        BY <1>1, <1>4 DEF Window
    <2>2. shown \subseteq Panes
        BY <2>1, LenProperties DEF ToSet
    <2>3. shown # {} => it.layout # <<>>
        BY EmptySeq DEF ToSet
    <2>4. shown # {} => p \in Panes
        BY <2>1, <2>2, <2>3, HeadTailProperties
    <2>5. FixPane(m) = IF shown = {} \/ m.pane \in shown THEN m ELSE [m EXCEPT !.pane = p]
        BY <1>4 DEF FixPane
    <2> HIDE DEF p, shown, it
    <2> QED BY <1>2, <2>4, <2>5
<1> QED BY <1>3, <1>4

-----------------------------------------------------------------------------
(* What tmux tells of what is done to it.                                  *)

\* The lines of one step tell what it changed, window by window.
Tells(ls) ==
    /\ tmux.nextw <= tmux'.nextw
    /\ Alive => Alive'
    /\ Paired(ls) /\ ~Has(ls, Exits)
    /\ \A w \in Windows : w >= tmux'.nextw => ~Has(ls, About(w))
    /\ \A w \in Windows : tmux'.windows[w].here =>
         /\ ~Has(ls, Says("window-close", w))
         /\ LastIn(ls, Says("layout-change", w), Lays(w, tmux'.windows[w].layout))
         /\ \/ /\ tmux.windows[w].here
               /\ \/ Has(ls, Says("layout-change", w))
                  \/ tmux'.windows[w].layout = tmux.windows[w].layout
            \/ w >= tmux.nextw /\ Has(ls, Says("window-add", w))
    /\ \A w \in Windows : ~tmux'.windows[w].here =>
         /\ Ensue(ls, Touches(w), Says("window-close", w))
         /\ tmux.windows[w].here => Has(ls, Says("window-close", w))
    /\ LastIn(ls, Switches, Says("session-window-changed", tmux'.window))
    /\ Has(ls, Switches) \/ tmux'.window = tmux.window

Told(t) == t \in Servers /\ \E ls \in Seq(Line) : Write(ls) /\ Tells(ls)

ServerFields ==
    [windows : [Windows -> Window], window : Windows \cup {None}, nextw : 0..MaxWin, nextp : 0..MaxPane]

LEMMA BornSound ==
    ASSUME NEW t \in Servers, t.nextw < MaxWin, t.nextp < MaxPane
    PROVE  /\ Born(t) \in Servers
           /\ t.window # None => [Born(t) EXCEPT !.window = t.window] \in Servers
           /\ Born(t).nextw = t.nextw + 1 /\ Born(t).window = t.nextw
           /\ \A w \in Windows : Born(t).windows[w] =
                  IF w = t.nextw THEN [here |-> TRUE, layout |-> <<t.nextp>>, pane |-> t.nextp]
                  ELSE t.windows[w]
<1> DEFINE e == [here |-> TRUE, layout |-> <<t.nextp>>, pane |-> t.nextp]
           b == Born(t)
<1>1. /\ t \in ServerFields /\ t.nextw \in Windows /\ t.nextp \in Panes
      /\ t.nextw + 1 \in 0..MaxWin /\ t.nextp + 1 \in 0..MaxPane
    BY Bounds DEF Servers, ServerFields
<1>2. e \in Window /\ e.here
    BY <1>1 DEF Window
<1>3. /\ b.windows = [t.windows EXCEPT ![t.nextw] = e] /\ b.window = t.nextw
      /\ b.nextw = t.nextw + 1
    BY <1>1 DEF Born, ServerFields
<1>4. b \in ServerFields
    BY <1>1, <1>2 DEF Born, ServerFields
<1>5. \A w \in Windows : b.windows[w] = IF w = t.nextw THEN e ELSE t.windows[w]
    BY <1>1, <1>3 DEF ServerFields
<1> HIDE DEF b, e
<1>6. \A w \in Windows : /\ ~t.windows[w].here => t.windows[w] = Gone
                         /\ w >= t.nextw => ~t.windows[w].here
                         /\ w = t.window => t.windows[w].here
    BY DEF Servers
<1>7. \A w \in Windows : w \in Nat /\ t.nextw \in Nat
    BY <1>1, Bounds
<1>8. \A w \in Windows : /\ ~b.windows[w].here => b.windows[w] = Gone
                         /\ w >= b.nextw => ~b.windows[w].here
                         /\ w = b.window => b.windows[w].here
    BY <1>2, <1>3, <1>5, <1>6, <1>7
<1>9. b \in Servers
    BY <1>4, <1>8 DEF Servers, ServerFields
<1>10. ASSUME t.window # None PROVE [b EXCEPT !.window = t.window] \in Servers
    <2> DEFINE c == [b EXCEPT !.window = t.window]
    <2>1. c \in ServerFields /\ c.windows = b.windows /\ c.window = t.window /\ c.nextw = b.nextw
        BY <1>1, <1>4 DEF ServerFields
    <2> HIDE DEF c
    <2>2. \A w \in Windows : w = t.window => b.windows[w].here
        BY <1>5, <1>6, <1>2
    <2> QED BY <1>8, <2>1, <2>2 DEF Servers, ServerFields, c
<1> QED BY <1>3, <1>5, <1>9, <1>10 DEF b, e

\* A server of which one window changed, and is still there.
LEMMA WindowSet ==
    ASSUME NEW t \in Servers, NEW w \in Windows, t.windows[w].here,
           NEW u \in ServerFields, u.window = t.window, u.nextw = t.nextw, u.windows[w].here,
           \A v \in Windows : v # w => u.windows[v] = t.windows[v]
    PROVE  u \in Servers
<1>1. \A v \in Windows : /\ ~t.windows[v].here => t.windows[v] = Gone
                         /\ v >= t.nextw => ~t.windows[v].here
                         /\ v = t.window => t.windows[v].here
    BY DEF Servers
<1>2. \A v \in Windows : /\ ~u.windows[v].here => u.windows[v] = Gone
                         /\ v >= u.nextw => ~u.windows[v].here
                         /\ v = u.window => u.windows[v].here
    BY <1>1
<1> QED BY <1>2 DEF Servers, ServerFields

\* Taking a pane out of a layout.
LEMMA WithoutIs ==
    ASSUME NEW ps \in Seq(Panes), NEW p \in ToSet(ps)
    PROVE  Without(ps, p) \in Seq(Panes)
<1> DEFINE i == CHOOSE k \in DOMAIN ps : ps[k] = p
<1>1. DOMAIN ps = 1..Len(ps) /\ Len(ps) \in Nat
    BY LenProperties
<1>2. i \in 1..Len(ps)
    BY <1>1 DEF ToSet
<1> HIDE DEF i
<1>3. SubSeq(ps, 1, i - 1) \in Seq(Panes)
    <2>1. \A k \in 1..(i - 1) : ps[k] \in Panes
        BY <1>1, <1>2, ElementOfSeq
    <2> QED BY <1>1, <1>2, <2>1, SubSeqProperties
<1>4. SubSeq(ps, i + 1, Len(ps)) \in Seq(Panes)
    <2>1. \A k \in (i + 1)..Len(ps) : ps[k] \in Panes
        BY <1>1, <1>2, ElementOfSeq
    <2> QED BY <1>1, <1>2, <2>1, SubSeqProperties
<1> QED BY <1>3, <1>4, ConcatProperties DEF Without, RemoveAt, i

LEMMA PaneIn ==
    ASSUME NEW f \in [Windows -> Window], NEW w \in Windows, NEW p \in ToSet(f[w].layout)
    PROVE  p \in Panes /\ f[w].layout \in Seq(Panes) /\ f[w].layout # <<>>
<1>1. f[w] \in Window
    OBVIOUS
<1>2. f[w].layout \in Seq(Panes)
    BY <1>1 DEF Window
<1> QED BY <1>2, LenProperties, EmptySeq DEF ToSet

LEMMA ToldNewWindow ==
    ASSUME tmux \in Servers, NewWindow
    PROVE  Told(tmux')
<1> DEFINE n == tmux.nextw
           to == L("session-window-changed", n, <<>>)
           add == L("window-add", n, <<>>)
<1>1. tmux.nextw < MaxWin /\ tmux.nextp < MaxPane /\ Alive
    BY DEF NewWindow
<1>2. /\ n \in Windows /\ n \in Nat /\ n + 1 > n /\ tmux.window # None
      /\ to \in Line /\ add \in Line
    BY <1>1, Bounds, LineIs DEF Servers, Alive
<1>3. /\ to.verb = "session-window-changed" /\ to.w = n /\ to.ps = <<>>
      /\ add.verb = "window-add" /\ add.w = n /\ add.ps = <<>>
    BY LineHas
<1>4. \A w \in Windows : w \in Nat /\ (w >= n => ~tmux.windows[w].here)
    BY Bounds DEF Servers
<1>5. /\ Born(tmux) \in Servers /\ [Born(tmux) EXCEPT !.window = tmux.window] \in Servers
      /\ Born(tmux).nextw = n + 1 /\ Born(tmux).window = n
      /\ \A w \in Windows : Born(tmux).windows[w] =
             IF w = n THEN [here |-> TRUE, layout |-> <<tmux.nextp>>, pane |-> tmux.nextp]
             ELSE tmux.windows[w]
    BY <1>1, <1>2, BornSound
<1> DEFINE old == [Born(tmux) EXCEPT !.window = tmux.window]
<1>6. old.windows = Born(tmux).windows /\ old.nextw = Born(tmux).nextw /\ old.window = tmux.window
    BY <1>5 DEF Servers
<1>7. \/ tmux' = Born(tmux) /\ Write(<<to, add>>)
      \/ tmux' = old /\ Write(<<add>>)
    BY DEF NewWindow
<1> HIDE DEF to, add, old
<1>8. \A w \in Windows : /\ w # n => tmux'.windows[w] = tmux.windows[w]
                         /\ w = n => tmux'.windows[w].here
    BY <1>5, <1>6, <1>7
<1>9. tmux'.nextw = n + 1
    BY <1>5, <1>6, <1>7
<1>10. CASE tmux' = Born(tmux) /\ Write(<<to, add>>)
    <2>1. tmux'.window = n
        BY <1>5, <1>10
    <2>2. n # None
        BY <1>2, Bounds
    <2>3. Tells(<<to, add>>)
        BY <1>1, <1>2, <1>3, <1>4, <1>8, <1>9, <2>1, <2>2, SaysTwo DEF Tells, Alive, Touching
    <2>4. <<to, add>> \in Seq(Line)
        BY <1>2, SaysTwo
    <2> QED BY <1>5, <1>10, <2>3, <2>4 DEF Told
<1>11. CASE tmux' = old /\ Write(<<add>>)
    <2>1. tmux'.window = tmux.window
        BY <1>6, <1>11
    <2>2. Tells(<<add>>)
        BY <1>1, <1>2, <1>3, <1>4, <1>8, <1>9, <2>1, SaysOne DEF Tells, Alive, Touching
    <2>3. <<add>> \in Seq(Line)
        BY <1>2, SaysOne
    <2> QED BY <1>5, <1>11, <2>2, <2>3 DEF Told, old
<1> QED BY <1>7, <1>10, <1>11

LEMMA ToldSplit ==
    ASSUME tmux \in Servers, NEW w \in Windows, Split(w)
    PROVE  Told(tmux')
<1> DEFINE p == tmux.nextp
           ps == Append(tmux.windows[w].layout, p)
           e == [here |-> TRUE, layout |-> ps, pane |-> p]
           a == L("window-pane-changed", w, <<p>>)
           b == L("layout-change", w, ps)
<1>1. /\ tmux \in ServerFields /\ tmux.windows[w] \in Window
      /\ tmux.windows[w].here /\ tmux.nextp < MaxPane
    BY DEF Servers, ServerFields, Split
<1>2. p \in Panes /\ p + 1 \in 0..MaxPane
    BY <1>1, Bounds DEF ServerFields
<1>3. ps \in Seq(Panes)
    BY <1>1, <1>2, AppendProperties DEF Window
<1>4. e \in Window /\ e.here /\ e.layout = ps
    BY <1>2, <1>3 DEF Window
<1>5. /\ a \in Line /\ b \in Line
      /\ a.verb = "window-pane-changed" /\ a.w = w
      /\ b.verb = "layout-change" /\ b.w = w /\ b.ps = ps
    <2> HIDE DEF ps
    <2>1. a \in Line /\ b \in Line
        BY <1>2, <1>3, LineIs
    <2> QED BY <2>1, LineHas
<1>6. /\ tmux' = [tmux EXCEPT !.windows[w] = e, !.nextp = @ + 1]
      /\ Write(<<a, b>>)
    BY DEF Split
<1> HIDE DEF e, a, b
<1>7. /\ tmux' \in ServerFields /\ tmux'.windows = [tmux.windows EXCEPT ![w] = e]
      /\ tmux'.window = tmux.window /\ tmux'.nextw = tmux.nextw
    BY <1>1, <1>2, <1>4, <1>6 DEF ServerFields
<1>8. /\ tmux' \in Servers
      /\ \A v \in Windows : tmux'.windows[v] = IF v = w THEN e ELSE tmux.windows[v]
    <2>1. \A v \in Windows : tmux'.windows[v] = IF v = w THEN e ELSE tmux.windows[v]
        BY <1>1, <1>7 DEF ServerFields
    <2>2. tmux'.windows[w].here
        BY <1>4, <2>1
    <2>3. \A v \in Windows : v # w => tmux'.windows[v] = tmux.windows[v]
        BY <2>1
    <2>4. tmux' \in Servers
        BY <1>1, <1>7, <2>2, <2>3, WindowSet
    <2> QED BY <2>1, <2>4
<1> HIDE DEF ps
<1>9. /\ tmux.nextw \in Nat
      /\ \A v \in Windows : v \in Nat /\ (v >= tmux.nextw => ~tmux.windows[v].here)
    BY Bounds DEF Servers
<1>10. Tells(<<a, b>>)
    BY <1>1, <1>4, <1>5, <1>7, <1>8, <1>9, SaysTwo DEF Tells, Alive, Touching
<1>11. <<a, b>> \in Seq(Line)
    BY <1>5, SaysTwo
<1> QED BY <1>6, <1>8, <1>10, <1>11 DEF Told

LEMMA ToldPaneEnds ==
    ASSUME tmux \in Servers, NEW w \in Windows, NEW p \in Panes, NEW q \in Panes, PaneEnds(w, p, q)
    PROVE  Told(tmux')
<1> DEFINE ps == Without(tmux.windows[w].layout, p)
           e == [[tmux.windows[w] EXCEPT !.layout = ps] EXCEPT !.pane = q]
           a == L("window-pane-changed", w, <<q>>)
           b == L("layout-change", w, ps)
<1>1. /\ tmux \in ServerFields /\ tmux.windows \in [Windows -> Window]
      /\ p \in ToSet(tmux.windows[w].layout)
    BY DEF Servers, ServerFields, PaneEnds
<1>2. /\ tmux.windows[w].layout \in Seq(Panes) /\ tmux.windows[w].layout # <<>>
      /\ tmux.windows[w] \in Window
    BY <1>1, PaneIn
<1>3. tmux.windows[w].here
    BY <1>2 DEF Servers, Gone
<1>4. ps \in Seq(Panes)
    BY <1>1, <1>2, WithoutIs
<1>5. e \in Window /\ e.here /\ e.layout = ps
    BY <1>2, <1>3, <1>4 DEF Window
<1>6. /\ a \in Line /\ b \in Line
      /\ a.verb = "window-pane-changed" /\ a.w = w
      /\ b.verb = "layout-change" /\ b.w = w /\ b.ps = ps
    BY <1>4, LineIs, LineHas
<1>7. /\ tmux' = [tmux EXCEPT !.windows[w].layout = ps, !.windows[w].pane = q]
      /\ Write(<<a, b>>) \/ Write(<<b>>)
    BY DEF PaneEnds
<1> HIDE DEF a, b, ps
<1>9. /\ tmux'.windows = [tmux.windows EXCEPT ![w] = e]
      /\ tmux'.window = tmux.window /\ tmux'.nextw = tmux.nextw /\ tmux'.nextp = tmux.nextp
    BY <1>1, <1>7 DEF ServerFields
<1> HIDE DEF e
<1>10. tmux' \in ServerFields
    BY <1>1, <1>5, <1>7, <1>9 DEF ServerFields
<1>11. /\ tmux' \in Servers
       /\ \A v \in Windows : tmux'.windows[v] = IF v = w THEN e ELSE tmux.windows[v]
    <2>1. \A v \in Windows : tmux'.windows[v] = IF v = w THEN e ELSE tmux.windows[v]
        BY <1>1, <1>9 DEF ServerFields
    <2>2. tmux'.windows[w].here
        BY <1>5, <2>1
    <2>3. \A v \in Windows : v # w => tmux'.windows[v] = tmux.windows[v]
        BY <2>1
    <2>4. tmux' \in Servers
        BY <1>3, <1>9, <1>10, <2>2, <2>3, WindowSet
    <2> QED BY <2>1, <2>4
<1>12. /\ tmux.nextw \in Nat
       /\ \A v \in Windows : v \in Nat /\ (v >= tmux.nextw => ~tmux.windows[v].here)
    BY Bounds DEF Servers
<1>13. Tells(<<a, b>>)
    BY <1>3, <1>5, <1>6, <1>9, <1>11, <1>12, SaysTwo DEF Tells, Alive, Touching
<1>14. Tells(<<b>>)
    <2>1. \A v \in Windows : Ensue(<<b>>, Touches(v), Says("window-close", v)) <=> v # w
        BY <1>6, SaysOne DEF Touching
    <2> QED BY <1>3, <1>5, <1>6, <1>9, <1>11, <1>12, <2>1, SaysOne DEF Tells, Alive
<1>15. <<a, b>> \in Seq(Line) /\ <<b>> \in Seq(Line)
    BY <1>6, SaysOne, SaysTwo
<1> QED BY <1>7, <1>11, <1>13, <1>14, <1>15 DEF Told

LEMMA ToldWindowEnds ==
    ASSUME tmux \in Servers, NEW w \in Windows, NEW v \in Windows, WindowEnds(w, v)
    PROVE  Told(tmux')
<1> DEFINE c == IF tmux.window = w THEN v ELSE tmux.window
           a == L("window-close", w, <<>>)
           b == L("session-window-changed", v, <<>>)
<1>1. /\ tmux \in ServerFields /\ tmux.windows[v].here /\ v # w /\ Len(tmux.windows[w].layout) = 1
      /\ c \in Windows \cup {None}
    BY DEF Servers, ServerFields, WindowEnds
<1>2. tmux.windows[w].here
    <2> DEFINE none == <<>>
    <2>1. Len(none) = 0
        OBVIOUS
    <2> HIDE DEF none
    <2>2. tmux.windows[w].layout # none
        <3>1. Len(tmux.windows[w].layout) = 1
            BY DEF WindowEnds
        <3>2. ASSUME NEW s, Len(s) = 1, s = none PROVE FALSE
            BY <2>1, <3>2
        <3> QED BY <3>1, <3>2
    <2> QED BY <2>2 DEF Servers, Gone, none
<1>3. Gone \in Window /\ ~Gone.here
    BY EmptySeq DEF Gone, Window
<1>4. /\ a \in Line /\ b \in Line
      /\ a.verb = "window-close" /\ a.w = w
      /\ b.verb = "session-window-changed" /\ b.w = v
    BY LineIs, LineHas
<1>5. /\ tmux' = [tmux EXCEPT !.windows[w] = Gone, !.window = IF @ = w THEN v ELSE @]
      /\ \/ tmux.window # w /\ Write(<<a>>)
         \/ tmux.window = w /\ Write(<<a, b>>)
         \/ tmux.window = w /\ Write(<<b, a>>)
    BY DEF WindowEnds
<1>6. /\ tmux' \in ServerFields /\ tmux'.windows = [tmux.windows EXCEPT ![w] = Gone]
      /\ tmux'.window = c /\ tmux'.nextw = tmux.nextw
    BY <1>1, <1>3, <1>5 DEF ServerFields
<1>7. \A x \in Windows : tmux'.windows[x] = IF x = w THEN Gone ELSE tmux.windows[x]
    BY <1>1, <1>6 DEF ServerFields
<1> HIDE DEF a, b
<1>8. \A x \in Windows : /\ ~tmux.windows[x].here => tmux.windows[x] = Gone
                         /\ x >= tmux.nextw => ~tmux.windows[x].here
                         /\ x = tmux.window => tmux.windows[x].here
                         /\ x \in Nat
    BY Bounds DEF Servers
<1>9. \A x \in Windows : /\ ~tmux'.windows[x].here => tmux'.windows[x] = Gone
                         /\ x >= tmux'.nextw => ~tmux'.windows[x].here
                         /\ x = tmux'.window => tmux'.windows[x].here
    BY <1>1, <1>3, <1>6, <1>7, <1>8
<1>10. tmux' \in Servers
    BY <1>6, <1>9 DEF Servers, ServerFields
<1>11. tmux.nextw \in Nat /\ v # None
    BY Bounds DEF Servers
<1>12. tmux.window # w => Tells(<<a>>)
    BY <1>1, <1>2, <1>3, <1>4, <1>6, <1>7, <1>8, <1>11, SaysOne DEF Tells, Alive, Touching
<1>13. ASSUME tmux.window = w PROVE Tells(<<a, b>>)
    <2>1. /\ tmux.nextw <= tmux'.nextw /\ Alive'
          /\ Paired(<<a, b>>) /\ ~Has(<<a, b>>, Exits)
          /\ LastIn(<<a, b>>, Switches, Says("session-window-changed", tmux'.window))
          /\ Has(<<a, b>>, Switches)
        BY <1>4, <1>6, <1>11, <1>13, SaysTwo DEF Alive
    <2>2. ASSUME NEW x \in Windows, x >= tmux'.nextw PROVE ~Has(<<a, b>>, About(x))
        BY <1>1, <1>2, <1>4, <1>6, <1>8, <2>2, SaysTwo
    <2>3. ASSUME NEW x \in Windows, tmux'.windows[x].here
          PROVE  /\ ~Has(<<a, b>>, Says("window-close", x))
                 /\ LastIn(<<a, b>>, Says("layout-change", x), Lays(x, tmux'.windows[x].layout))
                 /\ tmux.windows[x].here /\ tmux'.windows[x].layout = tmux.windows[x].layout
        BY <1>1, <1>3, <1>4, <1>7, <2>3, SaysTwo
    <2>4. ASSUME NEW x \in Windows, ~tmux'.windows[x].here
          PROVE  /\ Ensue(<<a, b>>, Touches(x), Says("window-close", x))
                 /\ tmux.windows[x].here => Has(<<a, b>>, Says("window-close", x))
        BY <1>1, <1>4, <1>7, <2>4, SaysTwo DEF Touching
    <2> QED BY <2>1, <2>2, <2>3, <2>4 DEF Tells
<1>14. ASSUME tmux.window = w PROVE Tells(<<b, a>>)
    <2>1. /\ tmux.nextw <= tmux'.nextw /\ Alive'
          /\ Paired(<<b, a>>) /\ ~Has(<<b, a>>, Exits)
          /\ LastIn(<<b, a>>, Switches, Says("session-window-changed", tmux'.window))
          /\ Has(<<b, a>>, Switches)
        BY <1>4, <1>6, <1>11, <1>14, SaysTwo DEF Alive
    <2>2. ASSUME NEW x \in Windows, x >= tmux'.nextw PROVE ~Has(<<b, a>>, About(x))
        BY <1>1, <1>2, <1>4, <1>6, <1>8, <2>2, SaysTwo
    <2>3. ASSUME NEW x \in Windows, tmux'.windows[x].here
          PROVE  /\ ~Has(<<b, a>>, Says("window-close", x))
                 /\ LastIn(<<b, a>>, Says("layout-change", x), Lays(x, tmux'.windows[x].layout))
                 /\ tmux.windows[x].here /\ tmux'.windows[x].layout = tmux.windows[x].layout
        BY <1>1, <1>3, <1>4, <1>7, <2>3, SaysTwo
    <2>4. ASSUME NEW x \in Windows, ~tmux'.windows[x].here
          PROVE  /\ Ensue(<<b, a>>, Touches(x), Says("window-close", x))
                 /\ tmux.windows[x].here => Has(<<b, a>>, Says("window-close", x))
        BY <1>1, <1>4, <1>7, <2>4, SaysTwo DEF Touching
    <2> QED BY <2>1, <2>2, <2>3, <2>4 DEF Tells
<1>15. <<a>> \in Seq(Line) /\ <<a, b>> \in Seq(Line) /\ <<b, a>> \in Seq(Line)
    BY <1>4, SaysOne, SaysTwo
<1> QED BY <1>5, <1>10, <1>12, <1>13, <1>14, <1>15 DEF Told

LEMMA ToldSelectWindow ==
    ASSUME tmux \in Servers, NEW w \in Windows, SelectWindow(w)
    PROVE  Told(tmux')
<1> DEFINE a == L("session-window-changed", w, <<>>)
<1>1. tmux \in ServerFields /\ tmux.windows[w].here
    BY DEF Servers, ServerFields, SelectWindow
<1>2. a \in Line /\ a.verb = "session-window-changed" /\ a.w = w
    BY LineIs, LineHas
<1>3. tmux' = [tmux EXCEPT !.window = w] /\ Write(<<a>>)
    BY DEF SelectWindow
<1> HIDE DEF a
<1>4. /\ tmux' \in ServerFields /\ tmux'.windows = tmux.windows
      /\ tmux'.window = w /\ tmux'.nextw = tmux.nextw
    BY <1>1, <1>3 DEF ServerFields
<1>5. tmux' \in Servers
    BY <1>1, <1>4 DEF Servers, ServerFields
<1>6. /\ tmux.nextw \in Nat /\ w # None
      /\ \A x \in Windows : x \in Nat /\ (x >= tmux.nextw => ~tmux.windows[x].here)
    BY Bounds DEF Servers
<1>7. Tells(<<a>>)
    BY <1>1, <1>2, <1>4, <1>6, SaysOne DEF Tells, Alive, Touching
<1>8. <<a>> \in Seq(Line)
    BY <1>2, SaysOne
<1> QED BY <1>3, <1>5, <1>7, <1>8 DEF Told

LEMMA ToldSelectPane ==
    ASSUME tmux \in Servers, NEW w \in Windows, NEW p \in Panes, SelectPane(w, p)
    PROVE  Told(tmux')
<1> DEFINE e == [tmux.windows[w] EXCEPT !.pane = p]
           a == L("window-pane-changed", w, <<p>>)
<1>1. /\ tmux \in ServerFields /\ tmux.windows \in [Windows -> Window]
      /\ p \in ToSet(tmux.windows[w].layout)
    BY DEF Servers, ServerFields, SelectPane
<1>2. tmux.windows[w].layout # <<>> /\ tmux.windows[w] \in Window
    BY <1>1, PaneIn
<1>3. tmux.windows[w].here
    BY <1>2 DEF Servers, Gone
<1>4. e \in Window /\ e.here /\ e.layout = tmux.windows[w].layout
    BY <1>2, <1>3 DEF Window
<1>5. a \in Line /\ a.verb = "window-pane-changed" /\ a.w = w
    BY LineIs, LineHas
<1>6. tmux' = [tmux EXCEPT !.windows[w].pane = p] /\ Write(<<a>>)
    BY DEF SelectPane
<1>7. /\ tmux'.windows = [tmux.windows EXCEPT ![w] = e]
      /\ tmux'.window = tmux.window /\ tmux'.nextw = tmux.nextw
    BY <1>1, <1>6 DEF ServerFields
<1> HIDE DEF e, a
<1>8. tmux' \in ServerFields
    BY <1>1, <1>4, <1>6, <1>7 DEF ServerFields
<1>9. /\ tmux' \in Servers
      /\ \A v \in Windows : tmux'.windows[v] = IF v = w THEN e ELSE tmux.windows[v]
    <2>1. \A v \in Windows : tmux'.windows[v] = IF v = w THEN e ELSE tmux.windows[v]
        BY <1>1, <1>7 DEF ServerFields
    <2>2. tmux'.windows[w].here
        BY <1>4, <2>1
    <2>3. \A v \in Windows : v # w => tmux'.windows[v] = tmux.windows[v]
        BY <2>1
    <2>4. tmux' \in Servers
        BY <1>3, <1>7, <1>8, <2>2, <2>3, WindowSet
    <2> QED BY <2>1, <2>4
<1>10. /\ tmux.nextw \in Nat
       /\ \A x \in Windows : x \in Nat /\ (x >= tmux.nextw => ~tmux.windows[x].here)
    BY Bounds DEF Servers
<1>11. Tells(<<a>>)
    BY <1>3, <1>4, <1>5, <1>7, <1>9, <1>10, SaysOne DEF Tells, Alive, Touching
<1>12. <<a>> \in Seq(Line)
    BY <1>5, SaysOne
<1> QED BY <1>6, <1>9, <1>11, <1>12 DEF Told

\* Nothing changes.
LEMMA ToldQuiet ==
    ASSUME tmux \in Servers, UNCHANGED tmux,
           NEW a \in Line, ~(a.verb \in {"begin", "exit", "window-close", "layout-change",
                                         "session-window-changed"}),
           \A w \in Windows : a.w = w => tmux.windows[w].here
    PROVE  Tells(<<a>>)
<1>1. /\ tmux.nextw \in Nat
      /\ \A x \in Windows : x \in Nat /\ (x >= tmux.nextw => ~tmux.windows[x].here)
    BY Bounds DEF Servers
<1> QED BY <1>1, SaysOne DEF Tells, Alive, Touching

LEMMA ToldOther ==
    ASSUME tmux \in Servers,
           Reply \/ (\E w \in Windows : Rename(w)) \/ (\E p \in Panes : Output(p))
    PROVE  Told(tmux')
<1>1. ASSUME NEW w \in Windows, Rename(w) PROVE Told(tmux')
    <2> DEFINE a == L("window-renamed", w, <<>>)
    <2>1. UNCHANGED tmux /\ Write(<<a>>) /\ tmux.windows[w].here
        BY <1>1 DEF Rename
    <2>2. a \in Line /\ a.verb = "window-renamed" /\ a.w = w
        BY LineIs, LineHas
    <2> HIDE DEF a
    <2>3. Tells(<<a>>) /\ <<a>> \in Seq(Line)
        BY <2>1, <2>2, ToldQuiet, SaysOne
    <2> QED BY <2>1, <2>3 DEF Told
<1>2. ASSUME NEW p \in Panes, Output(p) PROVE Told(tmux')
    <2> DEFINE a == L("output", None, <<p>>)
    <2>1. UNCHANGED tmux /\ Write(<<a>>)
        BY <1>2 DEF Output
    <2>2. a \in Line /\ a.verb = "output" /\ a.w = None /\ None \notin Windows
        BY LineIs, LineHas, Bounds
    <2> HIDE DEF a
    <2>3. Tells(<<a>>) /\ <<a>> \in Seq(Line)
        BY <2>1, <2>2, ToldQuiet, SaysOne
    <2> QED BY <2>1, <2>3 DEF Told
<1>3. ASSUME Reply PROVE Told(tmux')
    <2>1. PICK end \in Ends : Write(<<L("begin", None, <<>>), L(end, None, <<>>)>>)
        BY <1>3 DEF Reply, Ends
    <2> DEFINE a == L("begin", None, <<>>)
               b == L(end, None, <<>>)
    <2>2. UNCHANGED tmux /\ Write(<<a, b>>)
        BY <1>3, <2>1 DEF Reply
    <2>3. /\ a \in Line /\ a.verb = "begin" /\ a.w = None /\ None \notin Windows
          /\ b \in Line /\ b.verb \in Ends /\ b.w = None
        BY LineIs, LineHas, Bounds DEF Ends
    <2> HIDE DEF a, b
    <2>4. b.verb \in {"end", "error"}
        BY <2>3 DEF Ends
    <2>5. /\ tmux.nextw \in Nat
          /\ \A x \in Windows : x \in Nat /\ (x >= tmux.nextw => ~tmux.windows[x].here)
        BY Bounds DEF Servers
    <2>6. Tells(<<a, b>>)
        BY <2>2, <2>3, <2>4, <2>5, SaysTwo DEF Tells, Alive, Touching
    <2>7. <<a, b>> \in Seq(Line)
        BY <2>3, SaysTwo
    <2> QED BY <2>2, <2>6, <2>7 DEF Told
<1> QED BY <1>1, <1>2, <1>3

-----------------------------------------------------------------------------
(* What is done to tmux.                                                   *)

\* Lines of which none is in K.
LEMMA HasNone ==
    ASSUME NEW s, NEW K, ~Has(s, K)
    PROVE  /\ \A G : G \subseteq K => ~Has(s, G)
           /\ \A G : LastIn(s, K, G) /\ Ensue(s, K, G)
BY DEF Has, LastIn, Ensue

LEMMA AboutIs ==
    ASSUME NEW s, NEW w, ~Has(s, About(w))
    PROVE  /\ \A v : ~Has(s, Says(v, w))
           /\ ~Has(s, Touches(w))
<1>1. \A v : Says(v, w) \subseteq About(w)
    BY DEF Says, About
<1>2. Touches(w) \subseteq About(w)
    BY DEF Touches, About
<1>3. ASSUME NEW v PROVE ~Has(s, Says(v, w))
    BY <1>1, HasNone
<1> QED BY <1>2, <1>3, HasNone

LEMMA WriteIs ==
    ASSUME lines \in [Slots -> Seq(Line)], NEW ls \in Seq(Line), Write(ls)
    PROVE  /\ lines' \in [Slots -> Seq(Line)]
           /\ \A r \in Slots : client[r] = "up" => lines'[r] = lines[r] \o ls
<1>1. \A r \in Slots : lines[r] \in Seq(Line) /\ lines[r] \o ls \in Seq(Line)
    BY ConcatProperties
<1>2. lines' = [r \in Slots |-> IF r \in Up THEN lines[r] \o ls ELSE lines[r]]
    BY DEF Write
<1>3. \A r \in Slots : r \in Up <=> client[r] = "up"
    BY DEF Up
<1> QED BY <1>1, <1>2, <1>3

\* The model keeps mirroring a tmux that tells what it does.
LEMMA ServerMirrored ==
    ASSUME TypeOK, tmux \in Servers, Served, Mirrors,
           NEW ls \in Seq(Line), Write(ls), Tells(ls), tmux' \in Servers,
           UNCHANGED <<client, reader, running, model, history>>
    PROVE  Mirrors'
<1> DEFINE s == Unread
           u == s \o ls
<1>1. mine \in Slots /\ client[mine] = "up"
    BY DEF Served, TypeOK
<1>2. s \in Seq(Line) /\ Unread' = u
    BY <1>1, WriteIs DEF TypeOK, Unread, history
<1>3. UNCHANGED <<Reader, model, told>> /\ \A w \in Windows : UNCHANGED Found(w)
    BY DEF Reader, Found, history
<1>4. /\ \A K : Has(u, K) <=> Has(s, K) \/ Has(ls, K)
      /\ \A K, G : LastIn(ls, K, G) /\ (Has(ls, K) \/ LastIn(s, K, G)) => LastIn(u, K, G)
      /\ \A K, G : Ensue(ls, K, G) /\ (Has(ls, G) \/ Ensue(s, K, G)) => Ensue(u, K, G)
      /\ \A K : Opens(s, K) => Opens(u, K)
      /\ Paired(s) /\ Paired(ls) => Paired(u)
    BY <1>2, Appended
<1>5. s # <<>> => u # <<>> /\ Head(u) = Head(s)
    <2> SUFFICES ASSUME s # <<>> PROVE u # <<>> /\ Head(u) = Head(s)
        OBVIOUS
    <2>1. /\ Len(s) \in Nat \ {0} /\ Len(ls) \in Nat /\ Len(u) = Len(s) + Len(ls)
          /\ u \in Seq(Line) /\ u[1] = s[1]
        BY <1>2, EmptySeq, LenProperties, ConcatProperties
    <2>2. u # <<>>
        BY <2>1
    <2> QED BY <1>2, <2>1, <2>2, HeadTailProperties
<1> HIDE DEF s, u
<1>6. /\ \A v, w : Has(u, Says(v, w)) <=> Has(s, Says(v, w)) \/ Has(ls, Says(v, w))
      /\ \A w : Has(u, About(w)) <=> Has(s, About(w)) \/ Has(ls, About(w))
      /\ Has(u, Exits) <=> Has(s, Exits) \/ Has(ls, Exits)
      /\ Has(u, Switches) <=> Has(s, Switches) \/ Has(ls, Switches)
    BY <1>4
<1>7. Whole'
    <2>1. Alive' /\ Reader'.at # "off"
        BY <1>3 DEF Mirrors, Whole, Tells
    <2>2. Reader'.block => u # <<>> /\ Head(u).verb \in Ends
        BY <1>3, <1>5 DEF Mirrors, Whole, s
    <2>3. Paired(u) /\ ~Has(u, Exits)
        BY <1>4, <1>6 DEF Mirrors, Whole, Tells, s
    <2>4. \A w \in Windows : w >= tmux'.nextw => ~Has(u, About(w))
        <3>1. tmux.nextw \in Nat /\ tmux'.nextw \in Nat /\ \A w \in Windows : w \in Nat
            <4>1. tmux.nextw \in 0..MaxWin /\ tmux'.nextw \in 0..MaxWin
                BY DEF Servers
            <4>2. MaxWin \in Nat /\ \A w \in Windows : w \in Nat
                BY Bounds
            <4> QED BY <4>1, <4>2
        <3>2. \A w \in Windows : w >= tmux'.nextw => w >= tmux.nextw
            BY <3>1 DEF Tells
        <3> QED BY <1>6, <3>2 DEF Mirrors, Whole, Tells, s
    <2> QED BY <1>2, <2>1, <2>2, <2>3, <2>4 DEF Whole
<1>8. Stays'
    <2> SUFFICES ASSUME NEW w \in Windows, tmux'.windows[w].here
                 PROVE  /\ ~Has(u, Says("window-close", w))
                        /\ LastIn(u, Says("layout-change", w), Lays(w, tmux'.windows[w].layout))
                        /\ \/ Has(u, Says("layout-change", w)) \/ Has(u, Says("window-add", w))
                           \/ Reader.at = "pull"
                           \/ Found(w).here /\ Found(w).layout = tmux'.windows[w].layout
        BY <1>2, <1>3 DEF Stays
    <2>1. /\ ~Has(ls, Says("window-close", w))
          /\ LastIn(ls, Says("layout-change", w), Lays(w, tmux'.windows[w].layout))
          /\ \/ /\ tmux.windows[w].here
                /\ \/ Has(ls, Says("layout-change", w))
                   \/ tmux'.windows[w].layout = tmux.windows[w].layout
             \/ w >= tmux.nextw /\ Has(ls, Says("window-add", w))
        BY DEF Tells
    <2>2. CASE tmux.windows[w].here
        <3>1. /\ ~Has(s, Says("window-close", w))
              /\ LastIn(s, Says("layout-change", w), Lays(w, tmux.windows[w].layout))
              /\ \/ Has(s, Says("layout-change", w)) \/ Has(s, Says("window-add", w))
                 \/ Reader.at = "pull"
                 \/ Found(w).here /\ Found(w).layout = tmux.windows[w].layout
            BY <2>2 DEF Mirrors, Stays, s
        <3>2. tmux.windows[w].here => ~(w >= tmux.nextw)
            BY DEF Servers
        <3>3. \/ Has(ls, Says("layout-change", w))
              \/ tmux'.windows[w].layout = tmux.windows[w].layout
            BY <2>1, <2>2, <3>2
        <3>4. Has(ls, Says("layout-change", w))
              \/ LastIn(s, Says("layout-change", w), Lays(w, tmux'.windows[w].layout))
            BY <3>1, <3>3
        <3>5. LastIn(u, Says("layout-change", w), Lays(w, tmux'.windows[w].layout))
            BY <1>4, <2>1, <3>4
        <3> QED BY <1>6, <2>1, <3>1, <3>3, <3>5
    <2>3. CASE ~tmux.windows[w].here
        <3>1. w >= tmux.nextw /\ Has(ls, Says("window-add", w))
            BY <2>1, <2>3
        <3>2. ~Has(s, About(w))
            BY <3>1 DEF Mirrors, Whole, s
        <3>3. ~Has(s, Says("window-close", w)) /\ ~Has(s, Says("layout-change", w))
            BY <3>2, AboutIs
        <3>4. LastIn(s, Says("layout-change", w), Lays(w, tmux'.windows[w].layout))
            BY <3>3, HasNone
        <3>5. LastIn(u, Says("layout-change", w), Lays(w, tmux'.windows[w].layout))
            BY <1>4, <2>1, <3>4
        <3> QED BY <1>6, <2>1, <3>1, <3>3, <3>5
    <2> QED BY <2>2, <2>3
<1>9. Goes'
    <2> SUFFICES ASSUME NEW w \in Windows, ~tmux'.windows[w].here
                 PROVE  /\ Ensue(u, Touches(w), Says("window-close", w))
                        /\ Found(w).here => Has(u, Says("window-close", w))
        BY <1>2, <1>3 DEF Goes
    <2>1. /\ Ensue(ls, Touches(w), Says("window-close", w))
          /\ tmux.windows[w].here => Has(ls, Says("window-close", w))
        BY DEF Tells
    <2>2. ~tmux.windows[w].here => /\ Ensue(s, Touches(w), Says("window-close", w))
                                   /\ Found(w).here => Has(s, Says("window-close", w))
        BY DEF Mirrors, Goes, s
    <2>3. Ensue(u, Touches(w), Says("window-close", w))
        BY <1>4, <2>1, <2>2
    <2> QED BY <1>6, <2>1, <2>2, <2>3
<1>10. Views'
    <2>1. /\ LastIn(ls, Switches, Says("session-window-changed", tmux'.window))
          /\ Has(ls, Switches) \/ tmux'.window = tmux.window
        BY DEF Tells
    <2>2. LastIn(s, Switches, Says("session-window-changed", tmux.window))
        BY DEF Mirrors, Views, s
    <2>3. Has(ls, Switches) \/ LastIn(s, Switches, Says("session-window-changed", tmux'.window))
        BY <2>1, <2>2
    <2>4. LastIn(u, Switches, Says("session-window-changed", tmux'.window))
        BY <1>4, <2>1, <2>3
    <2>5. ASSUME told, ~Has(u, Switches)
          PROVE  \/ model.window = tmux'.window
                 \/ model.window = None /\ Opens(u, Says("layout-change", tmux'.window))
        <3>1. ~Has(s, Switches) /\ tmux'.window = tmux.window
            BY <1>6, <2>1, <2>5
        <3>2. \/ model.window = tmux.window
              \/ model.window = None /\ Opens(s, Says("layout-change", tmux.window))
            BY <2>5, <3>1 DEF Mirrors, Views, s
        <3> QED BY <1>4, <3>1, <3>2
    <2> QED BY <1>2, <1>3, <2>4, <2>5 DEF Views
<1> QED BY <1>7, <1>8, <1>9, <1>10 DEF Mirrors

LEMMA TypeOKIs ==
    TypeOK <=>
        /\ tmux \in ServerFields
        /\ client \in [Slots -> {"off", "up", "ended", "cleared"}]
        /\ lines \in [Slots -> Seq(Line)]
        /\ reader \in [Slots -> [at : {"off", "read", "pull", "fix"}, block : BOOLEAN,
                                 pulled : [Windows -> Window] \cup {None}]]
        /\ running \in BOOLEAN
        /\ model \in Models
        /\ mine \in Slots \cup {None}
        /\ torn \in BOOLEAN /\ told \in BOOLEAN
        /\ ops \in 0..MaxOps
BY DEF TypeOK, ServerFields, Models

LEMMA OpsIs ==
    ASSUME ops \in 0..MaxOps, ops < MaxOps, ops' = ops + 1
    PROVE  ops' \in 0..MaxOps
BY Bounds

LEMMA OpKept ==
    ASSUME TypeOK, tmux \in Servers, Served => Mirrors, Op, Told(tmux')
    PROVE  TypeOK' /\ tmux' \in Servers /\ (Served' => Mirrors')
<1>1. PICK ls \in Seq(Line) : Write(ls) /\ Tells(ls)
    BY DEF Told
<1>2. tmux' \in Servers
    BY DEF Told
<1>3. UNCHANGED <<client, reader, running, model, history>> /\ ops' \in 0..MaxOps
    BY OpsIs DEF Op, TypeOK
<1>4. tmux' \in ServerFields /\ lines' \in [Slots -> Seq(Line)]
    BY <1>1, <1>2, WriteIs DEF Servers, ServerFields, TypeOK
<1>5. TypeOK'
    BY <1>3, <1>4 DEF TypeOK, ServerFields, history
<1>6. Served' => Served
    BY <1>3 DEF Served, history
<1>7. Served' => Mirrors'
    BY <1>1, <1>2, <1>3, <1>6, ServerMirrored
<1> QED BY <1>2, <1>5, <1>7

-----------------------------------------------------------------------------
(* The start of a client.                                                  *)

\* The list of a set holds its elements.
LEMMA ListOf ==
    ASSUME NEW S \in SUBSET Windows
    PROVE  /\ Cardinality(S) \in Nat /\ SetToSeq(S) \in [1 .. Cardinality(S) -> S]
           /\ \A w \in S : \E i \in DOMAIN SetToSeq(S) : SetToSeq(S)[i] = w
           /\ Cardinality(S) = 1 => \A v, w \in S : v = w
<1> DEFINE c == Cardinality(S)
           f == SetToSeq(S)
<1>1. IsFiniteSet(S)
    <2>1. 0 \in Int /\ MaxWin - 1 \in Int
        BY Bounds
    <2> QED BY <2>1, FS_Interval, FS_Subset DEF Windows
<1>2. c \in Nat /\ ExistsBijection(1 .. c, S)
    BY <1>1, FS_CardinalityType
<1>3. \E g \in [1 .. c -> S] : IsInjective(g)
    BY <1>2 DEF ExistsBijection, Bijection, Injection, IsInjective
<1>4. f \in [1 .. c -> S] /\ IsInjective(f)
    BY <1>3 DEF SetToSeq
<1>5. c = 1 => \A v, w \in S : v = w
    <2>1. c = 1 <=> \E x : S = {x}
        BY <1>1, FS_Singleton
    <2> QED BY <2>1
<1> HIDE DEF f
<1>6. f \in Injection(1 .. c, S)
    BY <1>4 DEF Injection, IsInjective
<1>7. Cardinality(1 .. c) = c
    BY <1>2, FS_Interval
<1>8. f \in Surjection(1 .. c, S)
    BY <1>1, <1>6, <1>7, FS_Injection
<1>9. \A w \in S : \E i \in DOMAIN f : f[i] = w
    BY <1>4, <1>8 DEF Surjection
<1> QED BY <1>2, <1>4, <1>5, <1>9 DEF f

\* What a server writes to a client that attaches.
Greeting(t) ==
    LET ws == SetToSeq(Known(t.windows))
    IN  <<L("begin", None, <<>>), L("end", None, <<>>)>>
        \o [i \in DOMAIN ws |-> L("layout-change", ws[i], t.windows[ws[i]].layout)]

LEMMA GreetingIs ==
    ASSUME NEW t \in Servers, t.window # None
    PROVE  /\ Greeting(t) \in Seq(Line) /\ Paired(Greeting(t))
           /\ \A i \in DOMAIN Greeting(t) :
                \/ Greeting(t)[i].verb \in {"begin", "end"} /\ Greeting(t)[i].w = None
                \/ /\ Greeting(t)[i].verb = "layout-change" /\ Greeting(t)[i].w \in Windows
                   /\ t.windows[Greeting(t)[i].w].here
                   /\ Greeting(t)[i].ps = t.windows[Greeting(t)[i].w].layout
           /\ \A w \in Windows : t.windows[w].here => Has(Greeting(t), Says("layout-change", w))
           /\ Cardinality(Known(t.windows)) = 1 => Opens(Greeting(t), Says("layout-change", t.window))
<1> DEFINE S == Known(t.windows)
           n == Cardinality(S)
           ws == SetToSeq(S)
           a == L("begin", None, <<>>)
           b == L("end", None, <<>>)
           g == [i \in DOMAIN ws |-> L("layout-change", ws[i], t.windows[ws[i]].layout)]
           u == <<a, b>> \o g
<1>1. /\ S \subseteq Windows /\ \A w \in S : t.windows[w].here /\ t.windows[w].layout \in Seq(Panes)
      /\ \A w \in Windows : t.windows[w].here => w \in S
    BY DEF Known, Servers, Window
<1>2. /\ n \in Nat /\ ws \in [1 .. n -> S] /\ (n = 1 => \A v, w \in S : v = w)
      /\ \A w \in S : \E i \in DOMAIN ws : ws[i] = w
    BY <1>1, ListOf
<1>3. /\ a \in Line /\ a.verb = "begin" /\ a.w = None
      /\ b \in Line /\ b.verb = "end" /\ b.w = None
    BY LineIs, LineHas
<1> HIDE DEF ws, n, S, a, b
<1>4. DOMAIN g = 1..n
    BY <1>2
<1>5. \A i \in 1..n : /\ g[i] \in Line /\ g[i].verb = "layout-change" /\ g[i].w = ws[i]
                      /\ ws[i] \in S /\ g[i].ps = t.windows[ws[i]].layout
    <2> SUFFICES ASSUME NEW i \in 1..n
                 PROVE  /\ g[i] \in Line /\ g[i].verb = "layout-change" /\ g[i].w = ws[i]
                        /\ ws[i] \in S /\ g[i].ps = t.windows[ws[i]].layout
        OBVIOUS
    <2>1. g[i] = L("layout-change", ws[i], t.windows[ws[i]].layout)
        BY <1>2
    <2>2. ws[i] \in S /\ ws[i] \in Windows /\ t.windows[ws[i]].layout \in Seq(Panes)
        BY <1>1, <1>2
    <2> QED BY <2>1, <2>2, LineIs, LineHas
<1>6. g \in Seq(Line) /\ Len(g) = n
    <2>1. g \in [1..n -> Line]
        BY <1>2, <1>5
    <2> QED BY <1>2, <2>1
<1> HIDE DEF g
<1>7. /\ u \in Seq(Line) /\ Len(u) = 2 + n /\ DOMAIN u = 1..(2 + n)
      /\ u[1] = a /\ u[2] = b /\ \A i \in 3..(2 + n) : u[i] = g[i - 2] /\ i - 2 \in 1..n
    <2>1. <<a, b>> \in Seq(Line) /\ Len(<<a, b>>) = 2 /\ <<a, b>>[1] = a /\ <<a, b>>[2] = b
        BY <1>3
    <2>2. /\ u \in Seq(Line) /\ Len(u) = 2 + n
          /\ \A i \in 1..(2 + n) : u[i] = IF i <= 2 THEN <<a, b>>[i] ELSE g[i - 2]
        BY <1>3, <1>6, <2>1, ConcatProperties
    <2>3. DOMAIN u = 1..(2 + n)
        BY <2>2, LenProperties
    <2>4. 1 \in 1..(2 + n) /\ 2 \in 1..(2 + n) /\ 1 <= 2 /\ 2 <= 2
        BY <1>2
    <2>5. \A i \in 3..(2 + n) : i \in 1..(2 + n) /\ ~(i <= 2) /\ i - 2 \in 1..n
        BY <1>2
    <2> HIDE DEF u
    <2>6. u[1] = a /\ u[2] = b
        BY <2>1, <2>2, <2>4
    <2>7. \A i \in 3..(2 + n) : u[i] = g[i - 2] /\ i - 2 \in 1..n
        BY <2>2, <2>5
    <2> QED BY <2>2, <2>3, <2>6, <2>7
<1> HIDE DEF u
<1>8. \A i \in 1..(2 + n) : i = 1 \/ i = 2 \/ i \in 3..(2 + n)
    BY <1>2
<1>9. \A i \in 3..(2 + n) :
          /\ u[i].verb = "layout-change" /\ u[i].w \in S
          /\ u[i].ps = t.windows[u[i].w].layout
    BY <1>5, <1>7
<1>10. Paired(u)
    <2> SUFFICES ASSUME NEW i \in 1..(2 + n), u[i].verb = "begin"
                 PROVE  i + 1 \in 1..(2 + n) /\ u[i + 1].verb \in Ends
        BY <1>7 DEF Paired
    <2>1. i = 1
        BY <1>3, <1>7, <1>8, <1>9
    <2>2. i + 1 = 2 /\ 2 \in 1..(2 + n)
        BY <1>2, <2>1
    <2> QED BY <1>3, <1>7, <2>2 DEF Ends
<1>11. \A i \in DOMAIN u :
           \/ u[i].verb \in {"begin", "end"} /\ u[i].w = None
           \/ /\ u[i].verb = "layout-change" /\ u[i].w \in Windows
              /\ t.windows[u[i].w].here /\ u[i].ps = t.windows[u[i].w].layout
    BY <1>1, <1>3, <1>7, <1>8, <1>9
<1>12. ASSUME NEW w \in Windows, t.windows[w].here PROVE Has(u, Says("layout-change", w))
    <2>1. PICK i \in 1..n : ws[i] = w
        BY <1>1, <1>2, <1>12
    <2>2. 2 + i \in 3..(2 + n) /\ (2 + i) - 2 = i /\ 2 + i \in DOMAIN u
        BY <1>2, <1>7
    <2>3. u[2 + i] = g[i]
        BY <1>7, <2>2
    <2>4. u[2 + i] \in Says("layout-change", w)
        BY <1>5, <2>1, <2>3 DEF Says
    <2> QED BY <2>2, <2>4 DEF Has
<1>13. ASSUME n = 1 PROVE Opens(u, Says("layout-change", t.window))
    <2>1. t.window \in S
        BY <1>1 DEF Servers
    <2>2. 3 \in 3..(2 + n) /\ 3 \in DOMAIN u /\ 3 - 2 = 1 /\ 1 \in 1..n
        BY <1>2, <1>7, <1>13
    <2>3. u[3] = g[1] /\ ws[1] = t.window
        BY <1>2, <1>5, <1>7, <1>13, <2>1, <2>2
    <2>4. u[3] \in Says("layout-change", t.window)
        BY <1>5, <2>2, <2>3 DEF Says
    <2>5. ASSUME NEW j \in DOMAIN u, j < 3 PROVE u[j].verb \in {"begin", "end", "error"}
        <3>1. j = 1 \/ j = 2
            BY <1>7, <1>8, <2>5
        <3> QED BY <1>3, <1>7, <3>1
    <2> QED BY <2>2, <2>4, <2>5 DEF Opens
<1>14. u = Greeting(t)
    BY DEF u, g, ws, S, a, b, Greeting
<1> QED BY <1>7, <1>10, <1>11, <1>12, <1>13, <1>14 DEF n, S

LEMMA NewModelIs ==
    /\ NewModel \in Models /\ NewModel.window = None
    /\ \A w \in Windows : ~NewModel.windows[w].here
<1>1. Gone \in Window /\ ~Gone.here
    BY EmptySeq DEF Gone, Window
<1> QED BY <1>1 DEF NewModel, Models

LEMMA NoServerIs ==
    NoServer \in Servers /\ NoServer.window = None /\ NoServer.nextw = 0 /\ NoServer.nextp = 0
<1>1. Gone \in Window /\ ~Gone.here
    BY EmptySeq DEF Gone, Window
<1>2. 0 \in 0..MaxWin /\ 0 \in 0..MaxPane
    BY Bounds
<1>3. /\ NoServer \in ServerFields /\ NoServer.window = None
      /\ NoServer.nextw = 0 /\ NoServer.nextp = 0
      /\ \A w \in Windows : NoServer.windows[w] = Gone
    BY <1>1, <1>2 DEF NoServer, ServerFields
<1> QED BY <1>1, <1>3, Bounds DEF Servers, ServerFields

\* A new client is told of every window there is, and the model starts empty.
LEMMA StartKept ==
    ASSUME TypeOK, tmux \in Servers, NEW r \in Slots, Start(r)
    PROVE  TypeOK' /\ tmux' \in Servers /\ (Served' => Mirrors')
<1>1. /\ running' = TRUE /\ client' = [client EXCEPT ![r] = "up"] /\ model' = NewModel
      /\ reader' = [reader EXCEPT ![r] = [NoReader EXCEPT !.at = "read"]]
      /\ tmux' = IF Alive THEN tmux ELSE Born(NoServer)
      /\ lines' = [lines EXCEPT ![r] = Greeting(tmux')]
      /\ mine' = r /\ torn' = FALSE /\ told' = (Cardinality(Known(tmux'.windows)) = 1)
    BY DEF Start, Greeting
<1>2. tmux' \in Servers /\ tmux'.window # None
    <2>1. CASE Alive
        BY <1>1, <2>1 DEF Alive
    <2>2. CASE ~Alive
        <3>1. 0 < MaxWin /\ 0 < MaxPane /\ 0 # None
            BY Bounds
        <3>2. Born(NoServer) \in Servers /\ Born(NoServer).window = 0
            BY <3>1, NoServerIs, BornSound
        <3> QED BY <1>1, <2>2, <3>1, <3>2
    <2> QED BY <2>1, <2>2
<1> DEFINE u == Greeting(tmux')
<1>3. /\ u \in Seq(Line) /\ Paired(u)
      /\ \A i \in DOMAIN u :
           \/ u[i].verb \in {"begin", "end"} /\ u[i].w = None
           \/ /\ u[i].verb = "layout-change" /\ u[i].w \in Windows
              /\ tmux'.windows[u[i].w].here /\ u[i].ps = tmux'.windows[u[i].w].layout
      /\ \A w \in Windows : tmux'.windows[w].here => Has(u, Says("layout-change", w))
      /\ told' => Opens(u, Says("layout-change", tmux'.window))
    BY <1>1, <1>2, GreetingIs
<1> HIDE DEF u
<1>4. tmux' \in ServerFields /\ model' \in Models /\ lines' \in [Slots -> Seq(Line)]
    BY <1>1, <1>2, <1>3, NewModelIs DEF Servers, ServerFields, TypeOK, u
<1>5. ops' \in 0..MaxOps
    BY OpsIs DEF Start, TypeOK
<1>6. /\ reader' \in [Slots -> [at : {"off", "read", "pull", "fix"}, block : BOOLEAN,
                                pulled : [Windows -> Window] \cup {None}]]
      /\ reader'[r].at = "read" /\ reader'[r].block = FALSE /\ reader'[r].pulled = None
    BY <1>1 DEF TypeOK, NoReader
<1>7. /\ client' \in [Slots -> {"off", "up", "ended", "cleared"}]
      /\ running' \in BOOLEAN /\ mine' \in Slots \cup {None}
      /\ torn' \in BOOLEAN /\ told' \in BOOLEAN
    BY <1>1 DEF TypeOK
<1>8. TypeOK'
    BY <1>4, <1>5, <1>6, <1>7 DEF TypeOK, ServerFields, Models
<1>9. /\ Unread' = u /\ Reader'.at = "read" /\ Reader'.block = FALSE
      /\ model'.window = None /\ \A w \in Windows : ~Found(w)'.here
    <2>1. Unread' = u
        BY <1>1 DEF TypeOK, Unread, u
    <2>2. Reader' = reader'[r]
        BY <1>1 DEF Reader
    <2>3. \A w \in Windows : Found(w)' = model'.windows[w]
        BY <1>6, <2>2 DEF Found
    <2> QED BY <1>1, <1>6, <2>1, <2>2, <2>3, NewModelIs
<1>10. Whole'
    <2>1. ~Has(u, Exits)
        BY <1>3 DEF Has, Exits
    <2>2. \A w \in Windows : w >= tmux'.nextw => ~Has(u, About(w))
        <3> SUFFICES ASSUME NEW w \in Windows, w >= tmux'.nextw PROVE ~Has(u, About(w))
            OBVIOUS
        <3>1. ~tmux'.windows[w].here
            BY <1>2 DEF Servers
        <3>2. w # None
            BY Bounds
        <3> QED BY <1>3, <3>1, <3>2 DEF Has, About
    <2> QED BY <1>2, <1>3, <1>9, <2>1, <2>2 DEF Whole, Alive
<1>11. Stays'
    <2> SUFFICES ASSUME NEW w \in Windows, tmux'.windows[w].here
                 PROVE  /\ ~Has(u, Says("window-close", w))
                        /\ LastIn(u, Says("layout-change", w), Lays(w, tmux'.windows[w].layout))
                        /\ Has(u, Says("layout-change", w))
        BY <1>9 DEF Stays
    <2>1. ~Has(u, Says("window-close", w))
        BY <1>3 DEF Has, Says
    <2>2. LastIn(u, Says("layout-change", w), Lays(w, tmux'.windows[w].layout))
        <3> SUFFICES ASSUME NEW i \in DOMAIN u, u[i] \in Says("layout-change", w)
                     PROVE  u[i] \in Lays(w, tmux'.windows[w].layout)
            BY DEF LastIn
        <3>1. u[i].verb = "layout-change" /\ u[i].w = w /\ u[i] \in Line
            BY DEF Says
        <3>2. u[i].ps = tmux'.windows[w].layout
            BY <1>3, <3>1
        <3> QED BY <3>1, <3>2 DEF Lays
    <2> QED BY <1>3, <2>1, <2>2
<1>12. Goes'
    <2> SUFFICES ASSUME NEW w \in Windows, ~tmux'.windows[w].here
                 PROVE  Ensue(u, Touches(w), Says("window-close", w))
        BY <1>9 DEF Goes
    <2>1. w # None
        BY Bounds
    <2>2. \A i \in DOMAIN u : u[i] \notin Touches(w)
        BY <1>3, <2>1 DEF Touches
    <2> QED BY <2>2 DEF Ensue
<1>13. Views'
    <2>1. ~Has(u, Switches)
        BY <1>3 DEF Has, Switches
    <2>2. LastIn(u, Switches, Says("session-window-changed", tmux'.window))
        BY <2>1, HasNone
    <2> QED BY <1>3, <1>9, <2>2 DEF Views
<1> QED BY <1>2, <1>8, <1>10, <1>11, <1>12, <1>13 DEF Mirrors

-----------------------------------------------------------------------------
(* The reader.                                                             *)

Readers == [at : {"off", "read", "pull", "fix"}, block : BOOLEAN,
            pulled : [Windows -> Window] \cup {None}]

LEMMA MoveIs ==
    ASSUME TypeOK, NEW r \in Slots, NEW at \in {"off", "read", "pull", "fix"}, NEW block \in BOOLEAN,
           NEW pulled \in [Windows -> Window] \cup {None}, Move(r, at, block, pulled)
    PROVE  /\ reader' \in [Slots -> Readers]
           /\ reader'[r].at = at /\ reader'[r].block = block /\ reader'[r].pulled = pulled
           /\ \A x \in Slots : x # r => reader'[x] = reader[x]
BY DEF TypeOK, Move, Readers

LEMMA ReaderOff ==
    ASSUME TypeOK, NEW r \in Slots, reader' = [reader EXCEPT ![r] = NoReader]
    PROVE  /\ reader' \in [Slots -> Readers] /\ \A x \in Slots : x # r => reader'[x] = reader[x]
BY DEF TypeOK, NoReader, Readers

LEMMA TakeIs ==
    ASSUME TypeOK, NEW r \in Slots, Take(r)
    PROVE  /\ lines[r] \in Seq(Line) /\ lines[r] # <<>> /\ reader[r].at = "read"
           /\ Head(lines[r]) \in Line /\ lines'[r] = Tail(lines[r])
           /\ lines' \in [Slots -> Seq(Line)]
           /\ \A x \in Slots : x # r => lines'[x] = lines[x]
           /\ UNCHANGED <<tmux, client, running, mine, ops>>
<1>1. lines[r] \in Seq(Line) /\ lines[r] # <<>>
    BY DEF TypeOK, Take
<1>2. Head(lines[r]) \in Line /\ Tail(lines[r]) \in Seq(Line)
    BY <1>1, HeadTailProperties
<1> QED BY <1>1, <1>2 DEF TypeOK, Take

\* A step of another reader that leaves the model alone.
LEMMA Unmoved ==
    ASSUME Mirrors, UNCHANGED <<tmux, model, mine, told>>,
           lines'[mine] = lines[mine], reader'[mine] = reader[mine]
    PROVE  Mirrors'
<1>1. UNCHANGED <<Unread, Reader>> /\ \A w : UNCHANGED Found(w)
    BY DEF Unread, Reader, Found
<1>2. Whole'
    BY <1>1 DEF Mirrors, Whole, Alive
<1>3. Stays'
    BY <1>1 DEF Mirrors, Stays
<1>4. Goes'
    BY <1>1 DEF Mirrors, Goes
<1>5. Views'
    BY <1>1 DEF Mirrors, Views
<1> QED BY <1>2, <1>3, <1>4, <1>5 DEF Mirrors

\* The first line is read: what Whole and Views, and the lines of a window, say
\* of the rest.
LEMMA Rest ==
    ASSUME TypeOK, Served, Mirrors, Take(mine)
    PROVE  /\ Unread' = Tail(Unread) /\ Unread \in Seq(Line) /\ Unread # <<>>
           /\ Head(Unread) \in Line /\ Reader.at = "read"
           /\ \A K : Has(Unread, K) <=> Head(Unread) \in K \/ Has(Unread', K)
           /\ \A K, G : LastIn(Unread, K, G) =>
                  /\ LastIn(Unread', K, G)
                  /\ Head(Unread) \in K => Has(Unread', K) \/ Head(Unread) \in G
           /\ \A K, G : Ensue(Unread, K, G) =>
                  Ensue(Unread', K, G) /\ (Head(Unread) \in K => Has(Unread', G))
           /\ \A K : Opens(Unread, K) =>
                  \/ Head(Unread) \in K
                  \/ Head(Unread).verb \in {"begin", "end", "error"} /\ Opens(Unread', K)
           /\ Paired(Unread') /\ ~Has(Unread', Exits)
           /\ \A w \in Windows : w >= tmux.nextw => ~Has(Unread', About(w))
           /\ Head(Unread).verb = "begin" => Unread' # <<>> /\ Head(Unread').verb \in Ends
<1>1. mine \in Slots
    BY DEF Served, TypeOK
<1>2. /\ Unread \in Seq(Line) /\ Unread # <<>> /\ Reader.at = "read" /\ Unread' = Tail(Unread)
      /\ Head(Unread) \in Line
    BY <1>1, TakeIs DEF Unread, Reader
<1>3. /\ \A K : Has(Unread, K) <=> Head(Unread) \in K \/ Has(Tail(Unread), K)
      /\ \A K, G : LastIn(Unread, K, G) =>
             /\ LastIn(Tail(Unread), K, G)
             /\ Head(Unread) \in K => Has(Tail(Unread), K) \/ Head(Unread) \in G
      /\ \A K, G : Ensue(Unread, K, G) =>
             Ensue(Tail(Unread), K, G) /\ (Head(Unread) \in K => Has(Tail(Unread), G))
      /\ \A K : Opens(Unread, K) =>
             \/ Head(Unread) \in K
             \/ Head(Unread).verb \in {"begin", "end", "error"} /\ Opens(Tail(Unread), K)
      /\ Paired(Unread) => /\ Paired(Tail(Unread))
                           /\ Head(Unread).verb = "begin" =>
                                  Tail(Unread) # <<>> /\ Head(Tail(Unread)).verb \in Ends
    BY <1>2, Taken
<1>4. /\ Paired(Unread) /\ ~Has(Unread, Exits)
      /\ \A w \in Windows : w >= tmux.nextw => ~Has(Unread, About(w))
    BY DEF Mirrors, Whole
<1> QED BY <1>2, <1>3, <1>4

\* A line of a reply is passed over.
LEMMA ReadReplyMirrored ==
    ASSUME TypeOK, Served, Mirrors, ReadReply(mine)
    PROVE  Mirrors'
<1> DEFINE s == Unread
           l == Head(s)
           u == Unread'
<1>1. mine \in Slots /\ Take(mine) /\ UNCHANGED <<tmux, mine, model, told>>
    BY DEF Served, TypeOK, ReadReply, Take
<1>2. /\ l \in Line /\ Reader.at = "read"
      /\ \A K : Has(s, K) <=> l \in K \/ Has(u, K)
      /\ \A K, G : LastIn(s, K, G) => LastIn(u, K, G)
      /\ \A K, G : Ensue(s, K, G) => Ensue(u, K, G)
      /\ \A K : Opens(s, K) => l \in K \/ Opens(u, K)
      /\ Paired(u) /\ ~Has(u, Exits)
      /\ \A w \in Windows : w >= tmux.nextw => ~Has(u, About(w))
      /\ l.verb = "begin" => u # <<>> /\ Head(u).verb \in Ends
    BY <1>1, Rest
<1>3. (Reader.block \/ l.verb = "begin") /\ Move(mine, "read", ~ReplyEnds(l), None)
    BY DEF ReadReply, Reader, Unread
<1>4. /\ Reader'.at = "read" /\ Reader'.pulled = None
      /\ Reader'.block => l.verb = "begin"
    <2>1. Reader' = reader'[mine]
        BY <1>1 DEF Reader
    <2>2. Reader'.at = "read" /\ Reader'.block = ~ReplyEnds(l) /\ Reader'.pulled = None
        BY <1>1, <1>3, <2>1, MoveIs DEF ReplyEnds
    <2>3. Reader.block => l.verb \in {"end", "error"}
        BY DEF Mirrors, Whole, Ends
    <2> QED BY <1>3, <2>2, <2>3 DEF ReplyEnds
<1>5. l.verb \in {"begin", "end", "error"}
    BY <1>3 DEF Mirrors, Whole, Ends
<1>6. \A w \in Windows : UNCHANGED Found(w)
    BY <1>1, <1>2, <1>4 DEF Found
<1> HIDE DEF s, l, u
<1>7. /\ \A w : \A v \in {"window-close", "layout-change", "window-add"} :
             Has(s, Says(v, w)) <=> Has(u, Says(v, w))
      /\ Has(s, Switches) <=> Has(u, Switches)
      /\ \A w : l \notin Says("layout-change", w)
    <2>1. \A w : \A v \in {"window-close", "layout-change", "window-add"} : l \notin Says(v, w)
        BY <1>5 DEF Says
    <2>2. l \notin Switches
        BY <1>5 DEF Switches
    <2> QED BY <1>2, <2>1, <2>2
<1>8. Whole'
    BY <1>1, <1>2, <1>4 DEF Mirrors, Whole, Alive, u
<1>9. Stays'
    <2> SUFFICES ASSUME NEW w \in Windows, tmux.windows[w].here
                 PROVE  /\ ~Has(u, Says("window-close", w))
                        /\ LastIn(u, Says("layout-change", w), Lays(w, tmux.windows[w].layout))
                        /\ \/ Has(u, Says("layout-change", w)) \/ Has(u, Says("window-add", w))
                           \/ Found(w).here /\ Found(w).layout = tmux.windows[w].layout
        BY <1>1, <1>6 DEF Stays, u
    <2>1. /\ ~Has(s, Says("window-close", w))
          /\ LastIn(s, Says("layout-change", w), Lays(w, tmux.windows[w].layout))
          /\ \/ Has(s, Says("layout-change", w)) \/ Has(s, Says("window-add", w))
             \/ Found(w).here /\ Found(w).layout = tmux.windows[w].layout
        BY <1>2 DEF Mirrors, Stays, s
    <2> QED BY <1>2, <1>7, <2>1
<1>10. Goes'
    <2> SUFFICES ASSUME NEW w \in Windows, ~tmux.windows[w].here
                 PROVE  /\ Ensue(u, Touches(w), Says("window-close", w))
                        /\ Found(w).here => Has(u, Says("window-close", w))
        BY <1>1, <1>6 DEF Goes, u
    <2>1. /\ Ensue(s, Touches(w), Says("window-close", w))
          /\ Found(w).here => Has(s, Says("window-close", w))
        BY DEF Mirrors, Goes, s
    <2> QED BY <1>2, <1>7, <2>1
<1>11. Views'
    <2>1. /\ LastIn(s, Switches, Says("session-window-changed", tmux.window))
          /\ told /\ ~Has(s, Switches) =>
               \/ model.window = tmux.window
               \/ model.window = None /\ Opens(s, Says("layout-change", tmux.window))
        BY DEF Mirrors, Views, s
    <2>2. LastIn(u, Switches, Says("session-window-changed", tmux.window))
        BY <1>2, <2>1
    <2>3. Opens(s, Says("layout-change", tmux.window)) => Opens(u, Says("layout-change", tmux.window))
        BY <1>2, <1>7
    <2> QED BY <1>1, <1>7, <2>1, <2>2, <2>3 DEF Views, u
<1> QED BY <1>8, <1>9, <1>10, <1>11 DEF Mirrors

\* An event is folded: what it said is in the model, or it will be pulled.
LEMMA ReadEventMirrored ==
    ASSUME TypeOK, tmux \in Servers, Served, Mirrors, ReadEvent(mine)
    PROVE  Mirrors'
<1> DEFINE s == Unread
           l == Head(s)
           u == Unread'
<1>1. mine \in Slots /\ Take(mine) /\ UNCHANGED <<tmux, mine>> /\ model \in Models
    BY TypeOKIs DEF Served, ReadEvent, Take
<1>2. /\ l \in Line /\ Reader.at = "read"
      /\ \A K : Has(s, K) <=> l \in K \/ Has(u, K)
      /\ \A K, G : LastIn(s, K, G) => LastIn(u, K, G) /\ (l \in K => Has(u, K) \/ l \in G)
      /\ \A K, G : Ensue(s, K, G) => Ensue(u, K, G) /\ (l \in K => Has(u, G))
      /\ \A K : Opens(s, K) => \/ l \in K
                               \/ l.verb \in {"begin", "end", "error"} /\ Opens(u, K)
      /\ Paired(u) /\ ~Has(u, Exits)
      /\ \A w \in Windows : w >= tmux.nextw => ~Has(u, About(w))
    BY <1>1, Rest
<1>3. /\ model' = Fold(model, l)
      /\ Move(mine, IF Topology(l, model') THEN "pull" ELSE "read", FALSE, None)
      /\ told' = (told \/ l.verb = "session-window-changed")
    BY DEF ReadEvent, Unread
<1>4. /\ Reader'.at = IF Topology(l, model') THEN "pull" ELSE "read"
      /\ Reader'.block = FALSE
    <2>1. Reader' = reader'[mine]
        BY <1>1 DEF Reader
    <2> QED BY <1>1, <1>3, <2>1, MoveIs
<1>5. \A w \in Windows : Found(w) = model.windows[w] /\ Found(w)' = model'.windows[w]
    BY <1>2, <1>4 DEF Found
<1> HIDE DEF s, l, u
<1>6. /\ \A w \in Windows :
           /\ model'.windows[w].here <=>
                  \/ l.w = w /\ l.verb \in Touching
                  \/ model.windows[w].here /\ ~(l.verb = "window-close" /\ l.w = w)
           /\ l.verb = "layout-change" /\ l.w = w => model'.windows[w].layout = l.ps
           /\ model.windows[w].here /\ ~(l.verb \in {"layout-change", "window-close"} /\ l.w = w)
                  => model'.windows[w].layout = model.windows[w].layout
      /\ l.verb = "session-window-changed" => model'.window = l.w
      /\ model.window # None /\ l.verb # "session-window-changed"
             /\ ~(l.verb = "window-close" /\ l.w = model.window) => model'.window = model.window
      /\ model.window = None /\ l.verb = "layout-change" => model'.window = l.w
      /\ l.verb \in {"begin", "end", "error", "exit"} => model' = model
    BY <1>1, <1>2, <1>3, FoldSound
<1>7. /\ \A v, w : l \in Says(v, w) <=> l.verb = v /\ l.w = w
      /\ \A w, ps : l \in Lays(w, ps) <=> l.verb = "layout-change" /\ l.w = w /\ l.ps = ps
      /\ \A w : l \in Touches(w) <=> l.w = w /\ l.verb \in Touching
      /\ l \in Switches <=> l.verb = "session-window-changed"
    BY <1>2 DEF Says, Lays, Touches, Switches, Touching
<1>8. \A v, w : Has(s, Says(v, w)) <=> (l.verb = v /\ l.w = w) \/ Has(u, Says(v, w))
    BY <1>2, <1>7
<1>9. Whole'
    BY <1>1, <1>2, <1>4 DEF Mirrors, Whole, Alive, u
<1>10. Stays'
    <2> SUFFICES ASSUME NEW w \in Windows, tmux.windows[w].here
                 PROVE  /\ ~Has(u, Says("window-close", w))
                        /\ LastIn(u, Says("layout-change", w), Lays(w, tmux.windows[w].layout))
                        /\ \/ Has(u, Says("layout-change", w)) \/ Has(u, Says("window-add", w))
                           \/ Topology(l, model')
                           \/ /\ model'.windows[w].here
                              /\ model'.windows[w].layout = tmux.windows[w].layout
        BY <1>1, <1>4, <1>5 DEF Stays, u
    <2>1. /\ ~Has(s, Says("window-close", w))
          /\ LastIn(s, Says("layout-change", w), Lays(w, tmux.windows[w].layout))
          /\ \/ Has(s, Says("layout-change", w)) \/ Has(s, Says("window-add", w))
             \/ /\ model.windows[w].here
                /\ model.windows[w].layout = tmux.windows[w].layout
        BY <1>2, <1>5 DEF Mirrors, Stays, s
    <2>2. /\ ~Has(u, Says("window-close", w)) /\ ~(l.verb = "window-close" /\ l.w = w)
          /\ LastIn(u, Says("layout-change", w), Lays(w, tmux.windows[w].layout))
        BY <1>2, <1>8, <2>1
    <2>3. CASE l.verb = "layout-change" /\ l.w = w
        <3>1. Has(u, Says("layout-change", w)) \/ l.ps = tmux.windows[w].layout
            BY <1>2, <1>7, <2>1, <2>3
        <3> QED BY <1>6, <2>2, <2>3, <3>1 DEF Touching
    <2>4. CASE l.verb = "window-add" /\ l.w = w
        BY <2>2, <2>4 DEF Topology
    <2>5. CASE ~(l.w = w /\ l.verb \in {"layout-change", "window-add"})
        BY <1>6, <1>8, <2>1, <2>2, <2>5
    <2> QED BY <2>3, <2>4, <2>5
<1>11. Goes'
    <2> SUFFICES ASSUME NEW w \in Windows, ~tmux.windows[w].here
                 PROVE  /\ Ensue(u, Touches(w), Says("window-close", w))
                        /\ model'.windows[w].here => Has(u, Says("window-close", w))
        BY <1>1, <1>5 DEF Goes, u
    <2>1. /\ Ensue(s, Touches(w), Says("window-close", w))
          /\ model.windows[w].here => Has(s, Says("window-close", w))
        BY <1>5 DEF Mirrors, Goes, s
    <2>2. /\ Ensue(u, Touches(w), Says("window-close", w))
          /\ l.w = w /\ l.verb \in Touching => Has(u, Says("window-close", w))
        BY <1>2, <1>7, <2>1
    <2> QED BY <1>6, <1>8, <2>1, <2>2
<1>12. Views'
    <2> DEFINE c == tmux.window
    <2>1. /\ LastIn(s, Switches, Says("session-window-changed", c))
          /\ told /\ ~Has(s, Switches) =>
               \/ model.window = c
               \/ model.window = None /\ Opens(s, Says("layout-change", c))
        BY DEF Mirrors, Views, s
    <2>2. /\ LastIn(u, Switches, Says("session-window-changed", c))
          /\ l.verb = "session-window-changed" => Has(u, Switches) \/ l.w = c
        BY <1>2, <1>7, <2>1
    <2> SUFFICES ASSUME told', ~Has(u, Switches)
                 PROVE  \/ model'.window = c
                        \/ model'.window = None /\ Opens(u, Says("layout-change", c))
        BY <1>1, <2>2 DEF Views, u
    <2>3. CASE l.verb = "session-window-changed"
        BY <1>6, <2>2, <2>3
    <2>4. CASE l.verb # "session-window-changed"
        <3>1. told /\ ~Has(s, Switches)
            BY <1>2, <1>3, <1>7, <2>4
        <3>2. CASE model.window = c
            <4>1. c # None /\ c \in Windows
                BY DEF Mirrors, Whole, Alive, TypeOK
            <4>2. tmux.windows[c].here
                BY <4>1 DEF Servers
            <4>3. ~Has(s, Says("window-close", c))
                BY <4>1, <4>2 DEF Mirrors, Stays, s
            <4> QED BY <1>6, <1>8, <2>4, <3>2, <4>1, <4>3
        <3>3. CASE model.window = None /\ Opens(s, Says("layout-change", c))
            <4>1. CASE l \in Says("layout-change", c)
                BY <1>6, <1>7, <3>3, <4>1
            <4>2. CASE l.verb \in {"begin", "end", "error"} /\ Opens(u, Says("layout-change", c))
                BY <1>6, <3>3, <4>2
            <4> QED BY <1>2, <3>3, <4>1, <4>2
        <3> QED BY <2>1, <3>1, <3>2, <3>3
    <2> QED BY <2>3, <2>4
<1> QED BY <1>9, <1>10, <1>11, <1>12 DEF Mirrors

\* The look at tmux finds every window.
LEMMA PullMirrored ==
    ASSUME TypeOK, Served, Mirrors, Pull(mine)
    PROVE  Mirrors'
<1>1. mine \in Slots /\ UNCHANGED <<tmux, mine, model, told, lines>> /\ Reader.at = "pull"
    BY DEF Served, TypeOK, Pull, Reader, history
<1>2. Alive /\ tmux.windows \in [Windows -> Window]
    BY DEF Mirrors, Whole, TypeOK
<1>3. Move(mine, "fix", FALSE, tmux.windows)
    BY <1>2 DEF Pull
<1>4. Reader'.at = "fix" /\ Reader'.block = FALSE /\ Reader'.pulled = tmux.windows
    <2>1. Reader' = reader'[mine]
        BY <1>1 DEF Reader
    <2> QED BY <1>1, <1>2, <1>3, <2>1, MoveIs
<1>5. tmux.windows # None
    BY <1>2, Bounds
<1>6. \A w \in Windows : /\ Found(w) = model.windows[w]
                         /\ Found(w)' = IF tmux.windows[w].here THEN tmux.windows[w] ELSE model.windows[w]
    BY <1>1, <1>4, <1>5 DEF Found
<1>7. UNCHANGED Unread
    BY <1>1 DEF Unread
<1>8. Whole'
    BY <1>1, <1>4, <1>7 DEF Mirrors, Whole, Alive
<1>9. Stays'
    BY <1>1, <1>6, <1>7 DEF Mirrors, Stays
<1>10. Goes'
    BY <1>1, <1>6, <1>7 DEF Mirrors, Goes
<1>11. Views'
    BY <1>1, <1>7 DEF Mirrors, Views
<1> QED BY <1>8, <1>9, <1>10, <1>11 DEF Mirrors

\* What was found is written to the model.
LEMMA FixModel ==
    ASSUME TypeOK, NEW r \in Slots, Fix(r)
    PROVE  /\ model' \in Models /\ model'.window = model.window
           /\ \A w \in Windows :
                LET pulled == reader[r].pulled
                    found == IF pulled # None /\ pulled[w].here THEN pulled[w] ELSE model.windows[w]
                IN  /\ model'.windows[w].here <=> (pulled # None /\ pulled[w].here) \/ model.windows[w].here
                    /\ model'.windows[w].layout = found.layout
<1> DEFINE pulled == reader[r].pulled
           m == IF pulled = None THEN model ELSE Merge(model, pulled)
<1>1. model \in Models /\ pulled \in [Windows -> Window] \cup {None}
    BY TypeOKIs
<1>2. model' = FixPane(m)
    BY DEF Fix
<1>3. CASE pulled = None
    <2>1. m = model
        BY <1>3
    <2> HIDE DEF pulled, m
    <2>2. model' \in Models /\ model'.windows = model.windows /\ model'.window = model.window
        BY <1>1, <1>2, <2>1, FixSound
    <2> QED BY <1>3, <2>2 DEF pulled
<1>4. CASE pulled # None
    <2> HIDE DEF pulled
    <2>1. m = Merge(model, pulled) /\ pulled \in [Windows -> Window]
        BY <1>1, <1>4
    <2> HIDE DEF m
    <2>2. /\ m \in Models /\ m.window = model.window
          /\ \A w \in Windows :
               /\ m.windows[w].here <=> pulled[w].here \/ model.windows[w].here
               /\ m.windows[w].layout = IF pulled[w].here THEN pulled[w].layout
                                                         ELSE model.windows[w].layout
        BY <1>1, <2>1, MergeSound
    <2>3. model' \in Models /\ model'.windows = m.windows /\ model'.window = m.window
        BY <1>2, <2>2, FixSound
    <2> QED BY <1>4, <2>2, <2>3 DEF pulled
<1> QED BY <1>3, <1>4

LEMMA FixMirrored ==
    ASSUME TypeOK, Served, Mirrors, Fix(mine)
    PROVE  Mirrors'
<1>1. mine \in Slots /\ UNCHANGED <<tmux, mine, told, lines>> /\ Reader.at = "fix"
    BY DEF Served, TypeOK, Fix, Reader
<1>2. Move(mine, "read", FALSE, None)
    BY DEF Fix
<1>3. Reader'.at = "read" /\ Reader'.block = FALSE
    <2>1. Reader' = reader'[mine]
        BY <1>1 DEF Reader
    <2> QED BY <1>1, <1>2, <2>1, MoveIs
<1>4. model'.window = model.window
    BY <1>1, FixModel
<1>5. \A w \in Windows : (Found(w)'.here <=> Found(w).here) /\ Found(w)'.layout = Found(w).layout
    <2> SUFFICES ASSUME NEW w \in Windows
                 PROVE  (Found(w)'.here <=> Found(w).here) /\ Found(w)'.layout = Found(w).layout
        OBVIOUS
    <2>1. Found(w)' = model'.windows[w]
        BY <1>3 DEF Found
    <2>2. Found(w) = IF Reader.pulled # None /\ Reader.pulled[w].here
                     THEN Reader.pulled[w] ELSE model.windows[w]
        BY <1>1 DEF Found
    <2>3. /\ model'.windows[w].here <=>
                 (Reader.pulled # None /\ Reader.pulled[w].here) \/ model.windows[w].here
          /\ model'.windows[w].layout = Found(w).layout
        BY <1>1, <2>2, FixModel DEF Reader
    <2> QED BY <2>1, <2>2, <2>3
<1>6. UNCHANGED Unread
    BY <1>1 DEF Unread
<1>7. Whole'
    BY <1>1, <1>3, <1>6 DEF Mirrors, Whole, Alive
<1>8. Stays'
    BY <1>1, <1>5, <1>6 DEF Mirrors, Stays
<1>9. Goes'
    BY <1>1, <1>5, <1>6 DEF Mirrors, Goes
<1>10. Views'
    BY <1>1, <1>4, <1>6 DEF Mirrors, Views
<1> QED BY <1>7, <1>8, <1>9, <1>10 DEF Mirrors

-----------------------------------------------------------------------------
(* Clients come and go.                                                    *)

LEMMA InitOneClient == Init => OneClient
BY DEF Init, OneClient, Serving

\* What happens on the tmux side ends clients, and starts none.
LEMMA ServerClients ==
    ASSUME TypeOK, OneClient, Op \/ ServerEnds
    PROVE  OneClient'
<1>1. CASE Op
    BY <1>1 DEF Op, OneClient, Serving
<1>2. CASE ServerEnds
    <2>1. client' = [r \in Slots |-> IF client[r] = "up" THEN "ended" ELSE client[r]]
          /\ running' = running
        BY <1>2 DEF ServerEnds, Up
    <2>2. \A r \in Slots : Serving(r)' <=> Serving(r)
        BY <2>1 DEF Serving, TypeOK
    <2> QED BY <2>1, <2>2 DEF OneClient
<1> QED BY <1>1, <1>2

\* A new client comes when there is none.
LEMMA StartClients ==
    ASSUME TypeOK, OneClient, NEW r \in Slots, Start(r)
    PROVE  OneClient'
<1>1. ~running /\ running' = TRUE /\ client' = [client EXCEPT ![r] = "up"]
    BY DEF Start
<1>2. \A s \in Slots : ~Serving(s)
    BY <1>1 DEF OneClient
<1>3. \A s \in Slots : Serving(s)' <=> s = r
    BY <1>1, <1>2 DEF Serving, TypeOK
<1> QED BY <1>1, <1>3 DEF OneClient

\* The client ends, and the task that waits for it clears the flag.
LEMMA EndClients ==
    ASSUME TypeOK, OneClient, NEW r \in Slots, ClientEnds(r) \/ Waits(r)
    PROVE  OneClient'
<1>1. CASE ClientEnds(r)
    <2>1. client[r] = "up" /\ client' = [client EXCEPT ![r] = "ended"] /\ running' = running
        BY <1>1 DEF ClientEnds
    <2>2. \A s \in Slots : Serving(s)' <=> Serving(s)
        BY <2>1 DEF Serving, TypeOK
    <2> QED BY <2>1, <2>2 DEF OneClient
<1>2. CASE Waited(r)
    <2>1. client[r] = "ended" /\ client' = [client EXCEPT ![r] = "cleared"] /\ running' = FALSE
        BY <1>2 DEF Waited
    <2>2. \A s \in Slots : ~Serving(s)'
        BY <2>1 DEF Serving, TypeOK, OneClient
    <2> QED BY <2>1, <2>2 DEF OneClient
<1>3. CASE Resets(r)
    <2>1. client[r] = "cleared" /\ client' = [client EXCEPT ![r] = "off"] /\ running' = running
        BY <1>3 DEF Resets
    <2>2. \A s \in Slots : Serving(s)' <=> Serving(s)
        BY <2>1 DEF Serving, TypeOK
    <2> QED BY <2>1, <2>2 DEF OneClient
<1> QED BY <1>1, <1>2, <1>3 DEF Waits

\* A reader touches neither the clients nor the flag.
LEMMA ReadClients ==
    ASSUME OneClient, NEW r \in Slots, Reads(r)
    PROVE  OneClient' /\ UNCHANGED <<tmux, client, running, mine, ops>>
<1>1. UNCHANGED <<tmux, client, running, mine, ops>>
    BY DEF Reads, ReadReply, ReadExit, ReadEvent, Take, Pull, Fix, Eof, history
<1> QED BY <1>1 DEF OneClient, Serving

\* The client that is served is the one that runs.
LEMMA ServedIs ==
    ASSUME TypeOK, OneClient, Served
    PROVE  /\ mine \in Slots /\ client[mine] = "up" /\ running /\ ~torn
           /\ \A r \in Slots : Serving(r) => r = mine
BY DEF TypeOK, OneClient, Served, Serving

-----------------------------------------------------------------------------
(* The steps.                                                              *)

LEMMA InitKept == Init => IInv
<1> SUFFICES ASSUME Init PROVE IInv
    OBVIOUS
<1>1. /\ tmux = NoServer /\ model = NewModel /\ mine = None /\ ops = 0
      /\ running = FALSE /\ torn = FALSE /\ told = FALSE
      /\ client = [r \in Slots |-> "off"] /\ lines = [r \in Slots |-> <<>>]
      /\ reader = [r \in Slots |-> NoReader]
    BY DEF Init
<1>2. tmux \in Servers /\ tmux \in ServerFields /\ model \in Models
    BY <1>1, NoServerIs, NewModelIs DEF Servers, ServerFields
<1>3. /\ client \in [Slots -> {"off", "up", "ended", "cleared"}] /\ lines \in [Slots -> Seq(Line)]
      /\ reader \in [Slots -> [at : {"off", "read", "pull", "fix"}, block : BOOLEAN,
                               pulled : [Windows -> Window] \cup {None}]]
    <2>1. <<>> \in Seq(Line)
        BY EmptySeq
    <2> QED BY <1>1, <2>1 DEF NoReader
<1>4. 0 \in 0..MaxOps
    BY Bounds
<1>5. TypeOK
    BY <1>1, <1>2, <1>3, <1>4, TypeOKIs
<1>6. ~Served
    BY <1>1 DEF Served
<1> QED BY <1>2, <1>5, <1>6, InitOneClient DEF IInv

LEMMA ServerKept ==
    ASSUME IInv, Server
    PROVE  IInv'
<1>1. ASSUME Op, Told(tmux') PROVE IInv'
    BY <1>1, OpKept, ServerClients DEF IInv
<1>2. ASSUME NEW w \in Windows, NEW p \in Panes, NEW q \in Panes, PaneEnds(w, p, q) PROVE IInv'
    BY <1>1, <1>2, ToldPaneEnds DEF IInv, PaneEnds
<1>3. ASSUME NEW w \in Windows, NEW v \in Windows, WindowEnds(w, v) PROVE IInv'
    BY <1>1, <1>3, ToldWindowEnds DEF IInv, WindowEnds
<1>4. ASSUME NEW w \in Windows, NEW p \in Panes, SelectPane(w, p) PROVE IInv'
    BY <1>1, <1>4, ToldSelectPane DEF IInv, SelectPane
<1>5. ASSUME NEW w \in Windows, Split(w) PROVE IInv'
    BY <1>1, <1>5, ToldSplit DEF IInv, Split
<1>6. ASSUME NEW w \in Windows, SelectWindow(w) PROVE IInv'
    BY <1>1, <1>6, ToldSelectWindow DEF IInv, SelectWindow
<1>7. ASSUME NewWindow PROVE IInv'
    BY <1>1, <1>7, ToldNewWindow DEF IInv, NewWindow
<1>8. ASSUME Reply \/ (\E w \in Windows : Rename(w)) \/ (\E p \in Panes : Output(p)) PROVE IInv'
    <2>1. Told(tmux')
        BY <1>8, ToldOther DEF IInv
    <2>2. Op
        BY <1>8 DEF Reply, Rename, Output
    <2> QED BY <1>1, <2>1, <2>2
<1>9. ASSUME ServerEnds PROVE IInv'
    <2>1. PICK w \in Windows : Write(<<L("window-close", w, <<>>), L("exit", None, <<>>)>>)
        BY <1>9 DEF ServerEnds
    <2>2. <<L("window-close", w, <<>>), L("exit", None, <<>>)>> \in Seq(Line)
        BY LineIs, SaysTwo
    <2>3. lines' \in [Slots -> Seq(Line)]
        BY <2>1, <2>2, WriteIs DEF IInv, TypeOK
    <2>4. /\ tmux' = NoServer /\ ops' \in 0..MaxOps
          /\ client' = [r \in Slots |-> IF r \in Up THEN "ended" ELSE client[r]]
          /\ UNCHANGED <<reader, running, model, history>>
        BY <1>9, OpsIs DEF ServerEnds, IInv, TypeOK
    <2>5. tmux' \in Servers /\ tmux' \in ServerFields
        BY <2>4, NoServerIs DEF Servers, ServerFields
    <2>6. client' \in [Slots -> {"off", "up", "ended", "cleared"}]
        BY <2>4 DEF IInv, TypeOK
    <2>7. TypeOK'
        BY <2>3, <2>4, <2>5, <2>6 DEF IInv, TypeOK, ServerFields, history
    <2>8. ~Served'
        <3>1. \A r \in Slots : client'[r] # "up"
            BY <2>4 DEF Up
        <3> QED BY <2>7, <3>1 DEF TypeOK, Served
    <2> QED BY <1>9, <2>5, <2>7, <2>8, ServerClients DEF IInv
<1> QED BY <1>2, <1>3, <1>4, <1>5, <1>6, <1>7, <1>8, <1>9 DEF Server

\* A client that ended is not served any more.
LEMMA ClientEndsKept ==
    ASSUME IInv, NEW r \in Slots, ClientEnds(r)
    PROVE  IInv'
<1>1. PICK last \in {<<>>, <<L("exit", None, <<>>)>>, <<L("begin", None, <<>>)>>} : Write(last)
    BY DEF ClientEnds
<1>2. last \in Seq(Line)
    <2>1. <<L("exit", None, <<>>)>> \in Seq(Line) /\ <<L("begin", None, <<>>)>> \in Seq(Line)
        BY LineIs, SaysOne
    <2>2. <<>> \in Seq(Line)
        BY EmptySeq
    <2> QED BY <2>1, <2>2
<1>3. lines' \in [Slots -> Seq(Line)]
    BY <1>1, <1>2, WriteIs DEF IInv, TypeOK
<1>4. /\ client[r] = "up" /\ ops' \in 0..MaxOps /\ client' = [client EXCEPT ![r] = "ended"]
      /\ UNCHANGED <<tmux, reader, running, model, history>>
    BY OpsIs DEF ClientEnds, IInv, TypeOK
<1>5. client' \in [Slots -> {"off", "up", "ended", "cleared"}]
    BY <1>4 DEF IInv, TypeOK
<1>6. TypeOK' /\ tmux' \in Servers
    BY <1>3, <1>4, <1>5 DEF IInv, TypeOK, history
<1>7. ~Served'
    <2>1. Served' => client[mine] = "up" /\ mine # r /\ mine \in Slots
        BY <1>4, <1>6 DEF Served, TypeOK, IInv, history
    <2>2. mine \in Slots /\ client[mine] = "up" => mine = r
        BY <1>4 DEF IInv, OneClient, Serving
    <2> QED BY <2>1, <2>2
<1> QED BY <1>6, <1>7, EndClients DEF IInv

LEMMA WaitsKept ==
    ASSUME IInv, NEW r \in Slots, Waits(r)
    PROVE  IInv'
<1>1. CASE Waited(r)
    <2>1. /\ client' = [client EXCEPT ![r] = "cleared"] /\ running' = FALSE
          /\ UNCHANGED <<tmux, lines, reader, model, mine, torn, told, ops>>
        BY <1>1 DEF Waited, history
    <2>2. client' \in [Slots -> {"off", "up", "ended", "cleared"}]
        BY <2>1 DEF IInv, TypeOK
    <2>3. TypeOK' /\ tmux' \in Servers
        BY <2>1, <2>2 DEF IInv, TypeOK
    <2>4. Served' => Served
        BY <2>1, <2>3 DEF Served, TypeOK, IInv
    <2>5. Served' => Mirrors'
        BY <2>1, <2>4, Unmoved DEF IInv
    <2> QED BY <2>3, <2>5, EndClients DEF IInv, Waits
<1>2. CASE Resets(r)
    <2>1. /\ client[r] = "cleared" /\ client' = [client EXCEPT ![r] = "off"] /\ model' = NewModel
          /\ Tears(r) /\ UNCHANGED <<tmux, lines, reader, running, mine, told, ops>>
        BY <1>2 DEF Resets
    <2>2. /\ client' \in [Slots -> {"off", "up", "ended", "cleared"}] /\ model' \in Models
          /\ torn' \in BOOLEAN
        BY <2>1, NewModelIs DEF IInv, TypeOK, Tears
    <2>3. TypeOK' /\ tmux' \in Servers
        BY <2>1, <2>2 DEF IInv, TypeOK, Models
    <2>4. ~Served'
        <3>1. Served' => mine \in Slots /\ client[mine] = "up" /\ r # mine /\ ~torn'
            BY <2>1, <2>3 DEF Served, TypeOK, IInv
        <3>2. mine \in Slots /\ client[mine] = "up" => running
            BY DEF IInv, OneClient, Serving
        <3> QED BY <2>1, <3>1, <3>2 DEF Tears
    <2> QED BY <2>3, <2>4, EndClients DEF IInv, Waits
<1> QED BY <1>1, <1>2 DEF Waits

LEMMA ReadsTyped ==
    ASSUME TypeOK, OneClient, NEW r \in Slots, Reads(r)
    PROVE  /\ TypeOK'
           /\ \A x \in Slots : x # r => lines'[x] = lines[x] /\ reader'[x] = reader[x]
<1>1. UNCHANGED <<tmux, client, running, mine, ops>>
    BY ReadClients
<1>2. ASSUME lines' \in [Slots -> Seq(Line)], reader' \in [Slots -> Readers],
             model' \in Models, torn' \in BOOLEAN, told' \in BOOLEAN
      PROVE  TypeOK'
    BY <1>1, <1>2 DEF TypeOK, Readers, Models
<1>3. /\ lines \in [Slots -> Seq(Line)] /\ model \in Models
      /\ torn \in BOOLEAN /\ told \in BOOLEAN
      /\ reader[r].pulled \in [Windows -> Window] \cup {None}
      /\ (Tears(r) => torn' \in BOOLEAN)
    BY TypeOKIs DEF Tears
<1>4. CASE ReadReply(r)
    <2>1. Take(r) /\ Move(r, "read", ~ReplyEnds(Head(lines[r])), None) /\ UNCHANGED <<model, torn, told>>
        BY <1>4 DEF ReadReply
    <2>2. lines' \in [Slots -> Seq(Line)] /\ \A x \in Slots : x # r => lines'[x] = lines[x]
        BY <2>1, TakeIs
    <2>3. (~ReplyEnds(Head(lines[r]))) \in BOOLEAN
        BY DEF ReplyEnds
    <2>4. reader' \in [Slots -> Readers] /\ \A x \in Slots : x # r => reader'[x] = reader[x]
        BY <2>1, <2>3, MoveIs
    <2> QED BY <1>2, <1>3, <2>1, <2>2, <2>4
<1>5. CASE ReadExit(r)
    <2>1. /\ reader' = [reader EXCEPT ![r] = NoReader] /\ lines' = [lines EXCEPT ![r] = <<>>]
          /\ UNCHANGED <<model, torn, told>>
        BY <1>5 DEF ReadExit, history
    <2>2. reader' \in [Slots -> Readers] /\ \A x \in Slots : x # r => reader'[x] = reader[x]
        BY <2>1, ReaderOff
    <2>3. lines' \in [Slots -> Seq(Line)] /\ \A x \in Slots : x # r => lines'[x] = lines[x]
        <3>1. <<>> \in Seq(Line)
            BY EmptySeq
        <3> QED BY <1>3, <2>1, <3>1
    <2> QED BY <1>2, <1>3, <2>1, <2>2, <2>3
<1>6. CASE ReadEvent(r)
    <2> DEFINE l == Head(lines[r])
               at == IF Topology(l, Fold(model, l)) THEN "pull" ELSE "read"
    <2>1. /\ Take(r) /\ model' = Fold(model, l) /\ Move(r, at, FALSE, None) /\ Tears(r)
          /\ told' = (told \/ (r = mine /\ l.verb = "session-window-changed"))
        BY <1>6 DEF ReadEvent
    <2>2. l \in Line /\ lines' \in [Slots -> Seq(Line)] /\ \A x \in Slots : x # r => lines'[x] = lines[x]
        BY <2>1, TakeIs
    <2>3. at \in {"off", "read", "pull", "fix"}
        OBVIOUS
    <2> HIDE DEF l, at
    <2>4. reader' \in [Slots -> Readers] /\ \A x \in Slots : x # r => reader'[x] = reader[x]
        BY <2>1, <2>3, MoveIs
    <2>5. model' \in Models
        BY <1>3, <2>1, <2>2, FoldSound
    <2>6. torn' \in BOOLEAN /\ told' \in BOOLEAN
        BY <1>3, <2>1
    <2> QED BY <1>2, <2>2, <2>4, <2>5, <2>6
<1>7. CASE Pull(r)
    <2> DEFINE pulled == IF Alive THEN tmux.windows ELSE None
    <2>1. Move(r, "fix", FALSE, pulled) /\ UNCHANGED <<lines, model, torn, told>>
        BY <1>7 DEF Pull, history
    <2>2. pulled \in [Windows -> Window] \cup {None}
        BY DEF TypeOK
    <2> HIDE DEF pulled
    <2>3. reader' \in [Slots -> Readers] /\ \A x \in Slots : x # r => reader'[x] = reader[x]
        BY <2>1, <2>2, MoveIs
    <2> QED BY <1>2, <1>3, <2>1, <2>3
<1>8. CASE Fix(r)
    <2>1. Move(r, "read", FALSE, None) /\ Tears(r) /\ UNCHANGED <<lines, told>>
        BY <1>8 DEF Fix
    <2>2. reader' \in [Slots -> Readers] /\ \A x \in Slots : x # r => reader'[x] = reader[x]
        BY <2>1, MoveIs
    <2>3. model' \in Models
        BY <1>8, FixModel
    <2> QED BY <1>2, <1>3, <2>1, <2>2, <2>3
<1>9. CASE Eof(r)
    <2>1. reader' = [reader EXCEPT ![r] = NoReader] /\ UNCHANGED <<lines, model, torn, told>>
        BY <1>9 DEF Eof, history
    <2>2. reader' \in [Slots -> Readers] /\ \A x \in Slots : x # r => reader'[x] = reader[x]
        BY <2>1, ReaderOff
    <2> QED BY <1>2, <1>3, <2>1, <2>2
<1> QED BY <1>4, <1>5, <1>6, <1>7, <1>8, <1>9 DEF Reads

LEMMA ReadsKept ==
    ASSUME IInv, NEW r \in Slots, Reads(r)
    PROVE  IInv'
<1>1. /\ TypeOK /\ OneClient /\ tmux \in Servers
      /\ OneClient' /\ UNCHANGED <<tmux, client, running, mine, ops>>
    BY ReadClients DEF IInv
<1>2. /\ TypeOK'
      /\ \A x \in Slots : x # r => lines'[x] = lines[x] /\ reader'[x] = reader[x]
    BY <1>1, ReadsTyped
<1> SUFFICES ASSUME Served' PROVE Mirrors'
    BY <1>1, <1>2 DEF IInv
<1>3. torn' = torn \/ (Tears(r) /\ (ReadEvent(r) \/ Fix(r)))
    BY DEF Reads, ReadReply, ReadExit, ReadEvent, Pull, Fix, Eof, history
<1>4. Served
    <2>1. ~torn
        BY <1>3 DEF Served, Tears
    <2> QED BY <1>1, <2>1 DEF Served
<1>5. Mirrors
    BY <1>4 DEF IInv
<1>6. /\ mine \in Slots /\ client[mine] = "up" /\ running
    BY <1>1, <1>4, ServedIs
<1>7. CASE r # mine
    <2>1. ~Tears(r)
        BY <1>6, <1>7 DEF Served, Tears
    <2>2. UNCHANGED <<model, told>>
        BY <2>1 DEF Reads, ReadReply, ReadExit, ReadEvent, Pull, Fix, Eof, history
    <2>3. lines'[mine] = lines[mine] /\ reader'[mine] = reader[mine]
        BY <1>2, <1>6, <1>7
    <2> QED BY <1>1, <1>5, <2>2, <2>3, Unmoved
<1>8. CASE r = mine
    <2>1. ~Eof(r)
        BY <1>6, <1>8 DEF Eof
    <2>2. ~ReadExit(r)
        <3> SUFFICES ASSUME ReadExit(r) PROVE FALSE
            OBVIOUS
        <3>1. /\ Unread \in Seq(Line) /\ Unread # <<>> /\ Head(Unread).verb = "exit"
              /\ ~Has(Unread, Exits)
            BY <1>1, <1>5, <1>6, <1>8 DEF ReadExit, Unread, TypeOK, Mirrors, Whole
        <3>2. Head(Unread) \in Exits
            BY <3>1, HeadTailProperties DEF Exits
        <3> QED BY <3>1, <3>2, Taken
    <2> QED BY <1>1, <1>4, <1>5, <1>8, <2>1, <2>2,
               ReadReplyMirrored, ReadEventMirrored, PullMirrored, FixMirrored DEF Reads
<1> QED BY <1>7, <1>8

-----------------------------------------------------------------------------
(* The theorems.                                                           *)

\* The model is a mirror of tmux at every moment: see Mirrors.
THEOREM Invariant == Spec => []IInv
<1>1. IInv /\ [Next]_vars => IInv'
    <2> SUFFICES ASSUME IInv, [Next]_vars PROVE IInv'
        OBVIOUS
    <2>1. CASE UNCHANGED vars
        <3>1. UNCHANGED <<tmux, client, lines, reader, running, model, mine, torn, told, ops>>
            BY <2>1 DEF vars
        <3>2. TypeOK' /\ tmux' \in Servers /\ OneClient'
            BY <3>1 DEF IInv, TypeOK, OneClient, Serving
        <3>3. Served' => Served
            BY <3>1 DEF Served
        <3>4. Served' => Mirrors'
            BY <3>1, <3>3, Unmoved DEF IInv
        <3> QED BY <3>2, <3>4 DEF IInv
    <2>2. ASSUME NEW r \in Slots, Start(r) PROVE IInv'
        BY <2>2, StartKept, StartClients DEF IInv
    <2> QED BY <2>1, <2>2, ServerKept, ClientEndsKept, ReadsKept, WaitsKept DEF Next
<1> QED BY InitKept, <1>1, PTL DEF Spec

THEOREM TypeCorrect == Spec => []TypeOK
<1>1. IInv => TypeOK
    BY DEF IInv
<1> QED BY <1>1, Invariant, PTL

\* ensure_started and the waiting task: there is never a second control client,
\* and mymuxd knows whether there is one, whatever the readers and the waiters of
\* earlier clients still do.
THEOREM OneControlClient == Spec => []OneClient
<1>1. IInv => OneClient
    BY DEF IInv
<1> QED BY <1>1, Invariant, PTL

\* The reader that has read everything has tmux's windows and their panes in the
\* model, and shows tmux's current window once it was told of one.
THEOREM ModelMirrorsTmux == Spec => []Synced
<1>1. IInv => Synced
    <2> SUFFICES ASSUME IInv, Drained, ~torn
                 PROVE  /\ Layouts(model.windows) = Layouts(tmux.windows)
                        /\ told => model.window = tmux.window
        BY DEF Synced
    <2>1. Mirrors /\ Unread = <<>> /\ Reader.at = "read" /\ model \in Models /\ tmux \in Servers
        BY TypeOKIs DEF IInv, Served, Drained, Unread, Reader
    <2>2. /\ \A K : ~Has(Unread, K)
          /\ \A K : ~Opens(Unread, K)
        BY <2>1 DEF Has, Opens
    <2>3. \A w \in Windows : Found(w) = model.windows[w]
        BY <2>1 DEF Found
    <2>4. ASSUME NEW w \in Windows
          PROVE  /\ model.windows[w].here = tmux.windows[w].here
                 /\ model.windows[w].layout = tmux.windows[w].layout
        <3>1. CASE tmux.windows[w].here
            <4>1. model.windows[w].here /\ model.windows[w].layout = tmux.windows[w].layout
                BY <2>1, <2>2, <2>3, <3>1 DEF Mirrors, Stays
            <4>2. model.windows[w].here \in BOOLEAN /\ tmux.windows[w].here \in BOOLEAN
                BY <2>1 DEF Models, Servers, Window
            <4> QED BY <3>1, <4>1, <4>2
        <3>2. CASE ~tmux.windows[w].here
            <4>1. ~model.windows[w].here
                BY <2>1, <2>2, <2>3, <3>2 DEF Mirrors, Goes
            <4>2. model.windows[w] = Gone /\ tmux.windows[w] = Gone
                BY <2>1, <3>2, <4>1 DEF Models, Servers
            <4> QED BY <4>2
        <3> QED BY <3>1, <3>2
    <2>5. Layouts(model.windows) = Layouts(tmux.windows)
        BY <2>4 DEF Layouts
    <2>6. told => model.window = tmux.window
        BY <2>1, <2>2 DEF Mirrors, Views
    <2> QED BY <2>5, <2>6
<1> QED BY <1>1, Invariant, PTL
=============================================================================
