---------------------------- MODULE TunnelProofs ----------------------------
(***************************************************************************)
(* Proofs about the tunnel supervisor, for any capacity of the status      *)
(* channel and any number of link drops, missed probes and daemon crashes. *)
(* IInv is the inductive invariant: the types, what the strike counter     *)
(* remembers, and how the installer's runs relate to the counted rounds.   *)
(***************************************************************************)
EXTENDS Tunnel, TLAPS

USE TunnelAssumption DEF TunnelAssumption, supVars, uiVars, hostVars, fixed, bounds, vars

Steps == {"connecting", "leasing", "starting", "probing", "serving", "ended", "meta",
          "installing", "waiting", "stopped"}
Verdicts == {"ok", "auth_failed", "host_key_unknown", "host_key_mismatch"}

(* TypeOK in parts, and the types that only matter here. *)
SupOK ==
  /\ pc \in Steps /\ end \in Statuses \cup {"none"}
  /\ sess \in {"none", "live", "dead"} /\ auth \in Verdicts
  /\ pc \in {"ended", "meta"} => end \in Statuses
ChanOK == chan \in Seq(Statuses) /\ Len(chan) <= ChanCap
UiOK   == stored \in (Statuses \ {"note"}) \cup {"none"} /\ why \in BOOLEAN
HostOK == installed \in Versions \cup {"none"} /\ running \in Versions \cup {"none"}

(* A strike that counts against the link was the last thing a probe met. *)
Strikes ==
  /\ misses \in 0 .. 2
  /\ pc = "serving" => misses <= 1 /\ (misses > 0 => last = "miss")

(* Every installer run of a streak belongs to a counted round. *)
Streak ==
  /\ tries \in 0 .. 3 /\ installs \in 0 .. 2 /\ installs <= tries
  /\ pc # "stopped" => tries <= 2
  /\ pc \in {"meta", "installing"} => installs < tries

(* The inductive invariant. *)
IInv == SupOK /\ ChanOK /\ UiOK /\ HostOK /\ Strikes /\ Streak

(* The initial states satisfy it. *)
LEMMA InitIInv == Init => IInv
<1> SUFFICES ASSUME Init PROVE IInv
  OBVIOUS
<1>1. SupOK
  BY DEF Init, SupOK, Steps, Verdicts
<1>2. ChanOK
  BY DEF Init, ChanOK
<1>3. UiOK
  BY DEF Init, UiOK
<1>4. HostOK
  BY DEF Init, HostOK
<1>5. Strikes /\ Streak
  BY DEF Init, Strikes, Streak
<1> QED BY <1>1, <1>2, <1>3, <1>4, <1>5 DEF IInv

(* A status that is sent fits the channel. *)
LEMMA SendType ==
  ASSUME ChanOK, NEW s \in Statuses, Send(s)
  PROVE  ChanOK'
  BY DEF ChanOK, Send


(* What the installer leaves on the host are versions. *)
LEMMA InstallType ==
  ASSUME HostOK, InstallHost
  PROVE  HostOK'
<1>1. AfterInstall.disk = (IF installed # "none" /\ quality["new"] = "dead" THEN installed ELSE "new")
  BY DEF AfterInstall
<1>2. AfterInstall.proc \in {installed, "new", "none"}
  BY DEF AfterInstall
<1> QED BY <1>1, <1>2 DEF InstallHost, HostOK, Versions


(* Every action keeps the types of the supervisor's state. *)
LEMMA SupStep ==
  ASSUME IInv, Next
  PROVE  SupOK'
<1>1. ASSUME Begin PROVE SupOK'
  BY <1>1 DEF Begin, IInv, SupOK, Steps, Verdicts, Statuses, Terminal, Fatal
<1>2. ASSUME LeaseForServing PROVE SupOK'
  BY <1>2 DEF LeaseForServing, LeaseOk, LeaseError, IInv, SupOK, Steps, Verdicts, Statuses, Terminal, Fatal
<1>3. ASSUME StartDaemon PROVE SupOK'
  BY <1>3 DEF StartDaemon, IInv, SupOK, Steps, Verdicts, Statuses, Terminal, Fatal
<1>4. ASSUME ProbeAnswered PROVE SupOK'
  BY <1>4 DEF ProbeAnswered, IInv, SupOK, Steps, Verdicts, Statuses, Terminal, Fatal
<1>5. ASSUME ProbesExhausted PROVE SupOK'
  BY <1>5 DEF ProbesExhausted, IInv, SupOK, Steps, Verdicts, Statuses, Terminal, Fatal
<1>6. ASSUME AcceptFails PROVE SupOK'
  BY <1>6 DEF AcceptFails, IInv, SupOK, Steps, Verdicts, Statuses, Terminal, Fatal
<1>7. ASSUME HealthOk PROVE SupOK'
  BY <1>7 DEF HealthOk, IInv, SupOK, Steps, Verdicts, Statuses, Terminal, Fatal
<1>8. ASSUME FirstMiss PROVE SupOK'
  BY <1>8 DEF FirstMiss, ProbeMissed, IInv, SupOK, Steps, Verdicts, Statuses, Terminal, Fatal
<1>9. ASSUME SecondMiss PROVE SupOK'
  BY <1>9 DEF SecondMiss, ProbeMissed, IInv, SupOK, Steps, Verdicts, Statuses, Terminal, Fatal
<1>10. ASSUME Retry PROVE SupOK'
  BY <1>10 DEF Retry, Reported, IInv, SupOK, Steps, Verdicts, Statuses, Terminal, Fatal
<1>11. ASSUME GiveUp PROVE SupOK'
  BY <1>11 DEF GiveUp, Stop, IInv, SupOK, Steps, Verdicts, Statuses, Terminal, Fatal
<1>12. ASSUME Unreachable PROVE SupOK'
  BY <1>12 DEF Unreachable, Stop, IInv, SupOK, Steps, Verdicts, Statuses, Terminal, Fatal
<1>13. ASSUME Audit PROVE SupOK'
  BY <1>13 DEF Audit, Stop, LeaseOk, IInv, SupOK, Steps, Verdicts, Statuses, Terminal, Fatal
<1>14. ASSUME InstallDone PROVE SupOK'
  BY <1>14 DEF InstallDone, IInv, SupOK, Steps, Verdicts, Statuses, Terminal, Fatal
<1>15. ASSUME InstallFails PROVE SupOK'
  BY <1>15 DEF InstallFails, Stop, IInv, SupOK, Steps, Verdicts, Statuses, Terminal, Fatal
<1>16. ASSUME WaitOver PROVE SupOK'
  BY <1>16 DEF WaitOver, IInv, SupOK, Steps, Verdicts, Statuses, Terminal, Fatal
<1>17. ASSUME Forward PROVE SupOK'
  BY <1>17 DEF Forward, IInv, SupOK, Steps, Verdicts, Statuses, Terminal, Fatal
<1>18. ASSUME LinkDrops PROVE SupOK'
  BY <1>18 DEF LinkDrops, IInv, SupOK, Steps, Verdicts, Statuses, Terminal, Fatal
<1>19. ASSUME NetReturns PROVE SupOK'
  BY <1>19 DEF NetReturns, IInv, SupOK, Steps, Verdicts, Statuses, Terminal, Fatal
<1>20. ASSUME DaemonDies PROVE SupOK'
  BY <1>20 DEF DaemonDies, IInv, SupOK, Steps, Verdicts, Statuses, Terminal, Fatal
<1>21. ASSUME Over PROVE SupOK'
  BY <1>21 DEF Over, IInv, SupOK, Steps, Verdicts, Statuses, Terminal, Fatal
<1> QED BY <1>1, <1>2, <1>3, <1>4, <1>5, <1>6, <1>7, <1>8, <1>9, <1>10, <1>11, <1>12, <1>13, <1>14, <1>15, <1>16, <1>17, <1>18, <1>19, <1>20, <1>21 DEF Next, Supervise, Serve

(* Every action sends statuses that fit the channel, or none. *)
LEMMA ChanStep ==
  ASSUME IInv, Next
  PROVE  ChanOK'
<1>1. ASSUME Begin PROVE ChanOK'
  <2>1. "connecting" \in Statuses
    BY DEF Statuses, Terminal
  <2>2. Send("connecting")
    BY <1>1 DEF Begin
  <2> QED BY <2>1, <2>2, SendType DEF IInv
<1>2. ASSUME LeaseForServing PROVE ChanOK'
  BY <1>2 DEF LeaseForServing, IInv, ChanOK
<1>3. ASSUME StartDaemon PROVE ChanOK'
  BY <1>3 DEF StartDaemon, IInv, ChanOK
<1>4. ASSUME ProbeAnswered PROVE ChanOK'
  <2>1. "connected" \in Statuses
    BY DEF Statuses, Terminal
  <2>2. Send("connected")
    BY <1>4 DEF ProbeAnswered
  <2> QED BY <2>1, <2>2, SendType DEF IInv
<1>5. ASSUME ProbesExhausted PROVE ChanOK'
  <2>1. "note" \in Statuses
    BY DEF Statuses, Terminal
  <2>2. Send("note")
    BY <1>5 DEF ProbesExhausted
  <2> QED BY <2>1, <2>2, SendType DEF IInv
<1>6. ASSUME AcceptFails PROVE ChanOK'
  <2>1. "note" \in Statuses
    BY DEF Statuses, Terminal
  <2>2. Send("note")
    BY <1>6 DEF AcceptFails
  <2> QED BY <2>1, <2>2, SendType DEF IInv
<1>7. ASSUME HealthOk PROVE ChanOK'
  BY <1>7 DEF HealthOk, IInv, ChanOK
<1>8. ASSUME FirstMiss PROVE ChanOK'
  <2>1. "note" \in Statuses
    BY DEF Statuses, Terminal
  <2>2. Send("note")
    BY <1>8 DEF FirstMiss, ProbeMissed
  <2> QED BY <2>1, <2>2, SendType DEF IInv
<1>9. ASSUME SecondMiss PROVE ChanOK'
  <2>1. "note" \in Statuses
    BY DEF Statuses, Terminal
  <2>2. Send("note")
    BY <1>9 DEF SecondMiss, ProbeMissed
  <2> QED BY <2>1, <2>2, SendType DEF IInv
<1>10. ASSUME Retry PROVE ChanOK'
  <2>1. Reported(end) \in Statuses
    BY <1>10 DEF Retry, Reported, Statuses, Terminal, Fatal, IInv, SupOK
  <2>2. Send(Reported(end))
    BY <1>10 DEF Retry, Stop
  <2> QED BY <2>1, <2>2, SendType DEF IInv
<1>11. ASSUME GiveUp PROVE ChanOK'
  <2>1. end \in Statuses
    BY <1>11 DEF GiveUp, Reported, Statuses, Terminal, Fatal, IInv, SupOK
  <2>2. Send(end)
    BY <1>11 DEF GiveUp, Stop
  <2> QED BY <2>1, <2>2, SendType DEF IInv
<1>12. ASSUME Unreachable PROVE ChanOK'
  <2>1. Send("error") \/ UNCHANGED chan
    BY <1>12 DEF Unreachable, Stop
  <2> QED BY <2>1, SendType DEF IInv, ChanOK, Statuses, Terminal
<1>13. ASSUME Audit PROVE ChanOK'
  <2>1. Send("error") \/ Send(end) \/ Send("installing")
    BY <1>13 DEF Audit, Stop
  <2>2. end \in Statuses
    BY <1>13 DEF Audit, IInv, SupOK
  <2>3. "error" \in Statuses /\ "installing" \in Statuses
    BY DEF Statuses, Terminal
  <2> QED BY <2>1, <2>2, <2>3, SendType DEF IInv
<1>14. ASSUME InstallDone PROVE ChanOK'
  BY <1>14 DEF InstallDone, IInv, ChanOK
<1>15. ASSUME InstallFails PROVE ChanOK'
  <2>1. Send("error")
    BY <1>15 DEF InstallFails, Stop
  <2> QED BY <2>1, SendType DEF IInv, Statuses, Terminal
<1>16. ASSUME WaitOver PROVE ChanOK'
  BY <1>16 DEF WaitOver, IInv, ChanOK
<1>17. ASSUME Forward PROVE ChanOK'
  BY <1>17 DEF Forward, IInv, ChanOK
<1>18. ASSUME LinkDrops PROVE ChanOK'
  BY <1>18 DEF LinkDrops, IInv, ChanOK
<1>19. ASSUME NetReturns PROVE ChanOK'
  BY <1>19 DEF NetReturns, IInv, ChanOK
<1>20. ASSUME DaemonDies PROVE ChanOK'
  BY <1>20 DEF DaemonDies, IInv, ChanOK
<1>21. ASSUME Over PROVE ChanOK'
  BY <1>21 DEF Over, IInv, ChanOK
<1> QED BY <1>1, <1>2, <1>3, <1>4, <1>5, <1>6, <1>7, <1>8, <1>9, <1>10, <1>11, <1>12, <1>13, <1>14, <1>15, <1>16, <1>17, <1>18, <1>19, <1>20, <1>21 DEF Next, Supervise, Serve

(* The interface never stores a note as a phase. *)
LEMMA UiStep ==
  ASSUME IInv, Next
  PROVE  UiOK'
<1>1. CASE Forward
  <2>1. Head(chan) \in Statuses
    BY <1>1 DEF Forward, IInv, ChanOK
  <2>2. stored' = Phase(Head(chan))
    BY <1>1 DEF Forward
  <2>3. why' \in BOOLEAN
    <3>1. CASE Head(chan) \in {"note", "error"}
      BY <1>1, <3>1 DEF Forward
    <3>2. CASE Head(chan) = "connected"
      BY <1>1, <3>2 DEF Forward
    <3>3. CASE Head(chan) \notin {"note", "error", "connected"}
      BY <1>1, <3>3 DEF Forward, IInv, UiOK
    <3> QED BY <3>1, <3>2, <3>3
  <2>4. stored' \in (Statuses \ {"note"}) \cup {"none"}
    BY <2>1, <2>2 DEF Phase, IInv, UiOK
  <2> QED BY <2>3, <2>4 DEF UiOK
<1>2. CASE ~Forward
  <2>1. UNCHANGED uiVars
    BY <1>2 DEF Next, Supervise, Serve, Begin, LeaseForServing, StartDaemon, ProbeAnswered,
       ProbesExhausted, AcceptFails, HealthOk, FirstMiss, SecondMiss, ProbeMissed, Retry, GiveUp,
       Unreachable, Audit, InstallDone, InstallFails, WaitOver, LinkDrops, NetReturns, DaemonDies, Over
  <2> QED BY <2>1 DEF IInv, UiOK
<1> QED BY <1>1, <1>2

(* Installed and running daemons are versions. *)
LEMMA HostStep ==
  ASSUME IInv, Next
  PROVE  HostOK'
<1>1. CASE InstallHost
  BY <1>1, InstallType DEF IInv
<1>2. CASE StartDaemon
  BY <1>2 DEF StartDaemon, IInv, HostOK
<1>3. CASE DaemonDies
  BY <1>3 DEF DaemonDies, IInv, HostOK
<1>4. CASE ~InstallHost /\ ~StartDaemon /\ ~DaemonDies
  <2>1. UNCHANGED hostVars
    BY <1>4 DEF Next, Supervise, Serve, Begin, LeaseForServing, ProbeAnswered,
       ProbesExhausted, AcceptFails, HealthOk, FirstMiss, SecondMiss, ProbeMissed, Retry, GiveUp,
       Unreachable, Audit, InstallDone, InstallFails, WaitOver, Forward, LinkDrops, NetReturns, Over
  <2> QED BY <2>1 DEF IInv, HostOK
<1> QED BY <1>1, <1>2, <1>3, <1>4

(* A strike is set by a miss, cleared by a success, and the second one ends *)
(* the serving.                                                            *)
LEMMA StrikeStep ==
  ASSUME IInv, Next
  PROVE  Strikes'
<1>1. ASSUME Begin PROVE Strikes'
  BY <1>1 DEF Begin, IInv, Strikes
<1>2. ASSUME LeaseForServing PROVE Strikes'
  BY <1>2 DEF LeaseForServing, IInv, Strikes
<1>3. ASSUME StartDaemon PROVE Strikes'
  BY <1>3 DEF StartDaemon, IInv, Strikes
<1>4. ASSUME ProbeAnswered PROVE Strikes'
  BY <1>4 DEF ProbeAnswered, IInv, Strikes
<1>5. ASSUME ProbesExhausted PROVE Strikes'
  BY <1>5 DEF ProbesExhausted, IInv, Strikes
<1>6. ASSUME AcceptFails PROVE Strikes'
  BY <1>6 DEF AcceptFails, IInv, Strikes
<1>7. ASSUME HealthOk PROVE Strikes'
  BY <1>7 DEF HealthOk, ClearStrike, IInv, Strikes
<1>8. ASSUME FirstMiss PROVE Strikes'
  BY <1>8 DEF FirstMiss, ProbeMissed, IInv, Strikes
<1>9. ASSUME SecondMiss PROVE Strikes'
  BY <1>9 DEF SecondMiss, ProbeMissed, IInv, Strikes
<1>10. ASSUME Retry PROVE Strikes'
  BY <1>10 DEF Retry, IInv, Strikes
<1>11. ASSUME GiveUp PROVE Strikes'
  BY <1>11 DEF GiveUp, Stop, IInv, Strikes
<1>12. ASSUME Unreachable PROVE Strikes'
  BY <1>12 DEF Unreachable, Stop, IInv, Strikes
<1>13. ASSUME Audit PROVE Strikes'
  BY <1>13 DEF Audit, Stop, IInv, Strikes
<1>14. ASSUME InstallDone PROVE Strikes'
  BY <1>14 DEF InstallDone, IInv, Strikes
<1>15. ASSUME InstallFails PROVE Strikes'
  BY <1>15 DEF InstallFails, Stop, IInv, Strikes
<1>16. ASSUME WaitOver PROVE Strikes'
  BY <1>16 DEF WaitOver, IInv, Strikes
<1>17. ASSUME Forward PROVE Strikes'
  BY <1>17 DEF Forward, IInv, Strikes
<1>18. ASSUME LinkDrops PROVE Strikes'
  BY <1>18 DEF LinkDrops, IInv, Strikes
<1>19. ASSUME NetReturns PROVE Strikes'
  BY <1>19 DEF NetReturns, IInv, Strikes
<1>20. ASSUME DaemonDies PROVE Strikes'
  BY <1>20 DEF DaemonDies, IInv, Strikes
<1>21. ASSUME Over PROVE Strikes'
  BY <1>21 DEF Over, IInv, Strikes
<1> QED BY <1>1, <1>2, <1>3, <1>4, <1>5, <1>6, <1>7, <1>8, <1>9, <1>10, <1>11, <1>12, <1>13, <1>14, <1>15, <1>16, <1>17, <1>18, <1>19, <1>20, <1>21 DEF Next, Supervise, Serve

(* The breaker: a round is counted before the installer may run in it. *)
LEMMA StreakStep ==
  ASSUME IInv, Next
  PROVE  Streak'
<1>1. ASSUME Begin PROVE Streak'
  BY <1>1 DEF Begin, IInv, Streak
<1>2. ASSUME LeaseForServing PROVE Streak'
  BY <1>2 DEF LeaseForServing, IInv, Streak
<1>3. ASSUME StartDaemon PROVE Streak'
  BY <1>3 DEF StartDaemon, IInv, Streak
<1>4. ASSUME ProbeAnswered PROVE Streak'
  BY <1>4 DEF ProbeAnswered, IInv, Streak
<1>5. ASSUME ProbesExhausted PROVE Streak'
  BY <1>5 DEF ProbesExhausted, IInv, Streak
<1>6. ASSUME AcceptFails PROVE Streak'
  BY <1>6 DEF AcceptFails, IInv, Streak
<1>7. ASSUME HealthOk PROVE Streak'
  BY <1>7 DEF HealthOk, IInv, Streak
<1>8. ASSUME FirstMiss PROVE Streak'
  BY <1>8 DEF FirstMiss, ProbeMissed, IInv, Streak
<1>9. ASSUME SecondMiss PROVE Streak'
  BY <1>9 DEF SecondMiss, ProbeMissed, IInv, Streak
<1>10. ASSUME Retry PROVE Streak'
  BY <1>10 DEF Retry, IInv, Streak
<1>11. ASSUME GiveUp PROVE Streak'
  BY <1>11 DEF GiveUp, Stop, IInv, Streak
<1>12. ASSUME Unreachable PROVE Streak'
  BY <1>12 DEF Unreachable, Counted, Exhausted, Stop, IInv, Streak
<1>13. ASSUME Audit PROVE Streak'
  BY <1>13 DEF Audit, Stop, IInv, Streak
<1>14. ASSUME InstallDone PROVE Streak'
  BY <1>14 DEF InstallDone, IInv, Streak
<1>15. ASSUME InstallFails PROVE Streak'
  BY <1>15 DEF InstallFails, Stop, IInv, Streak
<1>16. ASSUME WaitOver PROVE Streak'
  BY <1>16 DEF WaitOver, IInv, Streak
<1>17. ASSUME Forward PROVE Streak'
  BY <1>17 DEF Forward, IInv, Streak
<1>18. ASSUME LinkDrops PROVE Streak'
  BY <1>18 DEF LinkDrops, IInv, Streak
<1>19. ASSUME NetReturns PROVE Streak'
  BY <1>19 DEF NetReturns, IInv, Streak
<1>20. ASSUME DaemonDies PROVE Streak'
  BY <1>20 DEF DaemonDies, IInv, Streak
<1>21. ASSUME Over PROVE Streak'
  BY <1>21 DEF Over, IInv, Streak
<1> QED BY <1>1, <1>2, <1>3, <1>4, <1>5, <1>6, <1>7, <1>8, <1>9, <1>10, <1>11, <1>12, <1>13, <1>14, <1>15, <1>16, <1>17, <1>18, <1>19, <1>20, <1>21 DEF Next, Supervise, Serve

(* IInv is inductive. *)
LEMMA StepIInv == IInv /\ [Next]_vars => IInv'
<1>1. ASSUME IInv, Next PROVE IInv'
  BY <1>1, SupStep, ChanStep, UiStep, HostStep, StrikeStep, StreakStep DEF IInv
<1>2. ASSUME IInv, UNCHANGED vars PROVE IInv'
  BY <1>2 DEF IInv, SupOK, ChanOK, UiOK, HostOK, Strikes, Streak
<1> QED BY <1>1, <1>2

(* The invariant holds in every state the supervisor reaches. *)
THEOREM Inductive == Spec => []IInv
  BY InitIInv, StepIInv, PTL DEF Spec

(* Every variable has its type: the counters stay in their ranges and the  *)
(* statuses in the channel's capacity (supervise, fold_status).            *)
THEOREM TypeCorrect == Spec => []TypeOK
<1>1. IInv => TypeOK
  BY DEF IInv, SupOK, ChanOK, UiOK, HostOK, Strikes, Streak, TypeOK, Steps
<1> QED BY <1>1, Inductive, PTL

(* The install / roll back / install oscillation is broken whatever the    *)
(* network, the probes and the daemon do (daemon_tries in supervise).      *)
THEOREM BreakerHolds == Spec => []InstallerBreaks
<1>1. IInv => InstallerBreaks
  BY DEF IInv, Streak, InstallerBreaks
<1> QED BY <1>1, Inductive, PTL

(* A live link is given up only after two missed probes in a row, with no  *)
(* success in between (the strikes of serve).                              *)
THEOREM LiveLinksGetASecondChance == Spec => TwoStrikes
<1>1. ASSUME IInv, Next, pc = "serving", pc' = "ended", Answers
      PROVE  last = "miss" /\ last' = "miss"
  <2>1. SecondMiss
    BY <1>1 DEF Next, Supervise, Serve, Begin, LeaseForServing, StartDaemon, ProbeAnswered,
       ProbesExhausted, AcceptFails, HealthOk, FirstMiss, Retry, GiveUp,
       Unreachable, Audit, InstallDone, InstallFails, WaitOver, Forward, LinkDrops, NetReturns,
       DaemonDies, Over
  <2> QED BY <1>1, <2>1 DEF SecondMiss, ProbeMissed, IInv, Strikes
<1>2. IInv /\ [Next]_vars =>
        [pc = "serving" /\ pc' = "ended" /\ Answers => last = "miss" /\ last' = "miss"]_vars
  BY <1>1
<1> QED BY <1>2, Inductive, PTL DEF Spec, TwoStrikes

---------------------------------------------------------------------------
(* Settled only at the end. *)

(* Every round that was unreachable is known as such until it is over. *)
Unanswered == pc = "meta" => end = "daemon_unreachable"

LEMMA UnansweredStep == Unanswered /\ [Next]_vars => Unanswered'
BY DEF Unanswered, Next, Supervise, Serve, Begin, LeaseForServing, StartDaemon, ProbeAnswered,
   ProbesExhausted, AcceptFails, HealthOk, FirstMiss, SecondMiss, ProbeMissed, Retry, GiveUp,
   Unreachable, Stop, Audit, InstallDone, InstallFails, WaitOver, Forward, LinkDrops, NetReturns,
   DaemonDies, Over

(* What is told is told in the order it was sent: a status that is sent    *)
(* comes last ...                                                          *)
LEMMA ToldSend ==
  ASSUME ChanOK, NEW s \in Statuses, Send(s), stored' = stored
  PROVE  /\ DOMAIN Told = 0 .. Len(chan) /\ Len(chan) \in Nat
         /\ DOMAIN Told' = 0 .. Len(chan) + 1
         /\ \A i \in DOMAIN Told : Told'[i] = Told[i]
         /\ Told'[Len(chan) + 1] = s
<1>1. chan \in Seq(Statuses) /\ chan' = Append(chan, s)
  BY DEF ChanOK, Send
<1>2. Len(chan) \in Nat /\ Len(chan') = Len(chan) + 1
  BY <1>1
<1>3. chan'[Len(chan) + 1] = s /\ \A i \in 1 .. Len(chan) : chan'[i] = chan[i]
  BY <1>1
<1> QED BY <1>2, <1>3 DEF Told

(* ... and the forwarder shows the first, which is then shown.             *)
LEMMA ToldForward ==
  ASSUME ChanOK, Forward
  PROVE  /\ DOMAIN Told = 0 .. Len(chan) /\ Len(chan) \in Nat /\ Len(chan) > 0
         /\ DOMAIN Told' = 0 .. Len(chan) - 1
         /\ Told'[0] = Phase(Told[1]) /\ Told[0] = stored
         /\ \A i \in 1 .. Len(chan) - 1 : Told'[i] = Told[i + 1]
<1>1. chan \in Seq(Statuses) /\ chan # <<>> /\ chan' = Tail(chan) /\ stored' = Phase(Head(chan))
  BY DEF ChanOK, Forward
<1>2. Len(chan) \in Nat /\ Len(chan) > 0 /\ Len(chan') = Len(chan) - 1 /\ Head(chan) = chan[1]
  BY <1>1
<1>3. \A i \in 1 .. Len(chan) - 1 : chan'[i] = chan[i + 1]
  BY <1>1
<1>4. \A i \in 1 .. Len(chan) : Told[i] = chan[i]
  BY <1>2 DEF Told
<1>5. \A i \in 1 .. Len(chan) - 1 : Told'[i] = chan'[i]
  BY <1>2 DEF Told
<1>6. Told'[0] = stored' /\ Told[0] = stored /\ DOMAIN Told = 0 .. Len(chan)
      /\ DOMAIN Told' = 0 .. Len(chan) - 1
  BY <1>2 DEF Told
<1> QED BY <1>1, <1>2, <1>3, <1>4, <1>5, <1>6

(* A status of an attempt that goes on is not terminal, and with a         *)
(* terminal one the attempt is over.                                       *)
LEMMA SettledSend ==
  ASSUME ChanOK, SettledOnlyAtTheEnd, NEW s \in Statuses, Send(s), stored' = stored,
         pc # "stopped", s \in Terminal <=> pc' = "stopped"
  PROVE  SettledOnlyAtTheEnd'
<1>1. /\ DOMAIN Told = 0 .. Len(chan) /\ Len(chan) \in Nat
      /\ DOMAIN Told' = 0 .. Len(chan) + 1
      /\ \A i \in DOMAIN Told : Told'[i] = Told[i]
      /\ Told'[Len(chan) + 1] = s
  BY ToldSend
<1>2. \A i \in DOMAIN Told : Told[i] \notin Terminal
  BY DEF SettledOnlyAtTheEnd
<1>3. \A i \in DOMAIN Told' : i \in DOMAIN Told \/ i = Len(chan) + 1
  BY <1>1
<1>4. ASSUME NEW i \in DOMAIN Told', Told'[i] \in Terminal
      PROVE  i = Len(chan) + 1 /\ pc' = "stopped"
  BY <1>1, <1>2, <1>3, <1>4
<1>5. pc' = "stopped" => \E i \in DOMAIN Told' : Told'[i] \in Terminal
  <2>1. Len(chan) + 1 \in DOMAIN Told'
    BY <1>1
  <2> QED BY <1>1, <2>1
<1>6. ASSUME NEW i \in DOMAIN Told', NEW j \in DOMAIN Told', i < j, Told'[i] \in Terminal
      PROVE  Told'[j] = "note"
  BY <1>1, <1>4, <1>6
<1> QED BY <1>4, <1>5, <1>6 DEF SettledOnlyAtTheEnd

LEMMA SettledForward ==
  ASSUME ChanOK, SettledOnlyAtTheEnd, Forward
  PROVE  SettledOnlyAtTheEnd'
<1>1. /\ DOMAIN Told = 0 .. Len(chan) /\ Len(chan) \in Nat /\ Len(chan) > 0
      /\ DOMAIN Told' = 0 .. Len(chan) - 1
      /\ Told'[0] = Phase(Told[1]) /\ Told[0] = stored
      /\ \A i \in 1 .. Len(chan) - 1 : Told'[i] = Told[i + 1]
  BY ToldForward
<1>2. Told'[0] = (IF Told[1] # "note" THEN Told[1] ELSE Told[0])
  BY <1>1 DEF Phase
<1>3. "note" \notin Terminal
  BY DEF Terminal, Fatal
<1>4. ASSUME NEW i \in DOMAIN Told', NEW j \in DOMAIN Told', i < j, Told'[i] \in Terminal
      PROVE  Told'[j] = "note"
  <2>1. j \in 1 .. Len(chan) - 1 /\ j + 1 \in DOMAIN Told /\ Told'[j] = Told[j + 1]
    BY <1>1, <1>4
  <2>2. CASE i = 0
    <3>1. 0 \in DOMAIN Told /\ 1 \in DOMAIN Told /\ 0 < j + 1 /\ 1 < j + 1
      BY <1>1, <2>1
    <3> QED BY <1>2, <1>4, <2>1, <2>2, <3>1 DEF SettledOnlyAtTheEnd
  <2>3. CASE i # 0
    <3>1. i + 1 \in DOMAIN Told /\ i + 1 < j + 1 /\ Told'[i] = Told[i + 1]
      BY <1>1, <1>4, <2>3
    <3> QED BY <1>4, <2>1, <3>1 DEF SettledOnlyAtTheEnd
  <2> QED BY <2>2, <2>3
<1>5. (\E i \in DOMAIN Told' : Told'[i] \in Terminal) <=> (\E i \in DOMAIN Told : Told[i] \in Terminal)
  <2>1. ASSUME NEW i \in DOMAIN Told', Told'[i] \in Terminal
        PROVE  \E k \in DOMAIN Told : Told[k] \in Terminal
    <3>1. CASE i = 0
      <4>1. 0 \in DOMAIN Told /\ 1 \in DOMAIN Told
        BY <1>1
      <4> QED BY <1>2, <2>1, <3>1, <4>1
    <3>2. CASE i # 0
      <4>1. i + 1 \in DOMAIN Told /\ Told'[i] = Told[i + 1]
        BY <1>1, <2>1, <3>2
      <4> QED BY <2>1, <4>1
    <3> QED BY <3>1, <3>2
  <2>2. ASSUME NEW i \in DOMAIN Told, Told[i] \in Terminal
        PROVE  \E k \in DOMAIN Told' : Told'[k] \in Terminal
    <3>0. 0 \in DOMAIN Told' /\ 0 \in DOMAIN Told /\ 1 \in DOMAIN Told
      BY <1>1
    <3>1. CASE i = 0
      <4>1. Told[1] = "note"
        BY <2>2, <3>0, <3>1 DEF SettledOnlyAtTheEnd
      <4> QED BY <1>2, <2>2, <3>0, <3>1, <4>1
    <3>2. CASE i = 1
      BY <1>2, <1>3, <2>2, <3>0, <3>2
    <3>3. CASE i \notin {0, 1}
      <4>1. i - 1 \in 1 .. Len(chan) - 1 /\ (i - 1) + 1 = i /\ i - 1 \in DOMAIN Told'
        BY <1>1, <2>2, <3>3
      <4> QED BY <1>1, <2>2, <4>1
    <3> QED BY <3>1, <3>2, <3>3
  <2> QED BY <2>1, <2>2
<1>6. pc' = pc
  BY DEF Forward
<1> QED BY <1>4, <1>5, <1>6 DEF SettledOnlyAtTheEnd

LEMMA SettledStep ==
  ASSUME IInv, Unanswered, SettledOnlyAtTheEnd, [Next]_vars
  PROVE  SettledOnlyAtTheEnd'
<1> USE DEF IInv, Statuses, Terminal, Fatal
<1>1. ASSUME chan' = chan, stored' = stored, pc # "stopped", pc' # "stopped"
      PROVE  SettledOnlyAtTheEnd'
  BY <1>1 DEF SettledOnlyAtTheEnd, Told
<1>2. CASE LeaseForServing \/ StartDaemon \/ HealthOk \/ InstallDone \/ WaitOver
  BY <1>1, <1>2 DEF LeaseForServing, StartDaemon, HealthOk, InstallDone, WaitOver
<1>3. CASE Begin
  BY <1>3, SettledSend DEF Begin
<1>4. CASE ProbeAnswered
  BY <1>4, SettledSend DEF ProbeAnswered
<1>5. CASE ProbesExhausted
  BY <1>5, SettledSend DEF ProbesExhausted
<1>6. CASE AcceptFails
  BY <1>6, SettledSend DEF AcceptFails
<1>7. CASE FirstMiss \/ SecondMiss
  BY <1>7, SettledSend DEF FirstMiss, SecondMiss, ProbeMissed
<1>8. CASE Retry
  <2>1. Reported(end) \in Statuses \ Terminal
    BY <1>8 DEF Retry, Reported, SupOK
  <2> QED BY <1>8, <2>1, SettledSend DEF Retry
<1>9. CASE GiveUp
  BY <1>9, SettledSend DEF GiveUp, Stop
<1>10. CASE Unreachable
  <2>1. CASE Stop("error")
    BY <1>10, <2>1, SettledSend DEF Unreachable, Stop
  <2>2. CASE pc' = "meta" /\ UNCHANGED chan
    BY <1>1, <1>10, <2>2 DEF Unreachable
  <2> QED BY <1>10, <2>1, <2>2 DEF Unreachable
<1>11. CASE Audit
  <2>1. CASE Stop("error")
    BY <1>11, <2>1, SettledSend DEF Audit, Stop
  <2>2. CASE Stop(end)
    BY <1>11, <2>2, SettledSend DEF Audit, Stop, Unanswered
  <2>3. CASE Send("installing") /\ pc' = "installing"
    BY <1>11, <2>3, SettledSend DEF Audit
  <2> QED BY <1>11, <2>1, <2>2, <2>3 DEF Audit
<1>12. CASE InstallFails
  BY <1>12, SettledSend DEF InstallFails, Stop
<1>13. CASE Forward
  BY <1>13, SettledForward
<1>14. CASE LinkDrops \/ NetReturns \/ DaemonDies \/ Over \/ UNCHANGED vars
  <2>1. chan' = chan /\ stored' = stored /\ pc' = pc
    BY <1>14 DEF LinkDrops, NetReturns, DaemonDies, Over
  <2> QED BY <2>1 DEF SettledOnlyAtTheEnd, Told
<1> QED BY <1>2, <1>3, <1>4, <1>5, <1>6, <1>7, <1>8, <1>9, <1>10, <1>11, <1>12, <1>13, <1>14
    DEF Next, Supervise, Serve

(* A transient failure never ends an attempt, and a settled one stays so,  *)
(* whatever the interface has still to be told.                            *)
THEOREM SettledIsOver == Spec => []SettledOnlyAtTheEnd
<1>1. Init => Unanswered /\ SettledOnlyAtTheEnd
  <2> SUFFICES ASSUME Init PROVE Unanswered /\ SettledOnlyAtTheEnd
    OBVIOUS
  <2>1. Len(chan) = 0 /\ stored = "none" /\ pc = "connecting"
    BY DEF Init
  <2>2. DOMAIN Told = {0} /\ Told[0] = "none"
    BY <2>1 DEF Told
  <2> QED BY <2>1, <2>2 DEF Unanswered, SettledOnlyAtTheEnd, Terminal, Fatal
<1>2. IInv /\ Unanswered /\ SettledOnlyAtTheEnd /\ [Next]_vars => Unanswered' /\ SettledOnlyAtTheEnd'
  BY SettledStep, UnansweredStep
<1> QED BY <1>1, <1>2, Inductive, PTL DEF Spec
=============================================================================
