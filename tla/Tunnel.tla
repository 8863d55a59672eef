------------------------------ MODULE Tunnel ------------------------------
(***************************************************************************)
(* The app's tunnel to one host: the supervisor that connects, serves and  *)
(* reconnects over one cached SSH session (the Master), the first-aid      *)
(* installer it runs when the daemon does not answer, and the task that    *)
(* folds the supervisor's statuses into the phase the user interface       *)
(* shows.  The host, its network and its daemon are the environment.       *)
(***************************************************************************)
EXTENDS Naturals, Sequences

CONSTANTS ChanCap,    \* capacity of the status channel (32 in the code)
          MaxDrops,   \* bound: times the link drops
          MaxJitter,  \* bound: health probes a live link misses
          MaxCrash    \* bound: times the daemon dies by itself

ASSUME TunnelAssumption ==
  ChanCap \in Nat \ {0} /\ MaxDrops \in Nat /\ MaxJitter \in Nat /\ MaxCrash \in Nat

Versions == {"old", "new"}            \* of the daemon; the app ships "new"
Fatal    == {"auth_failed", "host_key_unknown", "host_key_mismatch", "daemon_unreachable"}
Terminal == Fatal \cup {"error"}
Statuses == Terminal \cup {"connecting", "connected", "reconnecting", "installing", "note"}

VARIABLES
  pc,        \* where the supervisor is
  end,       \* how the current cycle ended
  misses,    \* consecutive health probes missed
  tries,     \* daemon_tries: consecutive rounds that ended DaemonUnreachable
  sess,      \* the Master's cached session: "none", "live" or "dead"
  chan,      \* statuses sent and not yet folded
  stored,    \* the phase the interface shows
  why,       \* it shows a reason as well
  net,       \* the host is reachable
  auth,      \* what the host makes of the user's key and we of the host's
  installed, running,   \* the daemon on disk and the one that runs
  quality,   \* per version: "ok", "mute" (runs, does not answer) or "dead"
  pin,       \* the app knows a bundle for this host
  last,      \* what the last health probe met: "ok" or "miss"
  installs,  \* installer runs in this streak of unreachable rounds, up to 3
  drops, jitter, crashes   \* what the environment has used of its bounds

supVars  == <<pc, end, misses, tries>>
uiVars   == <<stored, why>>
hostVars == <<installed, running>>
fixed    == <<auth, quality, pin>>
bounds   == <<drops, jitter, crashes>>
vars == <<supVars, sess, chan, uiVars, net, fixed, hostVars, last, installs, bounds>>

---------------------------------------------------------------------------
Init ==
  /\ pc = "connecting" /\ end = "none" /\ misses = 0 /\ tries = 0
  /\ sess = "none"
  /\ chan = <<>>
  /\ stored = "none" /\ why = FALSE
  /\ net \in BOOLEAN
  /\ auth \in {"ok", "auth_failed", "host_key_unknown", "host_key_mismatch"}
  /\ installed \in Versions \cup {"none"}
  /\ quality \in [Versions -> {"ok", "mute", "dead"}]
  /\ running \in {v \in {installed} \cap Versions : quality[v] # "dead"} \cup {"none"}
  /\ pin \in BOOLEAN
  /\ last = "ok" /\ installs = 0
  /\ drops = 0 /\ jitter = 0 /\ crashes = 0

(* A direct-tcpip channel to the daemon's port opens. *)
DaemonUp == running # "none" /\ quality[running] = "ok"
Answers  == sess = "live" /\ DaemonUp

(* status.send(..).await: waits for room in the channel. *)
Send(s) == Len(chan) < ChanCap /\ chan' = Append(chan, s)

Stop(s) == Send(s) /\ pc' = "stopped"

(* Master::lease: the live session, else one fresh authentication. *)
LeaseOk    == sess = "live" \/ (net /\ auth = "ok")
LeaseError == IF net THEN auth ELSE "error"

---------------------------------------------------------------------------
(* One connect-and-serve cycle. *)

Begin ==
  /\ pc = "connecting"
  /\ Send("connecting")
  /\ pc' = "leasing"
  /\ UNCHANGED <<end, misses, tries, sess, uiVars, net, fixed, hostVars, last, installs, bounds>>

LeaseForServing ==
  /\ pc = "leasing"
  /\ IF LeaseOk
     THEN sess' = "live" /\ pc' = "starting" /\ UNCHANGED end
     ELSE sess' = "none" /\ pc' = "ended" /\ end' = LeaseError
  /\ UNCHANGED <<misses, tries, chan, uiVars, net, fixed, hostVars, last, installs, bounds>>

(* The launch command, fire and forget: no effect if something runs. *)
StartDaemon ==
  /\ pc = "starting"
  /\ pc' = "probing"
  /\ running' = IF /\ sess = "live" /\ running = "none" /\ installed # "none"
                   /\ quality[installed] # "dead"
                THEN installed ELSE running
  /\ UNCHANGED <<end, misses, tries, sess, chan, uiVars, net, fixed, installed, last, installs, bounds>>

ProbeAnswered ==
  /\ pc = "probing"
  /\ Answers
  /\ Send("connected")
  /\ pc' = "serving" /\ misses' = 0 /\ last' = "ok"
  /\ UNCHANGED <<end, tries, sess, uiVars, net, fixed, hostVars, installs, bounds>>

(* All the probes failed, whatever the reason. *)
ProbesExhausted ==
  /\ pc = "probing"
  /\ ~Answers
  /\ Send("note")
  /\ pc' = "ended" /\ end' = "daemon_unreachable"
  /\ UNCHANGED <<misses, tries, sess, uiVars, net, fixed, hostVars, last, installs, bounds>>

(* A local connection whose channel does not open: forget the session. *)
AcceptFails ==
  /\ pc = "serving"
  /\ ~Answers
  /\ Send("note")
  /\ sess' = "none" /\ pc' = "ended" /\ end' = "reconnecting"
  /\ UNCHANGED <<misses, tries, uiVars, net, fixed, hostVars, last, installs, bounds>>

(* Mutant: a success does not clear the strike. *)
KeepStrike(m) == m

ClearStrike(m) == 0

HealthOk ==
  /\ pc = "serving"
  /\ sess = "live"
  /\ misses' = ClearStrike(misses)
  /\ last' = "ok"
  /\ UNCHANGED <<pc, end, tries, sess, chan, uiVars, net, fixed, hostVars, installs, bounds>>

(* A dead link always misses its probe, a live one now and then. *)
ProbeMissed ==
  /\ pc = "serving"
  /\ IF sess = "live" THEN jitter < MaxJitter /\ jitter' = jitter + 1 ELSE UNCHANGED jitter
  /\ Send("note")
  /\ misses' = misses + 1
  /\ last' = "miss"
  /\ UNCHANGED <<tries, uiVars, net, fixed, hostVars, installs, drops, crashes>>

FirstMiss == misses = 0 /\ ProbeMissed /\ UNCHANGED <<pc, end, sess>>

SecondMiss ==
  /\ misses > 0
  /\ ProbeMissed
  /\ sess' = "none" /\ pc' = "ended" /\ end' = "reconnecting"

---------------------------------------------------------------------------
(* The supervisor's verdict on a finished cycle. *)

(* Mutants: a transient failure is reported as it is; the breaker trips    *)
(* one round late; the rounds are not counted.                             *)
ReportAsIs(s)  == s
TripsLate(t)   == t > 3
NotCounted(t)  == t

(* A transient error rides out as a note; other ends are phases. *)
Reported(s) == IF s = "error" THEN "note" ELSE s

Exhausted(t) == t > 2

Counted(t) == t + 1

Retry ==
  /\ pc = "ended"
  /\ end \notin Fatal
  /\ Send(Reported(end))
  /\ pc' = "waiting"
  /\ tries' = 0 /\ installs' = 0
  /\ UNCHANGED <<end, misses, sess, uiVars, net, fixed, hostVars, last, bounds>>

GiveUp ==
  /\ pc = "ended"
  /\ end \in Fatal \ {"daemon_unreachable"}
  /\ Stop(end)
  /\ tries' = 0 /\ installs' = 0
  /\ UNCHANGED <<end, misses, sess, uiVars, net, fixed, hostVars, last, bounds>>

Unreachable ==
  /\ pc = "ended"
  /\ end = "daemon_unreachable"
  /\ tries' = Counted(tries)
  /\ IF Exhausted(tries')
     THEN Stop("error")
     ELSE pc' = "meta" /\ UNCHANGED chan
  /\ UNCHANGED <<end, misses, sess, uiVars, net, fixed, hostVars, last, installs, bounds>>

(* probe_daemon_meta: the version on disk against the one the app ships.   *)
Outdated == installed = "old" /\ pin

(* maybe_install up to the push, over a lease of its own; the lease or the *)
(* version probe may fail.                                                 *)
Audit ==
  /\ pc = "meta"
  /\ sess' = IF LeaseOk THEN "live" ELSE "none"
  /\ \/ Stop("error")
     \/ LeaseOk /\ ~Outdated /\ pin /\ Stop(end)
     \/ LeaseOk /\ ~pin /\ installed = "none" /\ Stop("error")
     \/ LeaseOk /\ (Outdated \/ (~pin /\ installed # "none"))
        /\ Send("installing") /\ pc' = "installing"
  /\ UNCHANGED <<end, misses, tries, uiVars, net, fixed, hostVars, last, installs, bounds>>

(* What the installer leaves on the host: the new daemon, or the previous  *)
(* one if the new one does not start; and whether a daemon runs at all.    *)
AfterInstall ==
  LET back == installed # "none" /\ quality["new"] = "dead" IN
  [disk |-> IF back THEN installed ELSE "new",
   proc |-> IF back THEN (IF quality[installed] # "dead" THEN installed ELSE "none")
            ELSE (IF quality["new"] # "dead" THEN "new" ELSE "none")]

InstallHost ==
  installed' = AfterInstall.disk /\ running' = AfterInstall.proc

(* Ok(true): the script exits 0, so some daemon runs; retry at once. *)
InstallDone ==
  /\ pc = "installing"
  /\ pin /\ sess = "live"
  /\ AfterInstall.proc # "none"
  /\ InstallHost
  /\ pc' = "connecting"
  /\ installs' = IF installs < 3 THEN installs + 1 ELSE installs
  /\ UNCHANGED <<end, misses, tries, sess, chan, uiVars, net, fixed, last, bounds>>

(* No bundle, a failed download or upload, a lost link or a script that    *)
(* exits 1: the host is as before or as the script left it.                *)
InstallFails ==
  /\ pc = "installing"
  /\ \/ UNCHANGED hostVars
     \/ pin /\ InstallHost
  /\ Stop("error")
  /\ UNCHANGED <<end, misses, tries, sess, uiVars, net, fixed, last, installs, bounds>>

(* The backoff is over. *)
WaitOver ==
  /\ pc = "waiting"
  /\ pc' = "connecting"
  /\ UNCHANGED <<end, misses, tries, sess, chan, uiVars, net, fixed, hostVars, last, installs, bounds>>

---------------------------------------------------------------------------
(* The forwarder task: fold_status. *)

Phase(s) ==
  IF s # "note" THEN s ELSE IF stored = "none" THEN "none" ELSE stored

Forward ==
  /\ chan # <<>>
  /\ chan' = Tail(chan)
  /\ stored' = Phase(Head(chan))
  /\ why' = CASE Head(chan) \in {"note", "error"} -> TRUE
              [] Head(chan) = "connected" -> FALSE
              [] OTHER -> why
  /\ UNCHANGED <<supVars, sess, net, fixed, hostVars, last, installs, bounds>>

---------------------------------------------------------------------------
(* The environment. *)

LinkDrops ==
  /\ drops < MaxDrops
  /\ drops' = drops + 1
  /\ sess' = IF sess = "live" THEN "dead" ELSE sess
  /\ net' \in BOOLEAN
  /\ UNCHANGED <<supVars, chan, uiVars, fixed, hostVars, last, installs, jitter, crashes>>

NetReturns ==
  /\ ~net
  /\ net' = TRUE
  /\ UNCHANGED <<supVars, sess, chan, uiVars, fixed, hostVars, last, installs, bounds>>

DaemonDies ==
  /\ running # "none"
  /\ crashes < MaxCrash
  /\ crashes' = crashes + 1
  /\ running' = "none"
  /\ UNCHANGED <<supVars, sess, chan, uiVars, net, fixed, installed, last, installs, drops, jitter>>

---------------------------------------------------------------------------
(* Supervisor and forwarder are done; the interface starts a new attempt. *)
Over == pc = "stopped" /\ chan = <<>> /\ UNCHANGED vars

Serve == AcceptFails \/ HealthOk \/ FirstMiss \/ SecondMiss

Supervise ==
  \/ Begin \/ LeaseForServing \/ StartDaemon \/ ProbeAnswered \/ ProbesExhausted
  \/ Serve
  \/ Retry \/ GiveUp \/ Unreachable \/ Audit \/ InstallDone \/ InstallFails \/ WaitOver

Next == Supervise \/ Forward \/ LinkDrops \/ NetReturns \/ DaemonDies \/ Over

(* Both tasks keep running; the network owes nothing. *)
Spec == Init /\ [][Next]_vars /\ WF_vars(Supervise) /\ WF_vars(Forward)

---------------------------------------------------------------------------
(* Properties. *)

(* Every variable has its type. *)
TypeOK ==
  /\ pc \in {"connecting", "leasing", "starting", "probing", "serving", "ended", "meta",
             "installing", "waiting", "stopped"}
  /\ end \in Statuses \cup {"none"} /\ misses \in 0 .. 2 /\ tries \in 0 .. 3
  /\ sess \in {"none", "live", "dead"}
  /\ chan \in Seq(Statuses) /\ Len(chan) <= ChanCap
  /\ stored \in (Statuses \ {"note"}) \cup {"none"} /\ why \in BOOLEAN
  /\ installed \in Versions \cup {"none"} /\ running \in Versions \cup {"none"}

(* What the interface shows, and what it is still to be told.              *)
Told == [i \in 0 .. Len(chan) |-> IF i = 0 THEN stored ELSE chan[i]]

(* An attempt is settled, by a fatal status or an Error, exactly when the  *)
(* supervisor has given up, and no phase follows: a transient failure      *)
(* never ends an attempt that is still going on.                           *)
SettledOnlyAtTheEnd ==
  /\ \A i, j \in DOMAIN Told : i < j /\ Told[i] \in Terminal => Told[j] = "note"
  /\ (\E i \in DOMAIN Told : Told[i] \in Terminal) <=> pc = "stopped"

(* The installer runs at most twice in a row without another outcome: the  *)
(* install / roll back / install oscillation is broken.                    *)
InstallerBreaks == installs <= 2

(* A link that is alive is given up for its health only when two probes in *)
(* a row missed, with no success in between.                               *)
TwoStrikes ==
  [][pc = "serving" /\ pc' = "ended" /\ Answers => last = "miss" /\ last' = "miss"]_vars

(* On a network that stays up the supervisor ends up serving or settled:   *)
(* it does not reconnect or install for ever.                              *)
SettlesOnStableNet == <>[]net => <>[](pc \in {"serving", "stopped"})

(* The documented role of the first-aid installer: a host without the      *)
(* daemon, for which the app has a bundle, is not left at                  *)
(* DaemonUnreachable.                                                      *)
MissingIsInstalled ==
  \A i \in DOMAIN Told : Told[i] = "daemon_unreachable" => ~(installed = "none" /\ pin)
===========================================================================
