-------------------------------- MODULE Repo --------------------------------
(***************************************************************************)
(* The handlers of mymuxd that write to the user's directories: POST       *)
(* /fs/write and the mutations of git (fs.rs, git.rs), against a user who  *)
(* edits, changes directory and runs git in the same places.               *)
(*                                                                         *)
(* A directory is a repository with one file. Of the file it matters       *)
(* whether it is there, a symbolic link, or torn by half a write, and      *)
(* whether git tracks it; of the repository, who holds index.lock and      *)
(* which sequencer is in progress. git is modelled by what the handlers    *)
(* rely on; a command of git is a leader with, maybe, a helper (a hook, a  *)
(* transport) in its process group.                                        *)
(***************************************************************************)
EXTENDS Naturals, FiniteSets

CONSTANTS
    Tasks,      \* requests in flight at once (bound)
    Roots,      \* directories that the pane's shell may be in
    Sequencers, \* sequencers that git may stop in
    None

ASSUME RepoAssumption ==
    /\ Sequencers \subseteq {"rebase", "merge", "cherry-pick", "revert"}
    /\ "rebase" \in Sequencers => "cherry-pick" \in Sequencers
    /\ None \notin {"rebase"} \cup Sequencers \cup Tasks \cup Roots
    /\ "stale" \notin Tasks \cup {None}

VARIABLES
    cwd,        \* the directory of the pane's shell
    file,       \* the file of each directory
    outside,    \* what a link points to is intact
    tracked,    \* directories whose file git knows
    lock,       \* who holds index.lock: nobody, a task, or a dead process
    op,         \* the sequencer in progress
    task,       \* the requests
    temps,      \* temporary files of saves
    helpers,    \* tasks whose command has a helper running
    steady      \* history: tasks since whose first probe op did not change

vars == <<cwd, file, outside, tracked, lock, op, task, temps, helpers, steady>>
tree == <<file, outside, tracked>>

Idle == [pc |-> "idle", verb |-> None, root |-> None, saw |-> None]

\* Commands of git that do the same to what is modelled have one name:
\* add, unstage, commit, amend / apply --cached,
Staging == {"add", "apply"}
\* reset, checkout, stash / merge, pull, rebase, cherry-pick, revert,
Moving == {"reset", "merge"}
\* fetch, push, branch, tag, and whatever only reads.
Refs == {"fetch"}

Verbs == Staging \cup Moving \cup Refs \cup {"discard", "clean", "restore", "op", "save"}

Steps == {"idle", "probe", "heads", "ready", "stdin", "run", "drain", "kill",
          "temp", "rename"}

TypeOK ==
    /\ cwd \in Roots
    /\ file \in [Roots -> {"none", "file", "link", "torn"}]
    /\ outside \in BOOLEAN /\ tracked \subseteq Roots
    /\ lock \in [Roots -> Tasks \cup {None, "stale"}]
    /\ op \in [Roots -> Sequencers \cup {None}]
    /\ task \in [Tasks -> [pc : Steps, verb : Verbs \cup {None},
                           root : Roots \cup {None},
                           saw : {None, "untracked", "tracked"} \cup Sequencers]]
    /\ \A r \in Roots : lock[r] \in Tasks =>
          task[lock[r]].root = r /\ task[lock[r]].pc \in {"stdin", "run"}
    /\ temps \subseteq Tasks /\ helpers \subseteq Tasks
    /\ steady \subseteq Tasks

Init ==
    /\ cwd \in Roots
    /\ file = [r \in Roots |-> "file"] /\ outside = TRUE /\ tracked = Roots
    /\ lock = [r \in Roots |-> None] /\ op = [r \in Roots |-> None]
    /\ task = [t \in Tasks |-> Idle]
    /\ temps = {} /\ helpers = {} /\ steady = {}

Busy(t) == task[t].pc # "idle"
At(t, pc) == task[t].pc = pc
Root(t) == task[t].root

Goto(t, pc) == task' = [task EXCEPT ![t].pc = pc]
Reply(t) == task' = [task EXCEPT ![t] = Idle]

\* A request that names a pane is rooted where the pane's shell is just now.
Requested(t, verb, pc) ==
    /\ ~Busy(t)
    /\ task' = [task EXCEPT ![t] = [pc |-> pc, verb |-> verb, root |-> cwd, saw |-> None]]

-----------------------------------------------------------------------------
(* POST /fs/write                                                          *)

\* mutant: the file is written where it is, through a link too
WriteInPlace(t) ==
    /\ Requested(t, "save", "rename")
    /\ IF file[cwd] = "link"
       THEN outside' = FALSE /\ UNCHANGED file
       ELSE file' = [file EXCEPT ![cwd] = "torn"] /\ UNCHANGED outside
    /\ temps' = temps \cup {t}
    /\ UNCHANGED <<cwd, tracked, lock, op, helpers>>

\* A link is refused; everything else gets a temporary file next to it.
Save(t) ==
    /\ file[cwd] # "link"
    /\ Requested(t, "save", "temp")
    /\ temps' = temps \cup {t}
    /\ UNCHANGED <<cwd, tree, lock, op, helpers>>

\* An error removes the temporary file again.
SaveFails(t) ==
    /\ At(t, "temp")
    /\ temps' = temps \ {t} /\ Reply(t)
    /\ UNCHANGED <<cwd, tree, lock, op, helpers>>

Written(t) ==
    /\ At(t, "temp") /\ Goto(t, "rename")
    /\ UNCHANGED <<cwd, tree, lock, op, temps, helpers>>

\* The rename takes the place of whatever is there by now.
Renamed(t) ==
    /\ At(t, "rename")
    /\ file' = [file EXCEPT ![Root(t)] = "file"]
    /\ temps' = temps \ {t} /\ Reply(t)
    /\ UNCHANGED <<cwd, outside, tracked, lock, op, helpers>>

-----------------------------------------------------------------------------
(* Requests that run git.                                                  *)

Indexed == Staging \cup Moving \cup {"restore", "op"}

\* git refuses to start on an index that is locked, if it is to write it.
Spawned(t, verb, root, pc) ==
    /\ task' = [task EXCEPT ![t] = [pc |-> pc, verb |-> verb, root |-> root, saw |-> None]]
    /\ lock' = IF verb \in Indexed THEN [lock EXCEPT ![root] = t] ELSE lock

Refused(verb, root) == verb \in Indexed /\ lock[root] # None

Starts(t, verb, root) ==
    \/ ~Refused(verb, root) /\ Spawned(t, verb, root, IF verb = "apply" THEN "stdin" ELSE "run")
    \/ Refused(verb, root) /\ Reply(t) /\ UNCHANGED lock

\* add, unstage, commit, amend, apply; the graph's mutations; reads.
Request(t) ==
    /\ ~Busy(t)
    /\ \E verb \in Staging \cup Moving \cup Refs : Starts(t, verb, cwd)
    /\ UNCHANGED <<cwd, tree, op, temps, helpers>>

\* discard and op ask git first what there is.
Ask(t) ==
    /\ \E verb \in {"discard", "op"} : Requested(t, verb, "probe")
    /\ UNCHANGED <<cwd, tree, lock, op, temps, helpers>>

Saw(t, s, pc) ==
    task' = [task EXCEPT ![t] = [pc |-> pc, verb |-> @.verb, root |-> @.root, saw |-> s]]

\* A probe that fails or times out says that the file is tracked.
ProbeFile(t) ==
    /\ At(t, "probe") /\ task[t].verb = "discard"
    /\ \/ Saw(t, "tracked", "ready")
       \/ Root(t) \notin tracked /\ Saw(t, "untracked", "ready")
    /\ UNCHANGED <<cwd, tree, lock, op, temps, helpers>>

\* run_op resolves the root of the request for the second time.
Discard(t) ==
    /\ At(t, "ready") /\ task[t].verb = "discard"
    /\ Starts(t, IF task[t].saw = "untracked" THEN "clean" ELSE "restore", cwd)
    /\ UNCHANGED <<cwd, tree, op, temps, helpers>>

\* A rebase that stopped at a conflict leaves CHERRY_PICK_HEAD, too.
Heads(r) == IF op[r] = "rebase" THEN {"cherry-pick"} ELSE {op[r]} \ {None}

\* mutant: the heads are looked at first
ProbeDirsLast(t) ==
    /\ At(t, "probe") /\ task[t].verb = "op"
    /\ IF Heads(Root(t)) # {} THEN \E s \in Heads(Root(t)) : Saw(t, s, "ready")
       ELSE IF op[Root(t)] = "rebase" THEN Saw(t, "rebase", "ready") ELSE Reply(t)
    /\ UNCHANGED <<cwd, tree, lock, op, temps, helpers>>

\* op_state: the directories of a rebase before the heads.
ProbeDirs(t) ==
    /\ At(t, "probe") /\ task[t].verb = "op"
    /\ IF op[Root(t)] = "rebase" THEN Saw(t, "rebase", "ready") ELSE Goto(t, "heads")
    /\ UNCHANGED <<cwd, tree, lock, op, temps, helpers>>

ProbeHeads(t) ==
    /\ At(t, "heads")
    /\ IF Heads(Root(t)) # {} THEN \E s \in Heads(Root(t)) : Saw(t, s, "ready") ELSE Reply(t)
    /\ UNCHANGED <<cwd, tree, lock, op, temps, helpers>>

Drive(t) ==
    /\ At(t, "ready") /\ task[t].verb = "op"
    /\ Starts(t, "op", Root(t))
    /\ UNCHANGED <<cwd, tree, op, temps, helpers>>
-----------------------------------------------------------------------------
(* A command of git under run_git or read_capped.                          *)

\* The patch is written to git inside the deadline.
Fed(t) ==
    /\ At(t, "stdin") /\ Goto(t, "run")
    /\ UNCHANGED <<cwd, tree, lock, op, temps, helpers>>

HelperStarts(t) ==
    /\ At(t, "run") /\ helpers' = helpers \cup {t}
    /\ UNCHANGED <<cwd, tree, lock, op, task, temps>>

HelperEnds ==
    /\ \E t \in helpers : helpers' = helpers \ {t}
    /\ UNCHANGED <<cwd, tree, lock, op, task, temps>>

\* The command's effect on the file, on what is tracked and the sequencer.
Done(verb, r) ==
    CASE verb = "add" ->
            tracked' = tracked \cup {r} /\ UNCHANGED <<file, op>>
      [] verb = "clean" ->
            /\ file' = IF r \in tracked THEN file ELSE [file EXCEPT ![r] = "none"]
            /\ UNCHANGED <<tracked, op>>
      [] verb \in {"restore", "reset"} ->
            /\ file' = IF r \in tracked THEN [file EXCEPT ![r] = "file"] ELSE file
            /\ op' = IF verb = "reset" THEN [op EXCEPT ![r] = IF @ = "rebase" THEN @ ELSE None]
                     ELSE op
            /\ UNCHANGED tracked
      [] verb = "merge" ->
            /\ \E s \in (IF op[r] = None THEN Sequencers ELSE {}) \cup {op[r]} :
                  op' = [op EXCEPT ![r] = s]
            /\ UNCHANGED <<file, tracked>>
      [] verb = "op" ->
            /\ \E s \in {op[r], None} : op' = [op EXCEPT ![r] = s]
            /\ UNCHANGED <<file, tracked>>
      [] OTHER -> UNCHANGED <<file, tracked, op>>

Freed(t) == [r \in Roots |-> IF lock[r] = t THEN None ELSE lock[r]]
\* mutant: nobody notices that a task that is gone has the lock
Held(t) == lock

Stale(t) == [r \in Roots |-> IF lock[r] = t THEN "stale" ELSE lock[r]]

\* The leader ends, for good or with an error. The reply waits for the end of
\* its output, which a helper may hold open.
LeaderEnds(t) ==
    /\ At(t, "run")
    /\ Done(task[t].verb, Root(t)) \/ UNCHANGED <<file, tracked, op>>
    /\ lock' = Freed(t)
    /\ IF t \in helpers THEN Goto(t, "drain") ELSE Reply(t)
    /\ UNCHANGED <<cwd, outside, temps, helpers>>

Drained(t) ==
    /\ At(t, "drain") /\ t \notin helpers
    /\ Reply(t)
    /\ UNCHANGED <<cwd, tree, lock, op, temps, helpers>>

\* mutant: the patch is written before the deadline is set
AfterStdin == {"run", "drain"}

Timed == {"stdin", "run", "drain"}

\* The deadline kills the leader at once, whose lock stays behind,
Deadline(t) ==
    /\ task[t].pc \in Timed
    /\ Goto(t, "kill") /\ lock' = Stale(t)
    /\ UNCHANGED <<cwd, tree, op, temps, helpers>>

\* mutant: the leader's death is the end of it
NoGroup(t) == helpers

Group(t) == helpers \ {t}

\* and then its group, before the reply.
GroupKilled(t) ==
    /\ At(t, "kill")
    /\ helpers' = Group(t)
    /\ Reply(t)
    /\ UNCHANGED <<cwd, tree, lock, op, temps>>

\* The client goes away, and the handler with it: kill_on_drop knows the
\* leader only, and the helper goes on unseen. A save waits for nothing.
Abandoned(t) ==
    /\ Busy(t) /\ task[t].verb # "save"
    /\ Reply(t) /\ lock' = Stale(t)
    /\ helpers' = helpers \ {t}
    /\ UNCHANGED <<cwd, tree, op, temps>>

-----------------------------------------------------------------------------
(* The user, on a terminal.                                                *)

Cd ==
    /\ \E r \in Roots : cwd' = r
    /\ UNCHANGED <<tree, lock, op, task, temps, helpers>>

Edit(r) ==
    /\ \E f \in {"none", "file", "link"} : file' = [file EXCEPT ![r] = f]
    /\ UNCHANGED <<cwd, outside, tracked, lock, op, task, temps, helpers>>

UserGit(r) ==
    /\ lock[r] = None
    /\ \/ tracked' \in {tracked \cup {r}, tracked \ {r}} /\ UNCHANGED op
       \/ \E s \in Sequencers \cup {None} :
             op' = [op EXCEPT ![r] = s] /\ UNCHANGED tracked
    /\ UNCHANGED <<cwd, file, outside, lock, task, temps, helpers>>

UserUnlocks(r) ==
    /\ lock[r] = "stale" /\ lock' = [lock EXCEPT ![r] = None]
    /\ UNCHANGED <<cwd, tree, op, task, temps, helpers>>

-----------------------------------------------------------------------------
Step(t) ==
    \/ SaveFails(t) \/ Written(t) \/ Renamed(t)
    \/ ProbeFile(t) \/ Discard(t) \/ ProbeDirs(t) \/ ProbeHeads(t) \/ Drive(t)
    \/ Drained(t) \/ Deadline(t) \/ GroupKilled(t)

Acts ==
    \/ \E t \in Tasks :
          \/ Save(t) \/ Request(t) \/ Ask(t) \/ Step(t)
          \/ Fed(t) \/ HelperStarts(t) \/ LeaderEnds(t) \/ Abandoned(t)
    \/ HelperEnds \/ Cd
    \/ \E r \in Roots : Edit(r) \/ UserGit(r) \/ UserUnlocks(r)

\* steady only remembers; no step depends on it.
Remembers ==
    steady' = {t \in Tasks : \/ task'[t].pc = "probe"
                             \/ task'[t].pc \in {"heads", "ready"} /\ op' = op /\ t \in steady}

Next == Acts /\ Remembers

\* The handlers' own steps, and their timers, happen; git may hang for ever.
Spec == Init /\ [][Next]_vars /\ \A t \in Tasks : WF_vars(Step(t) /\ Remembers)

-----------------------------------------------------------------------------
(* Properties.                                                             *)

\* A save replaces the file as a whole or not at all, whatever became of the
\* file since it was looked at: it is never torn, nothing behind a link is
\* written to, and each temporary file belongs to a save under way.
SavesStayInside ==
    /\ outside /\ \A r \in Roots : file[r] # "torn"
    /\ \A t \in temps : task[t].verb = "save" /\ task[t].pc \in {"temp", "rename"}

\* When a request is answered, the deadline's answer too, nothing that it
\* started works on the repository any more (run_git, P1-15).
StopsAtReply == \A t \in helpers : task[t].pc \in {"run", "drain", "kill"}

\* The sequencer that continue and abort are sent to is the one in progress,
\* if that did not change while the probes ran one after the other.
RightSequencer ==
    \A t \in steady : At(t, "ready") /\ task[t].verb = "op" => task[t].saw = op[Root(t)]

\* Every request is answered, though git waits for ever.
Answered == \A t \in Tasks : Busy(t) ~> ~Busy(t)

=============================================================================
