------------------------------ MODULE Packages ------------------------------
(***************************************************************************)
(* One package of mymux-pkg: the directory it is staged in (.tmp-<name>)   *)
(* and the one it is activated to, the commands that work in them, the     *)
(* claim by which mymuxd serialises the commands it starts (pkgs.rs), and  *)
(* the editor's lookup of a language server (lsp.rs).                      *)
(*                                                                         *)
(* A command is a process of its own. mymuxd may end it at a deadline, it  *)
(* may die, and the npm or go child it waits for outlives it. mymuxd may   *)
(* restart (KillMode=process) and forget its claims.                       *)
(***************************************************************************)
EXTENDS Naturals

CONSTANTS
    Procs,      \* slots for commands, one process each at a time
    Versions,   \* versions a command may install
    None,       \* no such file
    Partial,    \* a program that is not completely written
    MaxCmd      \* commands started (bound)

ASSUME PackagesAssumption ==
    /\ None \notin Versions /\ Partial \notin Versions /\ None # Partial
    /\ MaxCmd \in Nat

VARIABLES
    dir,        \* the two directories: is it there, its program, its manifest
    cli,        \* what each command is doing, for whom, and the version
    claimed,    \* the commands whose handler holds the claim on the package
    orphans,    \* versions that npm or go children of killed commands write
    verdict,    \* the cached probe of the server on PATH
    editor,     \* the editor's socket: where its server comes from
    rivals,     \* history: an unserialised command met another one
    retried,    \* history: an install began after one died while it swapped
    owned,      \* history: activated, and no removal asked for since
    cmds        \* commands started

vars == <<dir, cli, claimed, orphans, verdict, editor, rivals, retried, owned, cmds>>
files == <<dir, orphans>>
history == <<rivals, retried, owned>>
editing == <<verdict, editor>>

Dirs == {"staging", "dest"}
NoDir == [here |-> FALSE, bin |-> None, json |-> None]
Empty == [here |-> TRUE, bin |-> None, json |-> None]
Idle == [pc |-> "idle", by |-> "user", v |-> None]

Steps == {"idle", "fetch", "tool", "lingers", "manifest", "clear", "swap", "remove", "bind"}

TypeOK ==
    /\ dir \in [Dirs -> [here : BOOLEAN, bin : Versions \cup {None, Partial},
                         json : Versions \cup {None}]]
    /\ \A d \in Dirs : ~dir[d].here => dir[d] = NoDir
    /\ cli \in [Procs -> [pc : Steps, by : {"pkgs", "lsp", "user"}, v : Versions \cup {None}]]
    /\ claimed \subseteq {p \in Procs : cli[p].pc # "idle" /\ cli[p].by = "pkgs"}
    /\ \A p, q \in claimed : p = q
    /\ orphans \subseteq Versions
    /\ verdict \in {"unknown", "runs", "fails"}
    /\ editor \in Dirs \cup {"closed", "path"}
    /\ rivals \in BOOLEAN /\ retried \in BOOLEAN /\ owned \in BOOLEAN
    /\ cmds \in 0..MaxCmd

Init ==
    /\ dir = [d \in Dirs |-> NoDir]
    /\ cli = [p \in Procs |-> Idle]
    /\ claimed = {} /\ orphans = {}
    /\ verdict = "unknown" /\ editor = "closed"
    /\ rivals = FALSE /\ retried = FALSE /\ owned = FALSE
    /\ cmds = 0

Working(p) == cli[p].pc # "idle"
Whole(d) == dir[d].bin \in Versions /\ dir[d].bin = dir[d].json

Goto(p, pc) == cli' = [cli EXCEPT ![p].pc = pc]

\* mutant: the claim is left behind when the command ends
ExitOnly(p) == cli' = [cli EXCEPT ![p] = Idle] /\ UNCHANGED claimed

\* The command ends by itself. Its handler returns and drops the claim.
Exit(p) == cli' = [cli EXCEPT ![p] = Idle] /\ claimed' = claimed \ {p}

-----------------------------------------------------------------------------
(* Commands are started by POST /pkgs/install and /pkgs/remove, by POST    *)
(* /lsp/install, or by a user on a terminal, whose install differs from    *)
(* the one of /lsp/install in having no deadline only, and is not repeated.*)

AnyClaim == TRUE      \* mutant: no claim is looked for
Free == claimed = {}

\* What mymuxd has serialised never meets another command: two claims, or a
\* claim and nothing else. Everything else that meets is rivals.
Meets(by) ==
    rivals' = (rivals \/ (orphans # {} \/ \E q \in Procs : Working(q) /\
                                              (by # "pkgs" \/ q \notin claimed)))

Admits(p, by) ==
    /\ cli[p] = Idle /\ cmds < MaxCmd
    /\ IF by = "pkgs" THEN Free /\ claimed' = claimed \cup {p} ELSE UNCHANGED claimed
    /\ Meets(by)
    /\ cmds' = cmds + 1

\* staging_for: whatever a dead install left behind goes first.
Install(p, by, v) ==
    /\ Admits(p, by)
    /\ dir' = [dir EXCEPT !["staging"] = Empty]
    /\ cli' = [cli EXCEPT ![p] = [pc |-> "fetch", by |-> by, v |-> v]]
    /\ retried' = (retried \/ (owned /\ ~Whole("dest")))
    /\ UNCHANGED <<orphans, editing, owned>>

Remove(p, by) ==
    /\ Admits(p, by)
    /\ dir["dest"].json # None
    /\ cli' = [cli EXCEPT ![p] = [pc |-> "remove", by |-> by, v |-> None]]
    /\ owned' = FALSE
    /\ UNCHANGED <<files, editing, retried>>

\* mymux-pkg lang reads the manifest it is going to write back.
Bind(p) ==
    /\ Admits(p, "user")
    /\ dir["dest"].json # None
    /\ cli' = [cli EXCEPT ![p] = [pc |-> "bind", by |-> "user", v |-> dir["dest"].json]]
    /\ UNCHANGED <<files, editing, owned, retried>>

-----------------------------------------------------------------------------
(* An install, step by step.                                               *)

Put(d, bin, json) == [dir EXCEPT ![d] = [here |-> TRUE, bin |-> bin, json |-> json]]
Written(bin) == Put("staging", bin, dir["staging"].json)

\* The archive channels: verified in memory, then written under staging.
Unpack(p) ==
    /\ cli[p].pc = "fetch"
    /\ dir' = Written(cli[p].v)
    /\ Goto(p, "manifest")
    /\ UNCHANGED <<claimed, orphans, editing, history, cmds>>

\* A download that fails or has another digest: staging is removed again.
Refuse(p) ==
    /\ cli[p].pc = "fetch"
    /\ dir' = [dir EXCEPT !["staging"] = NoDir]
    /\ Exit(p)
    /\ UNCHANGED <<orphans, editing, history, cmds>>

\* The npm and go channels: a child writes under staging for a while.
RunTool(p) ==
    /\ cli[p].pc = "fetch"
    /\ dir' = Written(Partial)
    /\ Goto(p, "tool")
    /\ UNCHANGED <<claimed, orphans, editing, history, cmds>>

ToolEnds(p) ==
    /\ cli[p].pc = "tool"
    /\ dir' = Written(cli[p].v)
    /\ Goto(p, "manifest")
    /\ UNCHANGED <<claimed, orphans, editing, history, cmds>>

\* The index's installs clean up; a dynamic npm: install leaves staging.
ToolFails(p) ==
    /\ cli[p].pc = "tool"
    /\ \/ dir' = [dir EXCEPT !["staging"] = NoDir]
       \/ UNCHANGED dir
    /\ Exit(p)
    /\ UNCHANGED <<orphans, editing, history, cmds>>

Gives(p) == Exit(p) /\ UNCHANGED dir

\* mutant: the old package is removed before the new one has its manifest
ManifestLast(p) ==
    /\ cli[p].pc = "manifest"
    /\ Goto(p, "clear")
    /\ UNCHANGED <<dir, claimed, orphans, editing, history, cmds>>

WriteManifest(p) ==
    /\ cli[p].pc = "manifest"
    /\ \/ /\ dir["staging"].here
          /\ dir' = Put("staging", dir["staging"].bin, cli[p].v)
          /\ Goto(p, "clear") /\ UNCHANGED claimed
       \/ ~dir["staging"].here /\ Gives(p)
    /\ UNCHANGED <<orphans, editing, history, cmds>>

\* remove_dir_all on the activated package, entry by entry.
UnlinkBin == dir["dest"].bin # None /\ dir' = Put("dest", None, dir["dest"].json)
UnlinkJson == dir["dest"].json # None /\ dir' = Put("dest", dir["dest"].bin, None)

ClearDest(p) ==
    /\ cli[p].pc \in {"clear", "remove"}
    /\ UnlinkBin \/ UnlinkJson
    /\ UNCHANGED <<cli, claimed, orphans, editing, history, cmds>>

Cleared == dir["dest"].bin = None /\ dir["dest"].json = None

DestGone(p) ==
    /\ Cleared
    /\ dir' = [dir EXCEPT !["dest"] = NoDir]
    /\ \/ cli[p].pc = "clear" /\ Goto(p, "swap") /\ UNCHANGED claimed
       \/ cli[p].pc = "remove" /\ Exit(p)
    /\ UNCHANGED <<orphans, editing, history, cmds>>

\* rename takes the place of an empty directory and of no other one.
Swap(p) ==
    /\ cli[p].pc = "swap"
    /\ IF dir["staging"].here /\ Cleared
       THEN /\ dir' = [dir EXCEPT !["dest"] = dir["staging"], !["staging"] = NoDir]
            /\ owned' = TRUE
       ELSE UNCHANGED <<dir, owned>>
    /\ Exit(p)
    /\ UNCHANGED <<orphans, editing, rivals, retried, cmds>>

WriteBinding(p) ==
    /\ cli[p].pc = "bind"
    /\ IF dir["dest"].here
       THEN dir' = Put("dest", dir["dest"].bin, cli[p].v)
       ELSE UNCHANGED dir
    /\ Exit(p)
    /\ UNCHANGED <<orphans, editing, history, cmds>>

-----------------------------------------------------------------------------
(* Endings that the command does not choose.                               *)

\* The child of a dead command keeps the output pipes open, and with them
\* the handler and its claim, until it is done or the deadline comes.
Dies(p) ==
    /\ Working(p) /\ cli[p].pc # "lingers"
    /\ IF cli[p].pc = "tool"
       THEN Goto(p, "lingers") /\ UNCHANGED claimed
       ELSE Exit(p)
    /\ UNCHANGED <<files, editing, history, cmds>>

ChildDone(p) ==
    /\ cli[p].pc = "lingers"
    /\ dir' = Written(cli[p].v)
    /\ Exit(p)
    /\ UNCHANGED <<orphans, editing, history, cmds>>

\* mutant: the handler waits for whoever holds the output pipes
AwaitsChild(p) ==
    /\ Working(p) /\ cli[p].by # "user" /\ cli[p].pc # "lingers"
    /\ IF cli[p].pc = "tool" THEN Goto(p, "lingers") /\ UNCHANGED claimed ELSE Exit(p)
    /\ UNCHANGED <<files, editing, history, cmds>>

\* The handler's deadline: kill_on_drop reaches the command, not its child.
Deadline(p) ==
    /\ Working(p) /\ cli[p].by # "user"
    /\ Exit(p)
    /\ orphans' = orphans \cup (IF cli[p].pc \in {"tool", "lingers"} THEN {cli[p].v} ELSE {})
    /\ UNCHANGED <<dir, editing, history, cmds>>

OrphanWrites(v) ==
    /\ v \in orphans
    /\ \/ dir' = Written(Partial) /\ UNCHANGED orphans
       \/ dir' = Written(v) /\ orphans' = orphans \ {v}
    /\ UNCHANGED <<cli, claimed, editing, history, cmds>>

\* A restart of mymuxd: its children live on, its claims and its cache do not.
Restart ==
    /\ claimed # {} \/ verdict # "unknown"
    /\ claimed' = {} /\ verdict' = "unknown" /\ editor' = "closed"
    /\ UNCHANGED <<files, cli, history, cmds>>

-----------------------------------------------------------------------------
(* The editor: resolve_server and the server's socket.                     *)

Offered == {d \in Dirs : dir[d].json # None /\ dir[d].bin # None}

\* The first probe decides, by running the server for at most five seconds.
Probe == IF verdict = "unknown" THEN {"runs", "fails"} ELSE {verdict}

Resolve ==
    /\ editor = "closed"
    /\ IF Offered # {}
       THEN editor' \in Offered /\ UNCHANGED verdict
       ELSE /\ verdict' \in Probe
            /\ editor' = IF verdict' = "runs" THEN "path" ELSE "closed"
    /\ UNCHANGED <<files, cli, claimed, history, cmds>>

\* The program is gone, the server ends, or the editor does.
Hangup ==
    /\ editor # "closed"
    /\ editor' = "closed"
    /\ UNCHANGED <<files, cli, claimed, verdict, history, cmds>>

-----------------------------------------------------------------------------
Command(p) ==
    \/ \E by \in {"pkgs", "lsp"}, v \in Versions : Install(p, by, v)
    \/ \E by \in {"pkgs", "user"} : Remove(p, by)
    \/ Bind(p)

Progress(p) ==
    \/ Unpack(p) \/ Refuse(p) \/ RunTool(p) \/ ToolEnds(p) \/ ToolFails(p)
    \/ WriteManifest(p) \/ ClearDest(p) \/ DestGone(p) \/ Swap(p)
    \/ WriteBinding(p) \/ ChildDone(p)

Next ==
    \/ \E p \in Procs : Command(p) \/ Progress(p) \/ Dies(p) \/ Deadline(p)
    \/ \E v \in Versions : OrphanWrites(v)
    \/ Restart \/ Resolve \/ Hangup

\* A deadline is a timer of mymuxd; everything else may take as long as it
\* likes, the network being part of it.
Fairness == \A p \in Procs : WF_vars(Deadline(p))

Spec == Init /\ [][Next]_vars /\ Fairness

-----------------------------------------------------------------------------
(* Properties.                                                             *)

\* A package that the on-disk contract calls valid (a manifest, and the
\* program it names) is complete and of the version it says, at every moment
\* and after every death of a command: manifest, removal and rename come in
\* an order that shows no half of anything. Rivals are not serialised.
ValidIsWhole == rivals \/ \A d \in Offered : Whole(d)

\* An activated package survives the death of whatever command at whatever
\* step: the old one is only removed when the new one is complete next to
\* it. Only the next install, which clears staging first, may lose it.
Recoverable == owned /\ ~rivals /\ ~retried => \E d \in Dirs : Whole(d)

\* Whoever has claimed the package lets go of it, though a download hangs and
\* a killed command's child keeps its pipes open.
ClaimEnds == \A p \in Procs : p \in claimed ~> p \notin claimed
=============================================================================
