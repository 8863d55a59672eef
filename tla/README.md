# mymux: specifications, model checking and proofs

mymux is a terminal workspace that outlives its user interfaces. Shells live on
a host in `mymux-ptyd`; `mymuxd` on the same host groups them into windows and
serves them over a websocket; a desktop app reaches `mymuxd` through an SSH
tunnel that it installs, supervises and reconnects. This directory holds TLA+
modules of the parts where steps of several actors interleave, the TLC
configurations that check them, and TLAPS proofs.

    tlc -workers 2 -config MCPtyd.cfg MCPtyd      # one run
    tlapm PtydProofs.tla                          # the proofs

`PROJECT.json` maps every definition to the lines it models and lists the runs,
the mutants (a plausible bug per property, which the run must catch), the
findings, the hazards and the theorems.

## 1. The system

| Component | State | Operations | Talks to |
|---|---|---|---|
| `mymux-ptyd` (`crates/mymux-ptyd/src/main.rs`) | `Store.panes`: id to `Arc<Pane>` under one mutex; per pane its child, pty, ephemeral flag, owning connection; the layout blob `meta`; a broadcast of events | Spawn, Kill, SetEphemeral, SetMeta, GetMeta, List, Resize, Rename, Snapshot, Input; hang-up of a client; EOF of a pty | unix socket, one task per connection, one reader thread per pane |
| `mymuxd` native engine (`crates/mymuxd/src/persist.rs`, `native.rs`, `tmux.rs`) | the ptyd client, the mirror of the panes, the next id, the windows (layout trees), the shared view, the bootstrap guard | new, split, close, break, promote, demote, select, rename, zoom, swap, drag; adoption of survivors; exits; loss of ptyd | ptyd (requests, replies, events); one task per websocket; a pump task |
| `mymuxd` tmux engine (`tmux.rs`, `crates/mux-core`) | control client, `running`, the model of tmux's windows | start, read and fold lines, pull layouts, wait for the end | a tmux server; one reader and one waiting task per client |
| agent badges (`agent.rs`, `state.rs`, `tmux.rs`) | per pane a badge (reported or guessed), output signals, a suppression; the attention order | hook reports, output, a sweep every two seconds, look, defer, consume | panes, hub |
| websocket hub (`ws.rs`, `tmux.rs`) | broadcast of 4096 events, a receiver per client, the shared view | command loop, seeds, lag and resync | ptyd's snapshots and output, user interfaces |
| web UI (`ui/src/workspace.ts`) | a terminal per pane: live, seeded or distrusted | show, paint, distrust, ask for a repaint | websocket |
| SSH tunnel (`crates/mymux-connect/src/russh_tunnel.rs`) | cached session (`Master`), breaker `daemon_tries`, backoff, strikes | connect, start the daemon, probe, serve, health, audit, install | SSH server, the daemon, the app |
| remote installer (`scripts/mymux-install-remote.sh`) | binaries on the host | swap, restart, probe, roll back | systemd, mymuxd |
| desktop app (`src-tauri/src/lib.rs`) | phase and reason per host, connections | connect, disconnect, metadata refresh, a forwarder task per tunnel | tunnel, webview |
| `mymux-pkg` (`crates/mymux-pkg/src/main.rs`), `pkgs.rs`, `lsp.rs` | a staging and an activated directory per package; claims; the probe's verdict | install, remove, lang; claim and deadline; look a server up | file system, npm and go children, the editor |
| fs and git services (`fs.rs`, `git.rs`) | none of their own: the user's directories | save; add, commit, discard, continue, ... with a deadline and a process group | file system, git and its helpers, the user's shell |
| proc, history services; scripts | none of their own | requests | file system |

What makes each of them correct, and what is hard about it:

* **ptyd.** An id names one live pane; a shell is reaped once, by whoever drops
  the last `Arc`; an ephemeral pane dies with the connection that owns it *now*;
  every lost pane is announced once, and never while its id names a new pane.
  Connection tasks, sweeps and reader threads race for the map; a background
  job can keep a pty open long after its pane was removed.
* **Native engine.** The mirror agrees with ptyd, windows hold only mirrored
  panes and each of them once, the view is on something that exists, the saved
  layout follows the windows, ids are fresh. Every command may be suspended at
  an `await` while another one, the pump, or the death of either daemon changes
  what it read. ptyd handles a dead mymuxd's requests after the new one listed.
* **Tunnel.** The interface settles exactly when the supervisor gives up; the
  installer does not oscillate; a live link is not given up for one slow probe;
  on a stable network the supervisor ends up serving or settled.
* **Layout.** The cells of a window tile it, each pane keeps a cell, what ptyd
  was told agrees with what is shown, the layout saved is the one in use. Rounded
  shares, nested boxes and drags compose over long command sequences, and a split
  uses sizes read before its `await`.
* **tmux engine.** There is one control client; the model shows tmux's windows
  once the reader has caught up. Layouts are pulled on the side and run ahead of
  the lines; a reply may be cut by the client's end; the old reader and the task
  that waited for the old client run on after the next one has started.
* **Badges.** An answered ask stays answered until the agent opens a new exchange;
  the queue keeps its order; what is on the screen is not badged. Hook reports,
  output, the sweep (which reads the view before it locks) and the user race.
* **Hub and web UI.** After every overflow of the channel and every reconnect the
  browser shows the shared view and the pane's whole output. Snapshots are
  fetched on the side and may come after output that is newer.
* **Packages.** A package that is offered is whole; an activated one is not lost
  when a command dies at any step; a claim ends though a child hangs on.
* **File and git services.** A save is all or nothing; an answered request leaves
  nothing running in the repository; every request is answered though git hangs;
  continue and abort go to the sequencer that is in progress.

## 2. The modules

| Module | Models | Source |
|---|---|---|
| `PaneLife` | what a pane daemon promises: the abstract life of a pane | |
| `Ptyd` | pane store, reader threads, sweeps, reference counts; implements `PaneLife` | `mymux-ptyd/src/main.rs` |
| `Engine` | mymuxd's mirror, windows, view, link and ptyd's side of it | `persist.rs`, `native.rs`, `tmux.rs`, `client.rs` |
| `Cells` | the layout tree and its pure functions: scale, split, remove, swap, drag, navigate | `native.rs`, `mux-core/src/layout.rs` |
| `Layout` | one window: tree, zoom, active pane, the sizes sent to ptyd, the saved layout | `native.rs`, `tmux.rs` |
| `Control` | the tmux control client, its reader and its waiter, the window model | `tmux.rs`, `mux-core/src/protocol.rs`, `model.rs` |
| `Agents` | badges, output signals, the sweep, the user's answers | `agent.rs`, `tmux.rs` |
| `Mirror` | a pane's output and snapshots from ptyd through the hub to the browser | `tmux.rs`, `ws.rs`, `persist.rs`, `ui/src/workspace.ts` |
| `Packages` | one package: directories, commands, claims, the server's lookup | `mymux-pkg/src/main.rs`, `pkgs.rs`, `lsp.rs` |
| `Repo` | saving a file, running git | `fs.rs`, `git.rs` |
| `Tunnel` | supervisor, installer's verdict, status fold | `russh_tunnel.rs`, `lib.rs`, the installer |
| `PtydProofs`, `TunnelProofs`, `PackagesProofs`, `ControlProofs`, `EngineProofs`, `MirrorProofs`, `LayoutProofs` | the theorems about the module of that name | |
| `DaemonProofs` | the theorems about `Agents` and `Repo`, which have no name in common | |
| `MCPtyd`, `MCEngine`, `MCLayout`, `MCTunnel`, `MCPackages`, `MCAgents`, `MCRepo`, `MCControl`, `MCMirror` | instances for TLC | |

Operators marked "mutant" in a module are not used by it: each is a plausible bug
in the definition it follows, and the property that catches it is in
`PROJECT.json`.

### PaneLife

Three variables: the `life` of each pane (new, made, bound, lost, gone), the pane
each id is bound `at`, and the ids that are `owed` an Exit. A pane is bound to a
vacant id only, leaves it once, is reaped after that and never before, and a lost
pane's id stays owed until it is published. No mutex, thread, connection or
reference count occurs. `Ptyd` instantiates it as `Life` (`LifeOf` reads a pane's
life off the daemon's state) and `LivesByTheBook` is `Life!Spec`.

### Ptyd

State: `held` is `store.panes`; `idOf`, `ephemeral`, `owner` are fields of a
pane; `child` and `slave` are its process and who keeps the slave side of the
pty open; `arcs` the connection tasks with a strong `Arc` to it (the map's own
`Arc` is `Mapped`, the reader's upgraded one exists while `reader` is
"upgraded", the one it removed while "removed"); `lock` is the mutex when a reader is inside it (tasks
hold it for one step). `due` is history: ids that lost a pane and have had no
Exit since.

Steps follow the mutex. A spawn is two steps, because the child runs before the
entry is looked up (`StartChild`, `InsertPane`). Kill removes and, in a later
step, drops its `Arc` outside the lock (`DropArc`); so do the sweep and the
loser of a spawn race. The reader thread locks at EOF, upgrades its `Weak` and
tests identity (`ReaderLocks`, `ReaderDecides`), drops what it removed
(`ReaderDrops`) and then announces (`ReaderAnnounces`). `Drop for Pane` runs in
whichever step releases the last `Arc`. Shells and background jobs are the
environment.

Left out: input, resize, rename, snapshot, output, the history log and the
terminal grid, which touch neither the map nor the owners; SetMeta and List are
in `Engine`. A client's requests are nondeterministic.

### Engine

A step is what a task does between two awaits; commands without an await before
their last effect are one step. (The runtime is multi-threaded: two tasks can
also interleave between two mutexes of one such stretch. That finer grain is
not modelled.) A window is a set of panes: `wins[w]` is empty when there is no
window `w`. Geometry, the zoomed and the active pane are in `Layout`; names and tab
order are left out. `link`, `cur` and `listed` follow `Persist::ensure` through connect,
List, GetMeta and commit; `op[t]` is the spawn a websocket task awaits, first
for the link, then for ptyd's reply; `req[c]` is what connection `c` carries and
`ev` the events that come back. Replies and events reach mymuxd by different
ways (a oneshot and the pump's queue), so their order is free.

ptyd appears as the set of panes it holds. Its half-done removals are `dying`:
panes out of the map whose Exit is not published yet; the identity check of
`Ptyd` is the guard in `Announce`. That this is what the pane store does is what
`Ptyd` shows.

Failures: a spawn times out though ptyd may still do it; mymuxd crashes with any
prefix of its last requests delivered; ptyd dies with its panes; tmux ends.
`strays` is history: it collects the panes (or `None`, for the blob) that met
one of the races under which mymuxd and ptyd legitimately disagree, so that
`MirrorTruth` and `BlobFollows` say exactly when they may and not more:

1. the exit overtook the reply to its spawn (section 4);
2. the spawn timed out, or its reply came from a ptyd that died since;
3. a dead mymuxd's request was handled after the new one had read the panes;
4. the exit was of an earlier pane of the same id.

### Cells and Layout

`Cells` writes each function of `native.rs` once for both directions: a cell's
position and length are functions of the axis ("cols", "rows"), and the kind of a
box is the axis its children run along. A cell is named by the set of panes under
it, and a tree is a function from these names to cells, whose children are names in
order: the root is named by all panes, a leaf by its own, and "the subtree of n" are
the names inside n. So the code's recursions become recursive functions over the
names or quantifiers, and proofs can use them. `Scale` is `scale_to` with `Share` its
rounding and clamping (`Part` is what it hands to one child, `Ends` the running
sum); `SplitLeaf`, `RemoveLeaf`, `SwapLeaves`, `MoveBoundary` and `Neighbour` (`nav`)
give the tree that the functions of these names leave. `resize_boundary` recurses
from the root and takes the first box with a divider after the pane, which is
`Outermost`; `for_each_pane` visits in the order `Before`.

`Layout` is one window from its creation to its end. `win` is its `NativeWindow`;
`viewed` and `size` are the hub's `active_view` and `last_size`; `sent[p]` is the
size last pushed to ptyd for pane `p`; `saved` the window in ptyd's blob;
`pending` the splits whose `split_native` awaits its shell, each with the sizes
it computed beforehand. The actions are the hub's commands (`Resize`, `Select`,
`Focus`, `GoTo`, `ToggleZoom`, `SwapPane`, `Drag`, `BreakPane`, `PaneGone`, and
`BeginSplit`, `FinishSplit`, `SpawnFails` for the two halves of a split) and
`Restart`, which is `from_blob` and `reconcile` with some shells gone. Each is
everything the handler does to these variables between two awaits. A panic that
poisons the windows' mutex sets `poisoned`, and then every command comes to
nothing, as `lock().unwrap()` does.

`stale` and `late` are history. `stale` holds the panes that ptyd was
legitimately told another size: those of a split whose target changed during
the await, a zoomed pane whose zoom a finished split dropped or under which a
divider was dragged, and those a restart moved (adoption tells ptyd no sizes).
`late` is set when a split finishes on a target that had become too small for
it, until the window is next resized.

Left out: other windows (`Leave` goes to one, `BreakPane` makes one), names and
tab order, the blob's encoding, and ptyd's own clamping of a size.

### Tunnel

`pc` is the supervisor's place in `run_russh_tunnel` and `connect_and_serve`;
`sess` the Master's cached session; `chan` the bounded status channel; `stored`
and `why` what `fold_status` shows; `tries` the breaker. The host is the
environment: network, credentials, the daemon on disk and the one running, and
for each version whether it answers, runs mute, or does not start. The installer
is one step with its outcome: the new daemon, or the previous one rolled back.
`last` (the last probe's result) and `installs` (installer runs in a streak) are
history. The 14 probes are one step, and the backoff's length is left out.

### Packages

`dir` holds the two directories of one package: `staging` (`.tmp-<name>`) and
`dest`. Of each it matters whether it is there, the program in it (a version, or
`Partial`) and the manifest. `cli[p]` is a process of mymux-pkg at one of its
steps: fetch (a download, in memory until it is verified), tool (waiting for npm or
go, which write as they go), manifest, clear (removing the old package entry by
entry), swap (the rename), remove, bind (`lang` rewriting the manifest it read).
`claimed` is mymuxd's claim for the handlers of `/pkgs`; `/lsp/install` and a user
on a terminal take none. `Dies` is a command that ends at any step, `Deadline`
the handler's timeout, which kills the command and not its child (`orphans`);
`Restart` forgets claims and the cached probe. `Resolve` is the editor's lookup,
between any two steps.

History: `rivals` is set when commands met that the claim does not keep apart (they
share one staging directory, and nothing is promised then); `retried` when an
install began after one had died between removal and rename, because
`staging_for` clears what was left; `owned` says that a package was activated and
no removal was asked for since.

Left out: the catalog, search, list, other packages (no file is shared with them),
and what digests and archives contain.

### Agents

`badge` is `AgentTracker.entries`; `heur` the output signals with times abstracted
to what they are compared with (quiet, a recent bell, a fresh done); `hushed` the
consumed flags. `needy_since_ms` orders panes and nothing else, so `queue` is that
order. An output chunk is a sequence of the marks that `note_output` and
`scan_bell` look for (OSC start, terminator, BEL, the alternate screen on and off),
scanned with the code's own precedences. The sweep is two steps: it reads /proc and
the view (`SweepLooks`), then locks the tracker and decides (`SweepDecides`); any
other action may fall between them. `Output` may come after `Removed`, which
creates the entry again as the code does.

Left out: how an agent is told from another foreground program, session names and
texts, and marks cut in two by a chunk's end.

### Repo

A directory is a repository with one file. `task` holds the requests in flight; a
request that asks git first is at "probe" or "heads" while the user goes on. A save
is a temporary file and a rename (`Save`, `Written`, `Renamed`). A command of git
takes `lock` (index.lock) if it writes the index, may start a helper in its process
group, ends or hangs; `Deadline` kills the leader (its lock is stale from then
on), `GroupKilled` the group, then the reply. `Abandoned` is a handler that axum
drops: `kill_on_drop` reaches the leader only. `ProbeDirs` and `ProbeHeads` are the
probes of `op_state`, in their order. `Cd`, `Edit`, `UserGit` and `UserUnlocks` are
the user. Commands of git that do the same to this state share a name, and git
itself is modelled by what the handlers rely on.

### Control

A slot is one control client with its reader and its waiting task. `lines` is its
unread output, `reader` where the reader is (reading, about to pull, with a pulled
layout in hand) and whether a reply block is open; `model` is `hub.model`,
folded as `Model::apply` does, one operator per notification. `Start` is
`ensure_started`, `Waited` and `Resets` the task that waits for the client (the
flag, and later the model, without a lock in between). `tmux` is external: it does
what its user does and writes the lines of control mode. One thing is assumed of
it: when the client's size is set by `refresh-client -C`, every window's layout is
announced.

`torn` is history: an old reader folded a left-over line, or an old waiter reset
the model, after the next client had started. The code has that race; `Synced`
and `Appears` say what holds apart from it. `told` is set once tmux has said which
window is current: a client that attaches to a running server with several windows
does not know before.

### Mirror

A pane's bytes are numbered chunks; a snapshot taken now has all chunks so far.
Output goes from the grid (`Write`) through ptyd's events (`Pump`) into the hub's
broadcast channel (`Push`), which drops its oldest event when it is full. The
command loop of a connection is `Select`, `Emit`, `Fetch`, `EmitSeed`, `Refresh`,
each up to its next await; the send task is `SendState`, `FetchView`, `SendSeed`,
`SendEvent` and, after a lag, `Resync`. The browser is `term`: whether a terminal is
held, which chunks it shows, and its `live` and `seeded` flags, changed by
`applyLayout` (`Show`), `onBinary` (`Paint`) and `distrustAll` (`Distrusted`).
`passed` is history: when the terminal came to wait for a seed, one was already under
way that lacks a chunk which is not (section 4).
`Disconnect` and `Connect` lose what was on its way.

Every window is one native pane. Typing, tmux's own panes and agent lists are left
out.

## 3. The runs

| Run | States | What it shows |
|---|---|---|
| `ptyd` | 198 thousand | `OwnerServes`, `DroppedIffUnheld`, `LeavesMapRightfully`; the refinement `LivesByTheBook`; liveness `Reaped`, `ExitPublished` |
| `engine` | 1.4 million | `WindowsOfMirror`, `ViewIsLive`, `MirrorTruth`, `BlobFollows`, `FreshIds` |
| `engine_break` | violation | `BreakKeepsPanes`: breaking out the founding pane loses its siblings |
| `layout` | 113 thousand | `Tiles`, `EveryPaneHasACell`, `SizesAgree`, `ResizeIsStable`, `NavReaches` |
| `layout_drag` | violation | `BothSidesStay`: a drag between two sides with one cell together panics |
| `tunnel` | 201 thousand | `SettledOnlyAtTheEnd`, `InstallerBreaks`, `TwoStrikes`; liveness `SettlesOnStableNet` |
| `tunnel_missing` | violation | `MissingIsInstalled`: a host without the daemon gets no install |
| `packages` | 492 thousand | `ValidIsWhole`, `Recoverable`; liveness `ClaimEnds` |
| `agents` | 160 thousand | `Hushed`, `KeepsPlace`; liveness `SeenFades` |
| `repo` | 103 thousand | `SavesStayInside`, `StopsAtReply`, `RightSequencer`; liveness `Answered` |
| `control` | 151 thousand | `OneClient`, `Synced`; liveness `Appears`, `Forgotten` |
| `mirror` | 975 thousand | `SameView`, `Lossless`, `LiveIsCurrent` |

`ptyd`, `packages` and `repo` check `TypeOK` too. The other modules state their
types as well: the definition documents the state, and the proofs of `Engine`, `Layout`,
`Mirror`, `Tunnel` and `Control` establish it.

### Bounds, and why they are enough

* `ptyd`: every race in the pane store is between two parties about one id: two
  spawns, a removal and a lingering reader, a demotion and a sweep. Two
  connections and two panes on two ids have them all, including both panes on
  the same id and a pane that changes owners. The proofs remove the bounds.
* `engine`: one command racing with another needs two tasks, a restart needs two
  connections, a split window two panes, and the reuse of a number after a crash
  needs ids of both kinds. Three commands give spawn, split and one of close,
  break, promote or select, with a fourth party (exit, crash, ptyd's death) in
  between. Failures end with the last connection (`MayFail`), so that every
  behaviour can settle; `MaxPane`, `MaxConn` and `MaxCmd` are the only other
  bounds. Tasks are interchangeable and the run uses that symmetry (it checks no
  liveness).
* `layout`: the sizes are scaled down so that "too small to split", "one cell
  left" and an odd remainder all occur within three panes: 6x2 splits along its
  columns only and 2x4 along its rows only, a second time only after a drag, and
  a resize from one to the other makes boxes narrower than their children. Three
  panes give nested boxes, hoisting, three-way shares and two splits in flight.
  One drag goes past every boundary, the other is of two cells the other way.
  Simulation with six panes and three sizes found no further violation; the
  exception in `Tiled` (a box with at least two children more than cells
  overflows) needs such a tree. `layout_drag` runs at the smallest size the web
  UI asks for.
* `tunnel`: `ChanCap = 2` instead of 32 makes the supervisor block on the
  channel; two drops, two missed probes and one crash of the daemon allow a
  second failure during the recovery from a first. The breaker trips at its real
  value.
* `packages`: two commands at a time, of two versions, three in all: an activated
  version, one that dies while it replaces it, and one that finds what is left, or
  meets it. Any number of restarts, probes and lookups.
* `agents`: two panes are what an order needs; one of them has output (`Talking`),
  in chunks of one mark (`MaxChunk`), which suffices because the scan's state is
  carried from chunk to chunk; what two marks in one chunk add is only which of
  them is seen, and `Hushed` and `KeepsPlace` are proved for chunks of any length and
  any finite set of panes.
* `repo`: two requests and the user meet at a repository in every pair; a rebase
  and a cherry-pick are the two sequencers that look alike. One directory: which
  directory a request is rooted in matters to no property that is checked, and
  the proofs hold for any number of them.
* `control`: two slots are an old and a new client; two windows and three panes
  give a split, a switch and a window that goes; four operations (a start, its end,
  a second start and one change of tmux, or a start and three changes). `OneClient`
  and `Synced` are proved without these bounds.
* `mirror`: a channel of two events (`Cap`) overflows with the third, and holds a seed
  together with the chunk that follows it; two chunks of one pane distinguish old
  from new; two panes, two clicks, two connections and one snapshot that does not
  come. One handler: with two, the state that one built may be sent after the
  state the other built later (section 4); the proofs of `Lossless` and
  `LiveIsCurrent` are for any number of handlers.

### Deadlock

TLC looks for deadlocks except in `packages`, `repo`, `control` and `mirror`
(`CHECK_DEADLOCK FALSE`): there everything may come to rest, when the bounds
on commands, operations, chunks or connections are used up, or (`repo`) when no
request is made. Liveness properties say there that what was begun ends.

### Fairness

* `Ptyd`: tasks and threads of ptyd are weakly fair: an inserted spawn, a sweep,
  an `Arc` going out of scope, a reader past EOF are all code that runs without
  waiting for anybody outside (`InsertPane` and `Sweep` wait for the mutex only,
  which every holder releases). Clients, shells and background jobs owe nothing;
  that is why `ExitPublished` excepts a job that keeps the pty open.
* `Tunnel`: the supervisor and the forwarder are weakly fair, every await of
  theirs being bounded by a timeout or by the other one. The network owes
  nothing: `SettlesOnStableNet` is conditional on a network that stays up.
* `Packages`: the deadline of a handler, a timer of mymuxd. Downloads, npm, go and
  the command itself may hang for ever; `ClaimEnds` holds all the same.
* `Agents`: the two halves of the sweep, which an interval timer starts.
* `Repo`: the handlers' own steps and their deadline. git and its helpers may hang,
  clients and users owe nothing.
* `Control`: a reader's and a waiting task's steps. Both wait for the client only:
  the reader for its lines, the waiter for its end. tmux owes nothing.
* `Engine`, `Layout`, `Mirror`: none. Only safety is checked.

## 4. What the code does otherwise than its documentation says

Each of these is a run that TLC must find violated; `PROJECT.json` quotes the lines.

1. `engine_break`: `add_single` reuses the id of the window the founding pane
   leaves and overwrites it (tmux.rs:731).
2. `layout_drag`: the clamp of a drag has its bounds crossed when the two sides
   have one cell together; `i32::clamp` panics with the windows' mutex locked, and
   every later command panics at it (native.rs:142).
3. `tunnel_missing`: the audit treats a host without a daemon as up to date, so
   the first-connect install never runs there (russh_tunnel.rs:825).

Met while modelling, present in the models, and without a run of their own:

* main.rs:526: the reader's upgraded `Arc` can be the last one, and is dropped
  inside the mutex, so that kill-and-wait runs under the lock.
* russh_tunnel.rs:417: when every probe fails because the link dropped, the
  attempt settles as `DaemonUnreachable`.
* persist.rs:251: the mirror entry is written after the awaited reply, possibly
  after the pane's exit was handled (`strays`, case 1).
* tmux.rs:411: `booted` is cleared when tmux ends or ptyd dies, and not when the
  last native window goes.
* native.rs:26 says a zoom is "Cleared by any layout change"; a drag and a resize
  keep it. native.rs:73 says children "always tile the rect exactly"; a box with
  two children more than cells overflows.
* model.rs:48-56: `WindowPaneChanged` sets the active pane for whatever window it
  names; `fix_active_pane` repairs that only after a switch or a new window.
  A layout that does not parse overwrites the last good one with none.
* tmux.rs:480-511: the waiting task clears `running` and resets the model later;
  a client started in between has its model reset, and the old reader's last
  lines fold into the new one's (`torn`).
* tmux.rs:181-204: `scan_bell` misses a BEL that precedes an OSC in the same
  chunk. The suppression of a consumed ask is not lifted by `note_alt`.
* workspace.ts:343: a new terminal that receives output before its seed counts as
  live and drops the seed, and the repaint after 280 ms skips live panes: it
  shows new output without what came before (hence `seeded` in `Lossless`). A
  hidden terminal keeps a hole when a lag and a switch coincide.
* ws.rs:176-203 and workspace.ts:343: a seed that is under way when a chunk newer
  than it is lost (dropped by the overflow, or come before the terminal was made) is
  painted after the resync, makes the terminal live without that chunk, and the
  better seed of the resync is then left out. The hole stays until the next
  distrust. It takes a channel of two events; `passed` records
  that it happened, and `Lossless` and `LiveIsCurrent` except just these terminals.
* ws.rs, `state_json`: a state is built and then sent; two handlers may send theirs
  in the opposite order.
* git.rs:935-975: discard probes in one directory and runs in the one the pane
  is in by then (`Discard` in `Repo`). 755-763: a handler that is dropped leaves
  the helpers of its git running. A killed git leaves its index.lock. Both are
  in `Repo`, the former as `Abandoned`.
* lsp.rs:336: `/lsp/install` takes no claim and may meet an install of `/pkgs`
  in the same staging directory (`rivals` in `Packages`).

## 5. What is proved

Eight modules hold proofs. In each, the inductive invariant is called `IInv`; there is
one lemma per conjunct of it, with one step per action. `DaemonProofs` has three: `AgentsInv`,
`QueueInv` and `RepoInv`. In `LayoutProofs` it is `LayoutInv`, with one lemma per action. Every
invariant and action property of section 3's passing runs is stated by a theorem.

| Module | Theorem | States |
|---|---|---|
| `PtydProofs` | `Inductive` | `Safe => []IInv` |
| | `TypeCorrect`, `EphemeralPanesAreSwept`, `LastArcReaps` | `[]TypeOK`, `[]OwnerServes`, `[]DroppedIffUnheld` |
| | `MapHoldsLivePanes`, `ExitIsPending` | `[]HeldPaneAlive`, `[]NoSilentDeath` (of no run: `LivesByTheBook` covers them there) |
| | `IncumbentStays`, `OnlyRightfulRemovals` | `NeverRebound` (of no run), `LeavesMapRightfully` |
| | `DaemonImplementsPaneLife` | `Safe => LivesByTheBook` |
| `EngineProofs` | `Invariant`, `TypeCorrect` | `[]IInv`, `[]TypeOK` |
| | `NoPaneTwice`, `ViewLive`, `BlobFollowed`, `MirrorIsTruth` | `[]WindowsOfMirror`, `[]ViewIsLive`, `[]BlobFollows`, `[]MirrorTruth` |
| | `NewIdsFresh` | `FreshIds` |
| `MirrorProofs` | `Invariant`, `TypeCorrect`, `NothingLost`, `NewestShown` | `[]IInv`, `[]TypeOK`, `[]Lossless`, `[]LiveIsCurrent` |
| | `ViewShown` | `[]SameView`, with one handler |
| `TunnelProofs` | `Inductive`, `TypeCorrect`, `BreakerHolds`, `LiveLinksGetASecondChance`, `SettledIsOver` | `[]IInv`, `[]TypeOK`, `[]InstallerBreaks`, `TwoStrikes`, `[]SettledOnlyAtTheEnd` |
| `PackagesProofs` | `Inductive`, `TypeCorrect`, `NoHalfPackageIsValid`, `ActivatedIsRecoverable` | `[]IInv`, `[]TypeOK`, `[]ValidIsWhole`, `[]Recoverable` |
| `DaemonProofs` | `HushedStaysHushed`, `AsksKeepTheirPlace` | `[]Hushed`, `KeepsPlace` |
| | `RepoInductive`, `RepoTypeCorrect`, `SavesAreAtomic`, `NothingOutlivesItsReply`, `DrivesWhatIsInProgress` | `[]RepoInv`, `[]TypeOK`, `[]SavesStayInside`, `[]StopsAtReply`, `[]RightSequencer` |
| `LayoutProofs` | `LayoutInductive`, `TypeCorrect` | `[]LayoutInv`, `[]TypeOK` |
| | `CellsTile`, `NoPaneIsSqueezed`, `SizesAlwaysAgree` | `[]Tiles`, `[]EveryPaneHasACell`, `[]SizesAgree` |
| | `ResizesComeToRest`, `FocusCrossesEveryEdge` | `[]ResizeIsStable`, `[]NavReaches` |
| `ControlProofs` | `Invariant`, `TypeCorrect`, `OneControlClient`, `ModelMirrorsTmux` | `[]IInv`, `[]TypeOK`, `[]OneClient`, `[]Synced` |

They hold for every value of the constants and assume only the named `ASSUME` of
the module, which TLC evaluates in its run.

* **Ptyd.** For any ids, panes and connections; about `Safe`, the specification
  without its fairness (`Spec` implies it). None of the invariants is inductive
  alone. That a bound pane is alive (`HeldPaneAlive`) must survive `InsertPane`,
  so a pane between the two steps of its spawn has to be known to be running,
  unowned by any `Arc`, and not yet read (`SpawningInv`); it must survive
  `DropArc`, so a pane must be reaped exactly when nobody holds it
  (`DroppedIffUnheld`), which in turn needs that the reader's upgraded `Arc` exists
  only inside the mutex and at EOF (`LockInv`), that a pane is bound under its own
  id only (`HeldInv`) and that panes not yet spawned have no state (`FreshInv`).
  `OwnerServes` is preserved by `Sweep` because flag and owner are read inside the
  mutex, in the same step as the removal. `NoSilentDeath` is preserved by
  `ReaderDecides` because a reader that finds the id vacant announces even though
  the pane was not its own.
* **Refinement.** Under `IInv` every step of ptyd is a step of `PaneLife` or a
  stutter (`LifeStep`): a spawn's halves are `Make` and `Bind` or `Refuse`; Kill,
  the sweep and the reader's decision are `Lose`; whatever releases the last `Arc`
  is `Reap`; the announcement is `Publish`. `DroppedIffUnheld` is what makes the
  map well defined (a pane is gone only when it is not bound), `NoSilentDeath` what
  lets `Publish` find the id owed.
* **Tunnel.** For any channel capacity and any number of drops, missed probes and
  crashes. `InstallerBreaks` needs that every installer run belongs to a counted
  round (`Streak`: `installs <= tries`, strictly less before the installer runs);
  `TwoStrikes` that a strike that counts was the last thing met (`Strikes`).
  `SettledOnlyAtTheEnd` looks at what is stored and what is still in the channel as
  one sequence (`Told`), which every send extends and every forward shortens at its
  head, whatever `fold_status` makes of the status; only `Stop` sends a terminal one.
* **Engine.** For any ids, tasks, connections and commands. `WindowsOfMirror` and
  `FreshIds` rest on numbers that only grow (`Numbers`: what is in use, or in the
  hand of a spawn, is below `next`, no two spawns have one id, and a split's new
  pane is above its target), so that a window is led by its lowest pane
  (`Layouts`). `ViewIsLive` needs that nothing is left of a ptyd that has died
  (`AfterDeath`) and that what is shown without a link is a stray
  (`StrayView`). `BlobFollows` is the end of `Saved`: the last layout among the
  requests under way, or else the one ptyd has, is the present one.
  `MirrorTruth` says nothing until the system is settled; what holds all along is
  `Followed`: of each pane that met no race, the requests under way to ptyd and the
  exits under way from it, applied to what ptyd holds, give what mymuxd shows,
  waits for or has forgotten. `Listed` is the same for a mymuxd that has read the
  list and not yet committed to it.
* **Mirror.** For any panes, chunks, handlers, connections and capacity. Chunks of a
  pane come in their order wherever they are (`PipeInOrder`, `EventsInOrder`), and
  what a terminal lacks is on its way to it, unless an event was dropped and the
  resync is still to come (`Followed`). `Resync` restores that because it distrusts
  every terminal and the seed it then takes lacks nothing but what will come
  (`BeforeSeed`). `SameView` is proved for one handler only: `ViewKnown` says where
  the hub's view is written on its way to the browser, and with two handlers it
  would be false (section 4).
* **Packages.** For any number of commands and versions. As long as no rivals met
  there is one command at a time and no orphan beside it (`Alone`); each step then
  says what is in staging (`Staged`: no manifest while it fills, whole from
  `clear` on) and where the activated package is (`Kept`).
* **Agents.** For any finite set of panes and chunks of any length. What the
  recursive scan returns does not matter: whatever it is, output sets no badge, and
  it is the sweep's look at `hushed` under the lock that keeps the ask away.
  `KeepsPlace` holds because no pane is twice in the queue (`QueueInv`) and every
  step but a defer gives a queue that `Follows` the old one: it puts nothing before
  a pane that was there already. A filter keeps the order of what it leaves
  (`SieveIs`, by a least counterexample over the prefixes of the queue).
* **Repo.** For any requests, directories and subset of git's sequencers.
  `RightSequencer` needs what a steady request that is past the first probe knows
  (`ProbeInv`): there is no rebase, so the heads that `ProbeHeads` finds are those
  of the sequencer itself.
* **Control.** For any slots, windows and panes. `OneClient` is inductive with the
  types of two variables. `Synced` says something only when the reader has caught
  up; what holds all along, while the client that was started last is served, is
  `Mirrors`, about the lines that the reader has still to read. None of them is cut
  off or of a window to come (`Whole`); a window that tmux has is told with its
  layout by the last unread line about it, or will be pulled, or is found with that
  layout in what was pulled or in the model (`Stays`); whatever brings a window back
  that tmux has closed is followed by its close (`Goes`); and the current window is
  in the last unread switch, or in the model if there is none (`Views`). A step of
  the reader takes the first line and moves what it tells to the model; a step of
  tmux writes lines that tell what it changed (`Tells`).
* **Layout.** For any number of panes, any sizes of two cells or more, any drags and
  any nesting. The clauses of `Tiled` alone are kept by no operation: `LayoutInv` needs
  what a tree is (`Tree`: the names are laminar, a box has two children or more that
  part its panes, every pane is a leaf), and of each box two facts besides. Children
  that do not end with their box include an empty one (in `Laid`): otherwise a tree
  whose panes have a cell each could still overflow, and laying it out again would
  move it. And none is empty where there was a cell for each (`Ample`, in `RoomInv`),
  which only a late split breaks, until the next resize. `SavedInv` says that the
  blob's tree is the window's, for `Restart`; `SplitsInv` that a split in flight has
  halves of a size that had two cells, and a pane of its own. From there:
  - *Shares.* The running sums grow, end with the box when there is a cell for each
    child (`EndsFit`) and are forced when there is not (`EndsTight`); children that
    fill the box keep their places (`EndsKeep`), and sharing twice is sharing once
    (`EndsTwice`). What a recursive function on numbers gives is proved by the least
    number at which it would not.
  - *Trees.* `ResizeLays`, `MoveIs`, `SwapIs`, `RemoveIs` and `SplitIs` say of each
    operation that a tree stays one, well laid out and, but for the late split, ample.
    For `Scale` the rectangle of a cell is followed down from its box (`ParentIs`: one
    box has it as a child), by a largest counterexample.
  - *At rest.* With a cell for every pane each box is filled exactly (`RoomyIsSolid`,
    by a smallest cell that is empty), so by `EndsKeep` its children are where `Scale`
    puts them; by `EndsTwice` so are those of any tree that `Scale` made, however tight.
    Such a tree is not moved (`SettledStays`).
  - *Focus.* Two panes part in one box and do not overlap (`Apart`), and each point of
    the window is in some pane (`Covered`). The pane with the point just beyond an
    edge is ahead at distance zero (`Across`), and `Neighbour` takes a nearest one.

Only model-checked: the liveness properties (`Reaped`, `ExitPublished`,
`SettlesOnStableNet`, `ClaimEnds`, `SeenFades`, `Answered`, `Appears`, `Forgotten`),
which are out of the prover's reach under fairness. `SameView` is proved for one
handler and checked for one (section 4).

## 6. What is not modelled

* ptyd's own broadcast and its lag (main.rs:267), which drops an Exit for good.
* The desktop app's concurrent connects, disconnects and metadata refresh.
* The finer grain of mymuxd's command handlers between two mutexes of one stretch
  without an await, in `Engine` and `Layout`.
* The installer's individual file steps; only its outcome is in `Tunnel`.
* The terminal grid, frame and host-file parsing, the text of tmux's lines, the
  package catalog, listings, diffs, search, process and history services, the
  editor and the git graph of the web UI, mymux-attach, deployment scripts:
  data transformation or I/O without interleavings of their own.

## 7. What could follow

1. `Desktop`: two connects, a disconnect and a refresh on one host racing over
   the app's maps, each connect with its own tunnel.
2. `Engine` over `PaneLife` instead of its own account of ptyd, so that the two are
   composed by refinement.
