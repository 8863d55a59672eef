--------------------------- MODULE PackagesProofs ---------------------------
(***************************************************************************)
(* Proofs about the packages of mymux-pkg, for any number of commands,     *)
(* versions and slots. IInv is the inductive invariant: as long as no      *)
(* command met another one that the claim does not keep apart, there is    *)
(* one command at a time, and each step of it says what is in the staging  *)
(* directory and what became of the activated one.                         *)
(***************************************************************************)
EXTENDS Packages, TLAPS

USE DEF files, history, editing, vars
USE PackagesAssumption DEF PackagesAssumption

Filling == {"fetch", "tool", "lingers", "manifest"}

(* One command at a time, and no child of a dead one besides. *)
Alone ==
  ~rivals =>
    /\ \A p, q \in Procs : Working(p) /\ Working(q) => p = q
    /\ \A p \in Procs : Working(p) => orphans = {}

(* What the step of a command says about the two directories. *)
Staged ==
  ~rivals =>
    /\ orphans # {} => dir["staging"].json = None
    /\ \A p \in Procs :
         /\ cli[p].pc \in Filling => dir["staging"].json = None /\ cli[p].v \in Versions
         /\ cli[p].pc = "manifest" => dir["staging"].bin = cli[p].v
         /\ cli[p].pc \in {"clear", "swap"} => Whole("staging")
         /\ cli[p].pc = "swap" => Cleared
         /\ cli[p].pc = "bind" => cli[p].v = dir["dest"].json
         /\ cli[p].pc = "remove" => ~owned

(* Where the activated package is, if it was not given up. *)
Kept ==
  owned /\ ~rivals /\ ~retried =>
    /\ Whole("dest") \/ Whole("staging")
    /\ orphans # {} => Whole("dest")
    /\ \A p \in Procs : cli[p].pc \in Filling => Whole("dest")

(* TypeOK in three parts. *)
DirsOK ==
  /\ dir \in [Dirs -> [here : BOOLEAN, bin : Versions \cup {None, Partial}, json : Versions \cup {None}]]
  /\ \A d \in Dirs : ~dir[d].here => dir[d] = NoDir

CliOK ==
  /\ cli \in [Procs -> [pc : Steps, by : {"pkgs", "lsp", "user"}, v : Versions \cup {None}]]
  /\ claimed \subseteq {p \in Procs : cli[p].pc # "idle" /\ cli[p].by = "pkgs"}
  /\ \A p, q \in claimed : p = q

RestOK ==
  /\ orphans \subseteq Versions
  /\ verdict \in {"unknown", "runs", "fails"}
  /\ editor \in Dirs \cup {"closed", "path"}
  /\ rivals \in BOOLEAN /\ retried \in BOOLEAN /\ owned \in BOOLEAN
  /\ cmds \in 0..MaxCmd

(* Who writes a program or a manifest has a version to write. *)
Named == \A p \in Procs : cli[p].pc \in Filling \cup {"bind"} => cli[p].v \in Versions

(* The inductive invariant. *)
IInv == TypeOK /\ Named /\ Alone /\ Staged /\ ValidIsWhole /\ Kept

(* The initial states satisfy it. *)
LEMMA InitIInv == Init => IInv
<1> SUFFICES ASSUME Init PROVE IInv
  OBVIOUS
<1>1. \A p \in Procs : cli[p].pc = "idle"
  BY DEF Init, Idle
<1>2. \A d \in Dirs : dir[d] = NoDir
  BY DEF Init
<1>3. TypeOK
  <2>1. DirsOK
    BY DEF Init, DirsOK, NoDir
  <2>2. CliOK
    BY DEF Init, CliOK, Idle, Steps
  <2>3. RestOK
    <3>1. cmds \in 0..MaxCmd
      BY DEF Init
    <3>2. rivals \in BOOLEAN /\ retried \in BOOLEAN /\ owned \in BOOLEAN
      BY Zenon DEF Init
    <3> QED BY <3>1, <3>2 DEF Init, RestOK
  <2> QED BY <2>1, <2>2, <2>3 DEF TypeOK, DirsOK, CliOK, RestOK
<1>4. Named /\ Alone /\ Staged
  BY <1>1 DEF Init, Named, Alone, Staged, Working, Filling
<1>5. ValidIsWhole /\ Kept
  BY <1>2 DEF Init, ValidIsWhole, Kept, Offered, NoDir
<1> QED BY <1>3, <1>4, <1>5 DEF IInv

(* A directory takes a new content. *)
LEMMA DirType ==
  ASSUME TypeOK, NEW d \in Dirs, NEW here \in BOOLEAN, NEW bin \in Versions \cup {None, Partial},
         NEW json \in Versions \cup {None},
         here \/ (bin = None /\ json = None),
         dir' = [dir EXCEPT ![d] = [here |-> here, bin |-> bin, json |-> json]]
  PROVE  DirsOK'
  BY DEF TypeOK, DirsOK, NoDir

LEMMA PutType ==
  ASSUME TypeOK, NEW d \in Dirs, NEW bin \in Versions \cup {None, Partial},
         NEW json \in Versions \cup {None}, dir' = Put(d, bin, json)
  PROVE  DirsOK'
  BY DEF Put, TypeOK, DirsOK, NoDir

(* A command that makes nobody a rival finds nobody. *)
LEMMA AdmittedAlone ==
  ASSUME IInv, NEW p \in Procs, NEW by, Admits(p, by), ~rivals'
  PROVE  ~rivals /\ orphans = {} /\ \A q \in Procs : ~Working(q)
  BY DEF IInv, TypeOK, Admits, Meets, Free

(* Every action keeps the types, and the claim with a command that works. *)
LEMMA TypeStep ==
  ASSUME IInv, Next
  PROVE  TypeOK'
<1>1. ASSUME NEW p \in Procs, NEW by \in {"pkgs", "lsp", "user"}, NEW v \in Versions, Install(p, by, v) PROVE TypeOK'
  <2>1. DirsOK'
    BY <1>1 DEF Install, Admits, Meets, IInv, TypeOK, DirsOK, NoDir, Empty, Dirs
  <2>2. CliOK'
    BY <1>1 DEF Install, Admits, Meets, IInv, TypeOK, CliOK, Idle, Steps, Free
  <2>3. RestOK'
    BY <1>1 DEF Install, Admits, Meets, IInv, TypeOK, RestOK, Probe, Offered
  <2> QED BY <2>1, <2>2, <2>3 DEF TypeOK, DirsOK, CliOK, RestOK
<1>2. ASSUME NEW p \in Procs, NEW by \in {"pkgs", "lsp", "user"}, Remove(p, by) PROVE TypeOK'
  <2>1. DirsOK'
    BY <1>2 DEF Remove, Admits, Meets, IInv, TypeOK, DirsOK, NoDir, Empty, Dirs
  <2>2. CliOK'
    BY <1>2 DEF Remove, Admits, Meets, IInv, TypeOK, CliOK, Idle, Steps, Free
  <2>3. RestOK'
    <3>1. rivals' \in BOOLEAN
      BY <1>2 DEF Remove, Admits, Meets
    <3>2. cmds' \in 0..MaxCmd
      BY <1>2 DEF Remove, Admits, IInv, TypeOK
    <3> QED BY <1>2, <3>1, <3>2 DEF Remove, IInv, TypeOK, RestOK
  <2> QED BY <2>1, <2>2, <2>3 DEF TypeOK, DirsOK, CliOK, RestOK
<1>3. ASSUME NEW p \in Procs, Bind(p) PROVE TypeOK'
  <2>1. DirsOK'
    BY <1>3 DEF Bind, Admits, Meets, IInv, TypeOK, DirsOK, NoDir, Empty, Dirs
  <2>2. CliOK'
    <3>1. dir["dest"].json \in Versions \cup {None}
      BY DEF IInv, TypeOK, Dirs
    <3>2. cli[p] = Idle /\ UNCHANGED claimed
          /\ cli' = [cli EXCEPT ![p] = [pc |-> "bind", by |-> "user", v |-> dir["dest"].json]]
      BY <1>3 DEF Bind, Admits
    <3> QED BY <3>1, <3>2 DEF IInv, TypeOK, CliOK, Idle, Steps
  <2>3. RestOK'
    BY <1>3 DEF Bind, Admits, Meets, IInv, TypeOK, RestOK, Probe, Offered
  <2> QED BY <2>1, <2>2, <2>3 DEF TypeOK, DirsOK, CliOK, RestOK
<1>4. ASSUME NEW p \in Procs, Unpack(p) PROVE TypeOK'
  <2>1. DirsOK'
    BY <1>4 DEF Unpack, Goto, Written, Put, IInv, TypeOK, DirsOK, NoDir, Empty, Dirs
  <2>2. CliOK'
    BY <1>4 DEF Unpack, Goto, Written, Put, IInv, TypeOK, CliOK, Idle, Steps, Free
  <2>3. RestOK'
    BY <1>4 DEF Unpack, Goto, Written, Put, IInv, TypeOK, RestOK, Probe, Offered
  <2> QED BY <2>1, <2>2, <2>3 DEF TypeOK, DirsOK, CliOK, RestOK
<1>5. ASSUME NEW p \in Procs, Refuse(p) PROVE TypeOK'
  <2>1. DirsOK'
    BY <1>5 DEF Refuse, Exit, IInv, TypeOK, DirsOK, NoDir, Empty, Dirs
  <2>2. CliOK'
    BY <1>5 DEF Refuse, Exit, IInv, TypeOK, CliOK, Idle, Steps, Free
  <2>3. RestOK'
    BY <1>5 DEF Refuse, Exit, IInv, TypeOK, RestOK, Probe, Offered
  <2> QED BY <2>1, <2>2, <2>3 DEF TypeOK, DirsOK, CliOK, RestOK
<1>6. ASSUME NEW p \in Procs, RunTool(p) PROVE TypeOK'
  <2>1. DirsOK'
    BY <1>6 DEF RunTool, Goto, Written, Put, IInv, TypeOK, DirsOK, NoDir, Empty, Dirs
  <2>2. CliOK'
    BY <1>6 DEF RunTool, Goto, Written, Put, IInv, TypeOK, CliOK, Idle, Steps, Free
  <2>3. RestOK'
    BY <1>6 DEF RunTool, Goto, Written, Put, IInv, TypeOK, RestOK, Probe, Offered
  <2> QED BY <2>1, <2>2, <2>3 DEF TypeOK, DirsOK, CliOK, RestOK
<1>7. ASSUME NEW p \in Procs, ToolEnds(p) PROVE TypeOK'
  <2>1. DirsOK'
    BY <1>7 DEF ToolEnds, Goto, Written, Put, IInv, TypeOK, DirsOK, NoDir, Empty, Dirs
  <2>2. CliOK'
    BY <1>7 DEF ToolEnds, Goto, Written, Put, IInv, TypeOK, CliOK, Idle, Steps, Free
  <2>3. RestOK'
    BY <1>7 DEF ToolEnds, Goto, Written, Put, IInv, TypeOK, RestOK, Probe, Offered
  <2> QED BY <2>1, <2>2, <2>3 DEF TypeOK, DirsOK, CliOK, RestOK
<1>8. ASSUME NEW p \in Procs, ToolFails(p) PROVE TypeOK'
  <2>1. DirsOK'
    <3>1. CASE UNCHANGED dir
      BY <3>1 DEF IInv, TypeOK, DirsOK
    <3>2. CASE dir' = [dir EXCEPT !["staging"] = NoDir]
      BY <3>2, DirType DEF IInv, NoDir, Dirs
    <3> QED BY <1>8, <3>1, <3>2 DEF ToolFails
  <2>2. CliOK'
    BY <1>8 DEF ToolFails, Exit, IInv, TypeOK, CliOK, Idle, Steps, Free
  <2>3. RestOK'
    BY <1>8 DEF ToolFails, Exit, IInv, TypeOK, RestOK, Probe, Offered
  <2> QED BY <2>1, <2>2, <2>3 DEF TypeOK, DirsOK, CliOK, RestOK
<1>9. ASSUME NEW p \in Procs, WriteManifest(p) PROVE TypeOK'
  <2>1. DirsOK'
    <3>1. CASE dir' = dir
      BY <3>1 DEF IInv, TypeOK, DirsOK
    <3>2. CASE dir["staging"].here /\ dir' = Put("staging", dir["staging"].bin, cli[p].v)
      <4>1. dir["staging"].bin \in Versions \cup {None, Partial}
        BY DEF IInv, TypeOK, Dirs
      <4>2. cli[p].v \in Versions
        BY <1>9 DEF WriteManifest, IInv, Named, Filling
      <4> QED BY <3>2, <4>1, <4>2, PutType DEF IInv, Dirs
    <3> QED BY <1>9, <3>1, <3>2 DEF WriteManifest, Gives
  <2>2. CliOK'
    <3>1. CASE Goto(p, "clear") /\ UNCHANGED claimed
      BY <3>1, <1>9 DEF WriteManifest, Goto, IInv, TypeOK, CliOK, Steps
    <3>2. CASE Exit(p)
      BY <3>2 DEF Exit, IInv, TypeOK, CliOK, Idle, Steps
    <3> QED BY <1>9, <3>1, <3>2 DEF WriteManifest, Gives
  <2>3. RestOK'
    BY <1>9 DEF WriteManifest, IInv, TypeOK, RestOK
  <2> QED BY <2>1, <2>2, <2>3 DEF TypeOK, DirsOK, CliOK, RestOK
<1>10. ASSUME NEW p \in Procs, ClearDest(p) PROVE TypeOK'
  <2>1. DirsOK'
    <3>1. dir["dest"].here /\ dir["dest"] \in [here : BOOLEAN, bin : Versions \cup {None, Partial},
                                                json : Versions \cup {None}]
      BY <1>10 DEF ClearDest, UnlinkBin, UnlinkJson, Put, IInv, TypeOK, NoDir, Dirs
    <3>2. CASE UnlinkBin
      <4>1. dir' = Put("dest", None, dir["dest"].json)
        BY <3>2 DEF UnlinkBin
      <4> QED BY <3>1, <4>1, PutType DEF IInv, Dirs
    <3>3. CASE UnlinkJson
      <4>1. dir' = Put("dest", dir["dest"].bin, None)
        BY <3>3 DEF UnlinkJson
      <4> QED BY <3>1, <4>1, PutType DEF IInv, Dirs
    <3> QED BY <1>10, <3>2, <3>3 DEF ClearDest
  <2>2. CliOK'
    BY <1>10 DEF ClearDest, UnlinkBin, UnlinkJson, Put, IInv, TypeOK, CliOK, Idle, Steps, Free
  <2>3. RestOK'
    BY <1>10 DEF ClearDest, UnlinkBin, UnlinkJson, Put, IInv, TypeOK, RestOK, Probe, Offered
  <2> QED BY <2>1, <2>2, <2>3 DEF TypeOK, DirsOK, CliOK, RestOK
<1>11. ASSUME NEW p \in Procs, DestGone(p) PROVE TypeOK'
  <2>1. DirsOK'
    BY <1>11 DEF DestGone, Cleared, Goto, Exit, IInv, TypeOK, DirsOK, NoDir, Empty, Dirs
  <2>2. CliOK'
    BY <1>11 DEF DestGone, Cleared, Goto, Exit, IInv, TypeOK, CliOK, Idle, Steps, Free
  <2>3. RestOK'
    BY <1>11 DEF DestGone, Cleared, Goto, Exit, IInv, TypeOK, RestOK, Probe, Offered
  <2> QED BY <2>1, <2>2, <2>3 DEF TypeOK, DirsOK, CliOK, RestOK
<1>12. ASSUME NEW p \in Procs, Swap(p) PROVE TypeOK'
  <2>1. DirsOK'
    <3>1. CASE UNCHANGED dir
      BY <3>1 DEF IInv, TypeOK, DirsOK
    <3>2. CASE dir' = [dir EXCEPT !["dest"] = dir["staging"], !["staging"] = NoDir]
      BY <3>2 DEF IInv, TypeOK, DirsOK, NoDir, Dirs
    <3> QED BY <1>12, <3>1, <3>2 DEF Swap
  <2>2. CliOK'
    BY <1>12 DEF Swap, Cleared, Exit, IInv, TypeOK, CliOK, Idle, Steps, Free
  <2>3. RestOK'
    BY <1>12 DEF Swap, Cleared, Exit, IInv, TypeOK, RestOK, Probe, Offered
  <2> QED BY <2>1, <2>2, <2>3 DEF TypeOK, DirsOK, CliOK, RestOK
<1>13. ASSUME NEW p \in Procs, WriteBinding(p) PROVE TypeOK'
  <2>1. DirsOK'
    <3>1. CASE UNCHANGED dir
      BY <3>1 DEF IInv, TypeOK, DirsOK
    <3>2. CASE dir["dest"].here /\ dir' = Put("dest", dir["dest"].bin, cli[p].v)
      <4>1. dir["dest"].bin \in Versions \cup {None, Partial}
        BY DEF IInv, TypeOK, Dirs
      <4>2. cli[p].v \in Versions
        BY <1>13 DEF WriteBinding, IInv, Named
      <4> QED BY <3>2, <4>1, <4>2, PutType DEF IInv, Dirs
    <3> QED BY <1>13, <3>1, <3>2 DEF WriteBinding
  <2>2. CliOK'
    BY <1>13 DEF WriteBinding, Put, Exit, IInv, TypeOK, CliOK, Idle, Steps, Free
  <2>3. RestOK'
    BY <1>13 DEF WriteBinding, Put, Exit, IInv, TypeOK, RestOK, Probe, Offered
  <2> QED BY <2>1, <2>2, <2>3 DEF TypeOK, DirsOK, CliOK, RestOK
<1>14. ASSUME NEW p \in Procs, ChildDone(p) PROVE TypeOK'
  <2>1. DirsOK'
    BY <1>14 DEF ChildDone, Written, Put, Exit, IInv, TypeOK, DirsOK, NoDir, Empty, Dirs
  <2>2. CliOK'
    BY <1>14 DEF ChildDone, Written, Put, Exit, IInv, TypeOK, CliOK, Idle, Steps, Free
  <2>3. RestOK'
    BY <1>14 DEF ChildDone, Written, Put, Exit, IInv, TypeOK, RestOK, Probe, Offered
  <2> QED BY <2>1, <2>2, <2>3 DEF TypeOK, DirsOK, CliOK, RestOK
<1>15. ASSUME NEW p \in Procs, Dies(p) PROVE TypeOK'
  <2>1. DirsOK'
    BY <1>15 DEF Dies, Working, Goto, Exit, IInv, TypeOK, DirsOK, NoDir, Empty, Dirs
  <2>2. CliOK'
    BY <1>15 DEF Dies, Working, Goto, Exit, IInv, TypeOK, CliOK, Idle, Steps, Free
  <2>3. RestOK'
    BY <1>15 DEF Dies, Working, Goto, Exit, IInv, TypeOK, RestOK, Probe, Offered
  <2> QED BY <2>1, <2>2, <2>3 DEF TypeOK, DirsOK, CliOK, RestOK
<1>16. ASSUME NEW p \in Procs, Deadline(p) PROVE TypeOK'
  <2>1. DirsOK'
    BY <1>16 DEF Deadline, Working, Exit, IInv, TypeOK, DirsOK, NoDir, Empty, Dirs
  <2>2. CliOK'
    BY <1>16 DEF Deadline, Working, Exit, IInv, TypeOK, CliOK, Idle, Steps, Free
  <2>3. RestOK'
    <3>1. orphans' \subseteq Versions
      BY <1>16 DEF Deadline, IInv, TypeOK, Named, Filling
    <3> QED BY <1>16, <3>1 DEF Deadline, IInv, TypeOK, RestOK
  <2> QED BY <2>1, <2>2, <2>3 DEF TypeOK, DirsOK, CliOK, RestOK
<1>17. ASSUME NEW v \in Versions, OrphanWrites(v) PROVE TypeOK'
  <2>1. DirsOK'
    <3>1. PICK bin \in {v, Partial} : dir' = Written(bin)
      BY <1>17 DEF OrphanWrites
    <3>2. dir["staging"].json \in Versions \cup {None}
      BY DEF IInv, TypeOK, Dirs
    <3> QED BY <3>1, <3>2, PutType DEF Written, IInv, Dirs
  <2>2. CliOK'
    BY <1>17 DEF OrphanWrites, Written, Put, IInv, TypeOK, CliOK, Idle, Steps, Free
  <2>3. RestOK'
    BY <1>17 DEF OrphanWrites, Written, Put, IInv, TypeOK, RestOK, Probe, Offered
  <2> QED BY <2>1, <2>2, <2>3 DEF TypeOK, DirsOK, CliOK, RestOK
<1>18. ASSUME Restart PROVE TypeOK'
  <2>1. DirsOK'
    BY <1>18 DEF Restart, IInv, TypeOK, DirsOK, NoDir, Empty, Dirs
  <2>2. CliOK'
    BY <1>18 DEF Restart, IInv, TypeOK, CliOK, Idle, Steps, Free
  <2>3. RestOK'
    BY <1>18 DEF Restart, IInv, TypeOK, RestOK, Probe, Offered
  <2> QED BY <2>1, <2>2, <2>3 DEF TypeOK, DirsOK, CliOK, RestOK
<1>19. ASSUME Resolve PROVE TypeOK'
  <2>1. DirsOK'
    BY <1>19 DEF Resolve, IInv, TypeOK, DirsOK, NoDir, Empty, Dirs
  <2>2. CliOK'
    BY <1>19 DEF Resolve, IInv, TypeOK, CliOK, Idle, Steps, Free
  <2>3. RestOK'
    BY <1>19 DEF Resolve, IInv, TypeOK, RestOK, Probe, Offered
  <2> QED BY <2>1, <2>2, <2>3 DEF TypeOK, DirsOK, CliOK, RestOK
<1>20. ASSUME Hangup PROVE TypeOK'
  <2>1. DirsOK'
    BY <1>20 DEF Hangup, IInv, TypeOK, DirsOK, NoDir, Empty, Dirs
  <2>2. CliOK'
    BY <1>20 DEF Hangup, IInv, TypeOK, CliOK, Idle, Steps, Free
  <2>3. RestOK'
    BY <1>20 DEF Hangup, IInv, TypeOK, RestOK, Probe, Offered
  <2> QED BY <2>1, <2>2, <2>3 DEF TypeOK, DirsOK, CliOK, RestOK
<1> QED
  BY <1>1, <1>2, <1>3, <1>4, <1>5, <1>6, <1>7, <1>8, <1>9, <1>10, <1>11, <1>12, <1>13, <1>14, <1>15, <1>16, <1>17, <1>18, <1>19, <1>20
  DEF Next, Command, Progress

(* Every action that goes on to write names a version. *)
LEMMA NamedStep ==
  ASSUME IInv, Next
  PROVE  Named'
<1>1. ASSUME NEW p \in Procs, NEW by \in {"pkgs", "lsp", "user"}, NEW v \in Versions, Install(p, by, v) PROVE Named'
  BY <1>1 DEF Install, Admits, Meets, IInv, TypeOK, Named, Working, Filling, Free, Idle
<1>2. ASSUME NEW p \in Procs, NEW by \in {"pkgs", "lsp", "user"}, Remove(p, by) PROVE Named'
  BY <1>2 DEF Remove, Admits, Meets, IInv, TypeOK, Named, Working, Filling, Free, Idle
<1>3. ASSUME NEW p \in Procs, Bind(p) PROVE Named'
  <2>1. dir["dest"].json \in Versions
    BY <1>3 DEF Bind, IInv, TypeOK, Dirs
  <2> QED BY <1>3, <2>1 DEF Bind, Admits, IInv, TypeOK, Named, Filling
<1>4. ASSUME NEW p \in Procs, Unpack(p) PROVE Named'
  BY <1>4 DEF Unpack, Goto, Written, Put, IInv, TypeOK, Named, Working, Filling, Free, Idle
<1>5. ASSUME NEW p \in Procs, Refuse(p) PROVE Named'
  BY <1>5 DEF Refuse, Exit, IInv, TypeOK, Named, Working, Filling, Free, Idle
<1>6. ASSUME NEW p \in Procs, RunTool(p) PROVE Named'
  BY <1>6 DEF RunTool, Goto, Written, Put, IInv, TypeOK, Named, Working, Filling, Free, Idle
<1>7. ASSUME NEW p \in Procs, ToolEnds(p) PROVE Named'
  BY <1>7 DEF ToolEnds, Goto, Written, Put, IInv, TypeOK, Named, Working, Filling, Free, Idle
<1>8. ASSUME NEW p \in Procs, ToolFails(p) PROVE Named'
  BY <1>8 DEF ToolFails, Exit, IInv, TypeOK, Named, Working, Filling, Free, Idle
<1>9. ASSUME NEW p \in Procs, WriteManifest(p) PROVE Named'
  BY <1>9 DEF WriteManifest, Goto, Gives, Put, Exit, IInv, TypeOK, Named, Working, Filling, Free, Idle
<1>10. ASSUME NEW p \in Procs, ClearDest(p) PROVE Named'
  BY <1>10 DEF ClearDest, UnlinkBin, UnlinkJson, Put, IInv, TypeOK, Named, Working, Filling, Free, Idle
<1>11. ASSUME NEW p \in Procs, DestGone(p) PROVE Named'
  BY <1>11 DEF DestGone, Cleared, Goto, Exit, IInv, TypeOK, Named, Working, Filling, Free, Idle
<1>12. ASSUME NEW p \in Procs, Swap(p) PROVE Named'
  BY <1>12 DEF Swap, Cleared, Exit, IInv, TypeOK, Named, Working, Filling, Free, Idle
<1>13. ASSUME NEW p \in Procs, WriteBinding(p) PROVE Named'
  BY <1>13 DEF WriteBinding, Put, Exit, IInv, TypeOK, Named, Working, Filling, Free, Idle
<1>14. ASSUME NEW p \in Procs, ChildDone(p) PROVE Named'
  BY <1>14 DEF ChildDone, Written, Put, Exit, IInv, TypeOK, Named, Working, Filling, Free, Idle
<1>15. ASSUME NEW p \in Procs, Dies(p) PROVE Named'
  BY <1>15 DEF Dies, Working, Goto, Exit, IInv, TypeOK, Named, Filling, Idle
<1>16. ASSUME NEW p \in Procs, Deadline(p) PROVE Named'
  BY <1>16 DEF Deadline, Working, Exit, IInv, TypeOK, Named, Filling, Idle
<1>17. ASSUME NEW v \in Versions, OrphanWrites(v) PROVE Named'
  BY <1>17 DEF OrphanWrites, Written, Put, IInv, TypeOK, Named, Working, Filling, Free, Idle
<1>18. ASSUME Restart PROVE Named'
  BY <1>18 DEF Restart, IInv, TypeOK, Named, Working, Filling, Free, Idle
<1>19. ASSUME Resolve PROVE Named'
  BY <1>19 DEF Resolve, IInv, TypeOK, Named, Working, Filling, Free, Idle
<1>20. ASSUME Hangup PROVE Named'
  BY <1>20 DEF Hangup, IInv, TypeOK, Named, Working, Filling, Free, Idle
<1> QED
  BY <1>1, <1>2, <1>3, <1>4, <1>5, <1>6, <1>7, <1>8, <1>9, <1>10, <1>11, <1>12, <1>13, <1>14, <1>15, <1>16, <1>17, <1>18, <1>19, <1>20
  DEF Next, Command, Progress

(* Every action leaves one command at a time. *)
LEMMA AloneStep ==
  ASSUME IInv, Next
  PROVE  Alone'
<1>1. ASSUME NEW p \in Procs, NEW by \in {"pkgs", "lsp", "user"}, NEW v \in Versions, Install(p, by, v) PROVE Alone'
  BY <1>1 DEF Install, Admits, Meets, IInv, TypeOK, Alone, Working, Free, Idle
<1>2. ASSUME NEW p \in Procs, NEW by \in {"pkgs", "lsp", "user"}, Remove(p, by) PROVE Alone'
  BY <1>2 DEF Remove, Admits, Meets, IInv, TypeOK, Alone, Working, Free, Idle
<1>3. ASSUME NEW p \in Procs, Bind(p) PROVE Alone'
  BY <1>3 DEF Bind, Admits, Meets, IInv, TypeOK, Alone, Working, Free, Idle
<1>4. ASSUME NEW p \in Procs, Unpack(p) PROVE Alone'
  BY <1>4 DEF Unpack, Goto, Written, Put, IInv, TypeOK, Alone, Working, Free, Idle
<1>5. ASSUME NEW p \in Procs, Refuse(p) PROVE Alone'
  BY <1>5 DEF Refuse, Exit, IInv, TypeOK, Alone, Working, Free, Idle
<1>6. ASSUME NEW p \in Procs, RunTool(p) PROVE Alone'
  BY <1>6 DEF RunTool, Goto, Written, Put, IInv, TypeOK, Alone, Working, Free, Idle
<1>7. ASSUME NEW p \in Procs, ToolEnds(p) PROVE Alone'
  BY <1>7 DEF ToolEnds, Goto, Written, Put, IInv, TypeOK, Alone, Working, Free, Idle
<1>8. ASSUME NEW p \in Procs, ToolFails(p) PROVE Alone'
  BY <1>8 DEF ToolFails, Exit, IInv, TypeOK, Alone, Working, Free, Idle
<1>9. ASSUME NEW p \in Procs, WriteManifest(p) PROVE Alone'
  BY <1>9 DEF WriteManifest, Goto, Gives, Put, Exit, IInv, TypeOK, Alone, Working, Free, Idle
<1>10. ASSUME NEW p \in Procs, ClearDest(p) PROVE Alone'
  BY <1>10 DEF ClearDest, UnlinkBin, UnlinkJson, Put, IInv, TypeOK, Alone, Working, Free, Idle
<1>11. ASSUME NEW p \in Procs, DestGone(p) PROVE Alone'
  BY <1>11 DEF DestGone, Cleared, Goto, Exit, IInv, TypeOK, Alone, Working, Free, Idle
<1>12. ASSUME NEW p \in Procs, Swap(p) PROVE Alone'
  BY <1>12 DEF Swap, Cleared, Exit, IInv, TypeOK, Alone, Working, Free, Idle
<1>13. ASSUME NEW p \in Procs, WriteBinding(p) PROVE Alone'
  BY <1>13 DEF WriteBinding, Put, Exit, IInv, TypeOK, Alone, Working, Free, Idle
<1>14. ASSUME NEW p \in Procs, ChildDone(p) PROVE Alone'
  BY <1>14 DEF ChildDone, Written, Put, Exit, IInv, TypeOK, Alone, Working, Free, Idle
<1>15. ASSUME NEW p \in Procs, Dies(p) PROVE Alone'
  BY <1>15 DEF Dies, Working, Goto, Exit, IInv, TypeOK, Alone, Free, Idle
<1>16. ASSUME NEW p \in Procs, Deadline(p) PROVE Alone'
  BY <1>16 DEF Deadline, Working, Exit, IInv, TypeOK, Alone, Free, Idle
<1>17. ASSUME NEW v \in Versions, OrphanWrites(v) PROVE Alone'
  BY <1>17 DEF OrphanWrites, Written, Put, IInv, TypeOK, Alone, Working, Free, Idle
<1>18. ASSUME Restart PROVE Alone'
  BY <1>18 DEF Restart, IInv, TypeOK, Alone, Working, Free, Idle
<1>19. ASSUME Resolve PROVE Alone'
  BY <1>19 DEF Resolve, IInv, TypeOK, Alone, Working, Free, Idle
<1>20. ASSUME Hangup PROVE Alone'
  BY <1>20 DEF Hangup, IInv, TypeOK, Alone, Working, Free, Idle
<1> QED
  BY <1>1, <1>2, <1>3, <1>4, <1>5, <1>6, <1>7, <1>8, <1>9, <1>10, <1>11, <1>12, <1>13, <1>14, <1>15, <1>16, <1>17, <1>18, <1>19, <1>20
  DEF Next, Command, Progress

(* Every action leaves in the directories what the next one relies on. *)
LEMMA StagedStep ==
  ASSUME IInv, Next
  PROVE  Staged'
<1>1. ASSUME NEW p \in Procs, NEW by \in {"pkgs", "lsp", "user"}, NEW v \in Versions, Install(p, by, v) PROVE Staged'
  BY <1>1 DEF Install, Admits, Meets, IInv, TypeOK, Alone, Staged, Working, Filling, Whole, Cleared, Dirs, Empty, NoDir, Idle, Free
<1>2. ASSUME NEW p \in Procs, NEW by \in {"pkgs", "lsp", "user"}, Remove(p, by) PROVE Staged'
  BY <1>2 DEF Remove, Admits, Meets, IInv, TypeOK, Alone, Staged, Working, Filling, Whole, Cleared, Dirs, Empty, NoDir, Idle, Free
<1>3. ASSUME NEW p \in Procs, Bind(p) PROVE Staged'
  BY <1>3 DEF Bind, Admits, Meets, IInv, TypeOK, Alone, Staged, Working, Filling, Whole, Cleared, Dirs, Empty, NoDir, Idle, Free
<1>4. ASSUME NEW p \in Procs, Unpack(p) PROVE Staged'
  BY <1>4 DEF Unpack, Goto, Written, Put, IInv, TypeOK, Alone, Staged, Working, Filling, Whole, Cleared, Dirs, Empty, NoDir, Idle, Free
<1>5. ASSUME NEW p \in Procs, Refuse(p) PROVE Staged'
  BY <1>5 DEF Refuse, Exit, IInv, TypeOK, Alone, Staged, Working, Filling, Whole, Cleared, Dirs, Empty, NoDir, Idle, Free
<1>6. ASSUME NEW p \in Procs, RunTool(p) PROVE Staged'
  BY <1>6 DEF RunTool, Goto, Written, Put, IInv, TypeOK, Alone, Staged, Working, Filling, Whole, Cleared, Dirs, Empty, NoDir, Idle, Free
<1>7. ASSUME NEW p \in Procs, ToolEnds(p) PROVE Staged'
  BY <1>7 DEF ToolEnds, Goto, Written, Put, IInv, TypeOK, Alone, Staged, Working, Filling, Whole, Cleared, Dirs, Empty, NoDir, Idle, Free
<1>8. ASSUME NEW p \in Procs, ToolFails(p) PROVE Staged'
  BY <1>8 DEF ToolFails, Exit, IInv, TypeOK, Alone, Staged, Working, Filling, Whole, Cleared, Dirs, Empty, NoDir, Idle, Free
<1>9. ASSUME NEW p \in Procs, WriteManifest(p) PROVE Staged'
  BY <1>9 DEF WriteManifest, Goto, Gives, Put, Exit, IInv, TypeOK, Alone, Staged, Working, Filling, Whole, Cleared, Dirs, Empty, NoDir, Idle, Free
<1>10. ASSUME NEW p \in Procs, ClearDest(p) PROVE Staged'
  BY <1>10 DEF ClearDest, UnlinkBin, UnlinkJson, Put, IInv, TypeOK, Alone, Staged, Working, Filling, Whole, Cleared, Dirs, Empty, NoDir, Idle, Free
<1>11. ASSUME NEW p \in Procs, DestGone(p) PROVE Staged'
  BY <1>11 DEF DestGone, Cleared, Goto, Exit, IInv, TypeOK, Alone, Staged, Working, Filling, Whole, Dirs, Empty, NoDir, Idle, Free
<1>12. ASSUME NEW p \in Procs, Swap(p) PROVE Staged'
  BY <1>12 DEF Swap, Cleared, Exit, IInv, TypeOK, Alone, Staged, Working, Filling, Whole, Dirs, Empty, NoDir, Idle, Free
<1>13. ASSUME NEW p \in Procs, WriteBinding(p) PROVE Staged'
  BY <1>13 DEF WriteBinding, Put, Exit, IInv, TypeOK, Alone, Staged, Working, Filling, Whole, Cleared, Dirs, Empty, NoDir, Idle, Free
<1>14. ASSUME NEW p \in Procs, ChildDone(p) PROVE Staged'
  BY <1>14 DEF ChildDone, Written, Put, Exit, IInv, TypeOK, Alone, Staged, Working, Filling, Whole, Cleared, Dirs, Empty, NoDir, Idle, Free
<1>15. ASSUME NEW p \in Procs, Dies(p) PROVE Staged'
  BY <1>15 DEF Dies, Working, Goto, Exit, IInv, TypeOK, Alone, Staged, Filling, Whole, Cleared, Dirs, Empty, NoDir, Idle, Free
<1>16. ASSUME NEW p \in Procs, Deadline(p) PROVE Staged'
  BY <1>16 DEF Deadline, Working, Exit, IInv, TypeOK, Alone, Staged, Filling, Whole, Cleared, Dirs, Empty, NoDir, Idle, Free
<1>17. ASSUME NEW v \in Versions, OrphanWrites(v) PROVE Staged'
  BY <1>17 DEF OrphanWrites, Written, Put, IInv, TypeOK, Alone, Staged, Working, Filling, Whole, Cleared, Dirs, Empty, NoDir, Idle, Free
<1>18. ASSUME Restart PROVE Staged'
  BY <1>18 DEF Restart, IInv, TypeOK, Alone, Staged, Working, Filling, Whole, Cleared, Dirs, Empty, NoDir, Idle, Free
<1>19. ASSUME Resolve PROVE Staged'
  BY <1>19 DEF Resolve, IInv, TypeOK, Alone, Staged, Working, Filling, Whole, Cleared, Dirs, Empty, NoDir, Idle, Free
<1>20. ASSUME Hangup PROVE Staged'
  BY <1>20 DEF Hangup, IInv, TypeOK, Alone, Staged, Working, Filling, Whole, Cleared, Dirs, Empty, NoDir, Idle, Free
<1> QED
  BY <1>1, <1>2, <1>3, <1>4, <1>5, <1>6, <1>7, <1>8, <1>9, <1>10, <1>11, <1>12, <1>13, <1>14, <1>15, <1>16, <1>17, <1>18, <1>19, <1>20
  DEF Next, Command, Progress

(* No action leaves half a package that looks valid. *)
LEMMA WholeStep ==
  ASSUME IInv, Next
  PROVE  ValidIsWhole'
<1>1. ASSUME NEW p \in Procs, NEW by \in {"pkgs", "lsp", "user"}, NEW v \in Versions, Install(p, by, v) PROVE ValidIsWhole'
  BY <1>1 DEF Install, Admits, Meets, IInv, TypeOK, Alone, Staged, ValidIsWhole, Working, Filling, Whole, Cleared, Offered, Dirs, Empty, NoDir, Idle, Free
<1>2. ASSUME NEW p \in Procs, NEW by \in {"pkgs", "lsp", "user"}, Remove(p, by) PROVE ValidIsWhole'
  BY <1>2 DEF Remove, Admits, Meets, IInv, TypeOK, Alone, Staged, ValidIsWhole, Working, Filling, Whole, Cleared, Offered, Dirs, Empty, NoDir, Idle, Free
<1>3. ASSUME NEW p \in Procs, Bind(p) PROVE ValidIsWhole'
  BY <1>3 DEF Bind, Admits, Meets, IInv, TypeOK, Alone, Staged, ValidIsWhole, Working, Filling, Whole, Cleared, Offered, Dirs, Empty, NoDir, Idle, Free
<1>4. ASSUME NEW p \in Procs, Unpack(p) PROVE ValidIsWhole'
  BY <1>4 DEF Unpack, Goto, Written, Put, IInv, TypeOK, Alone, Staged, ValidIsWhole, Working, Filling, Whole, Cleared, Offered, Dirs, Empty, NoDir, Idle, Free
<1>5. ASSUME NEW p \in Procs, Refuse(p) PROVE ValidIsWhole'
  BY <1>5 DEF Refuse, Exit, IInv, TypeOK, Alone, Staged, ValidIsWhole, Working, Filling, Whole, Cleared, Offered, Dirs, Empty, NoDir, Idle, Free
<1>6. ASSUME NEW p \in Procs, RunTool(p) PROVE ValidIsWhole'
  BY <1>6 DEF RunTool, Goto, Written, Put, IInv, TypeOK, Alone, Staged, ValidIsWhole, Working, Filling, Whole, Cleared, Offered, Dirs, Empty, NoDir, Idle, Free
<1>7. ASSUME NEW p \in Procs, ToolEnds(p) PROVE ValidIsWhole'
  BY <1>7 DEF ToolEnds, Goto, Written, Put, IInv, TypeOK, Alone, Staged, ValidIsWhole, Working, Filling, Whole, Cleared, Offered, Dirs, Empty, NoDir, Idle, Free
<1>8. ASSUME NEW p \in Procs, ToolFails(p) PROVE ValidIsWhole'
  BY <1>8 DEF ToolFails, Exit, IInv, TypeOK, Alone, Staged, ValidIsWhole, Working, Filling, Whole, Cleared, Offered, Dirs, Empty, NoDir, Idle, Free
<1>9. ASSUME NEW p \in Procs, WriteManifest(p) PROVE ValidIsWhole'
  BY <1>9 DEF WriteManifest, Goto, Gives, Put, Exit, IInv, TypeOK, Alone, Staged, ValidIsWhole, Working, Filling, Whole, Cleared, Offered, Dirs, Empty, NoDir, Idle, Free
<1>10. ASSUME NEW p \in Procs, ClearDest(p) PROVE ValidIsWhole'
  BY <1>10 DEF ClearDest, UnlinkBin, UnlinkJson, Put, IInv, TypeOK, Alone, Staged, ValidIsWhole, Working, Filling, Whole, Cleared, Offered, Dirs, Empty, NoDir, Idle, Free
<1>11. ASSUME NEW p \in Procs, DestGone(p) PROVE ValidIsWhole'
  BY <1>11 DEF DestGone, Cleared, Goto, Exit, IInv, TypeOK, Alone, Staged, ValidIsWhole, Working, Filling, Whole, Offered, Dirs, Empty, NoDir, Idle, Free
<1>12. ASSUME NEW p \in Procs, Swap(p) PROVE ValidIsWhole'
  BY <1>12 DEF Swap, Cleared, Exit, IInv, TypeOK, Alone, Staged, ValidIsWhole, Working, Filling, Whole, Offered, Dirs, Empty, NoDir, Idle, Free
<1>13. ASSUME NEW p \in Procs, WriteBinding(p) PROVE ValidIsWhole'
  BY <1>13 DEF WriteBinding, Put, Exit, IInv, TypeOK, Alone, Staged, ValidIsWhole, Working, Filling, Whole, Cleared, Offered, Dirs, Empty, NoDir, Idle, Free
<1>14. ASSUME NEW p \in Procs, ChildDone(p) PROVE ValidIsWhole'
  BY <1>14 DEF ChildDone, Written, Put, Exit, IInv, TypeOK, Alone, Staged, ValidIsWhole, Working, Filling, Whole, Cleared, Offered, Dirs, Empty, NoDir, Idle, Free
<1>15. ASSUME NEW p \in Procs, Dies(p) PROVE ValidIsWhole'
  BY <1>15 DEF Dies, Working, Goto, Exit, IInv, TypeOK, Alone, Staged, ValidIsWhole, Filling, Whole, Cleared, Offered, Dirs, Empty, NoDir, Idle, Free
<1>16. ASSUME NEW p \in Procs, Deadline(p) PROVE ValidIsWhole'
  BY <1>16 DEF Deadline, Working, Exit, IInv, TypeOK, Alone, Staged, ValidIsWhole, Filling, Whole, Cleared, Offered, Dirs, Empty, NoDir, Idle, Free
<1>17. ASSUME NEW v \in Versions, OrphanWrites(v) PROVE ValidIsWhole'
  BY <1>17 DEF OrphanWrites, Written, Put, IInv, TypeOK, Alone, Staged, ValidIsWhole, Working, Filling, Whole, Cleared, Offered, Dirs, Empty, NoDir, Idle, Free
<1>18. ASSUME Restart PROVE ValidIsWhole'
  BY <1>18 DEF Restart, IInv, TypeOK, Alone, Staged, ValidIsWhole, Working, Filling, Whole, Cleared, Offered, Dirs, Empty, NoDir, Idle, Free
<1>19. ASSUME Resolve PROVE ValidIsWhole'
  BY <1>19 DEF Resolve, IInv, TypeOK, Alone, Staged, ValidIsWhole, Working, Filling, Whole, Cleared, Offered, Dirs, Empty, NoDir, Idle, Free
<1>20. ASSUME Hangup PROVE ValidIsWhole'
  BY <1>20 DEF Hangup, IInv, TypeOK, Alone, Staged, ValidIsWhole, Working, Filling, Whole, Cleared, Offered, Dirs, Empty, NoDir, Idle, Free
<1> QED
  BY <1>1, <1>2, <1>3, <1>4, <1>5, <1>6, <1>7, <1>8, <1>9, <1>10, <1>11, <1>12, <1>13, <1>14, <1>15, <1>16, <1>17, <1>18, <1>19, <1>20
  DEF Next, Command, Progress

(* No action loses the activated package. *)
LEMMA KeptStep ==
  ASSUME IInv, Next
  PROVE  Kept'
<1>1. ASSUME NEW p \in Procs, NEW by \in {"pkgs", "lsp", "user"}, NEW v \in Versions, Install(p, by, v) PROVE Kept'
  BY <1>1 DEF Install, Admits, Meets, IInv, TypeOK, Alone, Staged, Kept, Working, Filling, Whole, Cleared, Dirs, Empty, NoDir, Idle, Free
<1>2. ASSUME NEW p \in Procs, NEW by \in {"pkgs", "lsp", "user"}, Remove(p, by) PROVE Kept'
  BY <1>2 DEF Remove, Admits, Meets, IInv, TypeOK, Alone, Staged, Kept, Working, Filling, Whole, Cleared, Dirs, Empty, NoDir, Idle, Free
<1>3. ASSUME NEW p \in Procs, Bind(p) PROVE Kept'
  BY <1>3 DEF Bind, Admits, Meets, IInv, TypeOK, Alone, Staged, Kept, Working, Filling, Whole, Cleared, Dirs, Empty, NoDir, Idle, Free
<1>4. ASSUME NEW p \in Procs, Unpack(p) PROVE Kept'
  BY <1>4 DEF Unpack, Goto, Written, Put, IInv, TypeOK, Alone, Staged, Kept, Working, Filling, Whole, Cleared, Dirs, Empty, NoDir, Idle, Free
<1>5. ASSUME NEW p \in Procs, Refuse(p) PROVE Kept'
  BY <1>5 DEF Refuse, Exit, IInv, TypeOK, Alone, Staged, Kept, Working, Filling, Whole, Cleared, Dirs, Empty, NoDir, Idle, Free
<1>6. ASSUME NEW p \in Procs, RunTool(p) PROVE Kept'
  BY <1>6 DEF RunTool, Goto, Written, Put, IInv, TypeOK, Alone, Staged, Kept, Working, Filling, Whole, Cleared, Dirs, Empty, NoDir, Idle, Free
<1>7. ASSUME NEW p \in Procs, ToolEnds(p) PROVE Kept'
  BY <1>7 DEF ToolEnds, Goto, Written, Put, IInv, TypeOK, Alone, Staged, Kept, Working, Filling, Whole, Cleared, Dirs, Empty, NoDir, Idle, Free
<1>8. ASSUME NEW p \in Procs, ToolFails(p) PROVE Kept'
  BY <1>8 DEF ToolFails, Exit, IInv, TypeOK, Alone, Staged, Kept, Working, Filling, Whole, Cleared, Dirs, Empty, NoDir, Idle, Free
<1>9. ASSUME NEW p \in Procs, WriteManifest(p) PROVE Kept'
  BY <1>9 DEF WriteManifest, Goto, Gives, Put, Exit, IInv, TypeOK, Alone, Staged, Kept, Working, Filling, Whole, Cleared, Dirs, Empty, NoDir, Idle, Free
<1>10. ASSUME NEW p \in Procs, ClearDest(p) PROVE Kept'
  BY <1>10 DEF ClearDest, UnlinkBin, UnlinkJson, Put, IInv, TypeOK, Alone, Staged, Kept, Working, Filling, Whole, Cleared, Dirs, Empty, NoDir, Idle, Free
<1>11. ASSUME NEW p \in Procs, DestGone(p) PROVE Kept'
  BY <1>11 DEF DestGone, Cleared, Goto, Exit, IInv, TypeOK, Alone, Staged, Kept, Working, Filling, Whole, Dirs, Empty, NoDir, Idle, Free
<1>12. ASSUME NEW p \in Procs, Swap(p) PROVE Kept'
  BY <1>12 DEF Swap, Cleared, Exit, IInv, TypeOK, Alone, Staged, Kept, Working, Filling, Whole, Dirs, Empty, NoDir, Idle, Free
<1>13. ASSUME NEW p \in Procs, WriteBinding(p) PROVE Kept'
  BY <1>13 DEF WriteBinding, Put, Exit, IInv, TypeOK, Alone, Staged, Kept, Working, Filling, Whole, Cleared, Dirs, Empty, NoDir, Idle, Free
<1>14. ASSUME NEW p \in Procs, ChildDone(p) PROVE Kept'
  BY <1>14 DEF ChildDone, Written, Put, Exit, IInv, TypeOK, Alone, Staged, Kept, Working, Filling, Whole, Cleared, Dirs, Empty, NoDir, Idle, Free
<1>15. ASSUME NEW p \in Procs, Dies(p) PROVE Kept'
  BY <1>15 DEF Dies, Working, Goto, Exit, IInv, TypeOK, Alone, Staged, Kept, Filling, Whole, Cleared, Dirs, Empty, NoDir, Idle, Free
<1>16. ASSUME NEW p \in Procs, Deadline(p) PROVE Kept'
  BY <1>16 DEF Deadline, Working, Exit, IInv, TypeOK, Alone, Staged, Kept, Filling, Whole, Cleared, Dirs, Empty, NoDir, Idle, Free
<1>17. ASSUME NEW v \in Versions, OrphanWrites(v) PROVE Kept'
  BY <1>17 DEF OrphanWrites, Written, Put, IInv, TypeOK, Alone, Staged, Kept, Working, Filling, Whole, Cleared, Dirs, Empty, NoDir, Idle, Free
<1>18. ASSUME Restart PROVE Kept'
  BY <1>18 DEF Restart, IInv, TypeOK, Alone, Staged, Kept, Working, Filling, Whole, Cleared, Dirs, Empty, NoDir, Idle, Free
<1>19. ASSUME Resolve PROVE Kept'
  BY <1>19 DEF Resolve, IInv, TypeOK, Alone, Staged, Kept, Working, Filling, Whole, Cleared, Dirs, Empty, NoDir, Idle, Free
<1>20. ASSUME Hangup PROVE Kept'
  BY <1>20 DEF Hangup, IInv, TypeOK, Alone, Staged, Kept, Working, Filling, Whole, Cleared, Dirs, Empty, NoDir, Idle, Free
<1> QED
  BY <1>1, <1>2, <1>3, <1>4, <1>5, <1>6, <1>7, <1>8, <1>9, <1>10, <1>11, <1>12, <1>13, <1>14, <1>15, <1>16, <1>17, <1>18, <1>19, <1>20
  DEF Next, Command, Progress

(* The invariant is inductive. *)
LEMMA StepIInv == IInv /\ [Next]_vars => IInv'
<1> SUFFICES ASSUME IInv, [Next]_vars PROVE IInv'
  OBVIOUS
<1>1. CASE Next
  BY <1>1, TypeStep, NamedStep, AloneStep, StagedStep, WholeStep, KeptStep DEF IInv
<1>2. CASE UNCHANGED vars
  BY <1>2 DEF IInv, TypeOK, Named, Alone, Staged, ValidIsWhole, Kept, Working, Whole, Cleared, Offered
<1> QED BY <1>1, <1>2

(* The inductive invariant holds of every behaviour. *)
THEOREM Inductive == Spec => []IInv
  BY InitIInv, StepIInv, PTL DEF Spec

---------------------------------------------------------------------------
(* Every variable keeps its type: at most one command has the claim, and   *)
(* it is one that mymuxd started and that is still at work.                *)
THEOREM TypeCorrect == Spec => []TypeOK
<1>1. IInv => TypeOK
  BY DEF IInv
<1> QED BY <1>1, Inductive, PTL

(* The activation order of mymux-pkg: what looks valid is whole, whichever *)
(* command died at whichever step.                                         *)
THEOREM NoHalfPackageIsValid == Spec => []ValidIsWhole
<1>1. IInv => ValidIsWhole
  BY DEF IInv
<1> QED BY <1>1, Inductive, PTL

(* The activated package is in one of the two directories until it is      *)
(* removed or the next install begins.                                     *)
THEOREM ActivatedIsRecoverable == Spec => []Recoverable
<1>1. IInv => Recoverable
  BY DEF IInv, Kept, Recoverable, Dirs
<1> QED BY <1>1, Inductive, PTL
=============================================================================
