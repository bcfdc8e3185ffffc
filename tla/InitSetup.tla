------------------------------ MODULE InitSetup ------------------------------
(***************************************************************************)
(* First-run setup: `nvault init`, initLocal in src/cmd/nvault/local.go,   *)
(* with config.WriteExclusive, system call by system call.                 *)
(*                                                                         *)
(* Several inits run at once for one configuration file and any identity   *)
(* files, without a lock: exclusive creation is all that orders them.      *)
(* An init that fails undoes what it created.  System calls fail,          *)
(* processes are killed, the machine loses power.  What a file is created, *)
(* written and removed as is cached; `may` and `configMay` say which of    *)
(* the versions a power loss can leave.  The directories the files are in  *)
(* are synced, but never the ones these are in: a directory an init has    *)
(* made goes with all that is in it if a power loss takes its entry.       *)
(***************************************************************************)
EXTENDS Naturals

CONSTANTS
  Proc,         \* running inits
  Path,         \* identity files an init can select
  DefaultPath,  \* the built-in one
  Dir,          \* directories
  Within,       \* the directory of every identity file
  ConfigDir,    \* the directory of the configuration
  None,         \* no file, no selection
  MaxRuns,      \* bound: inits begun
  MaxFaults,    \* bound: system calls that fail
  MaxKills,     \* bound: inits killed
  MaxCrashes    \* bound: power losses

ASSUME PathAssumption == DefaultPath \in Path
ASSUME DirAssumption == Within \in [Path -> Dir] /\ ConfigDir \in Dir
ASSUME BoundsAssumption ==
  MaxRuns \in Nat /\ MaxFaults \in Nat /\ MaxKills \in Nat /\ MaxCrashes \in Nat

(* An init is known by its number, and so is the key pair it generates.    *)
(* Number 0 made the configuration that was there before.                  *)
Identity == [by : Nat, whole : BOOLEAN]

(* Of the paths and defaults in a configuration the identity file stands   *)
(* for all: store and default scope are compared and reported alike.       *)
Config == [by : Nat, path : Path, whole : BOOLEAN]
Receipt == [by : Nat, path : Path, config : BOOLEAN]
ASSUME NoneAssumption == None \notin Path \cup Identity \cup Config

VARIABLES
  identity,   \* the identity file at every path, or None
  may,        \* what a power loss may leave at every path
  config,     \* the configuration file, or None
  configMay,  \* what a power loss may leave of it
  dirs,       \* whether a directory is there, and its entry on the disk
  pc,         \* the next step of every init
  run,        \* its number
  path,       \* opts.identityPath
  noConfig,   \* opts.noConfig
  exists,     \* opts.configExists
  ready,      \* history: setups completed, as their receipts state them
  abandoned,  \* history: inits that died, or failed to undo what they did
  swept,      \* history: inits begun when a power loss last took a directory
  used        \* how much of each bound is spent

contents == <<identity, may, config, configMay>>
files == <<contents, dirs>>
opts == <<run, path, noConfig, exists>>
history == <<ready, abandoned, swept>>
vars == <<files, pc, opts, history, used>>

Undoing == {"removeconfig", "removeidentity"}
Writing == {"write", "sync", "syncdir"}
Configuring == {"configwrite", "configsync", "configsyncdir"}
Owning == Writing \cup Configuring \cup {"configcreate", "report"} \cup Undoing
Step == Owning \cup {"idle", "validate", "inspect", "create"}

TypeOK ==
  /\ identity \in [Path -> Identity \cup {None}]
  /\ may \in [Path -> SUBSET (Identity \cup {None})]
  /\ config \in Config \cup {None}
  /\ configMay \subseteq Config \cup {None}
  /\ dirs \in [Dir -> {"none", "cached", "stored"}]
  /\ pc \in [Proc -> Step]
  /\ run \in [Proc -> Nat]
  /\ path \in [Proc -> Path]
  /\ noConfig \in [Proc -> BOOLEAN]
  /\ exists \in [Proc -> BOOLEAN]
  /\ ready \subseteq Receipt
  /\ abandoned \subseteq Nat
  /\ swept \in [Dir -> Nat]
  /\ used \in [runs : Nat, faults : Nat, kills : Nat, crashes : Nat]

(* No setup yet, or a configuration whose identity file is gone.           *)
Init ==
  /\ identity = [x \in Path |-> None]
  /\ may = [x \in Path |-> {None}]
  /\ config \in {None} \cup [by : {0}, path : Path, whole : {TRUE}]
  /\ configMay = {config}
  /\ dirs \in [Dir -> {"none", "stored"}]
  /\ config # None => dirs[ConfigDir] = "stored"
  /\ pc = [p \in Proc |-> "idle"]
  /\ run = [p \in Proc |-> 0]
  /\ path = [p \in Proc |-> DefaultPath]
  /\ noConfig = [p \in Proc |-> FALSE]
  /\ exists = [p \in Proc |-> FALSE]
  /\ ready = {}
  /\ abandoned = {}
  /\ swept = [d \in Dir |-> 0]
  /\ used = [runs |-> 0, faults |-> 0, kills |-> 0, crashes |-> 0]

-----------------------------------------------------------------------------
Goto(p, step) == pc' = [pc EXCEPT ![p] = step]

(* An early return, before the init has created anything.                  *)
GiveUp(p) == Goto(p, "idle")

Readable == config # None /\ config.whole

Fault ==
  /\ used.faults < MaxFaults
  /\ used' = [used EXCEPT !.faults = @ + 1]

(* MkdirAll: a directory that is made is not synced in its parent.         *)
MakeDir(d) == dirs' = [dirs EXCEPT ![d] = IF @ = "none" THEN "cached" ELSE @]

PutIdentity(x, i) ==
  /\ identity' = [identity EXCEPT ![x] = i]
  /\ may' = [may EXCEPT ![x] = @ \cup {i}]
  /\ UNCHANGED <<config, configMay>>

PutConfig(c) ==
  /\ config' = c
  /\ configMay' = configMay \cup {c}
  /\ UNCHANGED <<identity, may>>

(* Slip: a configuration that is not there leaves the path empty. *)
BeginUnset(p, selected, ignore) ==
  /\ pc[p] = "idle"
  /\ used.runs < MaxRuns
  /\ used' = [used EXCEPT !.runs = @ + 1]
  /\ ~ignore /\ config # None => config.whole
  /\ run' = [run EXCEPT ![p] = used.runs + 1]
  /\ noConfig' = [noConfig EXCEPT ![p] = ignore]
  /\ exists' = [exists EXCEPT ![p] = ~ignore /\ config # None]
  /\ path' = [path EXCEPT ![p] =
                IF selected # None \/ ignore \/ config = None THEN selected ELSE config.path]
  /\ Goto(p, "validate")
  /\ UNCHANGED <<files, history>>

(* parseLocalOptions: an identity path given by flag or environment wins   *)
(* over the configuration's, which wins over the default.  A configuration *)
(* that cannot be decoded ends every init but one with --no-config.        *)
Begin(p, selected, ignore) ==
  /\ pc[p] = "idle"
  /\ used.runs < MaxRuns
  /\ used' = [used EXCEPT !.runs = @ + 1]
  /\ ~ignore /\ config # None => config.whole
  /\ run' = [run EXCEPT ![p] = used.runs + 1]
  /\ noConfig' = [noConfig EXCEPT ![p] = ignore]
  /\ exists' = [exists EXCEPT ![p] = ~ignore /\ config # None]
  /\ path' = [path EXCEPT ![p] =
                IF selected # None THEN selected
                ELSE IF ~ignore /\ config # None THEN config.path
                ELSE DefaultPath]
  /\ Goto(p, "validate")
  /\ UNCHANGED <<files, history>>

(* Slip: an existing configuration is not compared with the selections. *)
SkipValidate(p) ==
  /\ pc[p] = "validate"
  /\ Goto(p, "inspect")
  /\ UNCHANGED <<files, opts, history, used>>

(* validateExistingConfigSelection loads the configuration once more.      *)
Validate(p) ==
  /\ pc[p] = "validate"
  /\ IF exists[p] => Readable /\ config.path = path[p]
     THEN Goto(p, "inspect")
     ELSE GiveUp(p)
  /\ UNCHANGED <<files, opts, history, used>>

(* The Lstat of the identity path.  The passphrase is read, the identity   *)
(* made and wrapped, and the store directory made before the next step.    *)
Inspect(p) ==
  /\ pc[p] = "inspect"
  /\ IF identity[path[p]] = None THEN Goto(p, "create") ELSE GiveUp(p)
  /\ UNCHANGED <<files, opts, history, used>>

(* Slip: the identity is created without O_EXCL. *)
CreateOver(p) ==
  /\ pc[p] = "create"
  /\ MakeDir(Within[path[p]])
  /\ PutIdentity(path[p], [by |-> run[p], whole |-> FALSE])
  /\ Goto(p, "write")
  /\ UNCHANGED <<opts, history, used>>

(* openVerifiedDirectory, and the exclusive creation in what it opens.     *)
Create(p) ==
  /\ pc[p] = "create"
  /\ MakeDir(Within[path[p]])
  /\ \/ /\ identity[path[p]] # None
        /\ GiveUp(p)
        /\ UNCHANGED contents
     \/ /\ identity[path[p]] = None
        /\ PutIdentity(path[p], [by |-> run[p], whole |-> FALSE])
        /\ Goto(p, "write")
  /\ UNCHANGED <<opts, history, used>>

Write(p) ==
  /\ pc[p] = "write"
  /\ PutIdentity(path[p], [by |-> run[p], whole |-> TRUE])
  /\ Goto(p, "sync")
  /\ UNCHANGED <<dirs, opts, history, used>>

(* File.Sync and Close: the file, if its entry survives, survives whole.   *)
Sync(p) ==
  /\ pc[p] = "sync"
  /\ may' = [may EXCEPT ![path[p]] = @ \ {[by |-> run[p], whole |-> FALSE]}]
  /\ Goto(p, "syncdir")
  /\ UNCHANGED <<identity, config, configMay, dirs, opts, history, used>>

AfterIdentity(p) ==
  Goto(p, IF noConfig[p] \/ exists[p] THEN "report" ELSE "configcreate")

(* Slip: the identity's directory is not synced. *)
SkipSyncDir(p) ==
  /\ pc[p] = "syncdir"
  /\ AfterIdentity(p)
  /\ UNCHANGED <<files, opts, history, used>>

(* The entry of the file is on the disk now, that of the directory is not. *)
SyncDir(p) ==
  /\ pc[p] = "syncdir"
  /\ may' = [may EXCEPT ![path[p]] = {identity[path[p]]}]
  /\ AfterIdentity(p)
  /\ UNCHANGED <<identity, config, configMay, dirs, opts, history, used>>

FailWriting(p) ==
  /\ pc[p] \in Writing
  /\ Fault
  /\ Goto(p, "removeidentity")
  /\ UNCHANGED <<files, opts, history>>

(* Slip: the configuration is created without O_EXCL. *)
ConfigCreateOver(p) ==
  /\ pc[p] = "configcreate"
  /\ MakeDir(ConfigDir)
  /\ PutConfig([by |-> run[p], path |-> path[p], whole |-> FALSE])
  /\ Goto(p, "configwrite")
  /\ UNCHANGED <<opts, history, used>>

(* WriteExclusive: it fails if the file is there by now.                   *)
ConfigCreate(p) ==
  /\ pc[p] = "configcreate"
  /\ MakeDir(ConfigDir)
  /\ \/ /\ config # None
        /\ Goto(p, "removeidentity")
        /\ UNCHANGED contents
     \/ /\ config = None
        /\ PutConfig([by |-> run[p], path |-> path[p], whole |-> FALSE])
        /\ Goto(p, "configwrite")
  /\ UNCHANGED <<opts, history, used>>

ConfigWrite(p) ==
  /\ pc[p] = "configwrite"
  /\ PutConfig([by |-> run[p], path |-> path[p], whole |-> TRUE])
  /\ Goto(p, "configsync")
  /\ UNCHANGED <<dirs, opts, history, used>>

ConfigSync(p) ==
  /\ pc[p] = "configsync"
  /\ configMay' = configMay \ {[by |-> run[p], path |-> path[p], whole |-> FALSE]}
  /\ Goto(p, "configsyncdir")
  /\ UNCHANGED <<identity, may, config, dirs, opts, history, used>>

ConfigSyncDir(p) ==
  /\ pc[p] = "configsyncdir"
  /\ configMay' = {config}
  /\ exists' = [exists EXCEPT ![p] = TRUE]
  /\ Goto(p, "report")
  /\ UNCHANGED <<identity, may, config, dirs, run, path, noConfig, history, used>>

(* Creating, writing, syncing or closing the configuration fails: what was *)
(* created is removed, the configuration first.                            *)
FailConfig(p) ==
  /\ pc[p] \in Configuring \cup {"configcreate"}
  /\ Fault
  /\ Goto(p, IF pc[p] = "configcreate" THEN "removeidentity" ELSE "removeconfig")
  /\ UNCHANGED <<files, opts, history>>

(* Slip: the identity is to be kept although there is no configuration. *)
RemoveConfigOnly(p) ==
  /\ pc[p] = "removeconfig"
  /\ PutConfig(None)
  /\ Goto(p, "idle")
  /\ UNCHANGED <<dirs, opts, history, used>>

Abandon(p) == abandoned' = abandoned \cup {run[p]}

Stuck(p) == Fault /\ Abandon(p) /\ UNCHANGED contents

(* The deferred Removes.  Nothing syncs the directories after them, and    *)
(* they may fail themselves.                                               *)
RemoveConfig(p) ==
  /\ pc[p] = "removeconfig"
  /\ \/ PutConfig(None) /\ UNCHANGED <<abandoned, used>>
     \/ Stuck(p)
  /\ Goto(p, "removeidentity")
  /\ UNCHANGED <<dirs, opts, ready, swept>>

RemoveIdentity(p) ==
  /\ pc[p] = "removeidentity"
  /\ \/ PutIdentity(path[p], None) /\ UNCHANGED <<abandoned, used>>
     \/ Stuck(p)
  /\ Goto(p, "idle")
  /\ UNCHANGED <<dirs, opts, ready, swept>>

(* keepIdentity is set before the receipt is written: a receipt that could *)
(* not be written leaves the setup in place.                               *)
Report(p) ==
  /\ pc[p] = "report"
  /\ ready' = ready \cup {[by |-> run[p], path |-> path[p], config |-> exists[p]]}
  /\ Goto(p, "idle")
  /\ UNCHANGED <<files, opts, abandoned, swept, used>>

Kill(p) ==
  /\ pc[p] # "idle"
  /\ used.kills < MaxKills
  /\ used' = [used EXCEPT !.kills = @ + 1]
  /\ Abandon(p)
  /\ Goto(p, "idle")
  /\ UNCHANGED <<files, opts, ready, swept>>

(* A power loss.  Directories whose entries are not on the disk may be     *)
(* lost, with what is in them.                                             *)
Crash ==
  /\ used.crashes < MaxCrashes
  /\ used' = [used EXCEPT !.crashes = @ + 1]
  /\ pc' = [p \in Proc |-> "idle"]
  /\ \E lost \in SUBSET {d \in Dir : dirs[d] = "cached"} :
       /\ dirs' = [d \in Dir |-> IF d \in lost \/ dirs[d] = "none" THEN "none" ELSE "stored"]
       /\ swept' = [d \in Dir |-> IF d \in lost THEN used.runs ELSE swept[d]]
       /\ \E kept \in [Path -> UNION {may[x] : x \in Path} \cup {None}] :
            /\ \A x \in Path : kept[x] \in IF Within[x] \in lost THEN {None} ELSE may[x]
            /\ identity' = kept
            /\ may' = [x \in Path |-> {kept[x]}]
       /\ config' \in IF ConfigDir \in lost THEN {None} ELSE configMay
  /\ configMay' = {config'}
  /\ abandoned' = 1 .. used.runs
  /\ UNCHANGED <<opts, ready>>

Run(p) ==
  \/ Validate(p) \/ Inspect(p)
  \/ Create(p) \/ Write(p) \/ Sync(p) \/ SyncDir(p) \/ FailWriting(p)
  \/ ConfigCreate(p) \/ ConfigWrite(p) \/ ConfigSync(p) \/ ConfigSyncDir(p)
  \/ FailConfig(p) \/ RemoveConfig(p) \/ RemoveIdentity(p)
  \/ Report(p)

Next ==
  \/ \E p \in Proc : \E selected \in Path \cup {None}, ignore \in BOOLEAN :
       Begin(p, selected, ignore)
  \/ \E p \in Proc : Run(p)
  \/ \E p \in Proc : Kill(p)
  \/ Crash

Spec == Init /\ [][Next]_vars

-----------------------------------------------------------------------------
(* Properties.                                                             *)

Owns(p, f) == pc[p] \in Owning /\ f.by = run[p]

(* "nvault init does not replace an existing configuration or identity":   *)
(* a file changes or goes only by the init that created it, while that one *)
(* still runs, whatever other inits do meanwhile.  A power loss is no init.*)
NeverReplaces ==
  [][used'.crashes = used.crashes =>
       /\ \A x \in Path :
            identity[x] # None /\ identity'[x] # identity[x] =>
              \E p \in Proc : Owns(p, identity[x])
       /\ config # None /\ config' # config => \E p \in Proc : Owns(p, config)]_vars

(* A power loss took the directory after init n had begun.                *)
Swept(d, n) == n <= swept[d]

(* A setup once completed keeps its identity: no other init, failed one,   *)
(* kill or power loss takes the only key to the vault away.  A power loss  *)
(* that takes a directory which was made for it does (local.go:369 syncs   *)
(* no parent), and nothing else.                                           *)
ReadyKept ==
  \A r \in ready :
    \/ identity[r.path] = [by |-> r.by, whole |-> TRUE]
    \/ Swept(Within[r.path], r.by)

(* A configuration an init wrote names an identity that is there.  It is   *)
(* created last and removed first; only an undone configuration that comes *)
(* back with a power loss, or cannot be removed, is without its identity,  *)
(* and one whose identity was in a directory of its own that a power loss  *)
(* took: never in the default layout, with both in one directory.          *)
ConfigHasIdentity ==
  Readable /\ config.by # 0 =>
    \/ identity[config.path] = [by |-> config.by, whole |-> TRUE]
    \/ used.faults > 0 /\ config.by \in abandoned
    \/ Within[config.path] # ConfigDir /\ Swept(Within[config.path], config.by)

(* An init that fails leaves no identity behind unless it died or could    *)
(* not remove it; none is left by two inits that stand in each other's way.*)
NothingLeft ==
  \A x \in Path :
    identity[x] # None =>
      \/ \E p \in Proc : Owns(p, identity[x])
      \/ \E r \in ready : r.by = identity[x].by
      \/ identity[x].by \in abandoned

(* What a receipt says of the configuration is so.                         *)
ReceiptTrue ==
  \A r \in ready : r.config => Readable /\ config.path = r.path

(* While no system call fails, what a receipt says is so and stays so,     *)
(* until a power loss takes the configuration's directory.                 *)
ReceiptTrueUnfailing ==
  used.faults = 0 =>
    \A r \in ready : r.config =>
      (Readable /\ config.path = r.path) \/ Swept(ConfigDir, r.by)
=============================================================================
