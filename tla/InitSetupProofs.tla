---------------------------- MODULE InitSetupProofs ----------------------------
(* Proofs about InitSetup, for every number of inits and identity files and *)
(* for every bound.                                                         *)
EXTENDS InitSetup, TLAPS

(* Numbers tell the running inits apart, from each other and from those     *)
(* whose setup is complete.                                                 *)
RunsInv ==
  /\ \A p \in Proc : pc[p] # "idle" => run[p] \in 1 .. used.runs
  /\ \A p, q \in Proc : pc[p] # "idle" /\ pc[q] # "idle" /\ run[p] = run[q] => p = q
  /\ \A r \in ready : r.by \in 1 .. used.runs
  /\ \A r \in ready : \A p \in Proc : pc[p] # "idle" => run[p] # r.by
  /\ \A d \in Dir : swept[d] <= used.runs
  /\ \A d \in Dir : \A p \in Proc : pc[p] # "idle" => swept[d] < run[p]

Early == {"validate", "inspect", "create"}         \* no identity of its own
EarlyConfig == Early \cup Writing \cup {"configcreate"}   \* no configuration either

(* Every version of a file, cached or on the disk, is of an init that has   *)
(* come so far.                                                             *)
FilesInv ==
  /\ \A x \in Path : identity[x] \in may[x]
  /\ \A x \in Path : \A i \in may[x] \ {None} :
       /\ i.by \in 1 .. used.runs
       /\ \A p \in Proc : pc[p] \in Early => run[p] # i.by
  /\ config \in configMay
  /\ \A c \in configMay \ {None} :
       /\ c.by \in 0 .. used.runs
       /\ \A p \in Proc : pc[p] \in EarlyConfig => run[p] # c.by

Full(n) == [by |-> n, whole |-> TRUE]
Durable(x, n) == identity[x] = Full(n) /\ may[x] = {Full(n)}
Committed == Configuring \cup {"configcreate", "report", "removeconfig"}

(* What an init that has created its files owns.                            *)
OwnerOK(p) ==
  /\ pc[p] \in Owning =>
       /\ identity[path[p]] # None /\ identity[path[p]].by = run[p]
       /\ \A x \in Path : identity[x] # None /\ identity[x].by = run[p] => x = path[p]
  /\ pc[p] \in {"sync", "syncdir"} => identity[path[p]] = Full(run[p])
  /\ pc[p] \in Committed => Durable(path[p], run[p])
  /\ pc[p] \in Configuring \cup {"removeconfig"} =>
       config # None /\ config.by = run[p] /\ config.path = path[p]
  /\ pc[p] \in {"configsync", "configsyncdir"} => config.whole
  /\ pc[p] = "removeconfig" => used.faults > 0

OwnersInv == \A p \in Proc : OwnerOK(p)

(* A configuration that was undone, or was to be.                           *)
Undone(c) == used.faults > 0 /\ (config = c => c.by \in abandoned)

(* The identity of a configuration went with a directory of its own.        *)
Orphaned(c) == Within[c.path] # ConfigDir /\ Swept(Within[c.path], c.by)

(* Every whole configuration of an init, cached or on the disk, has its     *)
(* identity, or was undone and can only be there after the init has died or *)
(* got stuck, or lost the identity with its directory.                      *)
ConfigsInv ==
  /\ \A c \in configMay \ {None} :
       c.whole /\ c.by # 0 => Durable(c.path, c.by) \/ Undone(c) \/ Orphaned(c)
  /\ \A c \in configMay \ {None} : \A p \in Proc :
       pc[p] = "removeidentity" /\ c.by = run[p] => Undone(c)

(* The identity of a complete setup survives a power loss, or has gone with *)
(* its directory.                                                           *)
ReadyInv == \A r \in ready : Durable(r.path, r.by) \/ Swept(Within[r.path], r.by)

SetupInv ==
  TypeOK /\ RunsInv /\ FilesInv /\ OwnersInv /\ ConfigsInv /\ ReadyInv /\ NothingLeft

(* The initial states satisfy the invariant.                                *)
LEMMA SetupStarts == Init => SetupInv
<1> SUFFICES ASSUME Init PROVE SetupInv
  OBVIOUS
<1>1. TypeOK
  <2>1. config \in Config \cup {None}
    <3>1. ASSUME NEW c \in [by : {0}, path : Path, whole : {TRUE}] PROVE c \in Config
      <4>1. PICK n \in {0}, x \in Path, b \in {TRUE} : c = [by |-> n, path |-> x, whole |-> b]
        OBVIOUS
      <4> QED
        BY <4>1 DEF Config
    <3> QED
      BY <3>1 DEF Init
  <2>2. run \in [Proc -> Nat] /\ abandoned \subseteq Nat /\ ready \subseteq Receipt
    BY DEF Init
  <2>3. path \in [Proc -> Path]
    BY PathAssumption DEF Init
  <2>4. used \in [runs : Nat, faults : Nat, kills : Nat, crashes : Nat]
    BY DEF Init
  <2> QED
    BY <2>1, <2>2, <2>3, <2>4 DEF Init, TypeOK, Step
<1>2. RunsInv /\ OwnersInv /\ ReadyInv /\ NothingLeft
  BY DEF Init, RunsInv, OwnersInv, OwnerOK, ReadyInv, NothingLeft,
         Writing, Owning, Configuring, Undoing, Committed
<1>3. FilesInv
  <2>1. ASSUME NEW c \in configMay \ {None} PROVE c.by = 0
    BY DEF Init
  <2>2. \A p \in Proc : pc[p] \notin EarlyConfig
    BY DEF Init, Early, EarlyConfig, Writing
  <2> QED
    BY <2>1, <2>2 DEF Init, FilesInv, EarlyConfig
<1>4. ConfigsInv
  BY DEF Init, ConfigsInv
<1> QED
  BY <1>1, <1>2, <1>3, <1>4 DEF SetupInv

(* Every step keeps every variable in its type.                             *)
LEMMA TypesKept == TypeOK /\ [Next]_vars => TypeOK'
<1> SUFFICES ASSUME TypeOK, [Next]_vars PROVE TypeOK'
  OBVIOUS
<1> USE DEF TypeOK, Step, Owning, Writing, Configuring, Undoing,
            vars, files, contents, opts, history, Goto, GiveUp, Abandon
<1>1. ASSUME NEW p \in Proc, NEW selected \in Path \cup {None}, NEW ignore \in BOOLEAN,
             Begin(p, selected, ignore)
      PROVE  TypeOK'
  <2>1. path' \in [Proc -> Path]
    BY <1>1, PathAssumption DEF Begin, Config
  <2> QED
    BY <1>1, <2>1 DEF Begin
<1>2. ASSUME NEW p \in Proc, Validate(p) \/ Inspect(p) PROVE TypeOK'
  BY <1>2 DEF Validate, Inspect
<1>0. ASSUME NEW d \in Dir, MakeDir(d) PROVE dirs' \in [Dir -> {"none", "cached", "stored"}]
  BY <1>0 DEF MakeDir
<1>3. ASSUME NEW p \in Proc, Create(p) PROVE TypeOK'
  <2>0. Within[path[p]] \in Dir
    BY DirAssumption
  <2>5. dirs' \in [Dir -> {"none", "cached", "stored"}]
    BY <1>3, <1>0, <2>0 DEF Create
  <2>1. [by |-> run[p], whole |-> FALSE] \in Identity
    BY DEF Identity
  <2>2. CASE UNCHANGED contents
    BY <1>3, <2>2, <2>5 DEF Create
  <2>3. CASE PutIdentity(path[p], [by |-> run[p], whole |-> FALSE])
    BY <1>3, <2>1, <2>3, <2>5 DEF Create, PutIdentity
  <2> QED
    BY <1>3, <2>2, <2>3 DEF Create
<1>4. ASSUME NEW p \in Proc, Write(p) PROVE TypeOK'
  <2>1. [by |-> run[p], whole |-> TRUE] \in Identity
    BY DEF Identity
  <2> QED
    BY <1>4, <2>1 DEF Write, PutIdentity
<1>5. ASSUME NEW p \in Proc, Sync(p) PROVE TypeOK'
  BY <1>5 DEF Sync
<1>6. ASSUME NEW p \in Proc, SyncDir(p) PROVE TypeOK'
  BY <1>6 DEF SyncDir, AfterIdentity
<1>7. ASSUME NEW p \in Proc, FailWriting(p) PROVE TypeOK'
  BY <1>7 DEF FailWriting, Fault
<1>8. ASSUME NEW p \in Proc, FailConfig(p) PROVE TypeOK'
  BY <1>8 DEF FailConfig, Fault
<1>9. ASSUME NEW p \in Proc, ConfigCreate(p) PROVE TypeOK'
  <2>2. dirs' \in [Dir -> {"none", "cached", "stored"}]
    BY <1>9, <1>0, DirAssumption DEF ConfigCreate
  <2>1. [by |-> run[p], path |-> path[p], whole |-> FALSE] \in Config
    BY DEF Config
  <2> QED
    BY <1>9, <2>1, <2>2 DEF ConfigCreate, PutConfig
<1>10. ASSUME NEW p \in Proc, ConfigWrite(p) PROVE TypeOK'
  <2>1. [by |-> run[p], path |-> path[p], whole |-> TRUE] \in Config
    BY DEF Config
  <2> QED
    BY <1>10, <2>1 DEF ConfigWrite, PutConfig
<1>11. ASSUME NEW p \in Proc, ConfigSync(p) PROVE TypeOK'
  BY <1>11 DEF ConfigSync
<1>12. ASSUME NEW p \in Proc, ConfigSyncDir(p) PROVE TypeOK'
  BY <1>12 DEF ConfigSyncDir
<1>13. ASSUME NEW p \in Proc, RemoveConfig(p) PROVE TypeOK'
  BY <1>13 DEF RemoveConfig, PutConfig, Stuck, Fault
<1>14. ASSUME NEW p \in Proc, RemoveIdentity(p) PROVE TypeOK'
  BY <1>14 DEF RemoveIdentity, PutIdentity, Stuck, Fault
<1>15. ASSUME NEW p \in Proc, Report(p) PROVE TypeOK'
  <2>1. [by |-> run[p], path |-> path[p], config |-> exists[p]] \in Receipt
    BY DEF Receipt
  <2> QED
    BY <1>15, <2>1 DEF Report
<1>16. ASSUME NEW p \in Proc, Kill(p) PROVE TypeOK'
  BY <1>16 DEF Kill
<1>17. ASSUME Crash PROVE TypeOK'
  <2>5. PICK lost \in SUBSET {d \in Dir : dirs[d] = "cached"} :
          /\ dirs' = [d \in Dir |-> IF d \in lost \/ dirs[d] = "none" THEN "none" ELSE "stored"]
          /\ swept' = [d \in Dir |-> IF d \in lost THEN used.runs ELSE swept[d]]
          /\ \E kept \in [Path -> UNION {may[x] : x \in Path} \cup {None}] :
               /\ \A x \in Path : kept[x] \in IF Within[x] \in lost THEN {None} ELSE may[x]
               /\ identity' = kept
               /\ may' = [x \in Path |-> {kept[x]}]
          /\ config' \in IF ConfigDir \in lost THEN {None} ELSE configMay
    BY <1>17 DEF Crash
  <2>1. config' \in Config \cup {None} /\ configMay' \subseteq Config \cup {None}
    BY <1>17, <2>5 DEF Crash
  <2>2. /\ identity' \in [Path -> Identity \cup {None}]
        /\ may' \in [Path -> SUBSET (Identity \cup {None})]
    BY <2>5
  <2>6. dirs' \in [Dir -> {"none", "cached", "stored"}] /\ swept' \in [Dir -> Nat]
    BY <2>5
  <2>3. pc' \in [Proc -> Step] /\ abandoned' \subseteq Nat
    BY <1>17 DEF Crash
  <2>4. used' \in [runs : Nat, faults : Nat, kills : Nat, crashes : Nat]
    <3>1. used' = [used EXCEPT !.crashes = used.crashes + 1]
      BY <1>17 DEF Crash
    <3>2. used \in [runs : Nat, faults : Nat, kills : Nat, crashes : Nat]
      OBVIOUS
    <3> HIDE DEF TypeOK
    <3> QED
      BY ONLY <3>1, <3>2
  <2> QED
    BY <1>17, <2>1, <2>2, <2>3, <2>4, <2>6 DEF Crash
<1>18. ASSUME UNCHANGED vars PROVE TypeOK'
  BY <1>18
<1> HIDE DEF TypeOK, vars
<1> QED
  BY <1>1, <1>2, <1>3, <1>4, <1>5, <1>6, <1>7, <1>8, <1>9, <1>10, <1>11, <1>12, <1>13,
     <1>14, <1>15, <1>16, <1>17, <1>18 DEF Next, Run

(* What a step of an init leaves alone: everything of the others.           *)
Alone(p) ==
  /\ \A q \in Proc \ {p} : pc'[q] = pc[q]
  /\ UNCHANGED <<run, path, swept>>
  /\ used'.runs = used.runs
  /\ used.faults > 0 => used'.faults > 0
  /\ abandoned \subseteq abandoned'
  /\ \A x \in Path :
       /\ identity[x] # None /\ ~Owns(p, identity[x]) =>
            identity'[x] = identity[x] /\ may'[x] = may[x]
       /\ identity'[x] \in {identity[x], None} \/ identity'[x].by = run[p]
  /\ config # None /\ ~Owns(p, config) => config' = config
  /\ config' \in {config, None} \/ config'.by = run[p]

LEMMA StepsAlone ==
  ASSUME SetupInv, NEW p \in Proc, Run(p) \/ Kill(p)
  PROVE  Alone(p)
<1>0. TypeOK /\ OwnerOK(p)
  BY DEF SetupInv, OwnersInv
<1> USE <1>0 DEF files, contents, opts, history, Goto, GiveUp, Abandon, Alone, Owns,
      Writing, Configuring, Undoing, Owning
<1>1. CASE Validate(p) \/ Inspect(p)
  BY <1>1 DEF Validate, Inspect, TypeOK
<1>2. CASE Create(p)
  <2>1. CASE UNCHANGED contents
    BY <1>2, <2>1 DEF Create, TypeOK
  <2>2. CASE identity[path[p]] = None /\ PutIdentity(path[p], [by |-> run[p], whole |-> FALSE])
    BY <1>2, <2>2 DEF Create, PutIdentity, TypeOK
  <2> QED
    BY <1>2, <2>1, <2>2 DEF Create
<1>3. CASE Write(p)
  BY <1>3 DEF Write, PutIdentity, TypeOK, OwnerOK
<1>4. CASE Sync(p)
  BY <1>4 DEF Sync, TypeOK, OwnerOK
<1>5. CASE SyncDir(p)
  BY <1>5 DEF SyncDir, AfterIdentity, TypeOK, OwnerOK
<1>6. CASE FailWriting(p)
  BY <1>6 DEF FailWriting, Fault, TypeOK
<1>7. CASE FailConfig(p)
  BY <1>7 DEF FailConfig, Fault, TypeOK
<1>8. CASE ConfigCreate(p)
  BY <1>8 DEF ConfigCreate, PutConfig, TypeOK
<1>9. CASE ConfigWrite(p)
  BY <1>9 DEF ConfigWrite, PutConfig, TypeOK, OwnerOK
<1>10. CASE ConfigSync(p)
  BY <1>10 DEF ConfigSync, TypeOK
<1>11. CASE ConfigSyncDir(p)
  BY <1>11 DEF ConfigSyncDir, TypeOK
<1>12. CASE RemoveConfig(p)
  BY <1>12 DEF RemoveConfig, PutConfig, Stuck, Fault, TypeOK, OwnerOK
<1>13. CASE RemoveIdentity(p)
  BY <1>13 DEF RemoveIdentity, PutIdentity, Stuck, Fault, TypeOK, OwnerOK
<1>14. CASE Report(p) \/ Kill(p)
  BY <1>14 DEF Report, Kill, TypeOK
<1> QED
  BY <1>1, <1>2, <1>3, <1>4, <1>5, <1>6, <1>7, <1>8, <1>9, <1>10, <1>11, <1>12, <1>13,
     <1>14 DEF Run

(* So no other init loses its files, nor an identity that is on the disk.   *)
LEMMA OthersKept ==
  ASSUME SetupInv, NEW p \in Proc, pc[p] # "idle", Alone(p)
  PROVE  /\ \A q \in Proc \ {p} : OwnerOK(q)'
         /\ \A x \in Path, n \in Nat : Durable(x, n) /\ n # run[p] => Durable(x, n)'
<1>0. TypeOK /\ RunsInv /\ FilesInv /\ OwnersInv
  BY DEF SetupInv
<1>1. ASSUME NEW x \in Path, NEW n \in Nat, Durable(x, n), n # run[p]
      PROVE  Durable(x, n)'
  <2>1. identity[x] # None /\ identity[x].by # run[p]
    <3>1. Full(n) \in Identity /\ Full(n).by = n
      BY DEF Full, Identity
    <3> QED
      BY <1>1, <3>1, NoneAssumption DEF Durable
  <2> QED
    BY <1>1, <2>1 DEF Alone, Owns, Durable
<1>2. ASSUME NEW q \in Proc \ {p} PROVE OwnerOK(q)'
  <2>1. CASE pc[q] = "idle"
    BY <2>1 DEF Alone, OwnerOK, Owning, Writing, Configuring, Undoing, Committed
  <2>2. CASE pc[q] # "idle"
    <3>1. run[q] # run[p] /\ run[q] \in Nat /\ path[q] \in Path
      BY <1>0, <2>2 DEF RunsInv, TypeOK
    <3>2. OwnerOK(q) /\ pc'[q] = pc[q] /\ path'[q] = path[q] /\ run'[q] = run[q]
      BY <1>0 DEF Alone, OwnersInv
    <3>3. pc[q] \in Owning => identity'[path[q]] = identity[path[q]]
      BY <3>1, <3>2 DEF OwnerOK, Alone, Owns
    <3>4. ASSUME NEW x \in Path, pc[q] \in Owning, identity'[x] # None, identity'[x].by = run[q]
          PROVE  x = path[q]
      <4>1. identity'[x] = identity[x]
        BY <3>1, <3>4 DEF Alone
      <4> QED
        BY <3>2, <3>4, <4>1 DEF OwnerOK
    <3>5. pc[q] \in Configuring \cup {"removeconfig"} => config' = config
      BY <3>1, <3>2 DEF OwnerOK, Alone, Owns
    <3>6. pc[q] \in Committed => Durable(path[q], run[q])'
      BY <1>1, <3>1, <3>2 DEF OwnerOK
    <3>7. pc[q] = "removeconfig" => used'.faults > 0
      BY <3>2 DEF OwnerOK, Alone
    <3> QED
      BY <3>2, <3>3, <3>4, <3>5, <3>6, <3>7
      DEF OwnerOK, Owning, Writing, Configuring, Undoing, Committed, Durable
  <2> QED
    BY <2>1, <2>2
<1> QED
  BY <1>1, <1>2

(* A step of a running init keeps what does not depend on the step.         *)
LEMMA CommonKept ==
  ASSUME SetupInv, NEW p \in Proc, pc[p] # "idle", Alone(p), OwnerOK(p)',
         ready' = ready
  PROVE  RunsInv' /\ OwnersInv' /\ ReadyInv'
<1>0. TypeOK /\ RunsInv /\ ReadyInv
  BY DEF SetupInv
<1>1. RunsInv'
  BY <1>0 DEF RunsInv, Alone
<1>2. OwnersInv'
  BY OthersKept DEF OwnersInv
<1>3. ASSUME NEW r \in ready PROVE Durable(r.path, r.by)' \/ Swept(Within[r.path], r.by)'
  <2>1. r.path \in Path /\ r.by \in Nat /\ r.by # run[p]
    BY <1>0 DEF TypeOK, Receipt, RunsInv
  <2> QED
    BY <1>0, <2>1, OthersKept DEF ReadyInv, Swept, Alone
<1> QED
  BY <1>1, <1>2, <1>3 DEF ReadyInv

(* Nor does it undo what is said of the others' configurations.             *)
LEMMA ConfigsKept ==
  ASSUME SetupInv, NEW p \in Proc, pc[p] # "idle", Alone(p), TypeOK',
         \A c \in configMay' \ {None} :
           /\ c \in configMay \/ c.by = run[p]
           /\ c.whole /\ c.by = run[p] => Durable(c.path, c.by)' \/ Undone(c)' \/ Orphaned(c)'
           /\ pc'[p] = "removeidentity" /\ c.by = run[p] => Undone(c)'
  PROVE  ConfigsInv'
<1>0. TypeOK /\ RunsInv /\ ConfigsInv
  BY DEF SetupInv
<1>1. ASSUME NEW c \in configMay' \ {None}, c.by # run[p]
      PROVE  /\ c \in configMay \ {None}
             /\ Durable(c.path, c.by) => Durable(c.path, c.by)'
             /\ Undone(c) => Undone(c)'
             /\ Orphaned(c) => Orphaned(c)'
  <2>1. c \in configMay \ {None} /\ c.path \in Path /\ c.by \in Nat
    BY <1>0, <1>1 DEF TypeOK, Config
  <2>2. Durable(c.path, c.by) => Durable(c.path, c.by)'
    BY <1>1, <2>1, OthersKept
  <2>3. config' = c => config = c
    BY <1>1 DEF Alone
  <2> QED
    BY <2>1, <2>2, <2>3 DEF Undone, Alone, Orphaned, Swept
<1>2. ASSUME NEW c \in configMay' \ {None}, c.whole, c.by # 0
      PROVE  Durable(c.path, c.by)' \/ Undone(c)' \/ Orphaned(c)'
  BY <1>0, <1>1, <1>2 DEF ConfigsInv
<1>3. ASSUME NEW c \in configMay' \ {None}, NEW q \in Proc,
             pc'[q] = "removeidentity", c.by = run'[q]
      PROVE  Undone(c)'
  <2>1. run' = run /\ (q # p => pc'[q] = pc[q])
    BY DEF Alone
  <2>2. CASE c.by = run[p]
    BY <1>0, <1>3, <2>1, <2>2 DEF RunsInv
  <2>3. CASE c.by # run[p]
    BY <1>0, <1>1, <1>3, <2>1, <2>3 DEF ConfigsInv
  <2> QED
    BY <2>2, <2>3
<1> QED
  BY <1>2, <1>3 DEF ConfigsInv

(* Looking at the files does not change them.                               *)
LEMMA LookingKeeps ==
  ASSUME SetupInv, TypeOK', NEW p \in Proc, Validate(p) \/ Inspect(p)
  PROVE  SetupInv'
<1>0. /\ TypeOK /\ RunsInv /\ FilesInv /\ OwnersInv /\ ConfigsInv /\ NothingLeft
      /\ OwnerOK(p) /\ pc[p] # "idle"
  BY DEF SetupInv, OwnersInv, Validate, Inspect, Writing, Configuring
<1>1. Alone(p)
  BY StepsAlone DEF Run
<1> USE <1>0 DEF Validate, Inspect, files, contents, opts, history, Goto, GiveUp, Abandon,
      Early, EarlyConfig, Writing, Configuring, Undoing, Owning, Committed
<1>2. OwnerOK(p)'
  BY DEF OwnerOK, Durable, Full, TypeOK
<1>3. FilesInv'
  BY DEF FilesInv, TypeOK, RunsInv, OwnerOK
<1>4. ConfigsInv'
  <2>1. \A c \in configMay \ {None} : c.by # run[p]
    BY DEF FilesInv
  <2> QED
    BY <1>1, <2>1, ConfigsKept
<1>5. NothingLeft'
  BY DEF NothingLeft, Owns, TypeOK
<1>6. RunsInv' /\ OwnersInv' /\ ReadyInv'
  BY <1>1, <1>2, CommonKept DEF TypeOK
<1> QED
  BY <1>2, <1>3, <1>4, <1>5, <1>6 DEF SetupInv

(* What is created is of an init that had no identity yet.                  *)
LEMMA CreateKeeps ==
  ASSUME SetupInv, TypeOK', NEW p \in Proc, Create(p)
  PROVE  SetupInv'
<1>0. /\ TypeOK /\ RunsInv /\ FilesInv /\ OwnersInv /\ ConfigsInv /\ NothingLeft
      /\ OwnerOK(p) /\ pc[p] # "idle"
  BY DEF SetupInv, OwnersInv, Create, Writing, Configuring
<1>1. Alone(p)
  BY StepsAlone DEF Run
<1>2. [by |-> run[p], whole |-> FALSE] # None
  <2>1. [by |-> run[p], whole |-> FALSE] \in Identity
    BY <1>0 DEF TypeOK, Identity
  <2> QED
    BY <2>1, NoneAssumption
<1> USE <1>0, <1>2 DEF Create, MakeDir, PutIdentity, files, contents, opts, history, Goto, GiveUp, Abandon,
      Early, EarlyConfig, Writing, Configuring, Undoing, Owning, Committed
<1>3. OwnerOK(p)'
  BY DEF OwnerOK, FilesInv, TypeOK
<1>4. FilesInv'
  BY SMTT(30) DEF FilesInv, TypeOK, RunsInv, OwnerOK
<1>5. ConfigsInv'
  <2>1. \A c \in configMay \ {None} : c.by # run[p]
    BY DEF FilesInv
  <2> QED
    BY <1>1, <2>1, ConfigsKept
<1>6. NothingLeft'
  BY DEF NothingLeft, Owns, TypeOK
<1>7. RunsInv' /\ OwnersInv' /\ ReadyInv'
  BY <1>1, <1>3, CommonKept DEF TypeOK
<1> QED
  BY <1>3, <1>4, <1>5, <1>6, <1>7 DEF SetupInv

(* The identity is written in place.                                        *)
LEMMA WriteKeeps ==
  ASSUME SetupInv, TypeOK', NEW p \in Proc, Write(p)
  PROVE  SetupInv'
<1>0. /\ TypeOK /\ RunsInv /\ FilesInv /\ OwnersInv /\ ConfigsInv /\ NothingLeft
      /\ OwnerOK(p) /\ pc[p] # "idle"
  BY DEF SetupInv, OwnersInv, Write, Writing, Configuring
<1>1. Alone(p)
  BY StepsAlone DEF Run
<1>2. [by |-> run[p], whole |-> TRUE] # None
  <2>1. [by |-> run[p], whole |-> TRUE] \in Identity
    BY <1>0 DEF TypeOK, Identity
  <2> QED
    BY <2>1, NoneAssumption
<1> USE <1>0, <1>2 DEF Write, PutIdentity, files, contents, opts, history, Goto, GiveUp, Abandon,
      Early, EarlyConfig, Writing, Configuring, Undoing, Owning, Committed
<1>3. OwnerOK(p)'
  BY DEF OwnerOK, Durable, Full, TypeOK
<1>4. FilesInv'
  BY DEF FilesInv, TypeOK, RunsInv, OwnerOK
<1>5. ConfigsInv'
  <2>1. \A c \in configMay \ {None} : c.by # run[p]
    BY DEF FilesInv
  <2> QED
    BY <1>1, <2>1, ConfigsKept
<1>6. NothingLeft'
  BY DEF NothingLeft, Owns, TypeOK
<1>7. RunsInv' /\ OwnersInv' /\ ReadyInv'
  BY <1>1, <1>3, CommonKept DEF TypeOK
<1> QED
  BY <1>3, <1>4, <1>5, <1>6, <1>7 DEF SetupInv

(* The half-written identity goes from the disk, the whole one stays.       *)
LEMMA SyncKeeps ==
  ASSUME SetupInv, TypeOK', NEW p \in Proc, Sync(p)
  PROVE  SetupInv'
<1>0. /\ TypeOK /\ RunsInv /\ FilesInv /\ OwnersInv /\ ConfigsInv /\ NothingLeft
      /\ OwnerOK(p) /\ pc[p] # "idle"
  BY DEF SetupInv, OwnersInv, Sync, Writing, Configuring
<1>1. Alone(p)
  BY StepsAlone DEF Run
<1> USE <1>0 DEF Sync, files, contents, opts, history, Goto, GiveUp, Abandon,
      Early, EarlyConfig, Writing, Configuring, Undoing, Owning, Committed
<1>2. OwnerOK(p)'
  BY DEF OwnerOK, Durable, Full, TypeOK
<1>3. FilesInv'
  BY DEF FilesInv, TypeOK, RunsInv, OwnerOK, Full
<1>4. ConfigsInv'
  <2>1. \A c \in configMay \ {None} : c.by # run[p]
    BY DEF FilesInv
  <2> QED
    BY <1>1, <2>1, ConfigsKept
<1>5. NothingLeft'
  BY DEF NothingLeft, Owns, TypeOK
<1>6. RunsInv' /\ OwnersInv' /\ ReadyInv'
  BY <1>1, <1>2, CommonKept DEF TypeOK
<1> QED
  BY <1>2, <1>3, <1>4, <1>5, <1>6 DEF SetupInv

(* From here on the identity is the only version on the disk.               *)
LEMMA SyncDirKeeps ==
  ASSUME SetupInv, TypeOK', NEW p \in Proc, SyncDir(p)
  PROVE  SetupInv'
<1>0. /\ TypeOK /\ RunsInv /\ FilesInv /\ OwnersInv /\ ConfigsInv /\ NothingLeft
      /\ OwnerOK(p) /\ pc[p] # "idle"
  BY DEF SetupInv, OwnersInv, SyncDir, Writing, Configuring
<1>1. Alone(p)
  BY StepsAlone DEF Run
<1> USE <1>0 DEF SyncDir, AfterIdentity, files, contents, opts, history, Goto, GiveUp, Abandon,
      Early, EarlyConfig, Writing, Configuring, Undoing, Owning, Committed
<1>2. OwnerOK(p)'
  BY DEF OwnerOK, Durable, Full, TypeOK
<1>3. FilesInv'
  BY DEF FilesInv, TypeOK, RunsInv, OwnerOK
<1>4. ConfigsInv'
  <2>1. \A c \in configMay \ {None} : c.by # run[p]
    BY DEF FilesInv
  <2> QED
    BY <1>1, <2>1, ConfigsKept
<1>5. NothingLeft'
  BY DEF NothingLeft, Owns, TypeOK
<1>6. RunsInv' /\ OwnersInv' /\ ReadyInv'
  BY <1>1, <1>2, CommonKept DEF TypeOK
<1> QED
  BY <1>2, <1>3, <1>4, <1>5, <1>6 DEF SetupInv

(* An init that fails before its configuration has none to undo.            *)
LEMMA FailWritingKeeps ==
  ASSUME SetupInv, TypeOK', NEW p \in Proc, FailWriting(p)
  PROVE  SetupInv'
<1>0. /\ TypeOK /\ RunsInv /\ FilesInv /\ OwnersInv /\ ConfigsInv /\ NothingLeft
      /\ OwnerOK(p) /\ pc[p] # "idle"
  BY DEF SetupInv, OwnersInv, FailWriting, Writing, Configuring
<1>1. Alone(p)
  BY StepsAlone DEF Run
<1> USE <1>0 DEF FailWriting, Fault, files, contents, opts, history, Goto, GiveUp, Abandon,
      Early, EarlyConfig, Writing, Configuring, Undoing, Owning, Committed
<1>2. OwnerOK(p)'
  BY DEF OwnerOK, Durable, Full, TypeOK
<1>3. FilesInv'
  BY DEF FilesInv, TypeOK, RunsInv, OwnerOK
<1>4. ConfigsInv'
  <2>1. \A c \in configMay \ {None} : c.by # run[p]
    BY DEF FilesInv
  <2> QED
    BY <1>1, <2>1, ConfigsKept
<1>5. NothingLeft'
  BY DEF NothingLeft, Owns, TypeOK
<1>6. RunsInv' /\ OwnersInv' /\ ReadyInv'
  BY <1>1, <1>2, CommonKept DEF TypeOK
<1> QED
  BY <1>2, <1>3, <1>4, <1>5, <1>6 DEF SetupInv

(* The configuration is created where there is none, or not at all.         *)
LEMMA ConfigCreateKeeps ==
  ASSUME SetupInv, TypeOK', NEW p \in Proc, ConfigCreate(p)
  PROVE  SetupInv'
<1>0. /\ TypeOK /\ RunsInv /\ FilesInv /\ OwnersInv /\ ConfigsInv /\ NothingLeft
      /\ OwnerOK(p) /\ pc[p] # "idle"
  BY DEF SetupInv, OwnersInv, ConfigCreate, Writing, Configuring
<1>1. Alone(p)
  BY StepsAlone DEF Run
<1>2. [by |-> run[p], path |-> path[p], whole |-> FALSE] # None
  <2>1. [by |-> run[p], path |-> path[p], whole |-> FALSE] \in Config
    BY <1>0 DEF TypeOK, Config
  <2> QED
    BY <2>1, NoneAssumption
<1> USE <1>0, <1>2 DEF ConfigCreate, MakeDir, PutConfig, files, contents, opts, history, Goto, GiveUp, Abandon,
      Early, EarlyConfig, Writing, Configuring, Undoing, Owning, Committed
<1>3. OwnerOK(p)'
  BY DEF OwnerOK, Durable, Full, TypeOK
<1>4. FilesInv'
  BY DEF FilesInv, TypeOK, RunsInv, OwnerOK
<1>5. ConfigsInv'
  <2>1. \A c \in configMay \ {None} : c.by # run[p]
    BY DEF FilesInv
  <2>2. ASSUME NEW c \in configMay' \ {None}, c \notin configMay
        PROVE  c.by = run[p] /\ ~c.whole
    <3>1. c = [by |-> run[p], path |-> path[p], whole |-> FALSE]
      BY <2>2
    <3> QED
      BY ONLY <3>1
  <2>3. configMay' = configMay \/ pc'[p] # "removeidentity"
    BY DEF TypeOK
  <2> QED
    BY <1>1, <2>1, <2>2, <2>3, ConfigsKept
<1>6. NothingLeft'
  BY DEF NothingLeft, Owns, TypeOK
<1>7. RunsInv' /\ OwnersInv' /\ ReadyInv'
  BY <1>1, <1>3, CommonKept DEF TypeOK
<1> QED
  BY <1>3, <1>4, <1>5, <1>6, <1>7 DEF SetupInv

(* A configuration becomes whole when its identity is durable.              *)
LEMMA ConfigWriteKeeps ==
  ASSUME SetupInv, TypeOK', NEW p \in Proc, ConfigWrite(p)
  PROVE  SetupInv'
<1>0. /\ TypeOK /\ RunsInv /\ FilesInv /\ OwnersInv /\ ConfigsInv /\ NothingLeft
      /\ OwnerOK(p) /\ pc[p] # "idle"
  BY DEF SetupInv, OwnersInv, ConfigWrite, Writing, Configuring
<1>1. Alone(p)
  BY StepsAlone DEF Run
<1>2. [by |-> run[p], path |-> path[p], whole |-> TRUE] # None
  <2>1. [by |-> run[p], path |-> path[p], whole |-> TRUE] \in Config
    BY <1>0 DEF TypeOK, Config
  <2> QED
    BY <2>1, NoneAssumption
<1> USE <1>0, <1>2 DEF ConfigWrite, PutConfig, files, contents, opts, history, Goto, GiveUp, Abandon,
      Early, EarlyConfig, Writing, Configuring, Undoing, Owning, Committed
<1>3. OwnerOK(p)'
  BY DEF OwnerOK, Durable, Full, TypeOK
<1>4. FilesInv'
  BY DEF FilesInv, TypeOK, RunsInv, OwnerOK
<1>5. ConfigsInv'
  <2>1. Durable(path[p], run[p])'
    BY DEF OwnerOK, Durable
  <2>2. pc'[p] # "removeidentity"
    BY DEF TypeOK
  <2>3. ASSUME NEW c \in configMay' \ {None}, c.whole, c.by = run[p]
        PROVE  Durable(c.path, c.by)' \/ Undone(c)' \/ Orphaned(c)'
    <3>1. CASE c = [by |-> run[p], path |-> path[p], whole |-> TRUE]
      BY <2>1, <3>1
    <3>2. CASE c \in configMay /\ config' # c
      <4>1. run[p] # 0 /\ UNCHANGED <<identity, may, used, swept>>
        BY DEF RunsInv
      <4>2. Durable(c.path, c.by) \/ Undone(c) \/ Orphaned(c)
        BY <2>3, <3>2, <4>1 DEF ConfigsInv
      <4>3. Undone(c) => Undone(c)'
        BY <3>2, <4>1 DEF Undone
      <4> QED
        BY <4>1, <4>2, <4>3 DEF Durable, Orphaned, Swept
    <3> QED
      BY <2>3, <3>1, <3>2
  <2>4. \A c \in configMay' \ {None} : c \in configMay \/ c.by = run[p]
    OBVIOUS
  <2> QED
    BY <1>1, <2>2, <2>3, <2>4, ConfigsKept
<1>6. NothingLeft'
  BY DEF NothingLeft, Owns, TypeOK
<1>7. RunsInv' /\ OwnersInv' /\ ReadyInv'
  BY <1>1, <1>3, CommonKept DEF TypeOK
<1> QED
  BY <1>3, <1>4, <1>5, <1>6, <1>7 DEF SetupInv

(* No configuration comes back to the disk.                                 *)
LEMMA ConfigSyncKeeps ==
  ASSUME SetupInv, TypeOK', NEW p \in Proc, ConfigSync(p)
  PROVE  SetupInv'
<1>0. /\ TypeOK /\ RunsInv /\ FilesInv /\ OwnersInv /\ ConfigsInv /\ NothingLeft
      /\ OwnerOK(p) /\ pc[p] # "idle"
  BY DEF SetupInv, OwnersInv, ConfigSync, Writing, Configuring
<1>1. Alone(p)
  BY StepsAlone DEF Run
<1> USE <1>0 DEF ConfigSync, files, contents, opts, history, Goto, GiveUp, Abandon,
      Early, EarlyConfig, Writing, Configuring, Undoing, Owning, Committed
<1>2. OwnerOK(p)'
  BY DEF OwnerOK, Durable, Full, TypeOK
<1>3. FilesInv'
  BY DEF FilesInv, TypeOK, RunsInv, OwnerOK
<1>4. ConfigsInv'
  <2>1. ASSUME NEW c \in configMay' \ {None}
        PROVE  /\ c \in configMay \/ c.by = run[p]
               /\ c.whole /\ c.by = run[p] => Durable(c.path, c.by)' \/ Undone(c)' \/ Orphaned(c)'
               /\ pc'[p] = "removeidentity" /\ c.by = run[p] => Undone(c)'
    BY DEF TypeOK, ConfigsInv, Undone, Orphaned, Swept, Durable, FilesInv, OwnerOK, RunsInv
  <2> QED
    BY <1>1, <2>1, ConfigsKept
<1>5. NothingLeft'
  BY DEF NothingLeft, Owns, TypeOK
<1>6. RunsInv' /\ OwnersInv' /\ ReadyInv'
  BY <1>1, <1>2, CommonKept DEF TypeOK
<1> QED
  BY <1>2, <1>3, <1>4, <1>5, <1>6 DEF SetupInv

(* No configuration comes back to the disk.                                 *)
LEMMA ConfigSyncDirKeeps ==
  ASSUME SetupInv, TypeOK', NEW p \in Proc, ConfigSyncDir(p)
  PROVE  SetupInv'
<1>0. /\ TypeOK /\ RunsInv /\ FilesInv /\ OwnersInv /\ ConfigsInv /\ NothingLeft
      /\ OwnerOK(p) /\ pc[p] # "idle"
  BY DEF SetupInv, OwnersInv, ConfigSyncDir, Writing, Configuring
<1>1. Alone(p)
  BY StepsAlone DEF Run
<1> USE <1>0 DEF ConfigSyncDir, files, contents, opts, history, Goto, GiveUp, Abandon,
      Early, EarlyConfig, Writing, Configuring, Undoing, Owning, Committed
<1>2. OwnerOK(p)'
  BY DEF OwnerOK, Durable, Full, TypeOK
<1>3. FilesInv'
  BY DEF FilesInv, TypeOK, RunsInv, OwnerOK
<1>4. ConfigsInv'
  <2>1. ASSUME NEW c \in configMay' \ {None}
        PROVE  /\ c \in configMay \/ c.by = run[p]
               /\ c.whole /\ c.by = run[p] => Durable(c.path, c.by)' \/ Undone(c)' \/ Orphaned(c)'
               /\ pc'[p] = "removeidentity" /\ c.by = run[p] => Undone(c)'
    BY DEF TypeOK, ConfigsInv, Undone, Orphaned, Swept, Durable, FilesInv, OwnerOK, RunsInv
  <2> QED
    BY <1>1, <2>1, ConfigsKept
<1>5. NothingLeft'
  BY DEF NothingLeft, Owns, TypeOK
<1>6. RunsInv' /\ OwnersInv' /\ ReadyInv'
  BY <1>1, <1>2, CommonKept DEF TypeOK
<1> QED
  BY <1>2, <1>3, <1>4, <1>5, <1>6 DEF SetupInv

(* A configuration to be undone has its identity still.                     *)
LEMMA FailConfigKeeps ==
  ASSUME SetupInv, TypeOK', NEW p \in Proc, FailConfig(p)
  PROVE  SetupInv'
<1>0. /\ TypeOK /\ RunsInv /\ FilesInv /\ OwnersInv /\ ConfigsInv /\ NothingLeft
      /\ OwnerOK(p) /\ pc[p] # "idle"
  BY DEF SetupInv, OwnersInv, FailConfig, Writing, Configuring
<1>1. Alone(p)
  BY StepsAlone DEF Run
<1> USE <1>0 DEF FailConfig, Fault, files, contents, opts, history, Goto, GiveUp, Abandon,
      Early, EarlyConfig, Writing, Configuring, Undoing, Owning, Committed
<1>2. OwnerOK(p)'
  BY DEF OwnerOK, Durable, Full, TypeOK
<1>3. FilesInv'
  BY DEF FilesInv, TypeOK, RunsInv, OwnerOK
<1>4. ConfigsInv'
  <2>1. ASSUME NEW c \in configMay' \ {None}
        PROVE  /\ c \in configMay \/ c.by = run[p]
               /\ c.whole /\ c.by = run[p] => Durable(c.path, c.by)' \/ Undone(c)' \/ Orphaned(c)'
               /\ pc'[p] = "removeidentity" /\ c.by = run[p] => Undone(c)'
    BY DEF TypeOK, ConfigsInv, Undone, Orphaned, Swept, Durable, FilesInv, OwnerOK, RunsInv
  <2> QED
    BY <1>1, <2>1, ConfigsKept
<1>5. NothingLeft'
  BY DEF NothingLeft, Owns, TypeOK
<1>6. RunsInv' /\ OwnersInv' /\ ReadyInv'
  BY <1>1, <1>2, CommonKept DEF TypeOK
<1> QED
  BY <1>2, <1>3, <1>4, <1>5, <1>6 DEF SetupInv

(* The configuration goes, or its init is stuck, before the identity goes.  *)
LEMMA RemoveConfigKeeps ==
  ASSUME SetupInv, TypeOK', NEW p \in Proc, RemoveConfig(p)
  PROVE  SetupInv'
<1>0. /\ TypeOK /\ RunsInv /\ FilesInv /\ OwnersInv /\ ConfigsInv /\ NothingLeft
      /\ OwnerOK(p) /\ pc[p] # "idle"
  BY DEF SetupInv, OwnersInv, RemoveConfig, Writing, Configuring
<1>1. Alone(p)
  BY StepsAlone DEF Run
<1> USE <1>0 DEF RemoveConfig, PutConfig, Stuck, Fault, files, contents, opts, history, Goto, GiveUp, Abandon,
      Early, EarlyConfig, Writing, Configuring, Undoing, Owning, Committed
<1>2. OwnerOK(p)'
  BY DEF OwnerOK, Durable, Full, TypeOK
<1>3. FilesInv'
  BY DEF FilesInv, TypeOK, RunsInv, OwnerOK
<1>4. ConfigsInv'
  <2>1. ASSUME NEW c \in configMay' \ {None}
        PROVE  /\ c \in configMay \/ c.by = run[p]
               /\ c.whole /\ c.by = run[p] => Durable(c.path, c.by)' \/ Undone(c)' \/ Orphaned(c)'
               /\ pc'[p] = "removeidentity" /\ c.by = run[p] => Undone(c)'
    BY DEF TypeOK, ConfigsInv, Undone, Orphaned, Swept, Durable, FilesInv, OwnerOK, RunsInv
  <2> QED
    BY <1>1, <2>1, ConfigsKept
<1>5. NothingLeft'
  BY DEF NothingLeft, Owns, TypeOK
<1>6. RunsInv' /\ OwnersInv' /\ ReadyInv'
  BY <1>1, <1>2, CommonKept DEF TypeOK
<1> QED
  BY <1>2, <1>3, <1>4, <1>5, <1>6 DEF SetupInv

(* The identity goes after the configuration that names it.                 *)
LEMMA RemoveIdentityKeeps ==
  ASSUME SetupInv, TypeOK', NEW p \in Proc, RemoveIdentity(p)
  PROVE  SetupInv'
<1>0. /\ TypeOK /\ RunsInv /\ FilesInv /\ OwnersInv /\ ConfigsInv /\ NothingLeft
      /\ OwnerOK(p) /\ pc[p] # "idle"
  BY DEF SetupInv, OwnersInv, RemoveIdentity, Writing, Configuring
<1>1. Alone(p)
  BY StepsAlone DEF Run
<1> USE <1>0 DEF RemoveIdentity, PutIdentity, Stuck, Fault, files, contents, opts, history, Goto, GiveUp, Abandon,
      Early, EarlyConfig, Writing, Configuring, Undoing, Owning, Committed
<1>2. OwnerOK(p)'
  BY DEF OwnerOK, Durable, Full, TypeOK
<1>3. FilesInv'
  BY SMTT(30) DEF FilesInv, TypeOK, RunsInv, OwnerOK
<1>4. ConfigsInv'
  <2>1. ASSUME NEW c \in configMay' \ {None}
        PROVE  /\ c \in configMay \/ c.by = run[p]
               /\ c.whole /\ c.by = run[p] => Durable(c.path, c.by)' \/ Undone(c)' \/ Orphaned(c)'
               /\ pc'[p] = "removeidentity" /\ c.by = run[p] => Undone(c)'
    BY DEF TypeOK, ConfigsInv, Undone, Orphaned, Swept, Durable, FilesInv, OwnerOK, RunsInv
  <2> QED
    BY <1>1, <2>1, ConfigsKept
<1>5. NothingLeft'
  BY DEF NothingLeft, Owns, TypeOK, OwnerOK
<1>6. RunsInv' /\ OwnersInv' /\ ReadyInv'
  BY <1>1, <1>2, CommonKept DEF TypeOK
<1> QED
  BY <1>2, <1>3, <1>4, <1>5, <1>6 DEF SetupInv

(* An init begins with a number of its own and without files.               *)
LEMMA BeginKeeps ==
  ASSUME SetupInv, TypeOK', NEW p \in Proc, NEW selected \in Path \cup {None},
         NEW ignore \in BOOLEAN, Begin(p, selected, ignore)
  PROVE  SetupInv'
<1>0. /\ TypeOK /\ RunsInv /\ FilesInv /\ OwnersInv
      /\ ConfigsInv /\ ReadyInv /\ NothingLeft
  BY DEF SetupInv
<1> USE <1>0 DEF Begin, files, contents, history, Goto, TypeOK,
      Early, EarlyConfig, Writing, Configuring, Undoing, Owning, Committed
<1>1. RunsInv'
  BY DEF RunsInv
<1>2. FilesInv'
  BY DEF FilesInv
<1>3. OwnersInv'
  BY DEF OwnersInv, OwnerOK, Durable, Full
<1>4. ConfigsInv'
  BY DEF ConfigsInv, Undone, Orphaned, Swept, Durable, Full
<1>5. ReadyInv' /\ NothingLeft'
  BY DEF ReadyInv, Swept, Durable, NothingLeft, Owns
<1> QED
  BY <1>1, <1>2, <1>3, <1>4, <1>5 DEF SetupInv

(* A complete setup has a durable identity, and is not of a running init.   *)
LEMMA ReportKeeps ==
  ASSUME SetupInv, TypeOK', NEW p \in Proc, Report(p)
  PROVE  SetupInv'
<1>0. /\ TypeOK /\ RunsInv /\ FilesInv /\ OwnersInv
      /\ ConfigsInv /\ ReadyInv /\ NothingLeft /\ OwnerOK(p)
  BY DEF SetupInv, OwnersInv
<1> DEFINE receipt == [by |-> run[p], path |-> path[p], config |-> exists[p]]
<1>1. /\ pc[p] = "report" /\ pc'[p] = "idle"
      /\ \A q \in Proc \ {p} : pc'[q] = pc[q]
      /\ ready' = ready \cup {receipt}
      /\ UNCHANGED <<files, opts, abandoned, swept, used>>
  BY <1>0 DEF Report, Goto, TypeOK
<1>2. receipt.by = run[p] /\ receipt.path = path[p]
  OBVIOUS
<1> HIDE DEF receipt
<1> USE <1>0, <1>1 DEF files, contents, opts,
      Early, EarlyConfig, Writing, Configuring, Undoing, Owning, Committed
<1>3. RunsInv'
  BY <1>2 DEF RunsInv
<1>4. FilesInv'
  BY DEF FilesInv
<1>5. OwnersInv'
  BY DEF OwnersInv, OwnerOK, Durable
<1>6. ConfigsInv'
  BY DEF ConfigsInv, Undone, Orphaned, Swept, Durable
<1>7. ReadyInv'
  BY <1>2 DEF ReadyInv, OwnerOK, Durable, Swept
<1>8. NothingLeft'
  <2> SUFFICES ASSUME NEW x \in Path, identity[x] # None
               PROVE  \/ \E q \in Proc : Owns(q, identity[x])'
                      \/ \E r \in ready' : r.by = identity[x].by
                      \/ identity[x].by \in abandoned
    BY DEF NothingLeft, Owns
  <2>1. CASE Owns(p, identity[x])
    BY <1>2, <2>1 DEF Owns
  <2>2. ASSUME NEW q \in Proc \ {p}, Owns(q, identity[x]) PROVE Owns(q, identity[x])'
    BY <2>2 DEF Owns
  <2> QED
    BY <2>1, <2>2 DEF NothingLeft
<1> QED
  BY <1>3, <1>4, <1>5, <1>6, <1>7, <1>8 DEF SetupInv

(* An init that is killed leaves its files as they are.                     *)
LEMMA KillKeeps ==
  ASSUME SetupInv, TypeOK', NEW p \in Proc, Kill(p)
  PROVE  SetupInv'
<1>0. /\ TypeOK /\ RunsInv /\ FilesInv /\ OwnersInv
      /\ ConfigsInv /\ ReadyInv /\ NothingLeft
  BY DEF SetupInv
<1> USE <1>0 DEF Kill, files, contents, opts, Goto, Abandon, TypeOK,
      Early, EarlyConfig, Writing, Configuring, Undoing, Owning, Committed
<1>1. RunsInv'
  BY DEF RunsInv
<1>2. FilesInv'
  BY DEF FilesInv
<1>3. OwnersInv'
  BY DEF OwnersInv, OwnerOK, Durable, Full
<1>4. ConfigsInv'
  BY DEF ConfigsInv, Undone, Orphaned, Swept, Durable, Full
<1>5. ReadyInv' /\ NothingLeft'
  BY DEF ReadyInv, Swept, Durable, NothingLeft, Owns
<1> QED
  BY <1>1, <1>2, <1>3, <1>4, <1>5 DEF SetupInv

(* A power loss leaves versions that were on the disk, but for those in     *)
(* directories that it takes, and no running init.                          *)
LEMMA CrashKeeps == ASSUME SetupInv, TypeOK', Crash PROVE SetupInv'
<1>0. /\ TypeOK /\ RunsInv /\ FilesInv /\ OwnersInv
      /\ ConfigsInv /\ ReadyInv /\ NothingLeft
  BY DEF SetupInv
<1>1. PICK lost \in SUBSET Dir :
        /\ swept' = [d \in Dir |-> IF d \in lost THEN used.runs ELSE swept[d]]
        /\ \A x \in Path : /\ identity'[x] \in IF Within[x] \in lost THEN {None} ELSE may[x]
                           /\ may'[x] = {identity'[x]}
        /\ config' \in IF ConfigDir \in lost THEN {None} ELSE configMay
  <2>1. PICK lost \in SUBSET {d \in Dir : dirs[d] = "cached"} :
          /\ swept' = [d \in Dir |-> IF d \in lost THEN used.runs ELSE swept[d]]
          /\ \E kept \in [Path -> UNION {may[x] : x \in Path} \cup {None}] :
               /\ \A x \in Path : kept[x] \in IF Within[x] \in lost THEN {None} ELSE may[x]
               /\ identity' = kept
               /\ may' = [x \in Path |-> {kept[x]}]
          /\ config' \in IF ConfigDir \in lost THEN {None} ELSE configMay
    BY DEF Crash
  <2>2. \A x \in Path : /\ identity'[x] \in IF Within[x] \in lost THEN {None} ELSE may[x]
                        /\ may'[x] = {identity'[x]}
    BY <2>1
  <2> QED
    BY <2>1, <2>2
<1>2. /\ \A p \in Proc : pc'[p] = "idle"
      /\ configMay' = {config'}
      /\ abandoned' = 1 .. used.runs
      /\ used'.runs = used.runs /\ used'.faults = used.faults
      /\ UNCHANGED <<opts, ready>>
  BY <1>0 DEF Crash, TypeOK
<1>3. used.runs \in Nat /\ \A d \in Dir : swept[d] \in Nat
  BY <1>0 DEF TypeOK
<1>4. ASSUME NEW x \in Path, NEW n \in Nat, n <= used.runs,
             Durable(x, n) \/ Swept(Within[x], n)
      PROVE  Durable(x, n)' \/ Swept(Within[x], n)'
  <2>1. Within[x] \in Dir
    BY DirAssumption
  <2>2. CASE Within[x] \in lost
    BY <1>1, <1>4, <2>1, <2>2 DEF Swept
  <2>3. CASE Within[x] \notin lost
    BY <1>1, <1>4, <2>1, <2>3 DEF Durable, Swept
  <2> QED
    BY <2>2, <2>3
<1>5. RunsInv'
  BY <1>0, <1>1, <1>2, <1>3 DEF RunsInv
<1>6. \A x \in Path : identity'[x] = None \/ identity'[x] \in may[x]
  BY <1>1
<1>7. config' = None \/ (config' \in configMay /\ ConfigDir \notin lost)
  BY <1>1
<1>8. FilesInv'
  BY <1>0, <1>1, <1>2, <1>6, <1>7 DEF FilesInv, Early, EarlyConfig, Writing
<1>9. OwnersInv'
  BY <1>2 DEF OwnersInv, OwnerOK, Writing, Configuring, Undoing, Owning, Committed
<1>10. ConfigsInv'
  <2>1. ASSUME NEW c \in configMay' \ {None}, c.whole, c.by # 0
        PROVE  Durable(c.path, c.by)' \/ Undone(c)' \/ Orphaned(c)'
    <3>1. c \in configMay \ {None} /\ ConfigDir \notin lost
      BY <1>2, <1>7, <2>1
    <3>2. c.path \in Path /\ c.by \in Nat /\ c.by <= used.runs /\ c.by \in abandoned'
      BY <1>0, <1>2, <1>3, <2>1, <3>1 DEF FilesInv, TypeOK, Config
    <3>3. CASE Undone(c)
      BY <1>2, <3>2, <3>3 DEF Undone
    <3>4. CASE Durable(c.path, c.by) /\ Within[c.path] \notin lost
      BY <1>1, <3>2, <3>4 DEF Durable
    <3>5. CASE Durable(c.path, c.by) /\ Within[c.path] \in lost
      <4>1. Swept(Within[c.path], c.by)'
        BY <1>1, <3>2, <3>5 DEF Swept
      <4> QED
        BY <3>1, <3>5, <4>1 DEF Orphaned
    <3>6. CASE Orphaned(c)
      <4>1. Within[c.path] \in Dir
        BY <3>2, DirAssumption
      <4>2. Swept(Within[c.path], c.by)'
        BY <1>1, <3>2, <3>6, <4>1 DEF Swept, Orphaned
      <4> QED
        BY <3>6, <4>2 DEF Orphaned
    <3> QED
      BY <1>0, <2>1, <3>1, <3>3, <3>4, <3>5, <3>6 DEF ConfigsInv
  <2> QED
    BY <1>2, <2>1 DEF ConfigsInv
<1>11. ReadyInv'
  <2>1. \A r \in ready : r.path \in Path /\ r.by \in Nat /\ r.by <= used.runs
    BY <1>0, <1>3 DEF TypeOK, Receipt, RunsInv
  <2> QED
    BY <1>0, <1>2, <1>4, <2>1 DEF ReadyInv
<1>12. NothingLeft'
  BY <1>0, <1>2, <1>6 DEF NothingLeft, FilesInv
<1> QED
  BY <1>5, <1>8, <1>9, <1>10, <1>11, <1>12 DEF SetupInv

(* Every step keeps the invariant.                                          *)
LEMMA SetupSteps == SetupInv /\ [Next]_vars => SetupInv'
<1> SUFFICES ASSUME SetupInv, [Next]_vars PROVE SetupInv'
  OBVIOUS
<1>1. TypeOK'
  BY TypesKept DEF SetupInv
<1>2. ASSUME NEW p \in Proc, Run(p) PROVE SetupInv'
  BY <1>1, <1>2, LookingKeeps, CreateKeeps, WriteKeeps, SyncKeeps, SyncDirKeeps,
     FailWritingKeeps, ConfigCreateKeeps, ConfigWriteKeeps, ConfigSyncKeeps,
     ConfigSyncDirKeeps, FailConfigKeeps, RemoveConfigKeeps, RemoveIdentityKeeps,
     ReportKeeps DEF Run
<1>3. ASSUME UNCHANGED vars PROVE SetupInv'
  <2>1. RunsInv' /\ FilesInv' /\ OwnersInv'
    BY <1>3 DEF SetupInv, vars, files, contents, opts, history,
                RunsInv, FilesInv, OwnersInv, OwnerOK, Durable
  <2>2. ConfigsInv' /\ ReadyInv' /\ NothingLeft'
    BY <1>3 DEF SetupInv, vars, files, contents, opts, history,
                ConfigsInv, Undone, Orphaned, Swept, ReadyInv, Durable, NothingLeft, Owns
  <2> QED
    BY <1>1, <2>1, <2>2 DEF SetupInv
<1> QED
  BY <1>1, <1>2, <1>3, BeginKeeps, KillKeeps, CrashKeeps DEF Next

(* The invariant holds of every state a sequence of inits, faults, kills    *)
(* and power losses reaches.                                                *)
THEOREM SetupInvariant == Spec => []SetupInv
<1> QED
  BY SetupStarts, SetupSteps, PTL DEF Spec

(* Every variable stays in its type.                                        *)
THEOREM TypeCorrect == Spec => []TypeOK
<1>1. SetupInv => TypeOK
  BY DEF SetupInv
<1> QED
  BY <1>1, SetupInvariant, PTL

(* The identity of a setup whose receipt was written stays whole at its     *)
(* path, whatever other inits, failures, kills and power losses do, unless  *)
(* a power loss takes a new directory it was in: ReadyKept.                 *)
THEOREM CompleteSetupKept == Spec => []ReadyKept
<1>1. SetupInv => ReadyKept
  BY DEF SetupInv, ReadyInv, ReadyKept, Durable, Full
<1> QED
  BY <1>1, SetupInvariant, PTL

(* A configuration that can be read names an identity that is there, unless *)
(* its init had to undo it and died, or could not remove it, or a power     *)
(* loss took a new directory the identity was in, and not the               *)
(* configuration's.                                                         *)
THEOREM ConfigNamesIdentity == Spec => []ConfigHasIdentity
<1>1. SetupInv => ConfigHasIdentity
  BY DEF SetupInv, FilesInv, ConfigsInv, ConfigHasIdentity, Readable, Undone, Orphaned, Durable, Full
<1> QED
  BY <1>1, SetupInvariant, PTL

(* Every identity file is of a running init, of a complete setup, or of an  *)
(* init that died or could not remove it.                                   *)
THEOREM FailuresClean == Spec => []NothingLeft
<1>1. SetupInv => NothingLeft
  BY DEF SetupInv
<1> QED
  BY <1>1, SetupInvariant, PTL

(* No init changes or removes a file it has not created itself.             *)
THEOREM InitsNeverReplace == Spec => NeverReplaces
<1> DEFINE Kept ==
      used'.crashes = used.crashes =>
        /\ \A x \in Path :
             identity[x] # None /\ identity'[x] # identity[x] =>
               \E p \in Proc : Owns(p, identity[x])
        /\ config # None /\ config' # config => \E p \in Proc : Owns(p, config)
<1>1. SetupInv /\ [Next]_vars => [Kept]_vars
  <2> SUFFICES ASSUME SetupInv, Next PROVE Kept
    BY DEF vars, files, contents, opts, history
  <2>1. ASSUME NEW p \in Proc, Run(p) \/ Kill(p) PROVE Kept
    BY <2>1, StepsAlone DEF Alone
  <2>2. ASSUME NEW p \in Proc, NEW selected \in Path \cup {None}, NEW ignore \in BOOLEAN,
               Begin(p, selected, ignore)
        PROVE  Kept
    BY <2>2 DEF Begin, files, contents
  <2>3. ASSUME Crash PROVE Kept
    <3>1. used'.crashes = used.crashes + 1 /\ used.crashes \in Nat
      BY <2>3 DEF Crash, SetupInv, TypeOK
    <3> QED
      BY <3>1
  <2> QED
    BY <2>1, <2>2, <2>3 DEF Next
<1> QED
  BY <1>1, SetupInvariant, PTL DEF Spec, NeverReplaces


-----------------------------------------------------------------------------
(* Without faults, a configuration that a receipt has spoken of, or that an *)
(* init which goes on without making one has found, can no longer be lost   *)
(* but with its directory: that init's identity file was not there, so that *)
(* the configuration is from before, or lost its identity in a power loss   *)
(* (ConfigHasIdentity), and none of a running init.                         *)
Settled(x) == Readable /\ config.path = x /\ configMay = {config}

(* A configuration from before a power loss that has taken a directory, or  *)
(* from before all inits.                                                   *)
Old(c) == \E d \in Dir : c.by <= swept[d]

Relying(p) == pc[p] \in {"create", "report"} \cup Writing /\ exists[p]

Relied ==
  /\ \A c \in configMay \ {None} : Old(c) => configMay = {c}
  /\ \A p \in Proc : pc[p] = "configwrite" => ~config.whole
  /\ \A p \in Proc : pc[p] = "inspect" /\ exists[p] => Readable /\ config.path = path[p]
  /\ \A p \in Proc : Relying(p) => Settled(path[p])
  /\ \A r \in ready : r.config => Settled(r.path) \/ Swept(ConfigDir, r.by)

SettledInv == used.faults = 0 => Relied

LEMMA SettledStarts == Init => SettledInv
<1> SUFFICES ASSUME Init PROVE SettledInv
  OBVIOUS
<1>1. \A c \in configMay \ {None} : configMay = {c}
  BY DEF Init
<1>2. ready = {} /\ \A p \in Proc : pc[p] = "idle"
  BY DEF Init
<1> QED
  BY <1>1, <1>2 DEF SettledInv, Relied, Relying, Writing

(* A step of p that leaves the configuration as it is.                      *)
LEMMA SettledKept ==
  ASSUME SetupInv, SettledInv, used'.faults = 0 => used.faults = 0,
         UNCHANGED <<config, configMay, swept>>,
         NEW p \in Proc,
         \A q \in Proc \ {p} : pc'[q] = pc[q] /\ exists'[q] = exists[q] /\ path'[q] = path[q],
         pc'[p] # "configwrite",
         used.faults = 0 =>
           /\ pc'[p] = "inspect" /\ exists'[p] => Readable /\ config.path = path'[p]
           /\ Relying(p)' => Settled(path'[p])
           /\ \A r \in ready' : r.config => r \in ready \/ Settled(r.path)
  PROVE  SettledInv'
<1>1. Readable' <=> Readable
  BY DEF Readable
<1>2. \A x : Settled(x)' <=> Settled(x)
  BY <1>1 DEF Settled
<1>3. \A q \in Proc \ {p} : Relying(q)' <=> Relying(q)
  BY DEF Relying, Writing
<1>4. \A q \in Proc : used.faults = 0 /\ Relying(q)' => Settled(path'[q])
  BY <1>3 DEF SettledInv, Relied
<1>5. \A r \in ready' :
        used.faults = 0 /\ r.config => Settled(r.path) \/ Swept(ConfigDir, r.by)
  BY DEF SettledInv, Relied
<1> SUFFICES ASSUME used'.faults = 0
             PROVE  Relied'
  BY DEF SettledInv
<1> QED
  BY <1>1, <1>2, <1>4, <1>5 DEF SettledInv, Relied, Old, Swept

LEMMA SettledSteps == SetupInv /\ SetupInv' /\ SettledInv /\ [Next]_vars => SettledInv'
<1> SUFFICES ASSUME SetupInv, SetupInv', SettledInv, [Next]_vars PROVE SettledInv'
  OBVIOUS
<1>0. TypeOK /\ OwnersInv /\ TypeOK'
  BY DEF SetupInv
<1>1. used.faults \in Nat
  BY <1>0 DEF TypeOK
<1>2. ASSUME used'.faults # 0
      PROVE  SettledInv'
  BY <1>2 DEF SettledInv, Relied
<1>3. ASSUME NEW p \in Proc, FailWriting(p) \/ FailConfig(p) \/ RemoveConfig(p)
      PROVE  SettledInv'
  <2>1. CASE FailWriting(p) \/ FailConfig(p)
    BY <1>0, <1>1, <1>2, <2>1 DEF FailWriting, FailConfig, Fault, TypeOK
  <2>2. CASE RemoveConfig(p)
    <3>1. used.faults > 0
      BY <1>0, <2>2 DEF RemoveConfig, OwnersInv, OwnerOK
    <3>2. used'.faults >= used.faults
      BY <1>0, <1>1, <2>2 DEF RemoveConfig, Stuck, Fault, TypeOK
    <3>3. used'.faults # 0
      BY <1>1, <3>1, <3>2, <1>0 DEF TypeOK
    <3> QED
      BY <1>2, <3>3
  <2> QED
    BY <1>3, <2>1, <2>2
<1>4. ASSUME NEW p \in Proc, Validate(p)
      PROVE  SettledInv'
  <2>1. /\ UNCHANGED <<config, configMay, swept, used, ready, path, exists>>
        /\ \A q \in Proc \ {p} : pc'[q] = pc[q]
        /\ pc'[p] \in {"inspect", "idle"}
        /\ pc'[p] = "inspect" /\ exists[p] => Readable /\ config.path = path[p]
    BY <1>0, <1>4 DEF Validate, GiveUp, Goto, files, contents, opts, history, TypeOK
  <2>2. ~Relying(p)'
    BY <2>1 DEF Relying, Writing
  <2> QED
    BY <2>1, <2>2, SettledKept
<1>5. ASSUME NEW p \in Proc, Inspect(p)
      PROVE  SettledInv'
  <2>1. /\ UNCHANGED <<identity, config, configMay, swept, used, ready, path, exists>>
        /\ \A q \in Proc \ {p} : pc'[q] = pc[q]
        /\ pc[p] = "inspect" /\ pc'[p] \in {"create", "idle"}
        /\ pc'[p] = "create" => identity[path[p]] = None
    BY <1>0, <1>5 DEF Inspect, GiveUp, Goto, files, contents, opts, history, TypeOK
  <2>2. ASSUME used.faults = 0, Relying(p)'
        PROVE  Settled(path[p])
    <3>1. pc'[p] = "create" /\ exists[p] /\ identity[path[p]] = None
      BY <2>1, <2>2 DEF Relying, Writing
    <3>2. Readable /\ config.path = path[p]
      BY <2>1, <2>2, <3>1 DEF SettledInv, Relied
    <3>3. config.by \in Nat /\ config # None /\ config.whole
      BY <1>0, <3>2 DEF TypeOK, Readable, Config
    <3>4. config \in configMay \ {None}
      BY <3>3 DEF SetupInv, FilesInv
    <3>5. Old(config)
      <4>1. Full(config.by) # None
        <5>1. Full(config.by) \in Identity
          BY <3>3 DEF Full, Identity
        <5> QED
          BY <5>1, NoneAssumption
      <4>2. CASE config.by = 0
        <5>1. swept[ConfigDir] \in Nat
          BY <1>0, DirAssumption DEF TypeOK
        <5> QED
          BY <4>2, <5>1, DirAssumption DEF Old
      <4>3. CASE Orphaned(config)
        <5>1. Within[config.path] \in Dir
          BY <1>0, <3>2, DirAssumption DEF TypeOK
        <5> QED
          BY <4>3, <5>1 DEF Orphaned, Swept, Old
      <4>4. CASE config.by # 0 /\ ~Orphaned(config)
        <5>1. Durable(config.path, config.by)
          BY <2>2, <3>3, <3>4, <4>4 DEF SetupInv, ConfigsInv, Undone
        <5> QED
          BY <3>1, <3>2, <4>1, <5>1 DEF Durable
      <4> QED
        BY <4>2, <4>3, <4>4
    <3> QED
      BY <2>2, <3>2, <3>3, <3>4, <3>5 DEF SettledInv, Relied, Settled
  <2> QED
    BY <2>1, <2>2, SettledKept
<1>6. ASSUME NEW p \in Proc, Create(p) \/ Write(p) \/ Sync(p) \/ SyncDir(p)
      PROVE  SettledInv'
  <2>1. /\ UNCHANGED <<config, configMay, swept, used, ready, path, exists>>
        /\ \A q \in Proc \ {p} : pc'[q] = pc[q]
        /\ pc[p] \in {"create"} \cup Writing
        /\ pc'[p] \in {"idle", "write", "sync", "syncdir", "report", "configcreate"}
    <3>1. CASE Create(p)
      BY <1>0, <3>1 DEF Create, PutIdentity, GiveUp, Goto, files, contents, opts, history, TypeOK
    <3>2. CASE Write(p)
      BY <1>0, <3>2 DEF Write, PutIdentity, Goto, opts, history, TypeOK, Writing
    <3>3. CASE Sync(p)
      BY <1>0, <3>3 DEF Sync, Goto, opts, history, TypeOK, Writing
    <3>4. CASE SyncDir(p)
      BY <1>0, <3>4 DEF SyncDir, AfterIdentity, Goto, opts, history, TypeOK, Writing
    <3> QED
      BY <1>6, <3>1, <3>2, <3>3, <3>4
  <2>2. Relying(p)' => Relying(p)
    BY <2>1 DEF Relying
  <2>3. used.faults = 0 /\ Relying(p)' => Settled(path[p])
    BY <2>2 DEF SettledInv, Relied
  <2> QED
    BY <2>1, <2>3, SettledKept
<1>7. ASSUME NEW p \in Proc, RemoveIdentity(p) \/ Kill(p) \/ Report(p)
      PROVE  SettledInv'
  <2>1. /\ UNCHANGED <<config, configMay, swept, path, exists>>
        /\ \A q \in Proc \ {p} : pc'[q] = pc[q]
        /\ pc'[p] = "idle" /\ (used'.faults = 0 => used.faults = 0)
    <3>1. CASE RemoveIdentity(p)
      BY <1>0, <1>1, <3>1 DEF RemoveIdentity, PutIdentity, Stuck, Fault, Goto, files, contents, opts, TypeOK
    <3>2. CASE Kill(p)
      BY <1>0, <3>2 DEF Kill, Goto, files, contents, opts, TypeOK
    <3>3. CASE Report(p)
      BY <1>0, <3>3 DEF Report, Goto, files, contents, opts, TypeOK
    <3> QED
      BY <1>7, <3>1, <3>2, <3>3
  <2>2. ASSUME used.faults = 0, NEW r \in ready', r.config
        PROVE  r \in ready \/ Settled(r.path)
    <3>1. CASE RemoveIdentity(p) \/ Kill(p)
      BY <3>1 DEF RemoveIdentity, Kill
    <3>2. CASE Report(p)
      <4>1. /\ pc[p] = "report"
            /\ ready' = ready \cup {[by |-> run[p], path |-> path[p], config |-> exists[p]]}
        BY <3>2 DEF Report
      <4>2. exists[p] => Settled(path[p])
        BY <2>2, <4>1 DEF SettledInv, Relied, Relying
      <4> QED
        BY <2>2, <4>1, <4>2
    <3> QED
      BY <1>7, <3>1, <3>2
  <2>3. ~Relying(p)'
    BY <2>1 DEF Relying, Writing
  <2> QED
    BY <2>1, <2>2, <2>3, SettledKept
<1>8. ASSUME NEW p \in Proc, NEW selected \in Path \cup {None}, NEW ignore \in BOOLEAN,
             Begin(p, selected, ignore)
      PROVE  SettledInv'
  <2>1. /\ UNCHANGED <<config, configMay, swept, ready>> /\ used'.faults = used.faults
        /\ \A q \in Proc \ {p} : /\ pc'[q] = pc[q] /\ path'[q] = path[q]
                                 /\ exists'[q] = exists[q]
        /\ pc'[p] = "validate"
    BY <1>0, <1>8 DEF Begin, Goto, files, contents, history, TypeOK
  <2>2. ~Relying(p)'
    BY <2>1 DEF Relying, Writing
  <2> QED
    BY <2>1, <2>2, SettledKept
<1>9. ASSUME NEW p \in Proc, ConfigCreate(p)
      PROVE  SettledInv'
  <2>1. CASE config # None
    <3>1. /\ UNCHANGED <<config, configMay, swept, used, ready, path, exists>>
          /\ \A q \in Proc \ {p} : pc'[q] = pc[q]
          /\ pc'[p] = "removeidentity"
      BY <1>0, <1>9, <2>1 DEF ConfigCreate, Goto, files, contents, opts, history, TypeOK
    <3>2. ~Relying(p)'
      BY <3>1 DEF Relying, Writing
    <3> QED
      BY <3>1, <3>2, SettledKept
  <2>2. CASE config = None
    <3>1. /\ UNCHANGED <<swept, used, ready, path, exists>>
          /\ config' = [by |-> run[p], path |-> path[p], whole |-> FALSE]
          /\ \A q \in Proc \ {p} : pc'[q] = pc[q]
          /\ pc[p] = "configcreate" /\ pc'[p] = "configwrite"
      BY <1>0, <1>9, <2>2 DEF ConfigCreate, PutConfig, Goto, opts, history, TypeOK
    <3>2. \A d \in Dir : ~(run[p] <= swept[d])
      BY <1>0, <3>1 DEF SetupInv, RunsInv, TypeOK
    <3>3. ~Readable /\ \A x : ~Settled(x)
      BY <2>2 DEF Readable, Settled
    <3>4. ~Relying(p)' /\ \A q \in Proc \ {p} : Relying(q)' <=> Relying(q)
      BY <3>1 DEF Relying, Writing
    <3>5. None \in configMay /\ configMay' = configMay \cup {config'} /\ ~Old(config')
      BY <1>9, <2>2, <3>1, <3>2 DEF ConfigCreate, PutConfig, SetupInv, FilesInv, Old
    <3>6. used.faults = 0 => \A c \in configMay' \ {None} : ~Old(c)
      BY <3>5 DEF SettledInv, Relied
    <3>7. \A c : Old(c)' <=> Old(c)
      BY <3>1 DEF Old
    <3> QED
      BY <3>1, <3>3, <3>4, <3>6, <3>7 DEF SettledInv, Relied, Swept
  <2> QED
    BY <2>1, <2>2
<1>10. ASSUME NEW p \in Proc, ConfigWrite(p) \/ ConfigSync(p) \/ ConfigSyncDir(p)
       PROVE  SettledInv'
  <2>1. /\ config # None /\ config.by = run[p] /\ config.path = path[p] /\ pc[p] # "idle"
        /\ config \in configMay
    BY <1>0, <1>10 DEF OwnersInv, OwnerOK, Configuring, ConfigWrite, ConfigSync, ConfigSyncDir,
                      SetupInv, RunsInv, FilesInv
  <2>5. UNCHANGED swept /\ \A d \in Dir : ~(run[p] <= swept[d])
    BY <1>0, <1>10, <2>1 DEF SetupInv, RunsInv, TypeOK, ConfigWrite, ConfigSync, ConfigSyncDir, history
  <2>6. ~Old(config) /\ \A c : Old(c)' <=> Old(c)
    BY <2>1, <2>5 DEF Old
  <2>2. CASE ConfigWrite(p)
    <3>1. /\ UNCHANGED <<used, ready, path, exists>>
          /\ config' = [by |-> run[p], path |-> path[p], whole |-> TRUE]
          /\ \A q \in Proc \ {p} : pc'[q] = pc[q]
          /\ pc[p] = "configwrite" /\ pc'[p] = "configsync"
      BY <1>0, <2>2 DEF ConfigWrite, PutConfig, Goto, opts, history, TypeOK
    <3>2. used.faults = 0 => ~Readable /\ \A x : ~Settled(x)
      BY <3>1 DEF SettledInv, Relied, Readable, Settled
    <3>3. ~Relying(p)' /\ \A q \in Proc \ {p} : Relying(q)' <=> Relying(q)
      BY <3>1 DEF Relying, Writing
    <3>4. \A q \in Proc : pc'[q] # "configwrite"
      <4>1. ASSUME NEW q \in Proc \ {p}, pc[q] = "configwrite"
            PROVE  FALSE
        <5>1. config.by = run[q]
          BY <1>0, <4>1 DEF OwnersInv, OwnerOK, Configuring
        <5> QED
          BY <2>1, <3>1, <4>1, <5>1 DEF SetupInv, RunsInv
      <4> QED
        BY <3>1, <4>1
    <3>5. configMay' = configMay \cup {config'} /\ ~Old(config')
      BY <2>1, <2>2, <2>5, <3>1 DEF ConfigWrite, PutConfig, Old
    <3>6. used.faults = 0 => \A c \in configMay' \ {None} : ~Old(c)
      BY <2>1, <2>6, <3>5 DEF SettledInv, Relied
    <3> QED
      BY <2>1, <2>5, <2>6, <3>1, <3>2, <3>3, <3>4, <3>6 DEF SettledInv, Relied, Swept
  <2>3. CASE ConfigSync(p)
    <3>1. /\ UNCHANGED <<config, used, ready, path, exists>> /\ config.whole
          /\ configMay' = configMay \ {[by |-> run[p], path |-> path[p], whole |-> FALSE]}
          /\ \A q \in Proc \ {p} : pc'[q] = pc[q]
          /\ pc[p] = "configsync" /\ pc'[p] = "configsyncdir"
      BY <1>0, <2>3 DEF ConfigSync, Goto, opts, history, TypeOK, OwnersInv, OwnerOK
    <3>2. configMay = {config} => configMay' = {config}
      BY <3>1
    <3>3. ~Relying(p)' /\ \A q \in Proc \ {p} : Relying(q)' <=> Relying(q)
      BY <3>1 DEF Relying, Writing
    <3>4. Readable' = Readable /\ \A x : Settled(x) => Settled(x)'
      BY <3>1, <3>2 DEF Readable, Settled
    <3>5. used.faults = 0 => \A c \in configMay' \ {None} : ~Old(c)
      BY <2>1, <2>6, <3>1 DEF SettledInv, Relied
    <3> QED
      BY <2>5, <2>6, <3>1, <3>2, <3>3, <3>4, <3>5 DEF SettledInv, Relied, Swept
  <2>4. CASE ConfigSyncDir(p)
    <3>1. /\ UNCHANGED <<config, used, ready, path>> /\ config.whole
          /\ configMay' = {config}
          /\ \A q \in Proc \ {p} : pc'[q] = pc[q] /\ exists'[q] = exists[q]
          /\ pc[p] = "configsyncdir" /\ pc'[p] = "report"
      BY <1>0, <2>4 DEF ConfigSyncDir, Goto, history, TypeOK, OwnersInv, OwnerOK
    <3>2. Settled(path[p])'
      BY <2>1, <3>1 DEF Settled, Readable
    <3>3. \A q \in Proc \ {p} : Relying(q)' <=> Relying(q)
      BY <3>1 DEF Relying, Writing
    <3>4. Readable' = Readable /\ \A x : Settled(x) => Settled(x)'
      BY <3>1 DEF Readable, Settled
    <3> QED
      BY <2>1, <2>5, <2>6, <3>1, <3>2, <3>3, <3>4 DEF SettledInv, Relied, Swept
  <2> QED
    BY <1>10, <2>2, <2>3, <2>4
<1>11. CASE Crash
  <2>1. PICK lost \in SUBSET {d \in Dir : dirs[d] = "cached"} :
          /\ swept' = [d \in Dir |-> IF d \in lost THEN used.runs ELSE swept[d]]
          /\ config' \in IF ConfigDir \in lost THEN {None} ELSE configMay
    BY <1>11 DEF Crash
  <2>2. /\ UNCHANGED ready /\ used'.faults = used.faults /\ configMay' = {config'}
        /\ \A q \in Proc : pc'[q] = "idle"
    BY <1>0, <1>11 DEF Crash, TypeOK
  <2>3. \A q \in Proc : ~Relying(q)'
    BY <2>2 DEF Relying, Writing
  <2>4. ASSUME used.faults = 0, NEW r \in ready, r.config
        PROVE  Settled(r.path)' \/ Swept(ConfigDir, r.by)'
    <3>1. r.by \in Nat /\ r.by <= used.runs /\ used.runs \in Nat
      BY <1>0, <2>4 DEF SetupInv, RunsInv, TypeOK, Receipt
    <3>2. swept[ConfigDir] \in Nat /\ ConfigDir \in Dir
      BY <1>0, DirAssumption DEF TypeOK
    <3>3. CASE ConfigDir \in lost
      BY <2>1, <3>1, <3>2, <3>3 DEF Swept
    <3>4. CASE ConfigDir \notin lost
      BY <2>1, <2>2, <2>4, <3>1, <3>2, <3>4 DEF SettledInv, Relied, Settled, Readable, Swept
    <3> QED
      BY <3>3, <3>4
  <2> QED
    BY <2>2, <2>3, <2>4 DEF SettledInv, Relied
<1>12. CASE UNCHANGED vars
  <2>1. UNCHANGED <<config, configMay, swept, pc, path, exists, ready, used>>
    BY <1>12 DEF vars, files, contents, opts, history
  <2> QED
    BY <2>1 DEF SettledInv, Relied, Readable, Settled, Relying, Old, Swept
<1> QED
  BY <1>3, <1>4, <1>5, <1>6, <1>7, <1>8, <1>9, <1>10, <1>11, <1>12 DEF Next, Run

(* While no system call fails, what a receipt says of the configuration is  *)
(* and stays so (initLocal, local.go), unless a power loss takes the new    *)
(* directory that the configuration is in: ReceiptTrueUnfailing.            *)
THEOREM ReceiptsAreTrue == Spec => []ReceiptTrueUnfailing
<1>1. SettledInv => ReceiptTrueUnfailing
  BY DEF SettledInv, Relied, Settled, ReceiptTrueUnfailing, ReceiptTrue
<1> QED
  BY <1>1, SetupInvariant, SettledStarts, SettledSteps, PTL DEF Spec
=============================================================================
