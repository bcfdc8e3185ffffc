------------------------------ MODULE VaultStore ------------------------------
(***************************************************************************)
(* The local item store of nvault, src/store/store.go, at the granularity *)
(* of its file-system calls.                                               *)
(*                                                                         *)
(* Every invocation of nvault is a process of its own; they share nothing  *)
(* but the directory <vault>/items, which has one JSON record per slot     *)
(* under the name slotName(scope, key), and they take no lock.  A process  *)
(* is here inside one of Set, Get, List and Delete, and a step is one      *)
(* system call of it, so the calls of different processes interleave       *)
(* freely.  A step may fail with an I/O error, a process may be killed     *)
(* before any step, the machine may lose power, and records may be edited, *)
(* copied, made and removed outside nvault.                                *)
(*                                                                         *)
(* The file system is modelled from how the store uses it: directory       *)
(* entries and file contents live in memory, a power loss leaves of every  *)
(* entry one of the versions it had since the directory was last synced,   *)
(* and leaves of a file that was not synced possibly only a part.  Reading *)
(* a directory is no snapshot: a name that is there throughout is          *)
(* returned, one that comes or goes meanwhile may be, at most once.        *)
(***************************************************************************)
EXTENDS Naturals, FiniteSets

CONSTANTS
  Proc,        \* running nvault processes
  Scope, Key,  \* names that ValidateSlot accepts
  Kind,        \* the two kinds validateKind accepts
  Value,       \* plaintext values
  File,        \* the inodes of the file system
  None,        \* no file, no record
  Torn,        \* the content of a file that is not one complete record
  MaxCalls,    \* bound: store operations begun
  MaxFaults,   \* bound: system calls that fail with an I/O error
  MaxCrashes,  \* bound: processes killed plus power losses
  MaxDamage    \* bound: edits from outside

ASSUME NoneAssumption == None \notin File
ASSUME BoundsAssumption ==
  /\ MaxCalls \in Nat
  /\ MaxFaults \in Nat
  /\ MaxCrashes \in Nat
  /\ MaxDamage \in Nat

(* An item is addressed by its scope and key.  slotName hashes the pair    *)
(* with a separator neither may contain, so distinct slots have distinct   *)
(* file names, and AAD is injective in the same way: a slot stands for its *)
(* file name and for its associated data as well.                          *)
Slot == [scope : Scope, key : Key]
Item == [kind : Kind, value : Value]

(* A record: the slot in its plain header, its kind, the associated data   *)
(* written in the envelope, and what the ciphertext was sealed with and    *)
(* for: `seal` and `value` only ever travel together.                      *)
Record == [slot : Slot, kind : Kind, aad : Slot, seal : Slot, value : Value]
ASSUME TornAssumption == Torn \notin Record

SetCall == [op : {"set"}, slot : Slot, kind : Kind, value : Value]
SlotCall == [op : {"get", "delete"}, slot : Slot]
ListCall == [op : {"list"}, scope : Scope]
Call == SetCall \cup SlotCall \cup ListCall
ASSUME AbsenceAssumption == None \notin Item \cup Call

Metadata == [slot : Slot, kind : Kind]
Pending == [is |-> "pending"]        \* no result yet, or the caller is gone
Done == [is |-> "done"]              \* a nil error from Set or Delete
NotFound == [is |-> "notfound"]      \* ErrNotFound from Get
Error == [is |-> "error"]            \* any other error
Got(k, v) == [is |-> "value", kind |-> k, value |-> v]
Listed(ms) == [is |-> "list", items |-> ms]
Result ==
  {Pending, Done, NotFound, Error}
    \cup [is : {"value"}, kind : Kind, value : Value]
    \cup [is : {"list"}, items : SUBSET Metadata]

VARIABLES
  root,     \* <vault>/items: "none", "cached" (its entry may be lost), "stored"
  items,    \* the file each item name refers to, or None
  may,      \* the entries each item name may be left with by a power loss
  temps,    \* the files that have a .nvault-item-* name
  linger,   \* the files that may have such a name after a power loss
  data,     \* the content of every file
  synced,   \* the files whose content is on the disk
  pc,       \* the next step of every process
  call,     \* the operation a process is in, or was in last
  at,       \* the item name the process is working on
  file,     \* the temporary file, the inspected file or the opened file
  unread,   \* List: names the reading of the directory has not come to
  todo,     \* List: directory entries not read yet
  found,    \* List: metadata collected so far
  ret,      \* the result of the last operation
  written,  \* history: what Set was asked to store in each slot
  foreign,  \* history: values sealed for a slot outside nvault
  around,   \* history: names a List has had the chance to see
  loose,    \* history: slots changed by a call that failed or died unsynced
  litter,   \* history: temporary files abandoned by a failed Remove or a death
  damaged,  \* history: files edited or made outside nvault
  used      \* how much of each bound is spent

disk == <<root, items, may, temps, linger, data, synced>>
self == <<pc, call, at, file, unread, todo, found, ret>>
history == <<written, foreign, around, loose, litter, damaged>>
vars == <<disk, self, history, used>>

Writing == {"write", "sync", "rename"}                  \* own temporary name
Holding == Writing \cup {"syncdir", "cleanup", "read"}  \* the file in use
Step ==
  Holding \cup {"idle", "open", "create", "lstat", "openfile", "readdir",
                "next", "inspect", "unlink"}

TypeOK ==
  /\ root \in {"none", "cached", "stored"}
  /\ items \in [Slot -> File \cup {None}]
  /\ may \in [Slot -> SUBSET (File \cup {None})]
  /\ temps \subseteq File
  /\ linger \subseteq File
  /\ data \in [File -> Record \cup {Torn}]
  /\ synced \subseteq File
  /\ pc \in [Proc -> Step]
  /\ call \in [Proc -> Call \cup {None}]
  /\ at \in [Proc -> Slot \cup {None}]
  /\ file \in [Proc -> File \cup {None}]
  /\ unread \in [Proc -> SUBSET Slot]
  /\ todo \in [Proc -> SUBSET Slot]
  /\ found \in [Proc -> SUBSET Metadata]
  /\ ret \in [Proc -> Result]
  /\ written \in [Slot -> SUBSET Item]
  /\ foreign \subseteq [slot : Slot, value : Value]
  /\ around \in [Proc -> SUBSET Slot]
  /\ loose \subseteq Slot
  /\ litter \subseteq File
  /\ damaged \subseteq File
  /\ used \in [calls : Nat, faults : Nat, crashes : Nat, damage : Nat]

Init ==
  /\ root \in {"none", "stored"}   \* a new vault, or one already in use
  /\ items = [s \in Slot |-> None]
  /\ may = [s \in Slot |-> {None}]
  /\ temps = {}
  /\ linger = {}
  /\ data = [f \in File |-> Torn]
  /\ synced = {}
  /\ pc = [p \in Proc |-> "idle"]
  /\ call = [p \in Proc |-> None]
  /\ at = [p \in Proc |-> None]
  /\ file = [p \in Proc |-> None]
  /\ unread = [p \in Proc |-> {}]
  /\ todo = [p \in Proc |-> {}]
  /\ found = [p \in Proc |-> {}]
  /\ ret = [p \in Proc |-> Pending]
  /\ written = [s \in Slot |-> {}]
  /\ foreign = {}
  /\ around = [p \in Proc |-> {}]
  /\ loose = {}
  /\ litter = {}
  /\ damaged = {}
  /\ used = [calls |-> 0, faults |-> 0, crashes |-> 0, damage |-> 0]

-----------------------------------------------------------------------------
(* How a process moves on.                                                 *)

At(p, step) == pc[p] = step
Goto(p, step) == pc' = [pc EXCEPT ![p] = step]
Op(p) == call[p].op

(* Return leaves the operation with result r; handles are closed.          *)
Return(p, r) ==
  /\ pc' = [pc EXCEPT ![p] = "idle"]
  /\ at' = [at EXCEPT ![p] = None]
  /\ file' = [file EXCEPT ![p] = None]
  /\ unread' = [unread EXCEPT ![p] = {}]
  /\ todo' = [todo EXCEPT ![p] = {}]
  /\ found' = [found EXCEPT ![p] = {}]
  /\ ret' = [ret EXCEPT ![p] = r]
  /\ UNCHANGED call

NoRet == UNCHANGED <<call, at, file, unread, todo, found, ret>>

(* The item names there are.                                               *)
Present == {s \in Slot : items[s] # None}

(* The name of slot s is made while Lists go on.                           *)
Appears(s) ==
  around' = [p \in Proc |->
    IF ~At(p, "idle") /\ Op(p) = "list" THEN around[p] \cup {s} ELSE around[p]]

Fault ==
  /\ used.faults < MaxFaults
  /\ used' = [used EXCEPT !.faults = @ + 1]

(* The operation's arguments have passed ValidateSlot and validateKind; a  *)
(* rejected call changes nothing and is left out.  Set encrypts and        *)
(* marshals its record before it opens the directory.                      *)
Begin(p, c) ==
  /\ At(p, "idle")
  /\ used.calls < MaxCalls
  /\ used' = [used EXCEPT !.calls = @ + 1]
  /\ call' = [call EXCEPT ![p] = c]
  /\ at' = [at EXCEPT ![p] = IF c.op = "list" THEN None ELSE c.slot]
  /\ ret' = [ret EXCEPT ![p] = Pending]
  /\ written' = IF c.op = "set"
                THEN [written EXCEPT ![c.slot] = @ \cup {[kind |-> c.kind, value |-> c.value]}]
                ELSE written
  /\ around' = [around EXCEPT ![p] = IF c.op = "list" THEN Present ELSE {}]
  /\ Goto(p, "open")
  /\ UNCHANGED <<disk, file, unread, todo, found, foreign, loose, litter, damaged>>

(* openItems: Set makes the directories, and nothing syncs their parent;   *)
(* the others take a missing directory for an empty store.                 *)
OpenItems(p) ==
  /\ At(p, "open")
  /\ \/ /\ Op(p) = "set"
        /\ root' = IF root = "none" THEN "cached" ELSE root
        /\ Goto(p, "create")
        /\ NoRet
     \/ /\ Op(p) # "set" /\ root = "none"
        /\ Return(p, CASE Op(p) = "get" -> NotFound
                       [] Op(p) = "list" -> Listed({})
                       [] Op(p) = "delete" -> Done)
        /\ UNCHANGED root
     \/ /\ Op(p) # "set" /\ root # "none"
        /\ Goto(p, CASE Op(p) = "get" -> "lstat"
                     [] Op(p) = "list" -> "readdir"
                     [] Op(p) = "delete" -> "inspect")
        /\ unread' = [unread EXCEPT ![p] = IF Op(p) = "list" THEN Slot ELSE {}]
        /\ UNCHANGED <<root, call, at, file, todo, found, ret>>
  /\ UNCHANGED <<items, may, temps, linger, data, synced, history, used>>

-----------------------------------------------------------------------------
(* Set.                                                                    *)

(* An inode is free when no entry, cached or on the disk, refers to it and *)
(* no process has it open.  Only inspecting a file (Lstat) does not hold   *)
(* it: the inode may be used again before the file is opened.              *)
Free ==
  {f \in File :
     /\ f \notin temps \cup linger
     /\ \A s \in Slot : f # items[s] /\ f \notin may[s]
     /\ \A p \in Proc : pc[p] \in Holding => file[p] # f}

(* Slip: the temporary file is opened without O_EXCL under a fixed name. *)
CreateSharedTemp(p) ==
  /\ At(p, "create")
  /\ \E f \in IF temps = {} THEN Free ELSE temps :
       /\ temps' = temps \cup {f}
       /\ linger' = linger \cup {f}
       /\ data' = [data EXCEPT ![f] = Torn]
       /\ synced' = synced \ {f}
       /\ file' = [file EXCEPT ![p] = f]
  /\ Goto(p, "write")
  /\ UNCHANGED <<root, items, may, call, at, unread, todo, found, ret, history, used>>

(* createTemporaryItem: a fresh random name, O_EXCL, an empty file.  The   *)
(* name is the file's own as long as it lasts.                             *)
CreateTemp(p) ==
  /\ At(p, "create")
  /\ \/ \E f \in Free :
          /\ temps' = temps \cup {f}
          /\ linger' = linger \cup {f}
          /\ data' = [data EXCEPT ![f] = Torn]
          /\ synced' = synced \ {f}
          /\ damaged' = damaged \ {f}
          /\ litter' = litter \ {f}
          /\ file' = [file EXCEPT ![p] = f]
          /\ Goto(p, "write")
          /\ UNCHANGED <<call, at, unread, todo, found, ret>>
     \/ /\ Free = {}   \* ENOSPC
        /\ Return(p, Error)
        /\ UNCHANGED <<temps, linger, data, synced, damaged, litter>>
  /\ UNCHANGED <<root, items, may, written, foreign, around, loose, used>>

RecordOf(c) ==
  [slot |-> c.slot, kind |-> c.kind, aad |-> c.slot, seal |-> c.slot, value |-> c.value]

Write(p) ==
  /\ At(p, "write")
  /\ data' = [data EXCEPT ![file[p]] = RecordOf(call[p])]
  /\ Goto(p, "sync")
  /\ NoRet
  /\ UNCHANGED <<root, items, may, temps, linger, synced, history, used>>

(* Slip: the file is closed without being synced. *)
CloseOnly(p) ==
  /\ At(p, "sync")
  /\ Goto(p, "rename")
  /\ NoRet
  /\ UNCHANGED <<disk, history, used>>

(* File.Sync, then File.Close. *)
SyncFile(p) ==
  /\ At(p, "sync")
  /\ synced' = synced \cup {file[p]}
  /\ Goto(p, "rename")
  /\ NoRet
  /\ UNCHANGED <<root, items, may, temps, linger, data, history, used>>

Rename(p) ==
  /\ At(p, "rename")
  /\ temps' = temps \ {file[p]}
  /\ items' = [items EXCEPT ![at[p]] = file[p]]
  /\ may' = [may EXCEPT ![at[p]] = @ \cup {file[p]}]
  /\ Appears(at[p])
  /\ Goto(p, "syncdir")
  /\ NoRet
  /\ UNCHANGED <<root, linger, data, synced, written, foreign, loose, litter, damaged, used>>

(* Write, Sync, Close or Rename failed: the deferred Remove is still to    *)
(* come.                                                                   *)
FailWriting(p) ==
  /\ pc[p] \in Writing
  /\ Fault
  /\ ret' = [ret EXCEPT ![p] = Error]
  /\ Goto(p, "cleanup")
  /\ UNCHANGED <<disk, call, at, file, unread, todo, found, history>>

(* Slip: the directory is not synced after it was changed. *)
SkipSyncDir(p) ==
  /\ At(p, "syncdir")
  /\ \/ /\ Op(p) = "set"
        /\ ret' = [ret EXCEPT ![p] = Done]
        /\ Goto(p, "cleanup")
        /\ UNCHANGED <<call, at, file, unread, todo, found>>
     \/ /\ Op(p) = "delete"
        /\ Return(p, Done)
  /\ UNCHANGED <<disk, history, used>>

(* syncRoot, the last step of Set before its deferred calls and the last   *)
(* one of Delete: every entry of the directory reaches the disk.           *)
SyncDir(p) ==
  /\ At(p, "syncdir")
  /\ may' = [s \in Slot |-> {items[s]}]
  /\ linger' = temps
  /\ loose' = {}
  /\ \/ /\ Op(p) = "set"
        /\ ret' = [ret EXCEPT ![p] = Done]
        /\ Goto(p, "cleanup")
        /\ UNCHANGED <<call, at, file, unread, todo, found>>
     \/ /\ Op(p) = "delete"
        /\ Return(p, Done)
  /\ UNCHANGED <<root, items, temps, data, synced, written, foreign, around, litter,
                 damaged, used>>

(* syncRoot failed: an error is reported for a change that was made.       *)
FailSyncDir(p) ==
  /\ At(p, "syncdir")
  /\ Fault
  /\ loose' = loose \cup {at[p]}
  /\ \/ /\ Op(p) = "set"
        /\ ret' = [ret EXCEPT ![p] = Error]
        /\ Goto(p, "cleanup")
        /\ UNCHANGED <<call, at, file, unread, todo, found>>
     \/ /\ Op(p) = "delete"
        /\ Return(p, Error)
  /\ UNCHANGED <<disk, written, foreign, around, litter, damaged>>

(* Slip: a failed Set leaves its temporary file. *)
CleanupOnSuccess(p) ==
  /\ At(p, "cleanup")
  /\ temps' = IF ret[p] = Done THEN temps \ {file[p]} ELSE temps
  /\ Return(p, ret[p])
  /\ UNCHANGED <<root, items, may, linger, data, synced, history, used>>

(* The deferred Remove of the temporary name: after a rename the name is   *)
(* gone and the error ignored.  Its own failure joins the result.          *)
Cleanup(p) ==
  /\ At(p, "cleanup")
  /\ \/ /\ temps' = temps \ {file[p]}
        /\ Return(p, ret[p])
        /\ UNCHANGED <<litter, used>>
     \/ /\ file[p] \in temps
        /\ Fault
        /\ litter' = litter \cup {file[p]}
        /\ Return(p, Error)
        /\ UNCHANGED temps
  /\ UNCHANGED <<root, items, may, linger, data, synced, written, foreign, around, loose,
                 damaged>>

-----------------------------------------------------------------------------
(* Get and List read a record in three calls: Lstat, Open, ReadAll.        *)

(* Slip: List returns what it has found so far. *)
MissingEndsList(p) ==
  Return(p, IF Op(p) = "get" THEN NotFound ELSE Listed(found[p]))

(* A name that does not exist is ErrNotFound to Get and ends List.         *)
Missing(p) == Return(p, IF Op(p) = "get" THEN NotFound ELSE Error)

Lstat(p) ==
  /\ At(p, "lstat")
  /\ \/ /\ items[at[p]] = None
        /\ Missing(p)
     \/ /\ items[at[p]] # None
        /\ file' = [file EXCEPT ![p] = items[at[p]]]
        /\ Goto(p, "openfile")
        /\ UNCHANGED <<call, at, unread, todo, found, ret>>
  /\ UNCHANGED <<disk, history, used>>

(* Open, then SameFile against what Lstat saw.                             *)
OpenFile(p) ==
  /\ At(p, "openfile")
  /\ \/ /\ items[at[p]] = None
        /\ Missing(p)
     \/ /\ items[at[p]] \notin {None, file[p]}   \* changed while it was opened
        /\ Return(p, Error)
     \/ /\ items[at[p]] \in {file[p]} \ {None}
        /\ todo' = [todo EXCEPT ![p] = @ \ {at[p]}]
        /\ Goto(p, "read")
        /\ UNCHANGED <<call, at, file, unread, found, ret>>
  /\ UNCHANGED <<disk, history, used>>

(* Slip: the envelope's associated data is taken from the record. *)
DecodedAsWritten(d, s) ==
  IF d # Torn /\ d.slot = s /\ d.seal = d.aad THEN Got(d.kind, d.value) ELSE Error

(* read and Get: the header must name the slot, the envelope must carry    *)
(* its associated data, and Decrypt authenticates what was sealed.         *)
Decoded(d, s) ==
  IF d # Torn /\ d.slot = s /\ d.aad = s /\ d.seal = d.aad
  THEN Got(d.kind, d.value)
  ELSE Error

ReadItem(p) ==
  /\ At(p, "read") /\ Op(p) = "get"
  /\ Return(p, Decoded(data[file[p]], at[p]))
  /\ UNCHANGED <<disk, history, used>>

(* Slip: List takes temporary files for items. *)
ReadWholeDir(p) ==
  /\ At(p, "readdir")
  /\ todo' = [todo EXCEPT ![p] = Present \cup temps]
  /\ unread' = [unread EXCEPT ![p] = {}]
  /\ Goto(p, "next")
  /\ UNCHANGED <<disk, call, at, file, found, ret, history, used>>

(* List's ReadDir, which fills one buffer after the other, in no           *)
(* particular order and without a lock: of the names that are read         *)
(* together it returns those there are, and takes the .json ones.          *)
ReadDir(p) ==
  /\ At(p, "readdir")
  /\ \E names \in SUBSET unread[p] \ {{}} :
       /\ todo' = [todo EXCEPT ![p] = @ \cup (names \cap Present)]
       /\ unread' = [unread EXCEPT ![p] = @ \ names]
       /\ Goto(p, IF names = unread[p] THEN "next" ELSE "readdir")
  /\ UNCHANGED <<disk, call, at, file, found, ret, history, used>>

NextEntry(p) ==
  /\ At(p, "next")
  /\ \/ /\ todo[p] = {}
        /\ Return(p, Listed(found[p]))
     \/ \E s \in todo[p] :
          /\ at' = [at EXCEPT ![p] = s]
          /\ Goto(p, "lstat")
          /\ UNCHANGED <<call, file, unread, todo, found, ret>>
  /\ UNCHANGED <<disk, history, used>>

(* Slip: the file name is not compared with the record's slot. *)
ReadAnyEntry(p) ==
  /\ At(p, "read") /\ Op(p) = "list"
  /\ LET d == data[file[p]]
         skip == d # Torn /\ d.slot.scope # call[p].scope
         fits == d # Torn /\ d.aad = d.slot
     IN  \/ /\ ~skip /\ ~fits
            /\ Return(p, Error)
         \/ /\ skip \/ fits
            /\ found' = [found EXCEPT ![p] =
                           IF skip THEN @ ELSE @ \cup {[slot |-> d.slot, kind |-> d.kind]}]
            /\ at' = [at EXCEPT ![p] = None]
            /\ file' = [file EXCEPT ![p] = None]
            /\ Goto(p, "next")
            /\ UNCHANGED <<call, unread, todo, ret>>
  /\ UNCHANGED <<disk, history, used>>

(* List skips a record of another scope only once it has decoded it, and   *)
(* a record under a name that is not its slot's ends the whole listing.    *)
ReadEntry(p) ==
  /\ At(p, "read") /\ Op(p) = "list"
  /\ LET d == data[file[p]]
         skip == d # Torn /\ d.slot.scope # call[p].scope
         fits == d # Torn /\ d.slot = at[p] /\ d.aad = at[p]
     IN  \/ /\ ~skip /\ ~fits
            /\ Return(p, Error)
         \/ /\ skip \/ fits
            /\ found' = [found EXCEPT ![p] =
                           IF skip THEN @ ELSE @ \cup {[slot |-> d.slot, kind |-> d.kind]}]
            /\ at' = [at EXCEPT ![p] = None]
            /\ file' = [file EXCEPT ![p] = None]
            /\ Goto(p, "next")
            /\ UNCHANGED <<call, unread, todo, ret>>
  /\ UNCHANGED <<disk, history, used>>

-----------------------------------------------------------------------------
(* Delete: inspect the name, remove it, sync the directory.                *)

Inspect(p) ==
  /\ At(p, "inspect")
  /\ \/ /\ items[at[p]] = None
        /\ Return(p, Done)
     \/ /\ items[at[p]] # None
        /\ Goto(p, "unlink")
        /\ NoRet
  /\ UNCHANGED <<disk, history, used>>

(* Unlike Inspect, Remove does not forgive a name that is already gone.    *)
Unlink(p) ==
  /\ At(p, "unlink")
  /\ \/ /\ items[at[p]] = None
        /\ Return(p, Error)
        /\ UNCHANGED <<items, may>>
     \/ /\ items[at[p]] # None
        /\ items' = [items EXCEPT ![at[p]] = None]
        /\ may' = [may EXCEPT ![at[p]] = @ \cup {None}]
        /\ Goto(p, "syncdir")
        /\ NoRet
  /\ UNCHANGED <<root, temps, linger, data, synced, history, used>>

-----------------------------------------------------------------------------
(* Failures.                                                               *)

(* A system call that leaves nothing to undo fails, and the operation with *)
(* it.                                                                     *)
Fail(p) ==
  /\ pc[p] \in Step \ (Writing \cup {"idle", "next", "syncdir", "cleanup"})
  /\ Fault
  /\ Return(p, Error)
  /\ UNCHANGED <<disk, history>>

Crashed == used' = [used EXCEPT !.crashes = @ + 1]

(* The process dies before its next step; its deferred calls never run.    *)
Kill(p) ==
  /\ ~At(p, "idle")
  /\ used.crashes < MaxCrashes
  /\ Crashed
  /\ Return(p, Pending)
  /\ loose' = IF At(p, "syncdir") THEN loose \cup {at[p]} ELSE loose
  /\ litter' = IF pc[p] \in Holding THEN litter \cup (temps \cap {file[p]}) ELSE litter
  /\ UNCHANGED <<disk, written, foreign, around, damaged>>

(* Every process dies.  The items directory itself goes with its contents  *)
(* if its own entry never reached the disk; else every name is left with   *)
(* one of its possible entries, and an unsynced file with a part of its    *)
(* content.                                                                *)
Crash ==
  /\ used.crashes < MaxCrashes
  /\ Crashed
  /\ \/ /\ root = "cached"
        /\ root' = "none"
        /\ items' = [s \in Slot |-> None]
        /\ may' = [s \in Slot |-> {None}]
        /\ temps' = {}
        /\ UNCHANGED data
     \/ /\ root' = IF root = "cached" THEN "stored" ELSE root
        /\ items' \in [Slot -> File \cup {None}]
        /\ \A s \in Slot : items'[s] \in may[s]
        /\ may' = [s \in Slot |-> {items'[s]}]
        /\ temps' \in SUBSET {f \in linger : \A s \in Slot : items'[s] # f}
        /\ \E torn \in SUBSET {f \in File \ synced : \E s \in Slot : items'[s] = f} :
             data' = [f \in File |-> IF f \in torn THEN Torn ELSE data[f]]
  /\ linger' = temps'
  /\ synced' = File
  /\ pc' = [p \in Proc |-> "idle"]
  /\ call' = [p \in Proc |-> None]
  /\ at' = [p \in Proc |-> None]
  /\ file' = [p \in Proc |-> None]
  /\ unread' = [p \in Proc |-> {}]
  /\ todo' = [p \in Proc |-> {}]
  /\ found' = [p \in Proc |-> {}]
  /\ ret' = [p \in Proc |-> Pending]
  /\ loose' = {}
  /\ litter' = temps'
  /\ UNCHANGED <<written, foreign, around, damaged>>

(* A ciphertext that is sealed outside nvault.  It takes no more than the  *)
(* public key, which is no secret.                                         *)
Seals(d) ==
  foreign' =
    IF d = Torn \/ \E i \in written[d.seal] : i.value = d.value
    THEN foreign
    ELSE foreign \cup {[slot |-> d.seal, value |-> d.value]}

(* Outside nvault the file of an item is edited, a record is copied to, or *)
(* made under, a name that had one or none, or a name is removed.  Plain   *)
(* fields may become anything, the ciphertext is that of any Set, sealed   *)
(* anew, or broken.                                                        *)
Edit(s, f, d) ==
  /\ data' = [data EXCEPT ![f] = d]
  /\ Seals(d)
  /\ damaged' = damaged \cup {f}
  /\ \/ /\ f = items[s]
        /\ UNCHANGED <<items, may, synced, loose, around>>
     \/ /\ f \in Free
        /\ items' = [items EXCEPT ![s] = f]
        /\ may' = [may EXCEPT ![s] = @ \cup {f}]
        /\ synced' = synced \cup {f}
        /\ loose' = loose \cup {s}
        /\ Appears(s)

Damage(s) ==
  /\ root # "none"
  /\ used.damage < MaxDamage
  /\ used' = [used EXCEPT !.damage = @ + 1]
  /\ \/ \E f \in File, d \in Record \cup {Torn} : Edit(s, f, d)
     \/ /\ items[s] # None
        /\ items' = [items EXCEPT ![s] = None]
        /\ may' = [may EXCEPT ![s] = @ \cup {None}]
        /\ loose' = loose \cup {s}
        /\ UNCHANGED <<data, synced, foreign, damaged, around>>
  /\ UNCHANGED <<root, temps, linger, self, written, litter>>

Run(p) ==
  \/ OpenItems(p)
  \/ CreateTemp(p)
  \/ Write(p)
  \/ SyncFile(p)
  \/ Rename(p)
  \/ FailWriting(p)
  \/ SyncDir(p)
  \/ FailSyncDir(p)
  \/ Cleanup(p)
  \/ Lstat(p)
  \/ OpenFile(p)
  \/ ReadItem(p)
  \/ ReadDir(p)
  \/ NextEntry(p)
  \/ ReadEntry(p)
  \/ Inspect(p)
  \/ Unlink(p)
  \/ Fail(p)

Next ==
  \/ \E p \in Proc : \E c \in Call : Begin(p, c)
  \/ \E p \in Proc : Run(p)
  \/ \E p \in Proc : Kill(p)
  \/ Crash
  \/ \E s \in Slot : Damage(s)

Spec == Init /\ [][Next]_vars

-----------------------------------------------------------------------------
(* Properties.                                                             *)

(* What file f says it stores, the item of slot s.                         *)
Holds(f, s) ==
  LET d == data[f]
  IN  /\ d \in Record
      /\ d.slot = s /\ d.aad = s /\ d.seal = s
      /\ [kind |-> d.kind, value |-> d.value] \in written[s]

(* No file an item name refers to, or may be left with by a power loss at  *)
(* any moment, is partial, unsynced or another slot's: Set replaces an     *)
(* item by a whole one or not at all (the order write, sync, rename).      *)
ItemsWhole ==
  \A s \in Slot : \A f \in (may[s] \cup {items[s]}) \ {None} :
    /\ f \in synced
    /\ f \notin damaged => Holds(f, s)

(* A temporary name belongs to a Set still going on, unless its process    *)
(* died or its Remove failed: no error path of Set leaks ciphertext files. *)
TempsOwned ==
  \A f \in temps \ litter :
    \E p \in Proc : pc[p] \in Writing \cup {"cleanup"} /\ file[p] = f

(* A slot at rest: no call has changed it and has still to sync it, and    *)
(* the last one to change it did not fail or die before it had.            *)
AtRest(s) ==
  /\ root = "stored"
  /\ s \notin loose
  /\ \A p \in Proc : pc[p] = "syncdir" => at[p] # s

(* A power loss leaves a slot at rest with the very item it had: what Set  *)
(* or Delete acknowledged is not undone.                                   *)
CrashKeepsAcked ==
  [][used'.crashes > used.crashes =>
       \A s \in Slot : AtRest(s) =>
         /\ items'[s] = items[s]
         /\ items[s] # None => data'[items[s]] = data[items[s]]]_vars

(* A Get that succeeds returns a value that was sealed for that very slot, *)
(* by a Set or, with the public key, outside nvault: no edit, copy or move *)
(* of records passes one slot's value off as another's ("moving a file     *)
(* cannot change its slot", store.go), whatever Sets and crashes go on     *)
(* meanwhile.                                                              *)
GetAuthentic ==
  \A p \in Proc :
    call[p] # None /\ ret[p].is = "value" =>
      \/ \E i \in written[call[p].slot] : i.value = ret[p].value
      \/ [slot |-> call[p].slot, value |-> ret[p].value] \in foreign

(* A value a Set was given comes back with the kind it was given.          *)
KindAuthentic ==
  \A p \in Proc :
    call[p] # None /\ ret[p].is = "value" =>
      \/ [kind |-> ret[p].kind, value |-> ret[p].value] \in written[call[p].slot]
      \/ [slot |-> call[p].slot, value |-> ret[p].value] \in foreign

(* A List that succeeds, although it decrypts nothing, reports only slots  *)
(* of its scope with a record under their own name at an instant of the    *)
(* call: a record copied or moved to another slot's name, edited or not,   *)
(* never makes it report a third.                                          *)
ListHonest ==
  \A p \in Proc :
    call[p] # None /\ ret[p].is = "list" =>
      \A m \in ret[p].items : m.slot.scope = call[p].scope /\ m.slot \in around[p]

(* Delete is idempotent: with no I/O error and no file changed outside     *)
(* nvault it does not fail, whether or not the item is still there.        *)
DeleteIdempotent ==
  used.faults = 0 /\ used.damage = 0 =>
    \A p \in Proc : call[p] # None /\ Op(p) = "delete" => ret[p] # Error

-----------------------------------------------------------------------------
(* The files as an AtomicVault: an item is what its name's file stores.    *)

ItemIn(f) ==
  IF f = None THEN None
  ELSE IF data[f] = Torn THEN Torn
  ELSE [kind |-> data[f].kind, value |-> data[f].value]

(* What a slot may hold after a power loss: a file that was not synced may *)
(* be torn, which is no item at all.                                       *)
Survivors(s) ==
  {ItemIn(f) : f \in may[s] \cap (synced \cup {None})}
    \cup (IF may[s] \subseteq synced \cup {None} THEN {} ELSE {Torn})

Phase(p) ==
  CASE pc[p] = "idle" -> "idle"
    [] pc[p] = "syncdir" -> "applied"
    [] pc[p] = "cleanup" -> IF ret[p] = Done THEN "settled" ELSE "failed"
    [] pc[p] = "read" /\ Op(p) = "get" -> "settled"
    [] pc[p] \in {"readdir", "next", "lstat", "openfile", "read"} /\ Op(p) = "list" -> "applied"
    [] OTHER -> "called"

InScope(p, ss) == {s \in ss : s.scope = call[p].scope}

(* A name is left until it is found missing or its record is in hand.      *)
Left(p) ==
  IF call[p] # None /\ Op(p) = "list" THEN InScope(p, unread[p] \cup todo[p]) ELSE {}

(* A record in hand is as good as reported.                                *)
Seen(p) ==
  IF pc[p] = "read" /\ Op(p) = "list"
  THEN found[p] \cup {[slot |-> s, kind |-> data[file[p]].kind] : s \in InScope(p, {at[p]})}
  ELSE found[p]

Answer(p) ==
  IF pc[p] = "read" /\ Op(p) = "get" THEN Decoded(data[file[p]], at[p]) ELSE ret[p]

Atomic == INSTANCE AtomicVault WITH
  vault <- [s \in Slot |-> ItemIn(items[s])],
  may <- [s \in Slot |-> Survivors(s)],
  founded <- root = "stored",
  phase <- [p \in Proc |-> Phase(p)],
  left <- [p \in Proc |-> Left(p)],
  seen <- [p \in Proc |-> Seen(p)],
  ret <- [p \in Proc |-> Answer(p)]

(* The store implements the atomic vault while nothing is edited outside.  *)
IsAtomic == Atomic!Spec

=============================================================================
