--------------------------- MODULE VaultStoreRefines ---------------------------
(* VaultStore implements AtomicVault, as long as nothing edits its files:   *)
(* every step of it is a step of the atomic vault, seen through the mapping *)
(* at the end of VaultStore, or changes nothing there.                      *)
EXTENDS VaultStoreProofs

USE DEF At, Goto, NoRet, Op

VaultBar == [s \in Slot |-> ItemIn(items[s])]
MayBar == [s \in Slot |-> Survivors(s)]
PhaseBar == [p \in Proc |-> Phase(p)]
LeftBar == [p \in Proc |-> Left(p)]
SeenBar == [p \in Proc |-> Seen(p)]
RetBar == [p \in Proc |-> Answer(p)]

-----------------------------------------------------------------------------
(* What the mapping relies on, beyond WholeInv: a file that is open for     *)
(* reading is whole and nobody writes it, a List has the entry it works on  *)
(* before it, and a directory that is not there is empty.                   *)
Entry(f, s) ==
  data[f] \in Record /\ data[f].slot = s /\ data[f].aad = s /\ data[f].seal = s

ReaderOK(p) ==
  /\ pc[p] \in {"idle", "open"} \/ call[p].op # "list" => todo[p] = {} /\ found[p] = {}
  /\ unread[p] \cap todo[p] = {} /\ (pc[p] # "readdir" => unread[p] = {})
  /\ pc[p] \in {"lstat", "openfile"} /\ call[p].op = "list" => at[p] \in todo[p]
  /\ pc[p] = "read" =>
       /\ Entry(file[p], at[p])
       /\ \A q \in Proc : pc[q] \in Writing => file[q] # file[p]
  /\ pc[p] \in Writing \cup {"create"} => root # "none"

Empty == root = "none" => \A s \in Slot : items[s] = None /\ may[s] = {None}

ReadInv == damaged = {} /\ Empty /\ \A p \in Proc : ReaderOK(p)

Invs == TypeInv /\ WholeInv /\ ReadInv

LEMMA ReadInvInit == Init => ReadInv
BY DEF Init, ReadInv, Empty, ReaderOK, Writing

LEMMA Entries ==
  ASSUME Invs
  PROVE  \A s \in Slot : \A f \in may[s] \ {None} :
           /\ f \in File /\ f \in synced /\ Entry(f, s)
           /\ \A p \in Proc : pc[p] \in Writing => file[p] # f
<1> SUFFICES ASSUME NEW s \in Slot, NEW f \in may[s] \ {None}
             PROVE  /\ f \in File /\ f \in synced /\ Entry(f, s)
                    /\ \A p \in Proc : pc[p] \in Writing => file[p] # f
  OBVIOUS
<1>1. f \in File
  BY DEF Invs, TypeInv, TypeOK
<1>2. f \in synced /\ Holds(f, s)
  BY DEF Invs, ReadInv, WholeInv, NamesOK
<1> QED
  BY <1>1, <1>2 DEF Invs, WholeInv, WriterOK, Holds, Entry

LEMMA OthersFiles ==
  ASSUME TypeInv, NEW p \in Proc, Run(p) \/ Kill(p) \/ \E c \in Call : Begin(p, c)
  PROVE  \A q \in Proc \ {p} : file'[q] = file[q]
<1>1. CASE Kill(p) \/ \E c \in Call : Begin(p, c)
  BY <1>1 DEF Kill, Begin, Return, TypeInv, TypeOK
<1>2. CASE \/ OpenItems(p) \/ CreateTemp(p) \/ Write(p) \/ SyncFile(p) \/ Rename(p)
           \/ FailWriting(p) \/ SyncDir(p) \/ FailSyncDir(p) \/ Cleanup(p)
  BY <1>2 DEF OpenItems, CreateTemp, Write, SyncFile, Rename, FailWriting, SyncDir,
              FailSyncDir, Cleanup, Return, TypeInv, TypeOK
<1>3. CASE \/ Lstat(p) \/ OpenFile(p) \/ ReadItem(p) \/ ReadDir(p) \/ NextEntry(p)
           \/ ReadEntry(p) \/ Inspect(p) \/ Unlink(p) \/ Fail(p)
  BY <1>3 DEF Lstat, OpenFile, ReadItem, ReadDir, NextEntry, ReadEntry, Inspect, Unlink,
              Fail, Missing, Return, TypeInv, TypeOK
<1> QED
  BY <1>1, <1>2, <1>3 DEF Run

(* A step of p leaves alone what others read, and what names refer to.      *)
Kept(f) == data'[f] = data[f]

LEMMA DataKept ==
  ASSUME Invs, NEW p \in Proc, Run(p) \/ Kill(p) \/ \E c \in Call : Begin(p, c)
  PROVE  /\ \A q \in Proc : pc[q] = "read" => Kept(file[q])
         /\ \A s \in Slot : \A f \in may[s] \ {None} : Kept(f)
<1>1. CASE CreateTemp(p)
  <2>1. UNCHANGED data \/ \E f \in Free : data' = [data EXCEPT ![f] = Torn]
    BY <1>1 DEF CreateTemp
  <2>2. \A f \in File, g \in Free : data' = [data EXCEPT ![g] = Torn] /\ f # g => Kept(f)
    BY DEF Kept, Invs, TypeInv, TypeOK
  <2>3. \A q \in Proc : pc[q] = "read" => file[q] \in File /\ file[q] \notin Free
    BY DEF Free, Holding, Invs, TypeInv, StepOK
  <2>4. \A s \in Slot : \A f \in may[s] \ {None} : f \in File /\ f \notin Free
    BY DEF Free, Invs, TypeInv, TypeOK
  <2> QED
    BY <2>1, <2>2, <2>3, <2>4 DEF Kept
<1>2. CASE Write(p)
  <2>1. \A f \in File : f # file[p] => Kept(f)
    BY <1>2 DEF Write, Kept, Invs, TypeInv, TypeOK
  <2>2. \A q \in Proc : pc[q] = "read" => file[q] \in File /\ file[q] # file[p]
    BY <1>2 DEF Write, Writing, Invs, TypeInv, StepOK, ReadInv, ReaderOK
  <2>3. \A s \in Slot : \A f \in may[s] \ {None} : f \in File /\ f # file[p]
    BY <1>2, Entries DEF Write, Writing
  <2> QED
    BY <2>1, <2>2, <2>3
<1>3. CASE ~CreateTemp(p) /\ ~Write(p)
  <2>1. UNCHANGED data
    BY <1>3 DEF Kill, Begin, Run, OpenItems, SyncFile, Rename, FailWriting, SyncDir,
                FailSyncDir, Cleanup, Lstat, OpenFile, ReadItem, ReadDir, NextEntry,
                ReadEntry, Inspect, Unlink, Fail, disk
  <2> QED
    BY <2>1 DEF Kept
<1> QED
  BY <1>1, <1>2, <1>3

-----------------------------------------------------------------------------
(* ReadInv is an invariant of runs without Damage.                          *)

LEMMA ReaderOthers ==
  ASSUME Invs, NEW p \in Proc, Run(p) \/ Kill(p) \/ \E c \in Call : Begin(p, c)
  PROVE  \A q \in Proc \ {p} : ReaderOK(q)'
<1>1. root # "none" => root' # "none"
  BY DEF Kill, Begin, Run, OpenItems, CreateTemp, Write, SyncFile, Rename, FailWriting,
         SyncDir, FailSyncDir, Cleanup, Lstat, OpenFile, ReadItem, ReadDir, NextEntry,
         ReadEntry, Inspect, Unlink, Fail, disk
<1>2. pc'[p] \in Writing =>
        \/ pc[p] \in Writing /\ file'[p] = file[p]
        \/ file'[p] \in Free
  <2>1. CASE CreateTemp(p)
    BY <2>1 DEF CreateTemp, Return, Invs, TypeInv, TypeOK, Writing
  <2>2. CASE Write(p) \/ SyncFile(p) \/ Rename(p) \/ FailWriting(p)
    BY <2>2 DEF Write, SyncFile, Rename, FailWriting, Invs, TypeInv, TypeOK, Writing
  <2>3. CASE Kill(p) \/ \E c \in Call : Begin(p, c)
    BY <2>3 DEF Kill, Begin, Return, Invs, TypeInv, TypeOK, Writing
  <2>5. CASE OpenItems(p)
    <3>1. call[p].op \in {"set", "get", "list", "delete"}
      BY <2>5, CallFields DEF OpenItems, Invs, TypeInv, StepOK
    <3>2. pc'[p] \in {"idle", "create", "lstat", "readdir", "inspect"}
      BY <2>5, <3>1 DEF OpenItems, Return, Invs, TypeInv, TypeOK
    <3> QED
      BY <3>2 DEF Writing
  <2>6. CASE SyncDir(p)
    BY <2>6 DEF SyncDir, Return, Invs, TypeInv, TypeOK, Writing
  <2>7. CASE FailSyncDir(p) \/ Cleanup(p)
    BY <2>7 DEF FailSyncDir, Cleanup, Return, Invs, TypeInv, TypeOK, Writing
  <2>4. CASE \/ Lstat(p) \/ OpenFile(p) \/ ReadItem(p) \/ ReadDir(p) \/ NextEntry(p)
             \/ ReadEntry(p) \/ Inspect(p) \/ Unlink(p) \/ Fail(p)
    BY <2>4 DEF Lstat, OpenFile, ReadItem, ReadDir, NextEntry, ReadEntry, Inspect, Unlink,
                Fail, Missing, Return, Invs, TypeInv, TypeOK, Writing
  <2> QED
    BY <2>1, <2>2, <2>3, <2>4, <2>5, <2>6, <2>7 DEF Run
<1>3. \A q \in Proc : pc[q] = "read" => file[q] \notin Free
  BY DEF Free, Holding
<1> SUFFICES ASSUME NEW q \in Proc \ {p}
             PROVE  ReaderOK(q)'
  OBVIOUS
<1>4. /\ pc'[q] = pc[q] /\ call'[q] = call[q] /\ at'[q] = at[q]
      /\ unread'[q] = unread[q] /\ todo'[q] = todo[q]
      /\ found'[q] = found[q] /\ file'[q] = file[q]
  BY OthersStay, OthersFiles DEF Invs
<1>5. ReaderOK(q)
  BY DEF Invs, ReadInv
<1>6. ASSUME pc[q] = "read"
      PROVE  /\ Entry(file[q], at[q])'
             /\ \A w \in Proc : pc'[w] \in Writing => file'[w] # file'[q]
  <2>1. Entry(file[q], at[q])'
    BY <1>4, <1>5, <1>6, DataKept DEF ReaderOK, Entry, Kept
  <2>2. ASSUME NEW w \in Proc, pc'[w] \in Writing
        PROVE  file'[w] # file'[q]
    <3>1. CASE w = p
      BY <1>2, <1>3, <1>4, <1>5, <1>6, <2>2, <3>1 DEF ReaderOK
    <3>2. CASE w # p
      BY <1>4, <1>5, <1>6, <2>2, <3>2, OthersStay, OthersFiles DEF ReaderOK, Invs
    <3> QED
      BY <3>1, <3>2
  <2> QED
    BY <2>1, <2>2
<1> QED
  BY <1>1, <1>4, <1>5, <1>6 DEF ReaderOK

LEMMA ReaderRun ==
  ASSUME Invs, NEW p \in Proc, Run(p)
  PROVE  ReaderOK(p)'
<1>0. ReaderOK(p) /\ StepOK(p)
  BY DEF Invs, ReadInv, TypeInv
<1>1. ASSUME NEW r, Return(p, r)
      PROVE  ReaderOK(p)'
  BY <1>1, ReturnFields DEF ReaderOK, Writing, Invs
<1>2. CASE OpenItems(p)
  <2>1. CASE \E r : Return(p, r)
    BY <1>1, <2>1
  <2>2. CASE ~\E r : Return(p, r)
    <3>1. call[p].op \in {"set", "get", "list", "delete"}
      BY <1>2, CallFields DEF OpenItems, Invs, TypeInv, StepOK
    <3>2. /\ pc'[p] \in {"create", "lstat", "readdir", "inspect"}
          /\ pc'[p] = "lstat" => call[p].op # "list"
          /\ root' # "none"
          /\ pc'[p] # "readdir" => unread'[p] = {}
          /\ UNCHANGED <<call, at, todo, found>>
      BY <1>0, <1>2, <2>2, <3>1 DEF OpenItems, ReaderOK, Invs, TypeInv, TypeOK
    <3>3. todo'[p] = {}
      BY <1>0, <1>2, <3>2 DEF ReaderOK, OpenItems
    <3> QED
      BY <1>0, <1>2, <3>2, <3>3 DEF ReaderOK, OpenItems, Writing
  <2> QED
    BY <2>1, <2>2
<1>3. CASE CreateTemp(p)
  <2>1. CASE Return(p, Error)
    BY <1>1, <2>1
  <2>2. CASE ~Return(p, Error)
    BY <1>0, <1>3, <2>2 DEF CreateTemp, ReaderOK, StepOK, SetCall, Invs, TypeInv, TypeOK, Writing
  <2> QED
    BY <2>1, <2>2
<1>4. CASE Write(p) \/ SyncFile(p) \/ Rename(p) \/ FailWriting(p)
  BY <1>0, <1>4 DEF Write, SyncFile, Rename, FailWriting, ReaderOK, StepOK, SetCall, Invs,
                    TypeInv, TypeOK, Writing
<1>5. CASE SyncDir(p) \/ FailSyncDir(p) \/ Cleanup(p)
  <2>1. CASE \E r : Return(p, r)
    BY <1>1, <2>1
  <2>2. CASE ~\E r : Return(p, r)
    BY <1>0, <1>5, <2>2 DEF SyncDir, FailSyncDir, Cleanup, ReaderOK, StepOK, Invs, TypeInv, TypeOK,
                            Writing
  <2> QED
    BY <2>1, <2>2
<1>6. CASE Lstat(p)
  <2>1. CASE Missing(p)
    BY <1>1, <2>1 DEF Missing
  <2>2. CASE ~Missing(p)
    BY <1>0, <1>6, <2>2 DEF Lstat, ReaderOK, StepOK, Invs, TypeInv, TypeOK, Writing
  <2> QED
    BY <2>1, <2>2
<1>7. CASE OpenFile(p)
  <2>1. CASE Missing(p) \/ Return(p, Error)
    BY <1>1, <2>1 DEF Missing
  <2>2. CASE ~(Missing(p) \/ Return(p, Error))
    <3>1. /\ pc[p] = "openfile" /\ pc'[p] = "read"
          /\ items[at[p]] = file[p] /\ file[p] # None
          /\ todo'[p] = todo[p] \ {at[p]}
          /\ UNCHANGED <<call, at, file, unread, found, data>>
          /\ at[p] \in Slot
      BY <1>0, <1>7, <2>2 DEF OpenFile, disk, Invs, TypeInv, TypeOK, StepOK
    <3>2. Entry(file[p], at[p]) /\ \A q \in Proc : pc[q] \in Writing => file[q] # file[p]
      BY <3>1, Entries DEF Invs, WholeInv, NamesOK
    <3>3. \A q \in Proc : pc'[q] \in Writing => pc[q] \in Writing
      BY <1>7, <3>1 DEF OpenFile, Missing, Return, Writing, Invs, TypeInv, TypeOK
    <3> QED
      BY <1>0, <3>1, <3>2, <3>3 DEF ReaderOK, Entry, Writing
  <2> QED
    BY <2>1, <2>2
<1>8. CASE ReadItem(p) \/ Fail(p)
  BY <1>1, <1>8 DEF ReadItem, Fail
<1>9. CASE ReadDir(p)
  <2>1. PICK names \in SUBSET unread[p] :
          /\ todo' = [todo EXCEPT ![p] = @ \cup (names \cap Present)]
          /\ unread' = [unread EXCEPT ![p] = @ \ names]
          /\ Goto(p, IF names = unread[p] THEN "next" ELSE "readdir")
    BY <1>9 DEF ReadDir
  <2>2. /\ pc[p] = "readdir" /\ call[p].op = "list" /\ UNCHANGED <<call, found>>
        /\ pc'[p] \in {"next", "readdir"}
        /\ pc'[p] = "next" => unread'[p] = {}
        /\ unread'[p] = unread[p] \ names /\ todo'[p] = todo[p] \cup (names \cap Present)
    BY <1>0, <1>9, <2>1 DEF ReadDir, StepOK, ListCall, Invs, TypeInv, TypeOK
  <2> QED
    BY <1>0, <2>2 DEF ReaderOK, Writing
<1>10. CASE NextEntry(p)
  <2>1. CASE Return(p, Listed(found[p]))
    BY <1>1, <2>1
  <2>2. CASE ~Return(p, Listed(found[p]))
    BY <1>0, <1>10, <2>2 DEF NextEntry, ReaderOK, StepOK, ListCall, Invs, TypeInv, TypeOK, Writing
  <2> QED
    BY <2>1, <2>2
<1>11. CASE ReadEntry(p)
  <2>1. CASE Return(p, Error)
    BY <1>1, <2>1
  <2>2. CASE ~Return(p, Error)
    BY <1>0, <1>11, <2>2 DEF ReadEntry, ReaderOK, Invs, TypeInv, TypeOK, Writing
  <2> QED
    BY <2>1, <2>2
<1>12. CASE Inspect(p) \/ Unlink(p)
  <2>1. CASE \E r : Return(p, r)
    BY <1>1, <2>1
  <2>2. CASE ~\E r : Return(p, r)
    BY <1>0, <1>12, <2>2 DEF Inspect, Unlink, ReaderOK, StepOK, Invs, TypeInv, TypeOK, Writing
  <2> QED
    BY <2>1, <2>2
<1> QED
  BY <1>2, <1>3, <1>4, <1>5, <1>6, <1>7, <1>8, <1>9, <1>10, <1>11, <1>12 DEF Run

LEMMA ReadInvRun ==
  ASSUME Invs, NEW p \in Proc, Run(p) \/ Kill(p) \/ \E c \in Call : Begin(p, c)
  PROVE  ReadInv'
<1>1. \A q \in Proc : ReaderOK(q)'
  <2>1. CASE Run(p)
    BY <2>1, ReaderRun, ReaderOthers
  <2>2. CASE Kill(p)
    BY <2>2, ReaderOthers, ReturnFields DEF Kill, ReaderOK, Writing, Invs
  <2>3. ASSUME NEW c \in Call, Begin(p, c)
        PROVE  ReaderOK(p)'
    <3>1. /\ pc'[p] = "open" /\ pc[p] = "idle" /\ call'[p] = c
          /\ unread'[p] = unread[p] /\ todo'[p] = todo[p] /\ found'[p] = found[p]
      BY <2>3 DEF Begin, Invs, TypeInv, TypeOK
    <3>2. ReaderOK(p)
      BY DEF Invs, ReadInv
    <3> QED
      BY <3>1, <3>2 DEF ReaderOK, Writing
  <2> QED
    BY <2>1, <2>2, <2>3, ReaderOthers
<1>2. damaged' = {}
  BY DEF Kill, Begin, Run, OpenItems, CreateTemp, Write, SyncFile, Rename, FailWriting,
         SyncDir, FailSyncDir, Cleanup, Lstat, OpenFile, ReadItem, ReadDir, NextEntry,
         ReadEntry, Inspect, Unlink, Fail, history, Invs, ReadInv
<1>3. Empty'
  <2>1. CASE root = "none" /\ root' = "none"
    <3>1. ~Rename(p)
      BY <2>1 DEF Rename, Invs, ReadInv, ReaderOK, Writing
    <3>2. \A s \in Slot : items[s] = None /\ may[s] = {None}
      BY <2>1 DEF Invs, ReadInv, Empty
    <3>3. \A s \in Slot : items'[s] = None /\ may'[s] = {None}
      <4>1. CASE SyncDir(p)
        BY <3>2, <4>1 DEF SyncDir
      <4>2. CASE Unlink(p)
        BY <3>2, <4>2 DEF Unlink, Invs, TypeInv, TypeOK, StepOK
      <4>3. CASE ~SyncDir(p) /\ ~Unlink(p)
        BY <3>1, <3>2, <4>3 DEF Kill, Begin, Run, OpenItems, CreateTemp, Write, SyncFile,
            FailWriting, FailSyncDir, Cleanup, Lstat, OpenFile, ReadItem, ReadDir, NextEntry,
            ReadEntry, Inspect, Fail, disk
      <4> QED
        BY <4>1, <4>2, <4>3
    <3> QED
      BY <3>3 DEF Empty
  <2>2. CASE root # "none"
    <3>1. root' # "none"
      BY <2>2 DEF Kill, Begin, Run, OpenItems, CreateTemp, Write, SyncFile, Rename, FailWriting,
         SyncDir, FailSyncDir, Cleanup, Lstat, OpenFile, ReadItem, ReadDir, NextEntry,
         ReadEntry, Inspect, Unlink, Fail, disk
    <3> QED
      BY <3>1 DEF Empty
  <2> QED
    BY <2>1, <2>2 DEF Empty
<1> QED
  BY <1>1, <1>2, <1>3 DEF ReadInv

LEMMA InvsNext ==
  ASSUME MaxDamage = 0
  PROVE  Invs /\ [Next]_vars => Invs'
<1> SUFFICES ASSUME Invs, [Next]_vars
             PROVE  ReadInv'
  BY TypeInvNext, WholeInvNext DEF Invs
<1>1. ~\E s \in Slot : Damage(s)
  BY DEF Damage, Invs, TypeInv, TypeOK
<1>2. CASE Crash
  <2>1. \A q \in Proc : ReaderOK(q)'
    <3> SUFFICES ASSUME NEW q \in Proc PROVE ReaderOK(q)'
      OBVIOUS
    <3>1. pc'[q] = "idle" /\ unread'[q] = {} /\ todo'[q] = {} /\ found'[q] = {}
      BY <1>2 DEF Crash
    <3> QED
      BY <3>1 DEF ReaderOK, Writing
  <2>2. damaged' = {}
    BY <1>2 DEF Crash, Invs, ReadInv
  <2>3. ASSUME root' = "none", NEW s \in Slot
        PROVE  items'[s] = None /\ may'[s] = {None}
    BY <1>2, <2>3 DEF Crash, Invs, ReadInv, Empty
  <2> QED
    BY <2>1, <2>2, <2>3 DEF ReadInv, Empty
<1>3. CASE UNCHANGED vars
  BY <1>3 DEF vars, disk, self, history, Invs, ReadInv, Empty, ReaderOK, Entry
<1> QED
  BY <1>1, <1>2, <1>3, ReadInvRun DEF Next

-----------------------------------------------------------------------------
(* What a step of a process leaves of the atomic vault.                     *)

LEMMA Tables ==
  ASSUME Invs
  PROVE  /\ items \in [Slot -> File \cup {None}] /\ may \in [Slot -> SUBSET (File \cup {None})]
         /\ pc \in [Proc -> Step] /\ at \in [Proc -> Slot \cup {None}]
         /\ file \in [Proc -> File \cup {None}]
         /\ unread \in [Proc -> SUBSET Slot] /\ todo \in [Proc -> SUBSET Slot]
         /\ found \in [Proc -> SUBSET Metadata] /\ ret \in [Proc -> Result]
         /\ call \in [Proc -> Call \cup {None}]
BY DEF Invs, TypeInv, TypeOK

LEMMA SurvivorsAre ==
  ASSUME Invs
  PROVE  \A s \in Slot : Survivors(s) = {ItemIn(f) : f \in may[s]}
BY DEF Invs, WholeInv, NamesOK, Survivors

LEMMA ItemOfName ==
  ASSUME Invs, NEW s \in Slot, items[s] # None
  PROVE  ItemIn(items[s]) \in Item /\ ItemIn(items[s]) # None
BY AbsenceAssumption, TornAssumption, Entries
   DEF ItemIn, Entry, Record, Item, Invs, WholeInv, NamesOK

LEMMA DiskStays ==
  ASSUME Invs, Invs', NEW p \in Proc, Run(p) \/ Kill(p) \/ \E c \in Call : Begin(p, c),
         UNCHANGED <<items, may>>
  PROVE  VaultBar' = VaultBar /\ MayBar' = MayBar
<1>1. \A s \in Slot : \A f \in may[s] : ItemIn(f)' = ItemIn(f)
  BY DataKept DEF ItemIn, Kept
<1>2. \A s \in Slot : items[s] \in may[s]
  BY DEF Invs, WholeInv, NamesOK
<1>3. \A s \in Slot : Survivors(s)' = {ItemIn(f)' : f \in may[s]}
  BY DEF Invs, WholeInv, NamesOK, Survivors
<1> QED
  BY <1>1, <1>2, <1>3, SurvivorsAre DEF VaultBar, MayBar

LEMMA OthersBar ==
  ASSUME Invs, NEW p \in Proc, Run(p) \/ Kill(p) \/ \E c \in Call : Begin(p, c)
  PROVE  \A q \in Proc \ {p} :
           /\ Phase(q)' = Phase(q) /\ Left(q)' = Left(q)
           /\ Seen(q)' = Seen(q) /\ Answer(q)' = Answer(q)
<1> SUFFICES ASSUME NEW q \in Proc \ {p}
             PROVE  /\ Phase(q)' = Phase(q) /\ Left(q)' = Left(q)
                    /\ Seen(q)' = Seen(q) /\ Answer(q)' = Answer(q)
  OBVIOUS
<1>1. /\ pc'[q] = pc[q] /\ call'[q] = call[q] /\ at'[q] = at[q]
      /\ unread'[q] = unread[q] /\ todo'[q] = todo[q]
      /\ found'[q] = found[q] /\ ret'[q] = ret[q] /\ file'[q] = file[q]
  BY OthersStay, OthersFiles DEF Invs
<1>2. pc[q] = "read" => data'[file[q]] = data[file[q]]
  BY DataKept DEF Kept
<1>3. Phase(q)' = Phase(q)
  BY <1>1 DEF Phase
<1>4. Left(q)' = Left(q)
  BY <1>1 DEF Left, InScope
<1>5. Seen(q)' = Seen(q)
  <2>1. InScope(q, {at[q]})' = InScope(q, {at[q]})
    BY <1>1 DEF InScope
  <2>2. CASE pc[q] = "read" /\ call[q].op = "list"
    <3>1. data'[file'[q]] = data[file[q]]
      BY <1>1, <1>2, <2>2
    <3> QED
      BY <1>1, <2>1, <2>2, <3>1 DEF Seen
  <2>3. CASE ~(pc[q] = "read" /\ call[q].op = "list")
    BY <1>1, <2>3 DEF Seen
  <2> QED
    BY <2>2, <2>3
<1>6. Answer(q)' = Answer(q)
  BY <1>1, <1>2 DEF Answer, Decoded
<1> QED
  BY <1>3, <1>4, <1>5, <1>6

LEMMA BarsOfStep ==
  ASSUME Invs, NEW p \in Proc, Run(p) \/ Kill(p) \/ \E c \in Call : Begin(p, c)
  PROVE  /\ PhaseBar' = [PhaseBar EXCEPT ![p] = Phase(p)']
         /\ LeftBar' = [LeftBar EXCEPT ![p] = Left(p)']
         /\ SeenBar' = [SeenBar EXCEPT ![p] = Seen(p)']
         /\ RetBar' = [RetBar EXCEPT ![p] = Answer(p)']
BY OthersBar DEF PhaseBar, LeftBar, SeenBar, RetBar

(* A step that changes nothing of the atomic vault.                         *)
LEMMA Stutters ==
  ASSUME Invs, Invs', NEW p \in Proc, Run(p), UNCHANGED <<items, may, call>>,
         root' = root \/ (root' # "stored" /\ root # "stored"),
         Phase(p)' = Phase(p), Left(p)' = Left(p), Seen(p)' = Seen(p), Answer(p)' = Answer(p)
  PROVE  UNCHANGED Atomic!vars
<1>1. VaultBar' = VaultBar /\ MayBar' = MayBar
  BY DiskStays
<1>2. PhaseBar' = PhaseBar /\ LeftBar' = LeftBar /\ SeenBar' = SeenBar /\ RetBar' = RetBar
  BY BarsOfStep DEF PhaseBar, LeftBar, SeenBar, RetBar
<1>3. (root = "stored")' <=> root = "stored"
  OBVIOUS
<1> QED
  BY <1>1, <1>2, <1>3 DEF Atomic!vars, VaultBar, MayBar, PhaseBar, LeftBar, SeenBar, RetBar

LEMMA ReturnBar ==
  ASSUME Invs, NEW p \in Proc, NEW r, Return(p, r)
  PROVE  /\ Phase(p)' = "idle" /\ Left(p)' = {} /\ Seen(p)' = {} /\ Answer(p)' = r
         /\ call' = call
<1>1. /\ pc'[p] = "idle" /\ unread'[p] = {} /\ todo'[p] = {} /\ found'[p] = {}
      /\ ret'[p] = r /\ call' = call
  BY ReturnFields DEF Return, Invs
<1> QED
  BY <1>1 DEF Phase, Left, Seen, Answer, InScope

LEMMA Fails ==
  ASSUME Invs, Invs', NEW p \in Proc, Run(p) \/ Kill(p), pc[p] # "idle",
         NEW r \in {Error, Pending}, Return(p, r), UNCHANGED <<root, items, may>>
  PROVE  Atomic!Fail(p, r)
<1>1. Phase(p) # "idle"
  BY DEF Phase
<1>2. VaultBar' = VaultBar /\ MayBar' = MayBar
  BY DiskStays
<1>3. /\ PhaseBar' = [PhaseBar EXCEPT ![p] = "idle"]
      /\ LeftBar' = [LeftBar EXCEPT ![p] = {}]
      /\ SeenBar' = [SeenBar EXCEPT ![p] = {}]
      /\ RetBar' = [RetBar EXCEPT ![p] = r]
      /\ call' = call
  BY BarsOfStep, ReturnBar
<1>4. PhaseBar[p] # "idle"
  BY <1>1 DEF PhaseBar
<1> QED
  BY <1>2, <1>3, <1>4 DEF Atomic!Fail, VaultBar, MayBar, PhaseBar, LeftBar, SeenBar, RetBar

(* The abstract state of a process outside List holds nothing of a List.    *)
LEMMA NoList ==
  ASSUME Invs, NEW p \in Proc, pc[p] \in {"idle", "open"} \/ call[p].op # "list"
  PROVE  Left(p) = {} /\ Seen(p) = {}
<1>1. unread[p] = {} /\ todo[p] = {} /\ found[p] = {}
  BY DEF Invs, ReadInv, ReaderOK, TypeInv, StepOK, ListCall
<1> QED
  BY <1>1 DEF Left, Seen, InScope

LEMMA BeginRefines ==
  ASSUME Invs, Invs', NEW p \in Proc, NEW c \in Call, Begin(p, c)
  PROVE  Atomic!Begin(p, c)
<1>1. /\ Phase(p) = "idle" /\ Left(p) = {} /\ Seen(p) = {}
  BY NoList DEF Begin, Phase
<1>2. /\ pc'[p] = "open" /\ unread'[p] = {} /\ todo'[p] = {} /\ found'[p] = {}
      /\ ret'[p] = Pending
  BY DEF Begin, Invs, ReadInv, ReaderOK, TypeInv, TypeOK
<1>3. Phase(p)' = "called" /\ Left(p)' = {} /\ Seen(p)' = {} /\ Answer(p)' = Pending
  BY <1>2 DEF Phase, Left, Seen, Answer, InScope
<1>4. UNCHANGED <<root, items, may>> /\ call' = [call EXCEPT ![p] = c]
  BY DEF Begin, disk
<1>5. VaultBar' = VaultBar /\ MayBar' = MayBar
  BY <1>4, DiskStays
<1>6. /\ PhaseBar[p] = "idle"
      /\ PhaseBar' = [PhaseBar EXCEPT ![p] = "called"]
      /\ LeftBar' = LeftBar
      /\ SeenBar' = SeenBar
      /\ RetBar' = [RetBar EXCEPT ![p] = Pending]
  BY <1>1, <1>3, BarsOfStep DEF PhaseBar, LeftBar, SeenBar
<1> QED
  BY <1>4, <1>5, <1>6
  DEF Atomic!Begin, Atomic!Pending, Pending, VaultBar, MayBar, PhaseBar, LeftBar, SeenBar, RetBar

-----------------------------------------------------------------------------
(* Set, step by step.                                                       *)

LEMMA OpenItemsRefines ==
  ASSUME Invs, Invs', NEW p \in Proc, OpenItems(p)
  PROVE  \/ Atomic!NothingToList(p) \/ Atomic!NothingToDelete(p) \/ Atomic!Get(p)
         \/ Atomic!Look(p) \/ UNCHANGED Atomic!vars
<1>0. /\ pc[p] = "open" /\ call[p] \in Call
      /\ call[p].op \in {"set", "get", "list", "delete"}
      /\ call[p].op \in {"get", "delete"} => call[p].slot \in Slot
      /\ UNCHANGED <<items, may, call>>
      /\ Run(p)
  BY CallFields DEF OpenItems, Return, Run, Invs, TypeInv, StepOK
<1>1. Phase(p) = "called" /\ Left(p) = {} /\ Seen(p) = {}
  BY <1>0, NoList DEF Phase
<1>2. ASSUME NEW r, Return(p, r), root = "none", root' = root
      PROVE  /\ PhaseBar[p] = "called" /\ PhaseBar' = [PhaseBar EXCEPT ![p] = "idle"]
             /\ LeftBar' = LeftBar /\ SeenBar' = SeenBar
             /\ RetBar' = [RetBar EXCEPT ![p] = r]
             /\ VaultBar' = VaultBar /\ MayBar' = MayBar
             /\ VaultBar = [s \in Slot |-> None]
  <2>1. \A s \in Slot : items[s] = None
    BY <1>2 DEF Invs, ReadInv, Empty
  <2>2. VaultBar' = VaultBar /\ MayBar' = MayBar
    BY <1>0, DiskStays
  <2>3. VaultBar = [s \in Slot |-> None]
    BY <2>1 DEF VaultBar, ItemIn
  <2>4. Phase(p)' = "idle" /\ Left(p)' = Left(p) /\ Seen(p)' = Seen(p) /\ Answer(p)' = r
    BY <1>1, <1>2, ReturnBar
  <2>5. /\ PhaseBar' = [PhaseBar EXCEPT ![p] = "idle"]
        /\ RetBar' = [RetBar EXCEPT ![p] = r]
    BY <1>0, <2>4, BarsOfStep
  <2>6. PhaseBar[p] = "called" /\ LeftBar' = LeftBar /\ SeenBar' = SeenBar
    BY <1>0, <1>1, <2>4, BarsOfStep DEF PhaseBar, LeftBar, SeenBar
  <2> QED
    BY <2>2, <2>3, <2>5, <2>6
<1>3. CASE call[p].op = "get" /\ root = "none"
  <2>1. Return(p, NotFound) /\ root' = root
    BY <1>3 DEF OpenItems
  <2> QED
    BY <1>0, <1>2, <1>3, <2>1
    DEF Atomic!Get, Atomic!Got, Atomic!NotFound, NotFound,
        VaultBar, MayBar, PhaseBar, LeftBar, SeenBar, RetBar
<1>4. CASE call[p].op = "list" /\ root = "none"
  <2>1. Return(p, Listed({})) /\ root' = root
    BY <1>4 DEF OpenItems
  <2> QED
    BY <1>0, <1>2, <1>4, <2>1
    DEF Atomic!NothingToList, Atomic!Listed, Atomic!Slot, Slot, Listed,
        VaultBar, MayBar, PhaseBar, LeftBar, SeenBar, RetBar
<1>5. CASE call[p].op = "delete" /\ root = "none"
  <2>1. Return(p, Done) /\ root' = root
    BY <1>5 DEF OpenItems
  <2> QED
    BY <1>0, <1>2, <1>5, <2>1
    DEF Atomic!NothingToDelete, Atomic!Done, Done,
        VaultBar, MayBar, PhaseBar, LeftBar, SeenBar, RetBar
<1>6. CASE call[p].op = "set" \/ (root # "none" /\ call[p].op # "list")
  <2>1. /\ pc'[p] \in {"create", "lstat", "inspect"}
        /\ pc'[p] = "lstat" => call[p].op = "get"
        /\ UNCHANGED <<at, file, todo, found, ret>>
        /\ unread'[p] = unread[p]
        /\ root' = root \/ (root' # "stored" /\ root # "stored")
    BY <1>0, <1>6, Tables DEF OpenItems, Invs, ReadInv, ReaderOK
  <2>2. Phase(p)' = "called" /\ Left(p)' = Left(p) /\ Seen(p)' = Seen(p) /\ Answer(p)' = Answer(p)
    BY <1>0, <2>1 DEF Phase, Left, Seen, Answer, InScope
  <2> QED
    BY <1>0, <1>1, <2>1, <2>2, Stutters
<1>7. CASE call[p].op = "list" /\ root # "none"
  <2>1. /\ pc'[p] = "readdir" /\ unread'[p] = Slot /\ call[p] # None
        /\ UNCHANGED <<root, at, file, todo, found, ret>>
    BY <1>0, <1>7, Tables, AbsenceAssumption DEF OpenItems
  <2>2. todo[p] = {}
    BY <1>0 DEF Invs, ReadInv, ReaderOK
  <2>3. Phase(p)' = "applied" /\ Seen(p)' = Seen(p) /\ Answer(p)' = Answer(p)
    BY <1>0, <1>7, <2>1 DEF Phase, Seen, Answer
  <2>4. Left(p)' = {s \in Slot : s.scope = call[p].scope}
    BY <1>0, <1>7, <2>1, <2>2 DEF Left, InScope
  <2>5. VaultBar' = VaultBar /\ MayBar' = MayBar
    BY <1>0, DiskStays
  <2>6. /\ PhaseBar' = [PhaseBar EXCEPT ![p] = "applied"]
        /\ LeftBar' = [LeftBar EXCEPT ![p] = {s \in Slot : s.scope = call[p].scope}]
    BY <1>0, <2>3, <2>4, BarsOfStep
  <2>7. PhaseBar[p] = "called" /\ SeenBar' = SeenBar /\ RetBar' = RetBar
    BY <1>0, <1>1, <2>3, BarsOfStep DEF PhaseBar, SeenBar, RetBar
  <2> QED
    BY <1>0, <1>7, <2>1, <2>5, <2>6, <2>7
    DEF Atomic!Look, Atomic!Slot, Slot, VaultBar, MayBar, PhaseBar, LeftBar, SeenBar, RetBar
<1> QED
  BY <1>0, <1>3, <1>4, <1>5, <1>6, <1>7

-----------------------------------------------------------------------------
(* Set: its instant is the rename.                                          *)

LEMMA CreateTempRefines ==
  ASSUME Invs, Invs', NEW p \in Proc, CreateTemp(p)
  PROVE  Atomic!Fail(p, Error) \/ UNCHANGED Atomic!vars
<1>1. pc[p] = "create" /\ UNCHANGED <<root, items, may>> /\ Run(p)
  BY DEF CreateTemp, Run
<1>2. CASE Return(p, Error)
  BY <1>1, <1>2, Fails
<1>3. CASE ~Return(p, Error)
  <2>1. pc'[p] = "write" /\ UNCHANGED <<call, at, unread, todo, found, ret>>
    BY <1>3, Tables DEF CreateTemp
  <2>2. /\ Phase(p)' = Phase(p) /\ Left(p)' = Left(p)
        /\ Seen(p)' = Seen(p) /\ Answer(p)' = Answer(p)
    BY <1>1, <2>1 DEF Phase, Left, Seen, Answer, InScope
  <2> QED
    BY <1>1, <2>1, <2>2, Stutters
<1> QED
  BY <1>2, <1>3

LEMMA WriteRefines ==
  ASSUME Invs, Invs', NEW p \in Proc, Write(p) \/ SyncFile(p)
  PROVE  UNCHANGED Atomic!vars
<1>1. /\ pc[p] \in {"write", "sync"} /\ pc'[p] \in {"sync", "rename"}
      /\ UNCHANGED <<root, items, may, call, at, file, unread, todo, found, ret>>
      /\ Run(p)
  BY Tables DEF Write, SyncFile, Run
<1>2. /\ Phase(p)' = Phase(p) /\ Left(p)' = Left(p)
      /\ Seen(p)' = Seen(p) /\ Answer(p)' = Answer(p)
  BY <1>1 DEF Phase, Left, Seen, Answer, InScope
<1> QED
  BY <1>1, <1>2, Stutters

LEMMA RenameRefines ==
  ASSUME Invs, Invs', NEW p \in Proc, Rename(p)
  PROVE  Atomic!Set(p)
<1> DEFINE s == call[p].slot
           i == [kind |-> call[p].kind, value |-> call[p].value]
<1>1. /\ pc[p] = "rename" /\ pc'[p] = "syncdir" /\ Run(p)
      /\ call[p] \in SetCall /\ call[p].op = "set" /\ at[p] = s /\ s \in Slot
      /\ data[file[p]] = RecordOf(call[p]) /\ file[p] \in File
      /\ UNCHANGED <<root, data, call, at, file, unread, todo, found, ret>>
      /\ items' = [items EXCEPT ![s] = file[p]]
      /\ may' = [may EXCEPT ![s] = @ \cup {file[p]}]
  <2>1. pc[p] = "rename" /\ pc'[p] = "syncdir" /\ Run(p)
    BY Tables DEF Rename, Run
  <2>2. call[p] \in SetCall /\ at[p] = s /\ file[p] \in File
    BY <2>1 DEF Invs, TypeInv, StepOK, Writing, SetCall
  <2>3. call[p].op = "set" /\ s \in Slot
    BY <2>2 DEF SetCall
  <2>4. data[file[p]] = RecordOf(call[p])
    BY <2>1 DEF Invs, WholeInv, WriterOK
  <2> QED
    BY <2>1, <2>2, <2>3, <2>4 DEF Rename
<1>2. ItemIn(file[p]) = i
  BY <1>1, NoneAssumption, TornAssumption, RecordType DEF ItemIn, RecordOf
<1>3. \A f : ItemIn(f)' = ItemIn(f)
  BY <1>1 DEF ItemIn
<1>4. VaultBar' = [VaultBar EXCEPT ![s] = i]
  BY <1>1, <1>2, <1>3 DEF VaultBar, Invs, TypeInv, TypeOK
<1>5. MayBar' = [MayBar EXCEPT ![s] = @ \cup {i}]
  <2>1. \A t \in Slot : Survivors(t)' = {ItemIn(f)' : f \in may'[t]}
    BY DEF Invs, WholeInv, NamesOK, Survivors
  <2>2. \A t \in Slot : Survivors(t)' = IF t = s THEN Survivors(t) \cup {i} ELSE Survivors(t)
    <3> SUFFICES ASSUME NEW t \in Slot
                 PROVE  Survivors(t)' = IF t = s THEN Survivors(t) \cup {i} ELSE Survivors(t)
      OBVIOUS
    <3>1. Survivors(t)' = {ItemIn(f) : f \in may'[t]} /\ Survivors(t) = {ItemIn(f) : f \in may[t]}
      BY <1>3, <2>1, SurvivorsAre
    <3>2. may'[t] = IF t = s THEN may[t] \cup {file[p]} ELSE may[t]
      BY <1>1, Tables
    <3> HIDE DEF s, i
    <3> QED
      BY <1>2, <3>1, <3>2
  <2> QED
    BY <1>1, <2>2 DEF MayBar
<1>6. Phase(p) = "called" /\ Phase(p)' = "applied"
  BY <1>1 DEF Phase
<1>7. Left(p)' = Left(p) /\ Seen(p)' = Seen(p) /\ Answer(p)' = Answer(p)
  BY <1>1 DEF Left, Seen, Answer, InScope
<1>8. /\ PhaseBar[p] = "called" /\ PhaseBar' = [PhaseBar EXCEPT ![p] = "applied"]
      /\ LeftBar' = LeftBar /\ SeenBar' = SeenBar /\ RetBar' = RetBar
  BY <1>1, <1>6, <1>7, BarsOfStep DEF PhaseBar, LeftBar, SeenBar, RetBar
<1> HIDE DEF i, s
<1> QED
  BY <1>1, <1>4, <1>5, <1>8
  DEF Atomic!Set, i, s, VaultBar, MayBar, PhaseBar, LeftBar, SeenBar, RetBar

LEMMA FailWritingRefines ==
  ASSUME Invs, Invs', NEW p \in Proc, FailWriting(p)
  PROVE  Atomic!Abort(p)
<1>1. /\ pc[p] \in Writing /\ pc'[p] = "cleanup" /\ ret'[p] = Error /\ Run(p)
      /\ call[p].op = "set"
      /\ UNCHANGED <<root, items, may, call, unread, todo, found>>
  <2>1. pc[p] \in Writing /\ pc'[p] = "cleanup" /\ ret'[p] = Error /\ Run(p)
    BY Tables DEF FailWriting, Run
  <2>2. call[p].op = "set"
    BY <2>1 DEF SetCall, Invs, TypeInv, StepOK
  <2> QED
    BY <2>1, <2>2 DEF FailWriting, disk
<1>2. Phase(p) = "called" /\ Phase(p)' = "failed" /\ Answer(p)' = Error
  BY <1>1 DEF Phase, Answer, Writing, Error, Done
<1>3. Left(p)' = Left(p) /\ Seen(p)' = Seen(p)
  BY <1>1 DEF Left, Seen, InScope, Writing
<1>4. VaultBar' = VaultBar /\ MayBar' = MayBar
  BY <1>1, DiskStays
<1>5. /\ PhaseBar[p] = "called" /\ PhaseBar' = [PhaseBar EXCEPT ![p] = "failed"]
      /\ LeftBar' = LeftBar /\ SeenBar' = SeenBar
      /\ RetBar' = [RetBar EXCEPT ![p] = Error]
  BY <1>1, <1>2, <1>3, BarsOfStep DEF PhaseBar, LeftBar, SeenBar
<1> QED
  BY <1>1, <1>4, <1>5
  DEF Atomic!Abort, Atomic!Error, Error, VaultBar, MayBar, PhaseBar, LeftBar, SeenBar, RetBar

(* A call at its last step returns the answer it already has.               *)
LEMMA Returns ==
  ASSUME Invs, Invs', NEW p \in Proc, Run(p), Phase(p) \in {"settled", "failed"},
         Left(p) = {}, Seen(p) = {}, Return(p, Answer(p)), UNCHANGED <<root, items, may>>
  PROVE  Atomic!Return(p)
<1>1. VaultBar' = VaultBar /\ MayBar' = MayBar
  BY DiskStays
<1>2. /\ Phase(p)' = "idle" /\ Left(p)' = Left(p) /\ Seen(p)' = Seen(p)
      /\ Answer(p)' = Answer(p) /\ call' = call
  BY ReturnBar
<1>3. PhaseBar' = [PhaseBar EXCEPT ![p] = "idle"]
  BY <1>2, BarsOfStep
<1>4. /\ PhaseBar[p] \in {"settled", "failed"}
      /\ LeftBar' = LeftBar /\ SeenBar' = SeenBar /\ RetBar' = RetBar
  BY <1>2, BarsOfStep DEF PhaseBar, LeftBar, SeenBar, RetBar
<1> QED
  BY <1>1, <1>2, <1>3, <1>4
  DEF Atomic!Return, VaultBar, MayBar, PhaseBar, LeftBar, SeenBar, RetBar

LEMMA SyncDirRefines ==
  ASSUME Invs, Invs', NEW p \in Proc, SyncDir(p)
  PROVE  Atomic!Settle(p)
<1>1. /\ pc[p] = "syncdir" /\ call[p].op \in {"set", "delete"} /\ Run(p)
      /\ UNCHANGED <<root, items, data, call>>
      /\ may' = [s \in Slot |-> {items[s]}]
  BY DEF SyncDir, Return, Run, Invs, TypeInv, StepOK
<1>2. Phase(p) = "applied" /\ Left(p) = {} /\ Seen(p) = {}
  BY <1>1, NoList DEF Phase
<1>3. /\ Phase(p)' = IF call[p].op = "set" THEN "settled" ELSE "idle"
      /\ Left(p)' = {} /\ Seen(p)' = {} /\ Answer(p)' = Done
  <2>1. CASE Return(p, Done) /\ call[p].op = "delete"
    BY <2>1, ReturnBar
  <2>2. CASE call[p].op = "set"
    <3>1. pc'[p] = "cleanup" /\ ret'[p] = Done /\ UNCHANGED <<unread, todo, found>>
      BY <2>2, Tables DEF SyncDir
    <3> QED
      BY <1>1, <1>2, <2>2, <3>1 DEF Phase, Left, Seen, Answer, InScope
  <2> QED
    BY <2>1, <2>2 DEF SyncDir
<1>4. VaultBar' = VaultBar
  BY <1>1 DEF VaultBar, ItemIn
<1>5. MayBar' = [s \in Slot |-> {VaultBar[s]}]
  <2>1. \A s \in Slot : Survivors(s)' = {ItemIn(f)' : f \in may'[s]}
    BY DEF Invs, WholeInv, NamesOK, Survivors
  <2>2. \A f : ItemIn(f)' = ItemIn(f)
    BY <1>1 DEF ItemIn
  <2>3. \A s \in Slot : Survivors(s)' = {ItemIn(items[s])}
    BY <1>1, <2>1, <2>2
  <2> QED
    BY <2>3 DEF MayBar, VaultBar
<1>6. /\ PhaseBar' = [PhaseBar EXCEPT ![p] = IF call[p].op = "set" THEN "settled" ELSE "idle"]
      /\ RetBar' = [RetBar EXCEPT ![p] = Done]
  BY <1>1, <1>3, BarsOfStep
<1>7. PhaseBar[p] = "applied" /\ LeftBar' = LeftBar /\ SeenBar' = SeenBar
  BY <1>1, <1>2, <1>3, BarsOfStep DEF PhaseBar, LeftBar, SeenBar
<1> QED
  BY <1>1, <1>4, <1>5, <1>6, <1>7
  DEF Atomic!Settle, Atomic!Done, Atomic!Slot, Slot, Done,
      VaultBar, MayBar, PhaseBar, LeftBar, SeenBar, RetBar

LEMMA FailSyncDirRefines ==
  ASSUME Invs, Invs', NEW p \in Proc, FailSyncDir(p)
  PROVE  Atomic!Abort(p) \/ Atomic!Fail(p, Error)
<1>1. /\ pc[p] = "syncdir" /\ call[p].op \in {"set", "delete"} /\ Run(p)
      /\ UNCHANGED <<root, items, may, call>>
  BY DEF FailSyncDir, Return, Run, disk, Invs, TypeInv, StepOK
<1>2. CASE Return(p, Error)
  BY <1>1, <1>2, Fails
<1>3. CASE ~Return(p, Error)
  <2>1. call[p].op = "set" /\ pc'[p] = "cleanup" /\ ret'[p] = Error /\ UNCHANGED <<unread, todo, found>>
    BY <1>3, Tables DEF FailSyncDir
  <2>2. Phase(p) = "applied" /\ Phase(p)' = "failed" /\ Answer(p)' = Error
    BY <1>1, <2>1 DEF Phase, Answer, Error, Done
  <2>3. Left(p)' = Left(p) /\ Seen(p)' = Seen(p)
    BY <1>1, <2>1 DEF Left, Seen, InScope
  <2>4. VaultBar' = VaultBar /\ MayBar' = MayBar
    BY <1>1, DiskStays
  <2>5. /\ PhaseBar' = [PhaseBar EXCEPT ![p] = "failed"]
        /\ RetBar' = [RetBar EXCEPT ![p] = Error]
    BY <1>1, <2>2, BarsOfStep
  <2>6. PhaseBar[p] = "applied" /\ LeftBar' = LeftBar /\ SeenBar' = SeenBar
    BY <1>1, <2>2, <2>3, BarsOfStep DEF PhaseBar, LeftBar, SeenBar
  <2> QED
    BY <1>1, <2>4, <2>5, <2>6
    DEF Atomic!Abort, Atomic!Error, Error, VaultBar, MayBar, PhaseBar, LeftBar, SeenBar, RetBar
<1> QED
  BY <1>2, <1>3

LEMMA CleanupRefines ==
  ASSUME Invs, Invs', NEW p \in Proc, Cleanup(p)
  PROVE  Atomic!Return(p) \/ Atomic!Fail(p, Error)
<1>1. /\ pc[p] = "cleanup" /\ call[p].op = "set" /\ Run(p) /\ UNCHANGED <<root, items, may>>
      /\ Return(p, ret[p]) \/ Return(p, Error)
  BY DEF Cleanup, Run, SetCall, Writing, Invs, TypeInv, StepOK
<1>2. CASE Return(p, Error)
  BY <1>1, <1>2, Fails
<1>3. CASE Return(p, ret[p])
  <2>1. /\ Phase(p) \in {"settled", "failed"} /\ Answer(p) = ret[p]
        /\ Left(p) = {} /\ Seen(p) = {}
    BY <1>1, NoList DEF Phase, Answer
  <2> QED
    BY <1>1, <1>3, <2>1, Returns
<1> QED
  BY <1>1, <1>2, <1>3

-----------------------------------------------------------------------------
(* Get and List.                                                            *)

(* A Get that ends with the slot's answer at the instant it is read.        *)
LEMMA GetReads ==
  ASSUME Invs, Invs', NEW p \in Proc, Run(p), UNCHANGED <<root, items, may, call>>,
         Phase(p) = "called", call[p].op = "get", at[p] = call[p].slot, at[p] \in Slot,
         Left(p)' = {}, Seen(p)' = {},
         Answer(p)' = Atomic!Got(ItemIn(items[at[p]])),
         Phase(p)' = IF ItemIn(items[at[p]]) = None THEN "idle" ELSE "settled"
  PROVE  Atomic!Get(p)
<1>1. VaultBar' = VaultBar /\ MayBar' = MayBar
  BY DiskStays
<1>2. VaultBar[call[p].slot] = ItemIn(items[at[p]])
  BY DEF VaultBar
<1>3. /\ PhaseBar' = [PhaseBar EXCEPT ![p] =
                        IF VaultBar[call[p].slot] = None THEN "idle" ELSE "settled"]
      /\ RetBar' = [RetBar EXCEPT ![p] = Atomic!Got(VaultBar[call[p].slot])]
  BY <1>2, BarsOfStep
<1>4. Left(p) = {} /\ Seen(p) = {}
  BY NoList
<1>5. PhaseBar[p] = "called" /\ LeftBar' = LeftBar /\ SeenBar' = SeenBar
  BY <1>4, BarsOfStep DEF PhaseBar, LeftBar, SeenBar
<1> QED
  BY <1>1, <1>3, <1>5 DEF Atomic!Get, VaultBar, MayBar, PhaseBar, LeftBar, SeenBar, RetBar

LEMMA MissingRefines ==
  ASSUME Invs, Invs', NEW p \in Proc, Lstat(p) \/ OpenFile(p), items[at[p]] = None, Missing(p)
  PROVE  Atomic!Get(p) \/ Atomic!Fail(p, Error)
<1>1. /\ pc[p] \in {"lstat", "openfile"} /\ at[p] \in Slot
      /\ call[p].op \in {"get", "list"} /\ Run(p)
      /\ call[p].op = "get" => at[p] = call[p].slot
      /\ UNCHANGED <<root, items, may>>
  BY DEF Lstat, OpenFile, Run, disk, Invs, TypeInv, StepOK
<1>2. CASE call[p].op = "list"
  <2>1. Return(p, Error)
    BY <1>2 DEF Missing
  <2> QED
    BY <1>1, <2>1, Fails
<1>3. CASE call[p].op = "get"
  <2>1. Return(p, NotFound)
    BY <1>3 DEF Missing
  <2>2. Phase(p) = "called"
    BY <1>1, <1>3 DEF Phase
  <2>3. ItemIn(items[at[p]]) = None
    BY DEF ItemIn
  <2>4. Atomic!Got(ItemIn(items[at[p]])) = NotFound
    BY <2>3 DEF Atomic!Got, Atomic!NotFound, NotFound
  <2> QED
    BY <1>1, <1>3, <2>1, <2>2, <2>3, <2>4, ReturnBar, GetReads
<1> QED
  BY <1>1, <1>2, <1>3

LEMMA LstatRefines ==
  ASSUME Invs, Invs', NEW p \in Proc, Lstat(p)
  PROVE  Atomic!Get(p) \/ Atomic!Fail(p, Error) \/ UNCHANGED Atomic!vars
<1>1. CASE items[at[p]] = None
  BY <1>1, MissingRefines DEF Lstat
<1>2. CASE items[at[p]] # None
  <2>1. /\ pc[p] = "lstat" /\ pc'[p] = "openfile" /\ Run(p)
        /\ UNCHANGED <<root, items, may, call, at, unread, todo, found, ret>>
    BY <1>2, Tables DEF Lstat, Run, disk
  <2>2. /\ Phase(p)' = Phase(p) /\ Left(p)' = Left(p)
        /\ Seen(p)' = Seen(p) /\ Answer(p)' = Answer(p)
    BY <2>1 DEF Phase, Left, Seen, Answer, InScope
  <2> QED
    BY <2>1, <2>2, Stutters
<1> QED
  BY <1>1, <1>2

(* A List that opens an entry of its scope has the kind it reports of it.   *)
LEMMA ListOpens ==
  ASSUME Invs, Invs', NEW p \in Proc, Run(p), UNCHANGED <<root, items, may, call, data>>,
         pc[p] = "openfile", pc'[p] = "read", call[p] \in ListCall, at[p] \in Slot,
         items[at[p]] = file[p], file[p] # None, UNCHANGED <<at, file, unread, found, ret>>,
         todo' = [todo EXCEPT ![p] = @ \ {at[p]}]
  PROVE  Atomic!Report(p, at[p]) \/ UNCHANGED Atomic!vars
<1>0. call[p].op = "list" /\ call[p] # None
  BY AbsenceAssumption DEF ListCall, Call
<1>1. Phase(p) = "applied" /\ Phase(p)' = "applied" /\ Answer(p)' = Answer(p)
  BY <1>0 DEF Phase, Answer
<1>2. at[p] \in todo[p] /\ todo'[p] = todo[p] \ {at[p]} /\ unread[p] = {}
  BY <1>0, Tables DEF Invs, ReadInv, ReaderOK
<1>3. Left(p) = InScope(p, todo[p]) /\ Left(p)' = InScope(p, todo[p] \ {at[p]})
  BY <1>0, <1>2 DEF Left, InScope
<1>4. /\ Seen(p) = found[p]
      /\ Seen(p)' = found[p] \cup {[slot |-> s, kind |-> data[file[p]].kind] : s \in InScope(p, {at[p]})}
  BY <1>0 DEF Seen, InScope
<1>5. CASE at[p].scope # call[p].scope
  <2>1. Left(p)' = Left(p) /\ Seen(p)' = Seen(p)
    BY <1>3, <1>4, <1>5 DEF InScope
  <2> QED
    BY <1>1, <2>1, Stutters
<1>6. CASE at[p].scope = call[p].scope
  <2>1. /\ at[p] \in Left(p) /\ Left(p)' = Left(p) \ {at[p]}
        /\ Seen(p)' = Seen(p) \cup {[slot |-> at[p], kind |-> data[file[p]].kind]}
    BY <1>2, <1>3, <1>4, <1>6 DEF InScope
  <2>2. VaultBar[at[p]] # None /\ VaultBar[at[p]].kind = data[file[p]].kind
    <3>1. VaultBar[at[p]] = ItemIn(file[p]) /\ data[file[p]] # Torn
      BY Entries, TornAssumption DEF VaultBar, Entry, Invs, WholeInv, NamesOK
    <3> QED
      BY <3>1, ItemOfName DEF ItemIn
  <2>3. VaultBar' = VaultBar /\ MayBar' = MayBar
    BY DiskStays
  <2>4. /\ at[p] \in LeftBar[p]
        /\ LeftBar' = [LeftBar EXCEPT ![p] = @ \ {at[p]}]
        /\ SeenBar' = [SeenBar EXCEPT ![p] =
                         @ \cup {[slot |-> at[p], kind |-> VaultBar[at[p]].kind]}]
    <3>1. LeftBar[p] = Left(p) /\ SeenBar[p] = Seen(p)
      BY DEF LeftBar, SeenBar
    <3>2. LeftBar' = [LeftBar EXCEPT ![p] = Left(p)'] /\ SeenBar' = [SeenBar EXCEPT ![p] = Seen(p)']
      BY BarsOfStep
    <3> QED
      BY <2>1, <2>2, <3>1, <3>2
  <2>5. PhaseBar[p] = "applied" /\ PhaseBar' = PhaseBar /\ RetBar' = RetBar
    BY <1>1, BarsOfStep DEF PhaseBar, RetBar
  <2> QED
    BY <2>2, <2>3, <2>4, <2>5
    DEF Atomic!Report, VaultBar, MayBar, PhaseBar, LeftBar, SeenBar, RetBar
<1> QED
  BY <1>5, <1>6

LEMMA OpenFileRefines ==
  ASSUME Invs, Invs', NEW p \in Proc, OpenFile(p)
  PROVE  \/ Atomic!Get(p) \/ Atomic!Fail(p, Error) \/ \E s \in Slot : Atomic!Report(p, s)
         \/ UNCHANGED Atomic!vars
<1>1. /\ pc[p] = "openfile" /\ at[p] \in Slot /\ file[p] \in File
      /\ call[p] \in Call /\ call[p].op \in {"get", "list"} /\ Run(p)
      /\ call[p].op = "get" => at[p] = call[p].slot
      /\ UNCHANGED <<root, items, may, data>>
  BY DEF OpenFile, Run, disk, Invs, TypeInv, StepOK
<1>2. CASE items[at[p]] = None
  <2>1. Missing(p)
    BY <1>1, <1>2, NoneAssumption DEF OpenFile
  <2> QED
    BY <1>2, <2>1, MissingRefines
<1>3. CASE items[at[p]] \notin {None, file[p]}
  <2>1. Return(p, Error)
    BY <1>3 DEF OpenFile
  <2> QED
    BY <1>1, <2>1, Fails
<1>4. CASE items[at[p]] = file[p] /\ file[p] # None
  <2>1. /\ todo' = [todo EXCEPT ![p] = @ \ {at[p]}]
        /\ pc'[p] = "read" /\ UNCHANGED <<call, at, file, unread, found, ret>>
    BY <1>4, Tables DEF OpenFile
  <2>2. CASE call[p].op = "list"
    BY <1>1, <1>4, <2>1, <2>2, ListOpens, CallFields
  <2>3. CASE call[p].op = "get"
    <3>1. Phase(p) = "called" /\ Phase(p)' = "settled"
      BY <1>1, <2>1, <2>3 DEF Phase
    <3>2. Left(p)' = {} /\ Seen(p)' = {}
      <4>1. todo[p] = {} /\ found[p] = {} /\ unread[p] = {}
        BY <1>1, <2>3 DEF Invs, ReadInv, ReaderOK
      <4> QED
        BY <2>1, <2>3, <4>1 DEF Left, Seen, InScope
    <3>3. ItemIn(items[at[p]]) # None
      BY <1>1, <1>4, ItemOfName
    <3>4. Entry(file[p], at[p]) /\ data[file[p]] # Torn
      BY <1>1, <1>4, Entries, TornAssumption DEF Entry, Invs, WholeInv, NamesOK
    <3>5. Decoded(data[file[p]], at[p]) = Got(data[file[p]].kind, data[file[p]].value)
      BY <3>4 DEF Entry, Decoded
    <3>6. Atomic!Got(ItemIn(items[at[p]])) = Got(data[file[p]].kind, data[file[p]].value)
      BY <1>4, <3>3, <3>4 DEF ItemIn, Atomic!Got, Got
    <3>7. Answer(p)' = Decoded(data[file[p]], at[p])
      BY <1>1, <2>1, <2>3 DEF Answer, Decoded
    <3> QED
      BY <1>1, <2>1, <2>3, <3>1, <3>2, <3>3, <3>5, <3>6, <3>7, GetReads
  <2> QED
    BY <1>1, <2>2, <2>3
<1> QED
  BY <1>2, <1>3, <1>4

LEMMA ReadItemRefines ==
  ASSUME Invs, Invs', NEW p \in Proc, ReadItem(p)
  PROVE  Atomic!Return(p)
<1>1. /\ pc[p] = "read" /\ call[p].op = "get" /\ Run(p) /\ UNCHANGED <<root, items, may>>
      /\ Return(p, Decoded(data[file[p]], at[p]))
  BY DEF ReadItem, Run, disk
<1>2. /\ Phase(p) = "settled" /\ Answer(p) = Decoded(data[file[p]], at[p])
      /\ Left(p) = {} /\ Seen(p) = {}
  BY <1>1, NoList DEF Phase, Answer
<1> QED
  BY <1>1, <1>2, Returns

(* A name that is read and not there is one whose slot is empty.            *)
LEMMA ReadDirRefines ==
  ASSUME Invs, Invs', NEW p \in Proc, ReadDir(p)
  PROVE  \E empty \in SUBSET Slot : Atomic!Skip(p, empty)
<1>1. PICK names \in SUBSET unread[p] :
        /\ todo' = [todo EXCEPT ![p] = @ \cup (names \cap Present)]
        /\ unread' = [unread EXCEPT ![p] = @ \ names]
        /\ Goto(p, IF names = unread[p] THEN "next" ELSE "readdir")
  BY DEF ReadDir
<1> DEFINE empty == InScope(p, names \ Present)
<1>2. /\ pc[p] = "readdir" /\ pc'[p] \in {"next", "readdir"} /\ Run(p)
      /\ call[p].op = "list" /\ call[p] # None
      /\ UNCHANGED <<root, items, may, call, at, file, found, ret>>
      /\ unread'[p] = unread[p] \ names /\ todo'[p] = todo[p] \cup (names \cap Present)
      /\ names \subseteq Slot /\ unread[p] \cap todo[p] = {}
  <2>1. pc[p] = "readdir" /\ call[p] \in ListCall /\ call[p] \in Call /\ Run(p)
    BY DEF ReadDir, Run, Invs, TypeInv, StepOK
  <2>2. call[p].op = "list" /\ call[p] # None
    BY <2>1, AbsenceAssumption DEF ListCall
  <2>3. UNCHANGED <<root, items, may, call, at, file, found, ret>>
    BY DEF ReadDir, disk
  <2>4. names \subseteq Slot /\ unread[p] \cap todo[p] = {}
    BY Tables DEF Invs, ReadInv, ReaderOK
  <2> QED
    BY <1>1, <2>1, <2>2, <2>3, <2>4, Tables
<1>3. Phase(p) = "applied" /\ Phase(p)' = Phase(p) /\ Seen(p)' = Seen(p) /\ Answer(p)' = Answer(p)
  BY <1>2 DEF Phase, Seen, Answer
<1>4. Left(p) = InScope(p, unread[p] \cup todo[p])
  BY <1>2 DEF Left
<1>5. Left(p)' = InScope(p, (unread[p] \ names) \cup (todo[p] \cup (names \cap Present)))
  BY <1>2 DEF Left, InScope
<1>6. Left(p)' = Left(p) \ empty /\ empty \subseteq Left(p) /\ empty \in SUBSET Slot
  BY <1>1, <1>2, <1>4, <1>5 DEF InScope
<1>7. \A s \in empty : VaultBar[s] = None
  BY <1>2 DEF VaultBar, ItemIn, InScope, Present
<1>8. VaultBar' = VaultBar /\ MayBar' = MayBar
  BY <1>2, DiskStays
<1>9. LeftBar[p] = Left(p) /\ LeftBar' = [LeftBar EXCEPT ![p] = @ \ empty]
  <2>1. LeftBar[p] = Left(p)
    BY DEF LeftBar
  <2>2. LeftBar' = [LeftBar EXCEPT ![p] = Left(p)']
    BY <1>2, BarsOfStep
  <2> HIDE DEF empty
  <2> QED
    BY <1>6, <2>1, <2>2
<1>10. PhaseBar[p] = "applied" /\ PhaseBar' = PhaseBar /\ SeenBar' = SeenBar /\ RetBar' = RetBar
  BY <1>2, <1>3, BarsOfStep DEF PhaseBar, SeenBar, RetBar
<1> HIDE DEF empty
<1>11. Atomic!Skip(p, empty)
  BY <1>2, <1>6, <1>7, <1>8, <1>9, <1>10
  DEF Atomic!Skip, VaultBar, MayBar, PhaseBar, LeftBar, SeenBar, RetBar
<1> QED
  BY <1>6, <1>11

LEMMA NextEntryRefines ==
  ASSUME Invs, Invs', NEW p \in Proc, NextEntry(p)
  PROVE  Atomic!ReturnList(p) \/ UNCHANGED Atomic!vars
<1>1. /\ pc[p] = "next" /\ Run(p) /\ call[p].op = "list"
      /\ UNCHANGED <<root, items, may>>
  BY DEF NextEntry, Run, disk, ListCall, Invs, TypeInv, StepOK
<1>2. CASE Return(p, Listed(found[p])) /\ todo[p] = {}
  <2>1. Phase(p) = "applied" /\ Left(p) = {} /\ Seen(p) = found[p]
    <3>1. unread[p] = {}
      BY <1>1 DEF Invs, ReadInv, ReaderOK
    <3> QED
      BY <1>1, <1>2, <3>1 DEF Phase, Left, Seen, InScope
  <2>2. /\ Phase(p)' = "idle" /\ Left(p)' = {} /\ Seen(p)' = {}
        /\ Answer(p)' = Listed(Seen(p)) /\ call' = call
    BY <1>2, <2>1, ReturnBar
  <2>3. VaultBar' = VaultBar /\ MayBar' = MayBar
    BY <1>1, DiskStays
  <2>4. /\ PhaseBar' = [PhaseBar EXCEPT ![p] = "idle"]
        /\ SeenBar' = [SeenBar EXCEPT ![p] = {}]
        /\ RetBar' = [RetBar EXCEPT ![p] = Listed(Seen(p))]
    BY <1>1, <2>2, BarsOfStep
  <2>5. /\ PhaseBar[p] = "applied" /\ LeftBar[p] = {} /\ SeenBar[p] = Seen(p)
        /\ LeftBar' = LeftBar
    BY <1>1, <2>1, <2>2, BarsOfStep DEF PhaseBar, LeftBar, SeenBar
  <2> QED
    BY <1>1, <2>2, <2>3, <2>4, <2>5
    DEF Atomic!ReturnList, Atomic!Listed, Listed,
        VaultBar, MayBar, PhaseBar, LeftBar, SeenBar, RetBar
<1>3. CASE ~(Return(p, Listed(found[p])) /\ todo[p] = {})
  <2>1. pc'[p] = "lstat" /\ UNCHANGED <<call, unread, todo, found, ret>>
    BY <1>3, Tables DEF NextEntry
  <2>2. /\ Phase(p)' = Phase(p) /\ Left(p)' = Left(p)
        /\ Seen(p)' = Seen(p) /\ Answer(p)' = Answer(p)
    BY <1>1, <2>1 DEF Phase, Left, Seen, Answer, InScope
  <2> QED
    BY <1>1, <2>1, <2>2, Stutters
<1> QED
  BY <1>2, <1>3

LEMMA ReadEntryRefines ==
  ASSUME Invs, Invs', NEW p \in Proc, ReadEntry(p)
  PROVE  Atomic!Fail(p, Error) \/ UNCHANGED Atomic!vars
<1>1. /\ pc[p] = "read" /\ call[p].op = "list" /\ Run(p) /\ UNCHANGED <<root, items, may>>
  BY DEF ReadEntry, Run, disk
<1>2. CASE Return(p, Error)
  BY <1>1, <1>2, Fails
<1>3. CASE ~Return(p, Error)
  <2> DEFINE d == data[file[p]]
             skip == d # Torn /\ d.slot.scope # call[p].scope
  <2>1. /\ found' = [found EXCEPT ![p] =
                       IF skip THEN @ ELSE @ \cup {[slot |-> d.slot, kind |-> d.kind]}]
        /\ pc'[p] = "next" /\ UNCHANGED <<call, unread, todo, ret>>
    BY <1>3, Tables DEF ReadEntry
  <2>2. d # Torn /\ d.slot = at[p]
    BY <1>1, TornAssumption DEF Invs, ReadInv, ReaderOK, Entry
  <2>3. found'[p] = IF skip THEN found[p] ELSE found[p] \cup {[slot |-> at[p], kind |-> d.kind]}
    BY <2>1, <2>2, Tables
  <2>4. Seen(p) = found[p] \cup {[slot |-> s, kind |-> d.kind] : s \in InScope(p, {at[p]})}
    BY <1>1 DEF Seen
  <2>5. Seen(p)' = found'[p]
    BY <2>1 DEF Seen
  <2>6. Seen(p)' = Seen(p)
    <3>1. CASE skip
      <4>1. InScope(p, {at[p]}) = {}
        BY <2>2, <3>1 DEF InScope
      <4> QED
        BY <2>3, <2>4, <2>5, <3>1, <4>1
    <3>2. CASE ~skip
      <4>1. InScope(p, {at[p]}) = {at[p]}
        BY <2>2, <3>2 DEF InScope
      <4> QED
        BY <2>3, <2>4, <2>5, <3>2, <4>1
    <3> QED
      BY <3>1, <3>2
  <2>7. Phase(p)' = Phase(p) /\ Left(p)' = Left(p) /\ Answer(p)' = Answer(p)
    BY <1>1, <2>1 DEF Phase, Left, Answer, InScope
  <2> QED
    BY <1>1, <2>1, <2>6, <2>7, Stutters
<1> QED
  BY <1>2, <1>3

-----------------------------------------------------------------------------
(* Delete: its instant is the unlinking.                                    *)

LEMMA InspectRefines ==
  ASSUME Invs, Invs', NEW p \in Proc, Inspect(p)
  PROVE  Atomic!NothingToDelete(p) \/ UNCHANGED Atomic!vars
<1>1. /\ pc[p] = "inspect" /\ call[p].op = "delete" /\ Run(p) /\ UNCHANGED <<root, items, may>>
      /\ at[p] = call[p].slot /\ call[p].slot \in Slot
  BY CallFields DEF Inspect, Run, disk, Invs, TypeInv, StepOK
<1>2. Phase(p) = "called" /\ Left(p) = {} /\ Seen(p) = {}
  BY <1>1, NoList DEF Phase
<1>3. CASE items[at[p]] = None
  <2>1. Return(p, Done)
    BY <1>3 DEF Inspect
  <2>2. /\ Phase(p)' = "idle" /\ Left(p)' = {} /\ Seen(p)' = {} /\ Answer(p)' = Done
        /\ call' = call
    BY <2>1, ReturnBar
  <2>3. VaultBar' = VaultBar /\ MayBar' = MayBar
    BY <1>1, DiskStays
  <2>4. VaultBar[call[p].slot] = None
    BY <1>1, <1>3 DEF VaultBar, ItemIn
  <2>5. /\ PhaseBar' = [PhaseBar EXCEPT ![p] = "idle"]
        /\ RetBar' = [RetBar EXCEPT ![p] = Done]
    BY <1>1, <2>2, BarsOfStep
  <2>6. PhaseBar[p] = "called" /\ LeftBar' = LeftBar /\ SeenBar' = SeenBar
    BY <1>1, <1>2, <2>2, BarsOfStep DEF PhaseBar, LeftBar, SeenBar
  <2> QED
    BY <1>1, <2>2, <2>3, <2>4, <2>5, <2>6
    DEF Atomic!NothingToDelete, Atomic!Done, Done,
        VaultBar, MayBar, PhaseBar, LeftBar, SeenBar, RetBar
<1>4. CASE items[at[p]] # None
  <2>1. pc'[p] = "unlink" /\ UNCHANGED <<call, unread, todo, found, ret>>
    BY <1>4, Tables DEF Inspect
  <2>2. /\ Phase(p)' = Phase(p) /\ Left(p)' = Left(p)
        /\ Seen(p)' = Seen(p) /\ Answer(p)' = Answer(p)
    BY <1>1, <2>1 DEF Phase, Left, Seen, Answer, InScope
  <2> QED
    BY <1>1, <2>1, <2>2, Stutters
<1> QED
  BY <1>3, <1>4

LEMMA UnlinkRefines ==
  ASSUME Invs, Invs', NEW p \in Proc, Unlink(p)
  PROVE  Atomic!Delete(p) \/ Atomic!Fail(p, Error)
<1> DEFINE s == call[p].slot
<1>1. /\ pc[p] = "unlink" /\ call[p].op = "delete" /\ Run(p) /\ UNCHANGED <<root, data>>
      /\ at[p] = s /\ s \in Slot
  BY CallFields DEF Unlink, Run, Invs, TypeInv, StepOK
<1>2. CASE items[s] = None
  <2>1. Return(p, Error) /\ UNCHANGED <<items, may>>
    BY <1>1, <1>2 DEF Unlink
  <2> QED
    BY <1>1, <2>1, Fails
<1>3. CASE items[s] # None
  <2>1. /\ items' = [items EXCEPT ![s] = None]
        /\ may' = [may EXCEPT ![s] = @ \cup {None}]
        /\ pc'[p] = "syncdir" /\ UNCHANGED <<call, at, file, unread, todo, found, ret>>
    BY <1>1, <1>3, Tables DEF Unlink
  <2>2. \A f : ItemIn(f)' = ItemIn(f)
    BY <1>1 DEF ItemIn
  <2>3. VaultBar' = [VaultBar EXCEPT ![s] = None]
    <3>1. ItemIn(None) = None
      BY DEF ItemIn
    <3> QED
      BY <1>1, <2>1, <2>2, <3>1, Tables DEF VaultBar
  <2>4. MayBar' = [MayBar EXCEPT ![s] = @ \cup {None}]
    <3>1. \A t \in Slot : Survivors(t)' = {ItemIn(f)' : f \in may'[t]}
      BY DEF Invs, WholeInv, NamesOK, Survivors
    <3>2. ASSUME NEW t \in Slot
          PROVE  Survivors(t)' = IF t = s THEN Survivors(t) \cup {None} ELSE Survivors(t)
      <4>1. Survivors(t)' = {ItemIn(f) : f \in may'[t]} /\ Survivors(t) = {ItemIn(f) : f \in may[t]}
        BY <2>2, <3>1, SurvivorsAre
      <4>2. may'[t] = IF t = s THEN may[t] \cup {None} ELSE may[t]
        BY <1>1, <2>1, Tables
      <4>3. ItemIn(None) = None
        BY DEF ItemIn
      <4> HIDE DEF s
      <4> QED
        BY <4>1, <4>2, <4>3
    <3> QED
      BY <1>1, <3>2 DEF MayBar
  <2>5. VaultBar[s] # None
    BY <1>1, <1>3, ItemOfName DEF VaultBar
  <2>6. Phase(p) = "called" /\ Phase(p)' = "applied"
    BY <1>1, <2>1 DEF Phase
  <2>7. Left(p)' = Left(p) /\ Seen(p)' = Seen(p) /\ Answer(p)' = Answer(p)
    BY <1>1, <2>1 DEF Left, Seen, Answer, InScope
  <2>8. /\ PhaseBar[p] = "called" /\ PhaseBar' = [PhaseBar EXCEPT ![p] = "applied"]
        /\ LeftBar' = LeftBar /\ SeenBar' = SeenBar /\ RetBar' = RetBar
    BY <1>1, <2>6, <2>7, BarsOfStep DEF PhaseBar, LeftBar, SeenBar, RetBar
  <2> HIDE DEF s
  <2> QED
    BY <1>1, <2>1, <2>3, <2>4, <2>5, <2>8
    DEF Atomic!Delete, s, VaultBar, MayBar, PhaseBar, LeftBar, SeenBar, RetBar
<1> QED
  BY <1>2, <1>3

LEMMA FailRefines ==
  ASSUME Invs, Invs', NEW p \in Proc, Fail(p) \/ Kill(p)
  PROVE  \E r \in {Error, Pending} : Atomic!Fail(p, r)
<1>1. pc[p] # "idle" /\ UNCHANGED <<root, items, may>> /\ (Run(p) \/ Kill(p))
  BY DEF Fail, Kill, Run, disk
<1>2. PICK r \in {Error, Pending} : Return(p, r)
  BY DEF Fail, Kill
<1> QED
  BY <1>1, <1>2, Fails

-----------------------------------------------------------------------------
(* A power loss.                                                            *)

LEMMA CrashRefines ==
  ASSUME Invs, Invs', Crash
  PROVE  Atomic!Crash
<1>1. /\ PhaseBar' = [p \in Proc |-> "idle"] /\ LeftBar' = [p \in Proc |-> {}]
      /\ SeenBar' = [p \in Proc |-> {}] /\ RetBar' = [p \in Proc |-> Pending]
      /\ call' = [p \in Proc |-> None]
  BY DEF Crash, PhaseBar, LeftBar, SeenBar, RetBar, Phase, Left, Seen, Answer
<1>2. MayBar' = [s \in Slot |-> {VaultBar'[s]}]
  <2>1. \A s \in Slot : Survivors(s)' = {ItemIn(f)' : f \in may'[s]}
    BY DEF Invs, WholeInv, NamesOK, Survivors
  <2>2. \A s \in Slot : may'[s] = {items'[s]}
    BY DEF Crash
  <2> QED
    BY <2>1, <2>2 DEF MayBar, VaultBar
<1>3. CASE root = "cached" /\ root' = "none" /\ items' = [s \in Slot |-> None]
  <2>1. VaultBar' = [s \in Slot |-> None]
    BY <1>3 DEF VaultBar, ItemIn
  <2> QED
    BY <1>1, <1>2, <1>3, <2>1
    DEF Atomic!Crash, Atomic!Slot, Atomic!Pending, Slot, Pending,
        VaultBar, MayBar, PhaseBar, LeftBar, SeenBar, RetBar
<1>4. CASE /\ root' = IF root = "cached" THEN "stored" ELSE root
           /\ \A s \in Slot : items'[s] \in may[s]
           /\ \E torn \in SUBSET {f \in File \ synced : \E s \in Slot : items'[s] = f} :
                data' = [f \in File |-> IF f \in torn THEN Torn ELSE data[f]]
  <2>1. \A s \in Slot : items'[s] # None => data'[items'[s]] = data[items'[s]]
    BY <1>4, Entries
  <2>2. \A s \in Slot : VaultBar'[s] = ItemIn(items'[s])
    BY <2>1 DEF VaultBar, ItemIn
  <2>3. \A s \in Slot : VaultBar'[s] \in MayBar[s]
    BY <1>4, <2>2, SurvivorsAre DEF MayBar
  <2>4. CASE root = "none"
    <3>1. \A s \in Slot : items[s] = None /\ may[s] = {None}
      BY <2>4 DEF Invs, ReadInv, Empty
    <3>2. \A s \in Slot : items'[s] = None
      BY <1>4, <3>1
    <3>3. VaultBar' = VaultBar /\ \A s \in Slot : MayBar[s] = {None}
      BY <3>1, <3>2, SurvivorsAre DEF VaultBar, MayBar, ItemIn
    <3>4. root' = root
      BY <1>4, <2>4
    <3> QED
      BY <1>1, <1>2, <3>3, <3>4
      DEF Atomic!Crash, Atomic!Slot, Atomic!Pending, Slot, Pending,
          VaultBar, MayBar, PhaseBar, LeftBar, SeenBar, RetBar
  <2>5. CASE root # "none"
    <3>1. root' = "stored"
      BY <1>4, <2>5 DEF Invs, TypeInv, TypeOK
    <3>2. VaultBar' \in [Slot -> Item \cup {None}]
      <4>1. \A s \in Slot : ItemIn(items[s])' \in Item \cup {None}
        <5>1. \A s \in Slot : items'[s] # None => data'[items'[s]] \in Record
          BY DEF Invs, WholeInv, NamesOK, ReadInv, Holds
        <5>2. \A d \in Record : d # Torn /\ [kind |-> d.kind, value |-> d.value] \in Item
          BY TornAssumption DEF Record, Item
        <5> QED
          BY <5>1, <5>2 DEF ItemIn
      <4> QED
        BY <4>1 DEF VaultBar
    <3> QED
      BY <1>1, <1>2, <2>3, <3>1, <3>2
      DEF Atomic!Crash, Atomic!Slot, Atomic!Item, Atomic!Pending, Slot, Item, Pending,
          VaultBar, MayBar, PhaseBar, LeftBar, SeenBar, RetBar
  <2> QED
    BY <2>4, <2>5
<1> QED
  BY <1>3, <1>4 DEF Crash

-----------------------------------------------------------------------------
(* The theorem.                                                             *)

LEMMA RunRefines ==
  ASSUME Invs, Invs', NEW p \in Proc, Run(p)
  PROVE  [Atomic!Next]_Atomic!vars
<1>1. \/ /\ \/ Atomic!Set(p) \/ Atomic!Delete(p) \/ Atomic!Settle(p) \/ Atomic!NothingToDelete(p)
            \/ Atomic!Get(p) \/ Atomic!Look(p) \/ Atomic!NothingToList(p) \/ Atomic!ReturnList(p)
            \/ Atomic!Return(p) \/ Atomic!Abort(p)
            \/ \E empty \in SUBSET Slot : Atomic!Skip(p, empty)
            \/ \E s \in Slot : Atomic!Report(p, s)
            \/ \E r \in {Error, Pending} : Atomic!Fail(p, r)
      \/ UNCHANGED Atomic!vars
  BY OpenItemsRefines, CreateTempRefines, WriteRefines, RenameRefines, FailWritingRefines,
     SyncDirRefines, FailSyncDirRefines, CleanupRefines, LstatRefines, OpenFileRefines,
     ReadItemRefines, ReadDirRefines, NextEntryRefines, ReadEntryRefines, InspectRefines,
     UnlinkRefines, FailRefines DEF Run
<1>2. Atomic!Slot = Slot /\ Atomic!Error = Error /\ Atomic!Pending = Pending
  BY DEF Atomic!Slot, Slot, Atomic!Error, Error, Atomic!Pending, Pending
<1> QED
  BY <1>1, <1>2 DEF Atomic!Next

LEMMA InitRefines == Init => Atomic!Init
<1> SUFFICES ASSUME Init PROVE Atomic!Init
  OBVIOUS
<1>1. VaultBar = [s \in Slot |-> None]
  BY DEF Init, VaultBar, ItemIn
<1>2. MayBar = [s \in Slot |-> {None}]
  <2>1. ItemIn(None) = None
    BY DEF ItemIn
  <2>2. \A s \in Slot : may[s] = {None} /\ synced = {}
    BY DEF Init
  <2> QED
    BY <2>1, <2>2 DEF MayBar, Survivors
<1>3. /\ PhaseBar = [p \in Proc |-> "idle"] /\ LeftBar = [p \in Proc |-> {}]
      /\ SeenBar = [p \in Proc |-> {}] /\ RetBar = [p \in Proc |-> Pending]
  BY DEF Init, PhaseBar, LeftBar, SeenBar, RetBar, Phase, Left, Seen, Answer
<1>4. (root = "stored") \in BOOLEAN /\ call = [p \in Proc |-> None]
  BY DEF Init
<1> QED
  BY <1>1, <1>2, <1>3, <1>4
  DEF Atomic!Init, Atomic!Slot, Atomic!Pending, Slot, Pending,
      VaultBar, MayBar, PhaseBar, LeftBar, SeenBar, RetBar

LEMMA NextRefines ==
  ASSUME MaxDamage = 0
  PROVE  Invs /\ Invs' /\ [Next]_vars => [Atomic!Next]_Atomic!vars
<1> SUFFICES ASSUME Invs, Invs', [Next]_vars
             PROVE  [Atomic!Next]_Atomic!vars
  OBVIOUS
<1>1. ~\E s \in Slot : Damage(s)
  BY DEF Damage, Invs, TypeInv, TypeOK
<1>2. ASSUME NEW p \in Proc, NEW c \in Call, Begin(p, c)
      PROVE  Atomic!Next
  <2>1. Call = Atomic!Call
    BY DEF Call, SetCall, SlotCall, ListCall, Slot, Atomic!Call, Atomic!Slot
  <2> QED
    BY <1>2, <2>1, BeginRefines DEF Atomic!Next
<1>3. ASSUME NEW p \in Proc, Kill(p)
      PROVE  Atomic!Next
  <2>1. Atomic!Error = Error /\ Atomic!Pending = Pending
    BY DEF Atomic!Error, Error, Atomic!Pending, Pending
  <2> QED
    BY <1>3, <2>1, FailRefines DEF Atomic!Next
<1>4. CASE Crash
  BY <1>4, CrashRefines DEF Atomic!Next
<1>5. CASE UNCHANGED vars
  <2>1. UNCHANGED <<root, items, may, data, synced, pc, call, at, file, unread, todo, found, ret>>
    BY <1>5 DEF vars, disk, self
  <2> QED
    BY <2>1 DEF Atomic!vars, ItemIn, Survivors, Phase, Left, Seen, Answer, InScope, Decoded
<1> QED
  BY <1>1, <1>2, <1>3, <1>4, <1>5, RunRefines DEF Next

(* The store is an atomic vault: whatever processes interleave, fail, die   *)
(* or lose power, what the callers of Set, Get, List and Delete are told,   *)
(* and what a power loss can undo, is what AtomicVault allows.              *)
THEOREM RefinesAtomic ==
  ASSUME MaxDamage = 0
  PROVE  Spec => IsAtomic
<1>1. Init => Invs
  BY TypeInvInit, WholeInvInit, ReadInvInit DEF Invs
<1>2. Invs /\ [Next]_vars => Invs'
  BY InvsNext
<1>3. Invs /\ Invs' /\ [Next]_vars => [Atomic!Next]_Atomic!vars
  BY NextRefines
<1>4. Init => Atomic!Init
  BY InitRefines
<1> QED
  BY <1>1, <1>2, <1>3, <1>4, PTL DEF Spec, IsAtomic, Atomic!Spec
=============================================================================
