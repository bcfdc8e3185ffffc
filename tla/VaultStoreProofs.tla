--------------------------- MODULE VaultStoreProofs ---------------------------
(* Proofs about VaultStore, for every number of processes, slots, values    *)
(* and files and for every bound.                                           *)
EXTENDS VaultStore, TLAPS

(* What the step a process is at says of its operation.                     *)
StepOK(p) ==
  /\ pc[p] # "idle" => call[p] \in Call
  /\ pc[p] \in Writing \cup {"create", "cleanup"} => call[p] \in SetCall
  /\ pc[p] \in {"inspect", "unlink"} => call[p].op = "delete"
  /\ pc[p] = "syncdir" => call[p].op \in {"set", "delete"}
  /\ pc[p] \in {"readdir", "next"} => call[p] \in ListCall
  /\ pc[p] \in {"lstat", "openfile", "read"} =>
       at[p] \in Slot /\ call[p].op \in {"get", "list"}
  /\ pc[p] # "idle" /\ call[p].op # "list" => at[p] = call[p].slot
  /\ pc[p] \in Writing \cup {"openfile", "read"} => file[p] \in File
  /\ pc[p] = "syncdir" /\ call[p].op = "set" => file[p] \in File

TypeInv ==
  /\ TypeOK
  /\ \A p \in Proc : StepOK(p)

LEMMA CallFields ==
  ASSUME NEW c \in Call
  PROVE  /\ c.op \in {"set", "get", "delete", "list"}
         /\ c.op = "set" => c \in SetCall /\ c.slot \in Slot /\ c.kind \in Kind /\ c.value \in Value
         /\ c.op \in {"get", "delete"} => c \in SlotCall /\ c.slot \in Slot
         /\ c.op = "list" => c \in ListCall
BY DEF Call, SetCall, SlotCall, ListCall

LEMMA RecordType ==
  ASSUME NEW c \in SetCall
  PROVE  /\ RecordOf(c) \in Record
         /\ [kind |-> c.kind, value |-> c.value] \in Item
BY DEF SetCall, RecordOf, Record, Item

LEMMA ResultType ==
  /\ Pending \in Result /\ Done \in Result /\ NotFound \in Result /\ Error \in Result
  /\ \A k \in Kind, v \in Value : Got(k, v) \in Result
  /\ \A ms \in SUBSET Metadata : Listed(ms) \in Result
BY DEF Result, Got, Listed

LEMMA ReturnType ==
  ASSUME TypeInv, NEW p \in Proc, NEW r \in Result, Return(p, r)
  PROVE  /\ pc' \in [Proc -> Step] /\ at' \in [Proc -> Slot \cup {None}]
         /\ file' \in [Proc -> File \cup {None}]
         /\ unread' \in [Proc -> SUBSET Slot] /\ todo' \in [Proc -> SUBSET Slot]
         /\ found' \in [Proc -> SUBSET Metadata] /\ ret' \in [Proc -> Result]
         /\ call' = call
         /\ \A q \in Proc : q # p => /\ pc'[q] = pc[q] /\ at'[q] = at[q]
                                     /\ file'[q] = file[q]
         /\ pc'[p] = "idle"
         /\ \A q \in Proc : StepOK(q)'
<1>1. /\ pc' \in [Proc -> Step] /\ at' \in [Proc -> Slot \cup {None}]
      /\ file' \in [Proc -> File \cup {None}]
      /\ unread' \in [Proc -> SUBSET Slot] /\ todo' \in [Proc -> SUBSET Slot]
      /\ found' \in [Proc -> SUBSET Metadata] /\ ret' \in [Proc -> Result]
      /\ call' = call
  BY DEF TypeInv, TypeOK, Return, Step, Holding, Writing
<1>2. /\ \A q \in Proc : q # p => /\ pc'[q] = pc[q] /\ at'[q] = at[q]
                                  /\ file'[q] = file[q]
      /\ pc'[p] = "idle"
  BY DEF TypeInv, TypeOK, Return
<1>3. \A q \in Proc : StepOK(q)'
  BY <1>1, <1>2 DEF TypeInv, StepOK, Writing
<1> QED
  BY <1>1, <1>2, <1>3

LEMMA FaultType ==
  ASSUME TypeInv, Fault \/ UNCHANGED used
  PROVE  used' \in [calls : Nat, faults : Nat, crashes : Nat, damage : Nat]
BY DEF Fault, TypeInv, TypeOK

LEMMA TypeInvInit == Init => TypeInv
BY DEF Init, TypeInv, TypeOK, StepOK, Step, Holding, Writing, Result, Slot

-----------------------------------------------------------------------------
(* Type correctness is preserved, action by action.                         *)

USE DEF At, Goto, NoRet, Op

LEMMA BeginType ==
  ASSUME TypeInv, NEW p \in Proc, NEW c \in Call, Begin(p, c)
  PROVE  TypeInv'
<1>1. TypeOK'
  BY CallFields, ResultType DEF TypeInv, TypeOK, Begin, Present, Step, Item, disk
<1>2. \A q \in Proc : StepOK(q)'
  BY CallFields, <1>1 DEF TypeInv, TypeOK, StepOK, Begin, Writing
<1> QED
  BY <1>1, <1>2 DEF TypeInv

LEMMA OpenItemsType ==
  ASSUME TypeInv, NEW p \in Proc, OpenItems(p)
  PROVE  TypeInv'
<1>0. /\ call[p] \in Call
      /\ pc[p] = "open"
  BY DEF TypeInv, StepOK, OpenItems
<1>1. CASE /\ Op(p) = "set"
           /\ root' = IF root = "none" THEN "cached" ELSE root
           /\ Goto(p, "create")
           /\ NoRet
  <2>1. TypeOK'
    BY <1>1 DEF TypeInv, TypeOK, OpenItems, Step, history
  <2>2. \A q \in Proc : StepOK(q)'
    BY <1>0, <1>1, CallFields DEF TypeInv, TypeOK, StepOK, Writing
  <2> QED
    BY <2>1, <2>2 DEF TypeInv
<1>2. CASE /\ Op(p) # "set" /\ root = "none"
           /\ Return(p, CASE Op(p) = "get" -> NotFound
                          [] Op(p) = "list" -> Listed({})
                          [] Op(p) = "delete" -> Done)
           /\ UNCHANGED root
  <2>1. PICK r \in Result : Return(p, r)
    BY <1>0, <1>2, CallFields, ResultType
  <2> QED
    BY <1>2, <2>1, ReturnType DEF TypeInv, TypeOK, OpenItems, history
<1>3. CASE /\ Op(p) # "set" /\ root # "none"
           /\ Goto(p, CASE Op(p) = "get" -> "lstat"
                        [] Op(p) = "list" -> "readdir"
                        [] Op(p) = "delete" -> "inspect")
           /\ unread' = [unread EXCEPT ![p] = IF Op(p) = "list" THEN Slot ELSE {}]
           /\ UNCHANGED <<root, call, at, file, todo, found, ret>>
  <2>1. TypeOK'
    BY <1>0, <1>3, CallFields DEF TypeInv, TypeOK, OpenItems, Step, history
  <2>2. \A q \in Proc : StepOK(q)'
    BY <1>0, <1>3, CallFields DEF TypeInv, TypeOK, StepOK, Writing
  <2> QED
    BY <2>1, <2>2 DEF TypeInv
<1> QED
  BY <1>1, <1>2, <1>3 DEF OpenItems

LEMMA SetType ==
  ASSUME TypeInv, NEW p \in Proc,
         \/ CreateTemp(p) \/ Write(p) \/ SyncFile(p) \/ Rename(p)
         \/ FailWriting(p) \/ SyncDir(p) \/ FailSyncDir(p) \/ Cleanup(p)
  PROVE  TypeInv'
<1>1. CASE CreateTemp(p)
  <2>1. CASE Free = {}
    BY <1>1, <2>1, ResultType, ReturnType DEF TypeInv, TypeOK, CreateTemp
  <2>2. CASE Free # {}
    <3>1. PICK f \in Free :
            /\ temps' = temps \cup {f}
            /\ linger' = linger \cup {f}
            /\ data' = [data EXCEPT ![f] = Torn]
            /\ synced' = synced \ {f}
            /\ damaged' = damaged \ {f}
            /\ litter' = litter \ {f}
            /\ file' = [file EXCEPT ![p] = f]
            /\ Goto(p, "write")
            /\ UNCHANGED <<call, at, unread, todo, found, ret>>
      BY <1>1, <2>2 DEF CreateTemp
    <3>2. f \in File
      BY DEF Free
    <3>3. TypeOK'
      BY <1>1, <3>1, <3>2 DEF TypeInv, TypeOK, CreateTemp, Step, Holding, Writing
    <3>4. \A q \in Proc : StepOK(q)'
      BY <1>1, <3>1, <3>2 DEF TypeInv, TypeOK, StepOK, CreateTemp, Writing
    <3> QED
      BY <3>3, <3>4 DEF TypeInv
  <2> QED
    BY <2>1, <2>2
<1>2. CASE Write(p)
  <2>1. RecordOf(call[p]) \in Record /\ file[p] \in File
    BY <1>2, RecordType DEF TypeInv, StepOK, Write, Writing
  <2>2. TypeOK'
    BY <1>2, <2>1 DEF TypeInv, TypeOK, Write, Step, Holding, Writing, history
  <2>3. \A q \in Proc : StepOK(q)'
    BY <1>2 DEF TypeInv, TypeOK, StepOK, Write, Writing
  <2> QED
    BY <2>2, <2>3 DEF TypeInv
<1>3. CASE SyncFile(p)
  <2>1. TypeOK'
    BY <1>3 DEF TypeInv, TypeOK, StepOK, SyncFile, Step, Holding, Writing, history
  <2>2. \A q \in Proc : StepOK(q)'
    BY <1>3 DEF TypeInv, TypeOK, StepOK, SyncFile, Writing
  <2> QED
    BY <2>1, <2>2 DEF TypeInv
<1>4. CASE Rename(p)
  <2>1. file[p] \in File
    BY <1>4 DEF TypeInv, StepOK, Rename, Writing
  <2>2. TypeOK'
    BY <1>4, <2>1 DEF TypeInv, TypeOK, StepOK, SetCall, Rename, Appears, Step, Holding, Writing
  <2>3. \A q \in Proc : StepOK(q)'
    BY <1>4, <2>1, CallFields DEF TypeInv, TypeOK, StepOK, Rename, Writing, SetCall
  <2> QED
    BY <2>2, <2>3 DEF TypeInv
<1>5. CASE FailWriting(p)
  <2>1. TypeOK'
    BY <1>5, ResultType DEF TypeInv, TypeOK, FailWriting, Fault, Step, Holding, disk, history
  <2>2. \A q \in Proc : StepOK(q)'
    BY <1>5 DEF TypeInv, TypeOK, StepOK, FailWriting, Writing
  <2> QED
    BY <2>1, <2>2 DEF TypeInv
<1>6. CASE SyncDir(p)
  <2>1. may' \in [Slot -> SUBSET (File \cup {None})]
    BY <1>6 DEF TypeInv, TypeOK, SyncDir
  <2>2. CASE Op(p) = "set"
    <3>1. TypeOK'
      BY <1>6, <2>1, <2>2, ResultType DEF TypeInv, TypeOK, SyncDir, Step, Holding
    <3>2. \A q \in Proc : StepOK(q)'
      BY <1>6, <2>2, CallFields DEF TypeInv, TypeOK, StepOK, SyncDir, Writing
    <3> QED
      BY <3>1, <3>2 DEF TypeInv
  <2>3. CASE Op(p) = "delete"
    BY <1>6, <2>1, <2>3, ResultType, ReturnType DEF TypeInv, TypeOK, SyncDir
  <2> QED
    BY <1>6, <2>2, <2>3 DEF SyncDir
<1>7. CASE FailSyncDir(p)
  <2>1. at[p] \in Slot
    BY <1>7, CallFields DEF TypeInv, StepOK, FailSyncDir
  <2>2. CASE Op(p) = "set"
    <3>1. TypeOK'
      BY <1>7, <2>1, <2>2, ResultType, FaultType
         DEF TypeInv, TypeOK, FailSyncDir, Step, Holding, disk
    <3>2. \A q \in Proc : StepOK(q)'
      BY <1>7, <2>2, CallFields DEF TypeInv, TypeOK, StepOK, FailSyncDir, Writing
    <3> QED
      BY <3>1, <3>2 DEF TypeInv
  <2>3. CASE Op(p) = "delete"
    BY <1>7, <2>1, <2>3, ResultType, ReturnType, FaultType
       DEF TypeInv, TypeOK, FailSyncDir, disk
  <2> QED
    BY <1>7, <2>2, <2>3 DEF FailSyncDir
<1>8. CASE Cleanup(p)
  <2>1. PICK r \in Result : Return(p, r)
    BY <1>8, ResultType DEF Cleanup, TypeInv, TypeOK
  <2> QED
    BY <1>8, <2>1, ReturnType, FaultType DEF TypeInv, TypeOK, Cleanup
<1> QED
  BY <1>1, <1>2, <1>3, <1>4, <1>5, <1>6, <1>7, <1>8

LEMMA ReadType ==
  ASSUME TypeInv, NEW p \in Proc,
         \/ Lstat(p) \/ OpenFile(p) \/ ReadItem(p)
         \/ ReadDir(p) \/ NextEntry(p) \/ ReadEntry(p)
  PROVE  TypeInv'
<1>0. ASSUME NEW r \in Result, Return(p, r), UNCHANGED <<disk, history, used>>
      PROVE  TypeInv'
  BY <1>0, ReturnType DEF TypeInv, TypeOK, disk, history
<1>1. CASE Lstat(p)
  <2>1. CASE items[at[p]] = None
    <3>1. PICK r \in {NotFound, Error} : Return(p, r)
      BY <1>1, <2>1 DEF Lstat, Missing
    <3> QED
      BY <1>0, <1>1, <3>1, ResultType DEF Lstat
  <2>2. CASE items[at[p]] # None
    <3>1. TypeOK'
      BY <1>1, <2>2 DEF TypeInv, TypeOK, StepOK, Lstat, Step, disk, history
    <3>2. \A q \in Proc : StepOK(q)'
      BY <1>1, <2>2 DEF TypeInv, TypeOK, StepOK, Lstat, Writing
    <3> QED
      BY <3>1, <3>2 DEF TypeInv
  <2> QED
    BY <2>1, <2>2
<1>2. CASE OpenFile(p)
  <2>1. CASE items[at[p]] = None
    <3>1. PICK r \in {NotFound, Error} : Return(p, r)
      <4>1. items[at[p]] # file[p]
        BY <1>2, <2>1, NoneAssumption DEF TypeInv, StepOK, OpenFile
      <4> QED
        BY <1>2, <2>1, <4>1 DEF OpenFile, Missing
    <3> QED
      BY <1>0, <1>2, <3>1, ResultType DEF OpenFile
  <2>2. CASE items[at[p]] \notin {None, file[p]}
    BY <1>0, <1>2, <2>2, ResultType DEF OpenFile
  <2>3. CASE items[at[p]] # None /\ items[at[p]] = file[p]
    <3>1. file[p] \in File
      BY <1>2, <2>3 DEF TypeInv, TypeOK, StepOK, OpenFile
    <3>2. TypeOK'
      BY <1>2, <2>3, SMTT(30) DEF TypeInv, TypeOK, OpenFile, Step, Holding, disk, history
    <3>3. \A q \in Proc : StepOK(q)'
      BY <1>2, <2>3, <3>1 DEF TypeInv, TypeOK, StepOK, OpenFile, Writing
    <3> QED
      BY <3>2, <3>3 DEF TypeInv
  <2> QED
    BY <1>2, <2>1, <2>2, <2>3
<1>3. CASE ReadItem(p)
  <2>1. Decoded(data[file[p]], at[p]) \in Result
    <3>1. data[file[p]] \in Record \cup {Torn}
      BY <1>3 DEF TypeInv, TypeOK, StepOK, ReadItem
    <3> QED
      BY <3>1, ResultType DEF Decoded, Record
  <2> QED
    BY <1>0, <1>3, <2>1 DEF ReadItem
<1>4. CASE ReadDir(p)
  <2>1. TypeOK'
    BY <1>4 DEF TypeInv, TypeOK, ReadDir, Step, disk, history
  <2>2. \A q \in Proc : StepOK(q)'
    BY <1>4, CallFields DEF TypeInv, TypeOK, StepOK, ReadDir, Writing, ListCall
  <2> QED
    BY <2>1, <2>2 DEF TypeInv
<1>5. CASE NextEntry(p)
  <2>1. CASE todo[p] = {} /\ Return(p, Listed(found[p]))
    <3>1. Listed(found[p]) \in Result
      BY ResultType DEF TypeInv, TypeOK
    <3> QED
      BY <1>0, <1>5, <2>1, <3>1 DEF NextEntry
  <2>2. CASE \E s \in todo[p] :
               /\ at' = [at EXCEPT ![p] = s]
               /\ Goto(p, "lstat")
               /\ UNCHANGED <<call, file, unread, todo, found, ret>>
    <3>1. PICK s \in todo[p] :
               /\ at' = [at EXCEPT ![p] = s]
               /\ Goto(p, "lstat")
               /\ UNCHANGED <<call, file, unread, todo, found, ret>>
      BY <2>2
    <3>2. s \in Slot
      BY DEF TypeInv, TypeOK
    <3>3. TypeOK'
      BY <1>5, <3>1, <3>2 DEF TypeInv, TypeOK, NextEntry, Step, disk, history
    <3>4. \A q \in Proc : StepOK(q)'
      BY <1>5, <3>1, <3>2 DEF TypeInv, TypeOK, StepOK, NextEntry, Writing, ListCall
    <3> QED
      BY <3>3, <3>4 DEF TypeInv
  <2> QED
    BY <1>5, <2>1, <2>2 DEF NextEntry
<1>6. CASE ReadEntry(p)
  <2> DEFINE d == data[file[p]]
             skip == d # Torn /\ d.slot.scope # call[p].scope
             fits == d # Torn /\ d.slot = at[p] /\ d.aad = at[p]
  <2>1. CASE ~skip /\ ~fits
    BY <1>0, <1>6, <2>1, ResultType DEF ReadEntry
  <2>2. CASE skip \/ fits
    <3>1. d # Torn => [slot |-> d.slot, kind |-> d.kind] \in Metadata
      <4>1. d \in Record \cup {Torn}
        BY <1>6 DEF TypeInv, TypeOK, StepOK, ReadEntry
      <4> QED
        BY <4>1 DEF Record, Metadata
    <3>2. /\ found' = [found EXCEPT ![p] =
                        IF skip THEN @ ELSE @ \cup {[slot |-> d.slot, kind |-> d.kind]}]
          /\ at' = [at EXCEPT ![p] = None]
          /\ file' = [file EXCEPT ![p] = None]
          /\ Goto(p, "next")
          /\ UNCHANGED <<call, unread, todo, ret>>
      BY <1>6, <2>2 DEF ReadEntry
    <3>3. found' \in [Proc -> SUBSET Metadata]
      BY <2>2, <3>1, <3>2 DEF TypeInv, TypeOK
    <3>4. TypeOK'
      BY <1>6, <3>2, <3>3 DEF TypeInv, TypeOK, ReadEntry, Step, disk, history
    <3>5. \A q \in Proc : StepOK(q)'
      BY <1>6, <3>2, CallFields DEF TypeInv, TypeOK, StepOK, ReadEntry, Writing
    <3> QED
      BY <3>4, <3>5 DEF TypeInv
  <2> QED
    BY <2>1, <2>2
<1> QED
  BY <1>1, <1>2, <1>3, <1>4, <1>5, <1>6

LEMMA DeleteType ==
  ASSUME TypeInv, NEW p \in Proc, Inspect(p) \/ Unlink(p)
  PROVE  TypeInv'
<1>1. CASE items[at[p]] = None
  BY <1>1, ResultType, ReturnType DEF TypeInv, TypeOK, Inspect, Unlink, disk, history
<1>2. CASE items[at[p]] # None /\ Inspect(p)
  <2>1. TypeOK'
    BY <1>2 DEF TypeInv, TypeOK, Inspect, Step, disk, history
  <2>2. \A q \in Proc : StepOK(q)'
    BY <1>2 DEF TypeInv, TypeOK, StepOK, Inspect, Writing
  <2> QED
    BY <2>1, <2>2 DEF TypeInv
<1>3. CASE items[at[p]] # None /\ Unlink(p)
  <2>1. TypeOK'
    BY <1>3, SMTT(30) DEF TypeInv, TypeOK, Unlink, Step, Holding, history
  <2>2. \A q \in Proc : StepOK(q)'
    BY <1>3 DEF TypeInv, TypeOK, StepOK, Unlink, Writing
  <2> QED
    BY <2>1, <2>2 DEF TypeInv
<1> QED
  BY <1>1, <1>2, <1>3

(* An edit from outside changes a file in place, makes one or removes a     *)
(* name.                                                                    *)
LEMMA DamageKinds ==
  ASSUME TypeInv, NEW s \in Slot, Damage(s)
  PROVE  /\ UNCHANGED <<root, temps, linger, self, written, litter>>
         /\ used' = [used EXCEPT !.damage = @ + 1]
         /\ \/ \E d \in Record \cup {Torn} :
                 /\ items[s] \in File
                 /\ data' = [data EXCEPT ![items[s]] = d]
                 /\ damaged' = damaged \cup {items[s]}
                 /\ Seals(d)
                 /\ UNCHANGED <<items, may, synced, loose, around>>
            \/ \E d \in Record \cup {Torn}, f \in Free :
                 /\ items' = [items EXCEPT ![s] = f]
                 /\ may' = [may EXCEPT ![s] = @ \cup {f}]
                 /\ data' = [data EXCEPT ![f] = d]
                 /\ synced' = synced \cup {f}
                 /\ damaged' = damaged \cup {f}
                 /\ loose' = loose \cup {s}
                 /\ Seals(d)
                 /\ Appears(s)
            \/ /\ items[s] # None
               /\ items' = [items EXCEPT ![s] = None]
               /\ may' = [may EXCEPT ![s] = @ \cup {None}]
               /\ loose' = loose \cup {s}
               /\ UNCHANGED <<data, synced, foreign, damaged, around>>
<1>1. CASE \E f \in File, d \in Record \cup {Torn} : Edit(s, f, d)
  <2>1. PICK f \in File, d \in Record \cup {Torn} : Edit(s, f, d)
    BY <1>1
  <2> QED
    BY <2>1 DEF Edit, Damage
<1>2. CASE ~\E f \in File, d \in Record \cup {Torn} : Edit(s, f, d)
  BY <1>2 DEF Damage
<1> QED
  BY <1>1, <1>2

LEMMA SealsType ==
  ASSUME TypeInv, NEW d \in Record \cup {Torn}, Seals(d)
  PROVE  foreign' \subseteq [slot : Slot, value : Value] /\ foreign \subseteq foreign'
BY DEF Seals, Record, TypeInv, TypeOK

LEMMA FailureType ==
  ASSUME TypeInv,
         \/ \E p \in Proc : Fail(p) \/ Kill(p)
         \/ Crash
         \/ \E s \in Slot : Damage(s)
  PROVE  TypeInv'
<1>1. ASSUME NEW p \in Proc, Fail(p)
      PROVE  TypeInv'
  BY <1>1, ResultType, ReturnType, FaultType DEF TypeInv, TypeOK, Fail, disk, history
<1>2. ASSUME NEW p \in Proc, Kill(p)
      PROVE  TypeInv'
  <2>1. pc[p] = "syncdir" => at[p] \in Slot
    BY CallFields DEF TypeInv, StepOK
  <2>2. used' \in [calls : Nat, faults : Nat, crashes : Nat, damage : Nat]
    BY <1>2 DEF TypeInv, TypeOK, Kill, Crashed
  <2>3. loose' \subseteq Slot /\ litter' \subseteq File
    BY <1>2, <2>1 DEF TypeInv, TypeOK, Kill
  <2>4. Return(p, Pending) /\ UNCHANGED <<disk, written, foreign, around, damaged>>
    BY <1>2 DEF Kill
  <2> QED
    BY <2>2, <2>3, <2>4, ResultType, ReturnType DEF TypeInv, TypeOK, disk
<1>3. ASSUME Crash
      PROVE  TypeInv'
  <2>1. /\ data' \in [File -> Record \cup {Torn}]
        /\ items' \in [Slot -> File \cup {None}]
        /\ may' \in [Slot -> SUBSET (File \cup {None})]
        /\ temps' \subseteq File
    BY <1>3 DEF TypeInv, TypeOK, Crash
  <2>2. TypeOK'
    BY <1>3, <2>1, ResultType DEF TypeInv, TypeOK, Crash, Crashed, Step
  <2>3. \A q \in Proc : StepOK(q)'
    BY <1>3 DEF Crash, StepOK, Writing
  <2> QED
    BY <2>2, <2>3 DEF TypeInv
<1>4. ASSUME NEW s \in Slot, Damage(s)
      PROVE  TypeInv'
  <2>0. Free \subseteq File
    BY DEF Free
  <2>1. /\ data' \in [File -> Record \cup {Torn}]
        /\ items' \in [Slot -> File \cup {None}]
        /\ may' \in [Slot -> SUBSET (File \cup {None})]
        /\ synced' \subseteq File /\ damaged' \subseteq File /\ loose' \subseteq Slot
        /\ around' \in [Proc -> SUBSET Slot]
    <3>1. data' \in [File -> Record \cup {Torn}]
      BY <1>4, <2>0, DamageKinds DEF TypeInv, TypeOK
    <3>2. items' \in [Slot -> File \cup {None}]
      BY <1>4, <2>0, DamageKinds DEF TypeInv, TypeOK
    <3>3. may' \in [Slot -> SUBSET (File \cup {None})]
      BY <1>4, <2>0, DamageKinds DEF TypeInv, TypeOK
    <3>4. synced' \subseteq File /\ damaged' \subseteq File /\ loose' \subseteq Slot
      BY <1>4, <2>0, DamageKinds DEF TypeInv, TypeOK
    <3>5. around' \in [Proc -> SUBSET Slot]
      BY <1>4, DamageKinds, SMTT(30) DEF TypeInv, TypeOK, Appears
    <3> QED
      BY <3>1, <3>2, <3>3, <3>4, <3>5
  <2>2. foreign' \subseteq [slot : Slot, value : Value]
    BY <1>4, DamageKinds, SealsType DEF TypeInv, TypeOK
  <2>3. used' \in [calls : Nat, faults : Nat, crashes : Nat, damage : Nat]
    BY <1>4, DamageKinds DEF TypeInv, TypeOK
  <2>4. UNCHANGED <<root, temps, linger, self, written, litter>>
    BY <1>4, DamageKinds
  <2>5. TypeOK'
    BY <2>1, <2>2, <2>3, <2>4 DEF TypeInv, TypeOK, self
  <2>6. \A q \in Proc : StepOK(q)'
    BY <2>4 DEF TypeInv, StepOK, self
  <2> QED
    BY <2>5, <2>6 DEF TypeInv
<1> QED
  BY <1>1, <1>2, <1>3, <1>4

LEMMA TypeInvNext == TypeInv /\ [Next]_vars => TypeInv'
<1> SUFFICES ASSUME TypeInv, [Next]_vars
             PROVE  TypeInv'
  OBVIOUS
<1>1. CASE Next
  BY <1>1, BeginType, OpenItemsType, SetType, ReadType, DeleteType, FailureType DEF Next, Run
<1>2. CASE UNCHANGED vars
  BY <1>2 DEF vars, disk, self, history, TypeInv, TypeOK, StepOK
<1> QED
  BY <1>1, <1>2

(* Every variable keeps its type, and a process at a step of an operation   *)
(* is in that operation, with the name and the file the step uses.          *)
THEOREM TypeCorrect == Spec => []TypeInv
BY TypeInvInit, TypeInvNext, PTL DEF Spec

THEOREM TypeOKAlways == Spec => []TypeOK
<1>1. TypeInv => TypeOK
  BY DEF TypeInv
<1> QED
  BY <1>1, TypeCorrect, PTL

-----------------------------------------------------------------------------
(* Whole items.  ItemsWhole is not inductive: that a rename publishes a     *)
(* whole and synced record of the right slot follows from what its process  *)
(* has done to the file before, and that nothing else touched the file      *)
(* meanwhile from every writer having a file of its own that no name        *)
(* refers to.                                                               *)

ItemOf(c) == [kind |-> c.kind, value |-> c.value]

(* The temporary file of a process that is writing.                         *)
WriterOK(p) ==
  /\ pc[p] \in Writing =>
       /\ file[p] \notin damaged
       /\ \A s \in Slot : items[s] # file[p] /\ file[p] \notin may[s]
       /\ \A q \in Proc : q # p /\ pc[q] \in Writing => file[q] # file[p]
  /\ pc[p] \in {"sync", "rename"} => data[file[p]] = RecordOf(call[p])
  /\ pc[p] = "rename" => file[p] \in synced

(* What a Set in progress stores has been recorded as asked for.            *)
AskedOK(p) ==
  pc[p] # "idle" /\ call[p].op = "set" => ItemOf(call[p]) \in written[call[p].slot]

(* The entries of the names, cached and surviving.                          *)
NamesOK ==
  \A s \in Slot :
    /\ items[s] \in may[s]
    /\ \A f \in may[s] \ {None} : f \in synced /\ (f \notin damaged => Holds(f, s))

WholeInv ==
  /\ NamesOK
  /\ \A p \in Proc : WriterOK(p) /\ AskedOK(p)

LEMMA WholeInvInit == Init => WholeInv
BY DEF Init, WholeInv, NamesOK, WriterOK, AskedOK, Writing, Slot

(* A step that leaves files and names alone and puts no process to writing. *)
LEMMA WholeFrame ==
  ASSUME TypeInv, WholeInv, NEW p \in Proc,
         UNCHANGED <<items, may, data, synced, damaged, written, call>>,
         pc'[p] \notin Writing,
         pc[p] # "idle",
         \A q \in Proc : q # p => pc'[q] = pc[q] /\ file'[q] = file[q]
  PROVE  WholeInv'
<1>1. NamesOK'
  BY DEF WholeInv, NamesOK, Holds
<1>2. \A q \in Proc : WriterOK(q)'
  BY DEF WholeInv, WriterOK, Writing
<1>3. \A q \in Proc : AskedOK(q)'
  BY DEF WholeInv, AskedOK
<1> QED
  BY <1>1, <1>2, <1>3 DEF WholeInv

LEMMA WholeSet ==
  ASSUME TypeInv, WholeInv, NEW p \in Proc,
         \/ CreateTemp(p) \/ Write(p) \/ SyncFile(p) \/ Rename(p)
  PROVE  WholeInv'
<1>1. CASE CreateTemp(p)
  <2>1. CASE Free = {}
    BY <1>1, <2>1, WholeFrame, ResultType, ReturnType DEF CreateTemp, Writing
  <2>2. CASE Free # {}
    <3>1. PICK f \in Free :
            /\ data' = [data EXCEPT ![f] = Torn]
            /\ synced' = synced \ {f}
            /\ damaged' = damaged \ {f}
            /\ file' = [file EXCEPT ![p] = f]
            /\ Goto(p, "write")
            /\ UNCHANGED <<call, at, unread, todo, found, ret>>
      BY <1>1, <2>2 DEF CreateTemp
    <3>2. /\ f \in File
          /\ \A s \in Slot : f # items[s] /\ f \notin may[s]
          /\ \A q \in Proc : pc[q] \in Writing => file[q] # f
      BY DEF Free, Holding
    <3>3. UNCHANGED <<items, may, written>>
      BY <1>1 DEF CreateTemp
    <3>4. NamesOK'
      BY <3>1, <3>2, <3>3 DEF TypeInv, TypeOK, WholeInv, NamesOK, Holds
    <3>5. \A q \in Proc : WriterOK(q)'
      BY <3>1, <3>2, <3>3 DEF TypeInv, TypeOK, WholeInv, WriterOK, Writing
    <3>6. \A q \in Proc : AskedOK(q)'
      BY <1>1, <3>1, <3>3 DEF TypeInv, TypeOK, WholeInv, AskedOK, CreateTemp
    <3> QED
      BY <3>4, <3>5, <3>6 DEF WholeInv
  <2> QED
    BY <2>1, <2>2
<1>2. CASE Write(p)
  <2>1. NamesOK'
    BY <1>2 DEF TypeInv, TypeOK, WholeInv, NamesOK, WriterOK, Holds, Write, Writing, history
  <2>2. \A q \in Proc : WriterOK(q)'
    BY <1>2 DEF TypeInv, TypeOK, StepOK, WholeInv, WriterOK, Write, Writing, history
  <2>3. \A q \in Proc : AskedOK(q)'
    BY <1>2 DEF TypeInv, TypeOK, WholeInv, AskedOK, Write, history
  <2> QED
    BY <2>1, <2>2, <2>3 DEF WholeInv
<1>3. CASE SyncFile(p)
  <2>1. NamesOK'
    BY <1>3 DEF WholeInv, NamesOK, Holds, SyncFile, history
  <2>2. \A q \in Proc : WriterOK(q)'
    BY <1>3 DEF TypeInv, TypeOK, WholeInv, WriterOK, SyncFile, Writing, history
  <2>3. \A q \in Proc : AskedOK(q)'
    BY <1>3 DEF TypeInv, TypeOK, WholeInv, AskedOK, SyncFile, history
  <2> QED
    BY <2>1, <2>2, <2>3 DEF WholeInv
<1>4. CASE Rename(p)
  <2>1. /\ call[p] \in SetCall /\ at[p] = call[p].slot /\ at[p] \in Slot
        /\ file[p] \in File /\ data[file[p]] = RecordOf(call[p])
        /\ file[p] \in synced
        /\ ItemOf(call[p]) \in written[at[p]]
    BY <1>4 DEF TypeInv, StepOK, WholeInv, WriterOK, AskedOK, Rename, Writing, SetCall
  <2>2. Holds(file[p], at[p])
    BY <2>1, RecordType DEF Holds, RecordOf, ItemOf
  <2>3. NamesOK'
    BY <1>4, <2>1, <2>2 DEF TypeInv, TypeOK, WholeInv, NamesOK, Holds, Rename, history
  <2>4. \A q \in Proc : WriterOK(q)'
    BY <1>4, <2>1 DEF TypeInv, TypeOK, WholeInv, WriterOK, Rename, Writing, history
  <2>5. \A q \in Proc : AskedOK(q)'
    BY <1>4 DEF TypeInv, TypeOK, WholeInv, AskedOK, Rename, history
  <2> QED
    BY <2>3, <2>4, <2>5 DEF WholeInv
<1> QED
  BY <1>1, <1>2, <1>3, <1>4

LEMMA WholeBegin ==
  ASSUME TypeInv, WholeInv, NEW p \in Proc, NEW c \in Call, Begin(p, c)
  PROVE  WholeInv'
<1>1. written' \in [Slot -> SUBSET Item] /\ \A s \in Slot : written[s] \subseteq written'[s]
  <2>1. CASE c.op = "set"
    <3>1. c.slot \in Slot /\ [kind |-> c.kind, value |-> c.value] \in Item
      BY <2>1, CallFields, RecordType
    <3>2. written' = [written EXCEPT ![c.slot] = @ \cup {[kind |-> c.kind, value |-> c.value]}]
      BY <2>1 DEF Begin
    <3> QED
      BY <3>1, <3>2 DEF TypeInv, TypeOK
  <2>2. CASE c.op # "set"
    BY <2>2 DEF TypeInv, TypeOK, Begin
  <2> QED
    BY <2>1, <2>2
<1>2. NamesOK'
  <2>1. UNCHANGED <<items, may, synced, data, damaged>>
    BY DEF Begin, disk
  <2>2. \A s \in Slot, f \in File : Holds(f, s) => Holds(f, s)'
    BY <1>1, <2>1 DEF Holds
  <2> QED
    BY <2>1, <2>2 DEF WholeInv, NamesOK, TypeInv, TypeOK
<1>3. \A q \in Proc : WriterOK(q)'
  BY DEF TypeInv, TypeOK, WholeInv, WriterOK, Begin, Writing, disk
<1>4. \A q \in Proc : AskedOK(q)'
  <2> SUFFICES ASSUME NEW q \in Proc, pc'[q] # "idle", call'[q].op = "set"
               PROVE  ItemOf(call'[q]) \in written'[call'[q].slot]
    BY DEF AskedOK
  <2>1. CASE q = p
    BY <2>1, CallFields DEF TypeInv, TypeOK, Begin, ItemOf
  <2>2. CASE q # p
    <3>1. call[q] \in Call /\ call'[q] = call[q] /\ pc[q] # "idle"
      BY <2>2 DEF TypeInv, TypeOK, StepOK, Begin
    <3>2. call[q].slot \in Slot
      BY <3>1, CallFields
    <3> QED
      BY <1>1, <3>1, <3>2 DEF WholeInv, AskedOK
  <2> QED
    BY <2>1, <2>2
<1> QED
  BY <1>2, <1>3, <1>4 DEF WholeInv

LEMMA WholeOpenItems ==
  ASSUME TypeInv, WholeInv, NEW p \in Proc, OpenItems(p)
  PROVE  WholeInv'
<1>1. call[p] \in Call /\ pc[p] = "open"
  BY DEF TypeInv, StepOK, OpenItems
<1>2. CASE pc'[p] \in {"create", "lstat", "readdir", "inspect"}
          /\ UNCHANGED <<call, file>>
  <2>1. pc' = [pc EXCEPT ![p] = pc'[p]]
    BY <1>1, <1>2, CallFields DEF OpenItems, Return, TypeInv, TypeOK
  <2> QED
    BY <1>1, <1>2, <2>1, WholeFrame DEF OpenItems, history, Writing, TypeInv, TypeOK
<1>3. CASE \E r \in Result : Return(p, r)
  BY <1>1, <1>3, WholeFrame, ReturnType DEF OpenItems, history, Writing
<1> QED
  BY <1>1, <1>2, <1>3, CallFields, ResultType DEF OpenItems, TypeInv, TypeOK

LEMMA WholeSyncDir ==
  ASSUME TypeInv, WholeInv, NEW p \in Proc,
         \/ FailWriting(p) \/ SyncDir(p) \/ FailSyncDir(p) \/ Cleanup(p)
  PROVE  WholeInv'
<1>1. CASE FailWriting(p)
  BY <1>1, WholeFrame DEF FailWriting, disk, history, Writing, TypeInv, TypeOK
<1>2. CASE SyncDir(p)
  <2>1. /\ pc[p] = "syncdir" /\ pc' = [pc EXCEPT ![p] = pc'[p]]
        /\ pc'[p] \in {"cleanup", "idle"}
        /\ UNCHANGED <<items, data, synced, damaged, written, call>>
        /\ \A q \in Proc : q # p => file'[q] = file[q]
    BY <1>2, ReturnType DEF SyncDir, Return, TypeInv, TypeOK
  <2>2. NamesOK'
    BY <1>2, <2>1 DEF TypeInv, TypeOK, WholeInv, NamesOK, Holds, SyncDir
  <2>3. \A q \in Proc : WriterOK(q)'
    BY <1>2, <2>1 DEF TypeInv, TypeOK, WholeInv, NamesOK, WriterOK, SyncDir, Writing
  <2>4. \A q \in Proc : AskedOK(q)'
    BY <2>1 DEF TypeInv, TypeOK, WholeInv, AskedOK
  <2> QED
    BY <2>2, <2>3, <2>4 DEF WholeInv
<1>3. CASE FailSyncDir(p)
  BY <1>3, WholeFrame DEF FailSyncDir, Return, disk, Writing, TypeInv, TypeOK
<1>4. CASE Cleanup(p)
  BY <1>4, WholeFrame DEF Cleanup, Return, Writing, TypeInv, TypeOK
<1> QED
  BY <1>1, <1>2, <1>3, <1>4

LEMMA WholeRead ==
  ASSUME TypeInv, WholeInv, NEW p \in Proc,
         \/ Lstat(p) \/ OpenFile(p) \/ ReadItem(p) \/ ReadDir(p)
         \/ NextEntry(p) \/ ReadEntry(p) \/ Inspect(p)
  PROVE  WholeInv'
<1>1. /\ UNCHANGED <<disk, written, damaged, call>>
      /\ pc[p] \notin {"idle"} \cup Writing
  BY DEF Lstat, OpenFile, ReadItem, ReadDir, NextEntry, ReadEntry, Inspect, Missing,
         Return, history, Writing
<1>2. /\ pc' = [pc EXCEPT ![p] = pc'[p]]
      /\ pc'[p] \in {"readdir", "openfile", "read", "next", "lstat", "unlink", "idle"}
      /\ \A q \in Proc : q # p => file'[q] = file[q]
  BY DEF Lstat, OpenFile, ReadItem, ReadDir, NextEntry, ReadEntry, Inspect, Missing,
         Return, TypeInv, TypeOK
<1> QED
  BY <1>1, <1>2, WholeFrame DEF disk, Writing, TypeInv, TypeOK

LEMMA WholeUnlink ==
  ASSUME TypeInv, WholeInv, NEW p \in Proc, Unlink(p)
  PROVE  WholeInv'
<1>1. CASE items[at[p]] = None
  BY <1>1, WholeFrame, ResultType, ReturnType DEF Unlink, history, Writing
<1>2. CASE items[at[p]] # None
  <2>1. NamesOK'
    <3>1. at[p] \in Slot
      BY CallFields DEF TypeInv, StepOK, Unlink
    <3>2. UNCHANGED <<data, synced, damaged, written>>
      BY <1>2 DEF Unlink, history
    <3>3. \A s \in Slot : items'[s] \in may'[s] /\ may'[s] \ {None} = may[s] \ {None}
      BY <1>2, <3>1 DEF Unlink, TypeInv, TypeOK, WholeInv, NamesOK
    <3> QED
      BY <3>2, <3>3 DEF WholeInv, NamesOK, Holds
  <2>2. \A q \in Proc : WriterOK(q)'
    <3>1. \A q \in Proc : pc[q] \in Writing => file[q] # None
      BY NoneAssumption DEF TypeInv, StepOK
    <3>2. /\ UNCHANGED <<data, synced, damaged, call, file>>
          /\ pc[p] = "unlink" /\ pc' = [pc EXCEPT ![p] = "syncdir"]
      BY <1>2 DEF Unlink, history
    <3>3. \A s \in Slot : /\ items'[s] \in {items[s], None}
                         /\ may'[s] \subseteq may[s] \cup {None}
      BY <1>2 DEF Unlink, TypeInv, TypeOK
    <3>4. \A q \in Proc : pc'[q] = pc[q] \/ pc'[q] \notin Writing
      BY <3>2 DEF Writing, TypeInv, TypeOK
    <3>5. \A q \in Proc : pc'[q] \in Writing => pc[q] \in Writing /\ pc'[q] = pc[q]
      BY <3>4
    <3> QED
      BY <3>1, <3>2, <3>3, <3>5 DEF WholeInv, WriterOK, Writing
  <2>3. \A q \in Proc : AskedOK(q)'
    BY <1>2 DEF TypeInv, TypeOK, WholeInv, AskedOK, Unlink, history
  <2> QED
    BY <2>1, <2>2, <2>3 DEF WholeInv
<1> QED
  BY <1>1, <1>2

LEMMA WholeFailure ==
  ASSUME TypeInv, WholeInv,
         \/ \E p \in Proc : Fail(p) \/ Kill(p)
         \/ Crash
         \/ \E s \in Slot : Damage(s)
  PROVE  WholeInv'
<1>1. ASSUME NEW p \in Proc, Fail(p)
      PROVE  WholeInv'
  BY <1>1, WholeFrame, ResultType, ReturnType DEF Fail, disk, history, Writing
<1>2. ASSUME NEW p \in Proc, Kill(p)
      PROVE  WholeInv'
  BY <1>2, WholeFrame, ResultType, ReturnType DEF Kill, disk, Writing
<1>3. ASSUME Crash
      PROVE  WholeInv'
  <2>1. \A s \in Slot : may'[s] = {items'[s]}
    BY <1>3 DEF Crash
  <2>2. \A s \in Slot : items'[s] = None \/ items'[s] \in may[s]
    BY <1>3 DEF Crash
  <2>3. \A s \in Slot : items'[s] # None => /\ items'[s] \in File
                                           /\ items'[s] \in synced
                                           /\ data'[items'[s]] = data[items'[s]]
    BY <1>3, <2>2 DEF Crash, TypeInv, TypeOK, WholeInv, NamesOK
  <2>4. synced' = File /\ UNCHANGED <<damaged, written>>
    BY <1>3 DEF Crash
  <2>5. NamesOK'
    BY <2>1, <2>2, <2>3, <2>4 DEF WholeInv, NamesOK, Holds
  <2>6. \A q \in Proc : WriterOK(q)' /\ AskedOK(q)'
    BY <1>3 DEF Crash, WriterOK, AskedOK, Writing
  <2> QED
    BY <2>5, <2>6 DEF WholeInv
<1>4. ASSUME NEW s \in Slot, Damage(s)
      PROVE  WholeInv'
  <2>1. /\ UNCHANGED <<self, written>> /\ synced \subseteq synced'
        /\ damaged \subseteq damaged'
    BY <1>4, DamageKinds
  <2>2. \A t \in Slot : items'[t] \in may'[t]
    BY <1>4, DamageKinds, SMTT(30) DEF TypeInv, TypeOK, WholeInv, NamesOK
  <2>3. \A f \in File : f \in damaged' \/ data'[f] = data[f]
    BY <1>4, DamageKinds DEF TypeInv, TypeOK
  <2>4. \A t \in Slot : \A f \in may'[t] \ {None} :
          f \in File /\ (f \in may[t] \/ (f \in synced' /\ f \in damaged'))
    <3>1. Free \subseteq File
      BY DEF Free
    <3>2. CASE UNCHANGED may \/ may' = [may EXCEPT ![s] = @ \cup {None}]
      BY <3>2 DEF TypeInv, TypeOK
    <3>3. ASSUME NEW f \in Free, may' = [may EXCEPT ![s] = @ \cup {f}],
                 f \in synced', f \in damaged'
          PROVE  \A t \in Slot : \A g \in may'[t] \ {None} :
                   g \in File /\ (g \in may[t] \/ (g \in synced' /\ g \in damaged'))
      BY <3>1, <3>3 DEF TypeInv, TypeOK
    <3>4. \/ UNCHANGED may \/ may' = [may EXCEPT ![s] = @ \cup {None}]
          \/ \E f \in Free : /\ may' = [may EXCEPT ![s] = @ \cup {f}]
                            /\ f \in synced' /\ f \in damaged'
      BY <1>4, DamageKinds
    <3>5. CASE \E f \in Free : /\ may' = [may EXCEPT ![s] = @ \cup {f}]
                               /\ f \in synced' /\ f \in damaged'
      <4>1. PICK f \in Free : /\ may' = [may EXCEPT ![s] = @ \cup {f}]
                             /\ f \in synced' /\ f \in damaged'
        BY <3>5
      <4> QED
        BY <3>3, <4>1
    <3> QED
      BY <3>2, <3>4, <3>5
  <2>5. NamesOK'
    <3> SUFFICES ASSUME NEW t \in Slot, NEW f \in may'[t] \ {None}
                 PROVE  f \in synced' /\ (f \notin damaged' => Holds(f, t)')
      BY <2>2 DEF NamesOK
    <3>1. f \in File /\ (f \in may[t] \ {None} \/ (f \in synced' /\ f \in damaged'))
      BY <2>4
    <3>2. f \in may[t] \ {None} => f \in synced /\ (f \notin damaged => Holds(f, t))
      BY DEF WholeInv, NamesOK
    <3>3. data'[f] = data[f] /\ Holds(f, t) => Holds(f, t)'
      BY <2>1 DEF Holds
    <3> QED
      BY <2>1, <2>3, <3>1, <3>2, <3>3
  <2>6. \A f \in damaged' \ damaged : \/ \E t \in Slot : f = items[t]
                                     \/ f \in Free
    BY <1>4, DamageKinds
  <2>7. \A t \in Slot : \A f \in may'[t] \cup {items'[t]} :
          f \in may[t] \cup {items[t], None} \/ f \in Free
    BY <1>4, DamageKinds DEF TypeInv, TypeOK
  <2>8. \A q \in Proc : pc[q] \in Writing => file[q] \notin Free /\ file[q] \in File
    BY DEF Free, Holding, TypeInv, StepOK
  <2>9. ASSUME NEW q \in Proc
        PROVE  WriterOK(q)'
    BY <2>1, <2>3, <2>6, <2>7, <2>8, NoneAssumption DEF WholeInv, WriterOK, self, Writing
  <2>10. \A q \in Proc : AskedOK(q)'
    BY <2>1 DEF WholeInv, AskedOK, self
  <2> QED
    BY <2>5, <2>9, <2>10 DEF WholeInv
<1> QED
  BY <1>1, <1>2, <1>3, <1>4

LEMMA WholeInvNext == TypeInv /\ WholeInv /\ [Next]_vars => WholeInv'
<1> SUFFICES ASSUME TypeInv, WholeInv, [Next]_vars
             PROVE  WholeInv'
  OBVIOUS
<1>1. CASE Next
  BY <1>1, WholeBegin, WholeOpenItems, WholeSet, WholeSyncDir, WholeRead, WholeUnlink,
     WholeFailure
     DEF Next, Run
<1>2. CASE UNCHANGED vars
  BY <1>2 DEF vars, disk, self, history, WholeInv, NamesOK, Holds, WriterOK, AskedOK
<1> QED
  BY <1>1, <1>2

LEMMA WholeInvAlways == Spec => [](TypeInv /\ WholeInv)
<1>1. TypeInv /\ WholeInv /\ [Next]_vars => (TypeInv /\ WholeInv)'
  BY TypeInvNext, WholeInvNext
<1> QED
  BY <1>1, TypeInvInit, WholeInvInit, PTL DEF Spec

(* However many processes write, fail, die and lose power, no item name     *)
(* refers, or can be left referring, to a partial record or to another      *)
(* slot's, unless that file was edited outside nvault.                      *)
THEOREM ItemsAreWhole == Spec => []ItemsWhole
<1>1. TypeInv /\ WholeInv => ItemsWhole
  BY DEF TypeInv, TypeOK, WholeInv, NamesOK, ItemsWhole
<1> QED
  BY <1>1, WholeInvAlways, PTL

-----------------------------------------------------------------------------
(* Durability.  A name whose entry has not been synced is either about to   *)
(* be synced by the call that changed it, or marked loose.                  *)

Unsettled(s) == s \in loose \/ \E p \in Proc : pc[p] = "syncdir" /\ at[p] = s

SettledInv == \A s \in Slot : ~Unsettled(s) => may[s] = {items[s]}

LEMMA SettledInvInit == Init => SettledInv
BY DEF Init, SettledInv

(* A step that leaves the entries alone and takes no process out of its     *)
(* syncRoot.                                                                *)
LEMMA SettledFrame ==
  ASSUME TypeInv, SettledInv, NEW p \in Proc,
         UNCHANGED <<items, may>>,
         loose \subseteq loose',
         pc[p] = "syncdir" => at[p] \in loose',
         \A q \in Proc : q # p => pc'[q] = pc[q] /\ at'[q] = at[q]
  PROVE  SettledInv'
BY DEF SettledInv, Unsettled

LEMMA SettledRun ==
  ASSUME TypeInv, SettledInv, NEW p \in Proc, Run(p)
  PROVE  SettledInv'
<1>1. CASE Rename(p)
  <2>1. /\ \A s \in Slot : s # at[p] => may'[s] = may[s] /\ items'[s] = items[s]
        /\ pc'[p] = "syncdir" /\ at' = at /\ loose' = loose
        /\ \A q \in Proc : q # p => pc'[q] = pc[q]
        /\ pc[p] = "rename"
    BY <1>1 DEF Rename, TypeInv, TypeOK
  <2> QED
    BY <2>1 DEF SettledInv, Unsettled
<1>2. CASE Unlink(p) /\ items[at[p]] # None
  <2>1. /\ \A s \in Slot : s # at[p] => may'[s] = may[s] /\ items'[s] = items[s]
        /\ pc'[p] = "syncdir" /\ at' = at /\ loose' = loose
        /\ \A q \in Proc : q # p => pc'[q] = pc[q]
        /\ pc[p] = "unlink"
    BY <1>2 DEF Unlink, TypeInv, TypeOK, history
  <2> QED
    BY <2>1 DEF SettledInv, Unsettled
<1>3. CASE Unlink(p) /\ items[at[p]] = None
  BY <1>3, SettledFrame, ResultType, ReturnType DEF Unlink, history
<1>4. CASE SyncDir(p)
  BY <1>4 DEF SyncDir, SettledInv
<1>5. CASE FailSyncDir(p)
  <2>1. \A q \in Proc : q # p => pc'[q] = pc[q] /\ at'[q] = at[q]
    BY <1>5 DEF FailSyncDir, Return, TypeInv, TypeOK
  <2> QED
    BY <1>5, <2>1, SettledFrame DEF FailSyncDir, disk
<1>6. CASE OpenItems(p) \/ CreateTemp(p)
  <2>1. /\ pc[p] # "syncdir" /\ UNCHANGED <<items, may, loose>>
    BY <1>6 DEF OpenItems, CreateTemp, history
  <2>2. \A q \in Proc : q # p => pc'[q] = pc[q] /\ at'[q] = at[q]
    BY <1>6 DEF OpenItems, CreateTemp, Return, TypeInv, TypeOK
  <2> QED
    BY <2>1, <2>2, SettledFrame
<1>7. CASE Write(p) \/ SyncFile(p) \/ FailWriting(p) \/ Cleanup(p) \/ Fail(p)
  <2>1. /\ pc[p] # "syncdir" /\ UNCHANGED <<items, may, loose>>
    BY <1>7 DEF Write, SyncFile, FailWriting, Cleanup, Fail, disk, history, Writing
  <2>2. \A q \in Proc : q # p => pc'[q] = pc[q] /\ at'[q] = at[q]
    BY <1>7 DEF Write, SyncFile, FailWriting, Cleanup, Fail, Return, TypeInv, TypeOK
  <2> QED
    BY <2>1, <2>2, SettledFrame
<1>8. CASE \/ Lstat(p) \/ OpenFile(p) \/ ReadItem(p) \/ ReadDir(p)
           \/ NextEntry(p) \/ ReadEntry(p) \/ Inspect(p)
  <2>1. /\ pc[p] # "syncdir" /\ UNCHANGED <<items, may, loose>>
    BY <1>8 DEF Lstat, OpenFile, ReadItem, ReadDir, NextEntry, ReadEntry, Inspect,
                disk, history
  <2>2. \A q \in Proc : q # p => pc'[q] = pc[q] /\ at'[q] = at[q]
    BY <1>8 DEF Lstat, OpenFile, ReadItem, ReadDir, NextEntry, ReadEntry, Inspect, Missing,
                Return, TypeInv, TypeOK
  <2> QED
    BY <2>1, <2>2, SettledFrame
<1> QED
  BY <1>1, <1>2, <1>3, <1>4, <1>5, <1>6, <1>7, <1>8 DEF Run

LEMMA SettledInvNext == TypeInv /\ SettledInv /\ [Next]_vars => SettledInv'
<1> SUFFICES ASSUME TypeInv, SettledInv, [Next]_vars
             PROVE  SettledInv'
  OBVIOUS
<1>1. ASSUME NEW p \in Proc, NEW c \in Call, Begin(p, c)
      PROVE  SettledInv'
  BY <1>1, SettledFrame DEF Begin, disk, TypeInv, TypeOK
<1>2. ASSUME NEW p \in Proc, Kill(p)
      PROVE  SettledInv'
  BY <1>2, SettledFrame, ResultType, ReturnType DEF Kill, disk
<1>3. ASSUME Crash
      PROVE  SettledInv'
  BY <1>3 DEF Crash, SettledInv
<1>4. ASSUME NEW s \in Slot, Damage(s)
      PROVE  SettledInv'
  <2>1. \A t \in Slot : t # s \/ s \notin loose' => items'[t] = items[t] /\ may'[t] = may[t]
    BY <1>4, DamageKinds DEF TypeInv, TypeOK
  <2>2. loose \subseteq loose' /\ UNCHANGED self
    BY <1>4, DamageKinds
  <2> QED
    BY <2>1, <2>2 DEF SettledInv, Unsettled, self
<1>5. CASE UNCHANGED vars
  BY <1>5 DEF vars, disk, self, history, SettledInv, Unsettled
<1> QED
  BY <1>1, <1>2, <1>3, <1>4, <1>5, SettledRun DEF Next

DurableInv == TypeInv /\ WholeInv /\ SettledInv

LEMMA DurableInvAlways == Spec => []DurableInv
<1>1. DurableInv /\ [Next]_vars => DurableInv'
  BY TypeInvNext, WholeInvNext, SettledInvNext DEF DurableInv
<1> QED
  BY <1>1, TypeInvInit, WholeInvInit, SettledInvInit, PTL DEF Spec, DurableInv

(* The step CrashKeepsAcked speaks of.                                      *)
KeepsAcked ==
  used'.crashes > used.crashes =>
    \A s \in Slot : AtRest(s) =>
      /\ items'[s] = items[s]
      /\ items[s] # None => data'[items[s]] = data[items[s]]

LEMMA StepKeepsAcked == DurableInv /\ [Next]_vars => KeepsAcked \/ UNCHANGED vars
<1> SUFFICES ASSUME DurableInv, Next
             PROVE  KeepsAcked
  OBVIOUS
<1> USE DEF DurableInv
<1>1. CASE Crash
  <2> SUFFICES ASSUME NEW s \in Slot, AtRest(s)
               PROVE  /\ items'[s] = items[s]
                      /\ items[s] # None => data'[items[s]] = data[items[s]]
    BY DEF KeepsAcked
  <2>1. root = "stored" /\ may[s] = {items[s]}
    BY DEF AtRest, SettledInv, Unsettled
  <2>2. items'[s] = items[s]
    BY <1>1, <2>1 DEF Crash
  <2>3. items[s] # None => items[s] \in File /\ items[s] \in synced
    BY <2>1 DEF WholeInv, NamesOK, TypeInv, TypeOK
  <2>4. PICK torn \in SUBSET (File \ synced) :
               data' = [f \in File |-> IF f \in torn THEN Torn ELSE data[f]]
    BY <1>1, <2>1 DEF Crash
  <2> QED
    BY <2>2, <2>3, <2>4
<1>2. ASSUME NEW p \in Proc, Kill(p)
      PROVE  KeepsAcked
  BY <1>2 DEF Kill, KeepsAcked, disk
<1>3. CASE used'.crashes = used.crashes
  BY <1>3 DEF KeepsAcked, TypeInv, TypeOK
<1>4. ASSUME NEW p \in Proc, NEW c \in Call, Begin(p, c)
      PROVE  used'.crashes = used.crashes
  BY <1>4 DEF Begin, TypeInv, TypeOK
<1>5. ASSUME NEW p \in Proc, Run(p)
      PROVE  used'.crashes = used.crashes
  <2>1. used' = used \/ used' = [used EXCEPT !.faults = @ + 1]
    BY <1>5 DEF Run, OpenItems, CreateTemp, Write, SyncFile, Rename, FailWriting, SyncDir,
                FailSyncDir, Cleanup, Lstat, OpenFile, ReadItem, ReadDir, NextEntry,
                ReadEntry, Inspect, Unlink, Fail, Fault
  <2> QED
    BY <2>1 DEF TypeInv, TypeOK
<1>6. ASSUME NEW s \in Slot, Damage(s)
      PROVE  used'.crashes = used.crashes
  BY <1>6, DamageKinds DEF TypeInv, TypeOK
<1> QED
  BY <1>1, <1>2, <1>3, <1>4, <1>5, <1>6 DEF Next

(* A power loss, at any moment of any number of calls, leaves every slot at *)
(* rest with the item it had: an acknowledged Set or Delete is not undone.  *)
THEOREM AckedIsDurable == Spec => CrashKeepsAcked
<1>1. DurableInv /\ [Next]_vars =>
        [used'.crashes > used.crashes =>
           \A s \in Slot : AtRest(s) =>
             /\ items'[s] = items[s]
             /\ items[s] # None => data'[items[s]] = data[items[s]]]_vars
  BY StepKeepsAcked DEF KeepsAcked
<1> QED
  BY <1>1, DurableInvAlways, PTL DEF Spec, CrashKeepsAcked

-----------------------------------------------------------------------------
(* Authenticity.  A ciphertext anywhere in the vault was sealed for its     *)
(* slot by a Set that was given it, or outside nvault.                      *)

Asked(s, v) ==
  (\E i \in written[s] : i.value = v) \/ [slot |-> s, value |-> v] \in foreign

SealsOK == \A f \in File : data[f] # Torn => Asked(data[f].seal, data[f].value)

AnswersOK ==
  \A p \in Proc :
    call[p] # None /\ ret[p].is = "value" =>
      call[p].op = "get" /\ Asked(call[p].slot, ret[p].value)

AuthInv == TypeInv /\ WholeInv /\ SealsOK /\ AnswersOK

LEMMA AuthInvInit == Init => AuthInv
BY TypeInvInit, WholeInvInit DEF Init, AuthInv, SealsOK, AnswersOK, Pending

LEMMA SealsFrame ==
  ASSUME SealsOK, TypeInv, UNCHANGED <<written, foreign>>,
         \A f \in File : data'[f] \in {data[f], Torn}
  PROVE  SealsOK'
BY DEF SealsOK, Asked

LEMMA AnswersFrame ==
  ASSUME AnswersOK, UNCHANGED <<written, call>>, foreign \subseteq foreign',
         \A p \in Proc : ret'[p] = ret[p] \/ ret'[p].is # "value"
  PROVE  AnswersOK'
BY DEF AnswersOK, Asked

(* No step of an operation but Get's last answers with a value.             *)
LEMMA AnswersRun ==
  ASSUME AuthInv, NEW p \in Proc, Run(p), ~ReadItem(p)
  PROVE  AnswersOK'
<1>1. UNCHANGED <<written, foreign, call>>
  BY DEF Run, OpenItems, CreateTemp, Write, SyncFile, Rename, FailWriting, SyncDir,
         FailSyncDir, Cleanup, Lstat, OpenFile, ReadDir, NextEntry, ReadEntry,
         Inspect, Unlink, Fail, Missing, Return, disk, history
<1>2. CASE OpenItems(p)
  <2>1. ret'[p] = ret[p] \/ ret'[p] \in {NotFound, Listed({}), Done}
    BY <1>2, CallFields DEF OpenItems, Return, AuthInv, TypeInv, TypeOK, StepOK
  <2>2. \A q \in Proc : q # p => ret'[q] = ret[q]
    BY <1>2 DEF OpenItems, Return, AuthInv, TypeInv, TypeOK
  <2> QED
    BY <1>1, <2>1, <2>2, AnswersFrame DEF AuthInv, NotFound, Listed, Done
<1>3. CASE \/ CreateTemp(p) \/ Write(p) \/ SyncFile(p) \/ Rename(p) \/ FailWriting(p)
           \/ SyncDir(p) \/ FailSyncDir(p) \/ Cleanup(p) \/ Inspect(p) \/ Unlink(p)
           \/ Fail(p)
  <2>1. \A q \in Proc : ret'[q] = ret[q] \/ ret'[q] \in {Done, Error}
    BY <1>3 DEF CreateTemp, Write, SyncFile, Rename, FailWriting, SyncDir, FailSyncDir,
                Cleanup, Inspect, Unlink, Fail, Return, AuthInv, TypeInv, TypeOK
  <2> QED
    BY <1>1, <2>1, AnswersFrame DEF AuthInv, Done, Error
<1>4. CASE \/ Lstat(p) \/ OpenFile(p) \/ ReadDir(p) \/ NextEntry(p) \/ ReadEntry(p)
  <2>1. \A q \in Proc : ret'[q] = ret[q] \/ ret'[q] \in {NotFound, Error, Listed(found[p])}
    BY <1>4 DEF Lstat, OpenFile, ReadDir, NextEntry, ReadEntry, Missing, Return,
                AuthInv, TypeInv, TypeOK
  <2> QED
    BY <1>1, <2>1, AnswersFrame DEF AuthInv, NotFound, Error, Listed
<1> QED
  BY <1>2, <1>3, <1>4 DEF Run

LEMMA AuthRun ==
  ASSUME AuthInv, NEW p \in Proc, Run(p)
  PROVE  SealsOK' /\ AnswersOK'
<1>1. CASE Write(p)
  <2>1. /\ call[p] \in SetCall /\ file[p] \in File
        /\ Asked(call[p].slot, call[p].value)
    BY <1>1 DEF AuthInv, TypeInv, StepOK, WholeInv, AskedOK, ItemOf, Asked, Write, Writing,
                SetCall
  <2>2. SealsOK'
    BY <1>1, <2>1 DEF AuthInv, TypeInv, TypeOK, SealsOK, Asked, Write, RecordOf, history
  <2> QED
    BY <1>1, <2>2, AnswersRun DEF Write, ReadItem
<1>2. CASE ReadItem(p)
  <2>1. SealsOK'
    BY <1>2, SealsFrame DEF AuthInv, ReadItem, disk, history
  <2>2. /\ call[p] \in Call /\ call[p].op = "get" /\ at[p] = call[p].slot
        /\ file[p] \in File
    BY <1>2 DEF AuthInv, TypeInv, StepOK, ReadItem
  <2>3. /\ ret' = [ret EXCEPT ![p] = Decoded(data[file[p]], at[p])]
        /\ UNCHANGED <<call, written, foreign>>
    BY <1>2 DEF ReadItem, Return, history
  <2>4. Decoded(data[file[p]], at[p]).is = "value" =>
          Asked(call[p].slot, Decoded(data[file[p]], at[p]).value)
    BY <2>2 DEF Decoded, Got, Error, AuthInv, SealsOK
  <2>5. AnswersOK'
    BY <2>2, <2>3, <2>4 DEF AuthInv, AnswersOK, Asked, TypeInv, TypeOK
  <2> QED
    BY <2>1, <2>5
<1>3. CASE ~Write(p) /\ ~ReadItem(p)
  <2>1. /\ UNCHANGED <<written, foreign>>
        /\ \A f \in File : data'[f] \in {data[f], Torn}
    BY <1>3 DEF Run, OpenItems, CreateTemp, SyncFile, Rename, FailWriting, SyncDir,
                FailSyncDir, Cleanup, Lstat, OpenFile, ReadDir, NextEntry, ReadEntry,
                Inspect, Unlink, Fail, disk, history, AuthInv, TypeInv, TypeOK
  <2> QED
    BY <1>3, <2>1, SealsFrame, AnswersRun DEF AuthInv
<1> QED
  BY <1>1, <1>2, <1>3

LEMMA AuthBegin ==
  ASSUME AuthInv, NEW p \in Proc, NEW c \in Call, Begin(p, c)
  PROVE  SealsOK' /\ AnswersOK'
<1>1. (\A s \in Slot : written[s] \subseteq written'[s]) /\ UNCHANGED foreign
  BY CallFields DEF AuthInv, TypeInv, TypeOK, Begin
<1>2. SealsOK'
  <2> SUFFICES ASSUME NEW f \in File, data[f] # Torn
               PROVE  Asked(data[f].seal, data[f].value)'
    BY DEF SealsOK, Begin, disk
  <2>1. data[f].seal \in Slot /\ data' = data
    BY DEF AuthInv, TypeInv, TypeOK, Record, Begin, disk
  <2> QED
    BY <1>1, <2>1 DEF AuthInv, SealsOK, Asked
<1>3. AnswersOK'
  <2> SUFFICES ASSUME NEW q \in Proc, call'[q] # None, ret'[q].is = "value"
               PROVE  call'[q].op = "get" /\ Asked(call[q].slot, ret[q].value)'
    BY DEF AnswersOK
  <2>1. q # p /\ call'[q] = call[q] /\ ret'[q] = ret[q]
    BY DEF Begin, Pending, AuthInv, TypeInv, TypeOK
  <2>2. call[q] \in Call /\ call[q].op = "get"
    BY <2>1 DEF AuthInv, AnswersOK, TypeInv, TypeOK
  <2>3. call[q].slot \in Slot
    BY <2>2, CallFields
  <2> QED
    BY <1>1, <2>1, <2>2, <2>3 DEF AuthInv, AnswersOK, Asked
<1> QED
  BY <1>2, <1>3

LEMMA AuthFailure ==
  ASSUME AuthInv,
         \/ \E p \in Proc : Kill(p)
         \/ Crash
         \/ \E s \in Slot : Damage(s)
  PROVE  SealsOK' /\ AnswersOK'
<1>1. ASSUME NEW p \in Proc, Kill(p)
      PROVE  SealsOK' /\ AnswersOK'
  BY <1>1, SealsFrame, AnswersFrame
     DEF Kill, Return, Pending, disk, AuthInv, TypeInv, TypeOK
<1>2. ASSUME Crash
      PROVE  SealsOK' /\ AnswersOK'
  <2>1. UNCHANGED <<written, foreign>> /\ \A f \in File : data'[f] \in {data[f], Torn}
    BY <1>2 DEF Crash
  <2>2. AnswersOK'
    BY <1>2 DEF Crash, AnswersOK, Pending
  <2> QED
    BY <2>1, <2>2, SealsFrame DEF AuthInv
<1>3. ASSUME NEW s \in Slot, Damage(s)
      PROVE  SealsOK' /\ AnswersOK'
  <2>1. UNCHANGED <<written, call, ret>>
    BY <1>3 DEF Damage, self
  <2>2. CASE UNCHANGED <<data, foreign>>
    BY <2>1, <2>2, SealsFrame, AnswersFrame DEF AuthInv, TypeInv, TypeOK
  <2>3. CASE ~UNCHANGED <<data, foreign>>
    <3>1. PICK d \in Record \cup {Torn}, f \in File :
            data' = [data EXCEPT ![f] = d] /\ Seals(d)
      BY <1>3, <2>3, DamageKinds DEF AuthInv, Free
    <3>2. foreign \subseteq foreign'
      BY <3>1, SealsType DEF AuthInv
    <3>3. d # Torn => Asked(d.seal, d.value)'
      BY <2>1, <3>1 DEF Seals, Asked
    <3>4. SealsOK'
      BY <2>1, <3>1, <3>2, <3>3 DEF AuthInv, SealsOK, Asked, TypeInv, TypeOK
    <3> QED
      BY <2>1, <3>2, <3>4, AnswersFrame DEF AuthInv
  <2> QED
    BY <2>2, <2>3
<1> QED
  BY <1>1, <1>2, <1>3

LEMMA AuthInvNext == AuthInv /\ [Next]_vars => AuthInv'
<1> SUFFICES ASSUME AuthInv, [Next]_vars
             PROVE  SealsOK' /\ AnswersOK'
  BY TypeInvNext, WholeInvNext DEF AuthInv
<1>1. CASE Next
  BY <1>1, AuthRun, AuthBegin, AuthFailure DEF Next
<1>2. CASE UNCHANGED vars
  BY <1>2 DEF vars, disk, self, history, AuthInv, SealsOK, AnswersOK, Asked
<1> QED
  BY <1>1, <1>2

(* Whatever is done to the files from outside, a Get that succeeds returns  *)
(* a value that was sealed for the slot it names, by a Set given that value *)
(* or by whoever has the public key (Vault.Get, Decrypt).                   *)
THEOREM GetsAreAuthentic == Spec => []GetAuthentic
<1>1. AuthInv => GetAuthentic
  BY DEF AuthInv, AnswersOK, Asked, GetAuthentic
<1> QED
  BY <1>1, AuthInvInit, AuthInvNext, PTL DEF Spec

-----------------------------------------------------------------------------
(* Temporary files.  What a process that is writing or cleaning up leaves   *)
(* behind is renamed, removed or litter.                                    *)

LEMMA TempsOwnedNext == TypeInv /\ TempsOwned /\ [Next]_vars => TempsOwned'
<1> SUFFICES ASSUME TypeInv, TempsOwned, [Next]_vars PROVE TempsOwned'
  OBVIOUS
<1> DEFINE Owns(p, f) == pc[p] \in Writing \cup {"cleanup"} /\ file[p] = f
<1>1. ASSUME NEW p \in Proc, CreateTemp(p)
      PROVE  TempsOwned'
  <2>1. CASE Free = {}
    BY <1>1, <2>1 DEF TypeInv, TypeOK, TempsOwned, CreateTemp, Return, Writing
  <2>2. CASE Free # {}
    <3>1. PICK f \in Free : /\ temps' = temps \cup {f} /\ litter' = litter \ {f}
                            /\ file' = [file EXCEPT ![p] = f]
                            /\ Goto(p, "write")
      BY <1>1, <2>2 DEF CreateTemp
    <3>2. Owns(p, f)'
      BY <3>1 DEF TypeInv, TypeOK, Writing
    <3>3. \A q \in Proc, g \in temps : Owns(q, g) => Owns(q, g)'
      BY <1>1, <3>1 DEF TypeInv, TypeOK, CreateTemp, Writing
    <3> QED
      BY <3>1, <3>2, <3>3 DEF TempsOwned
  <2> QED
    BY <2>1, <2>2
<1>2. ASSUME NEW p \in Proc, Rename(p) \/ Cleanup(p) \/ Kill(p)
      PROVE  TempsOwned'
  <2>1. /\ temps' \subseteq temps
        /\ \A f \in temps' : f \notin litter' => f \notin litter /\ ~Owns(p, f)
    <3>1. CASE Rename(p)
      BY <3>1 DEF Rename
    <3>2. CASE Cleanup(p)
      BY <3>2 DEF Cleanup
    <3>3. CASE Kill(p)
      BY <3>3 DEF Kill, Holding, disk
    <3> QED
      BY <1>2, <3>1, <3>2, <3>3
  <2>2. \A q \in Proc \ {p} : pc'[q] = pc[q] /\ file'[q] = file[q]
    BY <1>2 DEF TypeInv, TypeOK, Rename, Cleanup, Kill, Return
  <2> QED
    BY <2>1, <2>2 DEF TempsOwned
<1>3. ASSUME NEW p \in Proc, Run(p), ~CreateTemp(p), ~Rename(p), ~Cleanup(p)
      PROVE  TempsOwned'
  <2>1. UNCHANGED <<temps, litter>>
    BY <1>3 DEF Run, OpenItems, Write, SyncFile, FailWriting, SyncDir, FailSyncDir, Lstat,
                OpenFile, ReadItem, ReadDir, NextEntry, ReadEntry, Inspect, Unlink, Fail,
                disk, history
  <2>2. \A q \in Proc \ {p} : pc'[q] = pc[q] /\ file'[q] = file[q]
    BY <1>3 DEF Run, OpenItems, Write, SyncFile, FailWriting, SyncDir, FailSyncDir, Lstat,
                OpenFile, ReadItem, ReadDir, NextEntry, ReadEntry, Inspect, Unlink, Fail,
                Missing, Return, TypeInv, TypeOK
  <2>3. \A f \in temps : Owns(p, f) => Owns(p, f)'
    BY <1>3 DEF Run, OpenItems, Write, SyncFile, FailWriting, SyncDir, FailSyncDir, Lstat,
                OpenFile, ReadItem, ReadDir, NextEntry, ReadEntry, Inspect, Unlink, Fail,
                TypeInv, TypeOK, Writing
  <2> QED
    BY <2>1, <2>2, <2>3 DEF TempsOwned
<1>4. ASSUME NEW p \in Proc, NEW c \in Call, Begin(p, c)
      PROVE  TempsOwned'
  BY <1>4 DEF Begin, disk, TypeInv, TypeOK, TempsOwned, Writing
<1>5. CASE Crash
  BY <1>5 DEF Crash, TempsOwned
<1>6. ASSUME NEW s \in Slot, Damage(s)
      PROVE  TempsOwned'
  BY <1>6 DEF Damage, self, TempsOwned
<1>7. CASE UNCHANGED vars
  BY <1>7 DEF vars, disk, self, history, TempsOwned
<1> QED
  BY <1>1, <1>2, <1>3, <1>4, <1>5, <1>6, <1>7 DEF Next

(* No path through Set leaks a temporary file (createTemporaryItem and the  *)
(* deferred Remove of Set): TempsOwned.                                     *)
THEOREM NoTempLeaks == Spec => []TempsOwned
<1>1. Init => TempsOwned
  BY DEF Init, TempsOwned
<1> QED
  BY <1>1, TypeInvInit, TypeInvNext, TempsOwnedNext, PTL DEF Spec

-----------------------------------------------------------------------------
(* Lists.  A name there is, is one a List going on has had the chance to    *)
(* see; an entry in hand or reported is such a name.                        *)

ListerOK(p) ==
  /\ pc[p] = "idle" => todo[p] = {} /\ found[p] = {}
  /\ pc[p] # "idle" /\ call[p].op = "list" => Present \subseteq around[p]
  /\ todo[p] \subseteq around[p]
  /\ pc[p] \in {"lstat", "openfile", "read"} /\ call[p].op = "list" => at[p] \in around[p]
  /\ \A m \in found[p] : m.slot.scope = call[p].scope /\ m.slot \in around[p]
  /\ call[p] # None /\ ret[p].is = "list" =>
       \A m \in ret[p].items : m.slot.scope = call[p].scope /\ m.slot \in around[p]

ListInv == \A p \in Proc : ListerOK(p)

LEMMA ListInvInit == Init => ListInv
BY DEF Init, ListInv, ListerOK, Pending

LEMMA AppearsFields ==
  ASSUME TypeInv, NEW s \in Slot, Appears(s), NEW p \in Proc
  PROVE  /\ around[p] \subseteq around'[p]
         /\ pc[p] # "idle" /\ call[p].op = "list" => s \in around'[p]
BY DEF Appears, TypeInv, TypeOK

(* A step that makes no name a List of p has no chance to see.              *)
Grows(p) ==
  /\ around[p] \subseteq around'[p]
  /\ pc[p] # "idle" /\ call[p].op = "list" /\ Present \subseteq around[p] =>
       Present' \subseteq around'[p]

(* No name is made without a List going on having the chance to see it.     *)
LEMMA AroundRun ==
  ASSUME TypeInv, NEW p \in Proc, Run(p), NEW q \in Proc
  PROVE  Grows(q)
<1>1. CASE Rename(p)
  <2>1. at[p] \in Slot /\ Appears(at[p]) /\ items' = [items EXCEPT ![at[p]] = file[p]]
    BY <1>1 DEF Rename, TypeInv, StepOK, SetCall, Writing
  <2> QED
    BY <2>1, AppearsFields DEF Grows, Present, TypeInv, TypeOK
<1>2. CASE ~Rename(p)
  <2>1. UNCHANGED around
    BY <1>2 DEF Run, OpenItems, CreateTemp, Write, SyncFile, FailWriting, SyncDir,
         FailSyncDir, Cleanup, Lstat, OpenFile, ReadItem, ReadDir, NextEntry, ReadEntry,
         Inspect, Unlink, Fail, history
  <2>2. \A s \in Slot : items'[s] \in {items[s], None}
    BY <1>2 DEF Run, OpenItems, CreateTemp, Write, SyncFile, FailWriting, SyncDir,
         FailSyncDir, Cleanup, Lstat, OpenFile, ReadItem, ReadDir, NextEntry, ReadEntry,
         Inspect, Unlink, Fail, disk, TypeInv, TypeOK
  <2> QED
    BY <2>1, <2>2 DEF Grows, Present
<1> QED
  BY <1>1, <1>2

LEMMA AroundDamage ==
  ASSUME TypeInv, NEW s \in Slot, Damage(s), NEW q \in Proc
  PROVE  Grows(q)
<1>1. CASE Appears(s) /\ \A t \in Slot \ {s} : items'[t] = items[t]
  BY <1>1, AppearsFields DEF Grows, Present
<1>2. CASE around' = around /\ \A t \in Slot : items'[t] \in {items[t], None}
  BY <1>2 DEF Grows, Present
<1> QED
  BY <1>1, <1>2, DamageKinds DEF TypeInv, TypeOK

LEMMA ResultOfList ==
  ASSUME TypeInv, NEW p \in Proc, ret[p].is = "list"
  PROVE  \A m \in ret[p].items : m \in Metadata
BY DEF TypeInv, TypeOK, Result, Pending, Done, NotFound, Error

(* A step of p that starts no List and reads no entry of one.               *)
LEMMA ListerFrame ==
  ASSUME NEW p \in Proc, TypeInv, ListInv, Grows(p),
         call'[p] = call[p],
         \/ /\ todo'[p] = {} /\ found'[p] = {}
            /\ pc'[p] = "idle"
         \/ /\ todo'[p] \subseteq todo[p] /\ found'[p] = found[p]
            /\ pc[p] # "idle" /\ pc'[p] # "idle" /\ (pc'[p] = pc[p] \/ call[p].op # "list"
                                     \/ pc'[p] \notin {"lstat", "openfile", "read"}
                                     \/ pc[p] \in {"lstat", "openfile", "read"})
            /\ at'[p] = at[p],
         ret'[p] = ret[p] \/ ret'[p].is # "list" \/ ret'[p] = Listed({})
           \/ ret'[p] = Listed(found[p])
  PROVE  ListerOK(p)'
<1>0. ListerOK(p) /\ around[p] \subseteq around'[p]
  BY DEF ListInv, Grows
<1>2. \A m \in found[p] : m.slot.scope = call'[p].scope /\ m.slot \in around'[p]
  BY <1>0 DEF ListerOK
<1>3. \A m \in found'[p] : m.slot.scope = call'[p].scope /\ m.slot \in around'[p]
  BY <1>2
<1>4. ASSUME call'[p] # None, ret'[p].is = "list", NEW m \in ret'[p].items
      PROVE  m.slot.scope = call'[p].scope /\ m.slot \in around'[p]
  <2>1. CASE ret'[p] = ret[p]
    BY <1>0, <1>4, <2>1 DEF ListerOK
  <2>2. CASE ret'[p] \in {Listed({}), Listed(found[p])}
    BY <1>2, <1>4, <2>2 DEF Listed
  <2> QED
    BY <1>4, <2>1, <2>2
<1>5. todo'[p] \subseteq around'[p]
  BY <1>0 DEF ListerOK
<1>6. pc'[p] \in {"lstat", "openfile", "read"} /\ call'[p].op = "list" => at'[p] \in around'[p]
  BY <1>0 DEF ListerOK
<1>7. pc'[p] = "idle" => todo'[p] = {} /\ found'[p] = {}
  BY <1>0 DEF ListerOK
<1>8. pc'[p] # "idle" /\ call'[p].op = "list" => Present' \subseteq around'[p]
  BY <1>0 DEF ListerOK, Grows
<1> QED
  BY <1>3, <1>4, <1>5, <1>6, <1>7, <1>8 DEF ListerOK

LEMMA ListerOther ==
  ASSUME NEW q \in Proc, TypeInv, ListInv, Grows(q),
         pc'[q] = pc[q], call'[q] = call[q], at'[q] = at[q], todo'[q] = todo[q],
         found'[q] = found[q], ret'[q] = ret[q]
  PROVE  ListerOK(q)'
<1>1. CASE pc[q] = "idle"
  BY <1>1, ListerFrame DEF ListInv, ListerOK
<1>2. CASE pc[q] # "idle"
  BY <1>2, ListerFrame
<1> QED
  BY <1>1, <1>2

LEMMA OthersStay ==
  ASSUME TypeInv, NEW p \in Proc, Run(p) \/ Kill(p) \/ \E c \in Call : Begin(p, c)
  PROVE  \A q \in Proc \ {p} :
           /\ pc'[q] = pc[q] /\ call'[q] = call[q] /\ at'[q] = at[q]
           /\ unread'[q] = unread[q] /\ todo'[q] = todo[q]
           /\ found'[q] = found[q] /\ ret'[q] = ret[q]
<1>1. CASE Kill(p) \/ \E c \in Call : Begin(p, c)
  BY <1>1 DEF Kill, Begin, Return, TypeInv, TypeOK
<1>2. CASE \/ OpenItems(p) \/ CreateTemp(p) \/ Write(p) \/ SyncFile(p) \/ Rename(p)
           \/ FailWriting(p) \/ SyncDir(p) \/ FailSyncDir(p) \/ Cleanup(p)
  BY <1>2 DEF OpenItems, CreateTemp, Write, SyncFile, Rename, FailWriting, SyncDir,
              FailSyncDir, Cleanup, Return, TypeInv, TypeOK
<1>3. CASE \/ Lstat(p) \/ OpenFile(p) \/ ReadItem(p) \/ ReadDir(p) \/ NextEntry(p)
           \/ ReadEntry(p) \/ Inspect(p) \/ Unlink(p) \/ Fail(p)
  BY <1>3 DEF Lstat, OpenFile, ReadItem, ReadDir, NextEntry, ReadEntry, Inspect, Unlink,
              Fail, Missing, Return, TypeInv, TypeOK
<1> QED
  BY <1>1, <1>2, <1>3 DEF Run

LEMMA ReturnFields ==
  ASSUME TypeInv, NEW p \in Proc, NEW r, Return(p, r)
  PROVE  /\ call'[p] = call[p] /\ unread'[p] = {} /\ todo'[p] = {} /\ found'[p] = {}
         /\ pc'[p] = "idle" /\ ret'[p] = r
BY DEF Return, TypeInv, TypeOK

LEMMA ListerRun ==
  ASSUME TypeInv, ListInv, WholeInv, NEW p \in Proc, Run(p)
  PROVE  ListerOK(p)'
<1>0. /\ ListerOK(p) /\ Grows(p)
      /\ around[p] \subseteq around'[p] /\ pc[p] # "idle"
      /\ call[p].op = "list" => Present' \subseteq around'[p]
  <2>1. pc[p] # "idle"
    BY DEF Run, OpenItems, CreateTemp, Write, SyncFile, Rename, FailWriting, SyncDir,
           FailSyncDir, Cleanup, Lstat, OpenFile, ReadItem, ReadDir, NextEntry, ReadEntry,
           Inspect, Unlink, Fail, Writing
  <2> QED
    BY <2>1, AroundRun DEF ListInv, ListerOK, Grows
<1>1. CASE OpenItems(p)
  <2>1. CASE \E r \in {NotFound, Done, Listed({})} : Return(p, r)
    BY <2>1, <1>0, ReturnFields, ListerFrame DEF NotFound, Done
  <2>2. CASE ~\E r \in {NotFound, Done, Listed({})} : Return(p, r)
    <3>1. call[p].op \in {"set", "get", "list", "delete"}
      BY <1>1, CallFields DEF OpenItems, TypeInv, StepOK
    <3>2. /\ pc'[p] \in {"create", "lstat", "readdir", "inspect"}
          /\ pc'[p] = "lstat" => call[p].op # "list"
          /\ UNCHANGED <<call, at, todo, found, ret>>
      BY <1>1, <2>2, <3>1 DEF OpenItems, TypeInv, TypeOK
    <3> QED
      BY <1>0, <3>2, ListerFrame
  <2> QED
    BY <2>1, <2>2
<1>2. CASE CreateTemp(p) \/ SyncDir(p) \/ FailSyncDir(p) \/ Cleanup(p)
  <2>1. \/ \E r \in {Error, Done, ret[p]} : Return(p, r)
        \/ /\ UNCHANGED <<call, at, todo, found>> /\ pc'[p] \in {"write", "cleanup"}
           /\ ret'[p] \in {ret[p], Done, Error}
    BY <1>2 DEF CreateTemp, SyncDir, FailSyncDir, Cleanup, TypeInv, TypeOK
  <2> QED
    BY <2>1, <1>0, ReturnFields, ListerFrame DEF Error, Done
<1>3. CASE Write(p) \/ SyncFile(p) \/ Rename(p) \/ FailWriting(p)
  <2>1. /\ UNCHANGED <<call, at, todo, found>>
        /\ pc'[p] \in {"sync", "rename", "syncdir", "cleanup"}
        /\ ret'[p] \in {ret[p], Error}
    BY <1>3 DEF Write, SyncFile, Rename, FailWriting, TypeInv, TypeOK
  <2> QED
    BY <1>0, <2>1, ListerFrame DEF Error
<1>4. CASE Inspect(p) \/ Unlink(p) \/ Fail(p)
  <2>1. \/ \E r \in {Done, Error} : Return(p, r)
        \/ UNCHANGED <<call, at, unread, todo, found, ret>> /\ pc'[p] \in {"unlink", "syncdir"}
    BY <1>4 DEF Inspect, Unlink, Fail, TypeInv, TypeOK
  <2> QED
    BY <2>1, <1>0, ReturnFields, ListerFrame DEF Error, Done
<1>5. CASE Lstat(p) \/ OpenFile(p)
  <2>1. \/ \E r \in {NotFound, Error} : Return(p, r)
        \/ /\ UNCHANGED <<call, at, found, ret>> /\ todo'[p] \subseteq todo[p]
           /\ pc[p] \in {"lstat", "openfile"} /\ pc'[p] \in {"openfile", "read"}
    BY <1>5 DEF Lstat, OpenFile, Missing, TypeInv, TypeOK
  <2> QED
    BY <2>1, <1>0, ReturnFields, ListerFrame DEF Error, NotFound
<1>6. CASE ReadItem(p)
  <2>1. Decoded(data[file[p]], at[p]).is # "list"
    BY DEF Decoded, Got, Error
  <2> QED
    BY <1>6, <2>1, <1>0, ReturnFields, ListerFrame DEF ReadItem
<1>7. CASE ReadDir(p)
  <2>1. /\ UNCHANGED <<call, found, ret>> /\ pc'[p] \in {"next", "readdir"}
        /\ call[p].op = "list" /\ todo'[p] \subseteq todo[p] \cup Present
    BY <1>7 DEF ReadDir, TypeInv, TypeOK, StepOK, ListCall
  <2>2. Present \subseteq around[p]
    BY <1>0, <2>1 DEF ListerOK
  <2> QED
    BY <1>0, <2>1, <2>2 DEF ListerOK
<1>8. CASE NextEntry(p)
  <2>1. CASE Return(p, Listed(found[p]))
    BY <2>1, <1>0, ReturnFields, ListerFrame
  <2>2. CASE ~Return(p, Listed(found[p]))
    <3>1. PICK s \in todo[p] : at' = [at EXCEPT ![p] = s]
      BY <1>8, <2>2 DEF NextEntry
    <3>2. UNCHANGED <<call, todo, found, ret>> /\ pc'[p] = "lstat" /\ at'[p] = s
      BY <1>8, <2>2, <3>1 DEF NextEntry, TypeInv, TypeOK, Return
    <3> QED
      BY <1>0, <3>2 DEF ListerOK
  <2> QED
    BY <2>1, <2>2
<1>9. CASE ReadEntry(p)
  <2>1. CASE Return(p, Error)
    BY <2>1, <1>0, ReturnFields, ListerFrame DEF Error
  <2>2. CASE ~Return(p, Error)
    <3>1. /\ UNCHANGED <<call, todo, ret>> /\ pc'[p] = "next"
          /\ pc[p] = "read" /\ call[p].op = "list"
      BY <1>9, <2>2 DEF ReadEntry, TypeInv, TypeOK
    <3>2. \A m \in found'[p] \ found[p] : m.slot.scope = call[p].scope /\ m.slot = at[p]
      BY <1>9, <2>2 DEF ReadEntry, TypeInv, TypeOK
    <3> QED
      BY <1>0, <3>1, <3>2 DEF ListerOK
  <2> QED
    BY <2>1, <2>2
<1> QED
  BY <1>1, <1>2, <1>3, <1>4, <1>5, <1>6, <1>7, <1>8, <1>9 DEF Run

LEMMA ListerBegin ==
  ASSUME TypeInv, ListInv, NEW p \in Proc, NEW c \in Call, Begin(p, c)
  PROVE  ListerOK(p)'
<1>1. /\ call'[p] = c /\ ret'[p] = Pending /\ pc'[p] = "open"
      /\ todo'[p] = {} /\ found'[p] = {}
      /\ c.op = "list" => around'[p] = Present
      /\ items' = items
  BY DEF Begin, TypeInv, TypeOK, ListInv, ListerOK, disk
<1> QED
  BY <1>1 DEF ListerOK, Pending, Present

LEMMA ListInvNext == TypeInv /\ WholeInv /\ ListInv /\ [Next]_vars => ListInv'
<1> SUFFICES ASSUME TypeInv, WholeInv, ListInv, [Next]_vars PROVE ListInv'
  OBVIOUS
<1>1. ASSUME NEW p \in Proc, Run(p)
      PROVE  \A q \in Proc : ListerOK(q)'
  <2>1. \A q \in Proc \ {p} : ListerOK(q)'
    BY <1>1, OthersStay, AroundRun, ListerOther
  <2> QED
    BY <1>1, <2>1, ListerRun
<1>2. ASSUME NEW p \in Proc, Kill(p)
      PROVE  \A q \in Proc : ListerOK(q)'
  <2>1. Return(p, Pending) /\ UNCHANGED <<items, around>>
    BY <1>2 DEF Kill, disk
  <2>2. \A q \in Proc : Grows(q)
    BY <2>1 DEF Grows, Present
  <2>3. \A q \in Proc \ {p} : ListerOK(q)'
    BY <1>2, <2>2, OthersStay, ListerOther
  <2>4. ListerOK(p)'
    BY <2>1, <2>2, ReturnFields, ListerFrame DEF Pending
  <2> QED
    BY <2>3, <2>4
<1>3. ASSUME NEW p \in Proc, NEW c \in Call, Begin(p, c)
      PROVE  \A q \in Proc : ListerOK(q)'
  <2>1. \A q \in Proc \ {p} : around'[q] = around[q]
    BY <1>3 DEF Begin, TypeInv, TypeOK
  <2>2. \A q \in Proc \ {p} : Grows(q)
    BY <1>3, <2>1 DEF Begin, disk, Grows, Present
  <2>3. \A q \in Proc \ {p} : ListerOK(q)'
    BY <1>3, <2>2, OthersStay, ListerOther
  <2> QED
    BY <1>3, <2>3, ListerBegin
<1>4. CASE Crash
  <2> SUFFICES ASSUME NEW q \in Proc PROVE ListerOK(q)'
    BY DEF ListInv
  <2>1. pc'[q] = "idle" /\ call'[q] = None /\ todo'[q] = {} /\ found'[q] = {}
    BY <1>4 DEF Crash
  <2> QED
    BY <2>1 DEF ListerOK
<1>5. CASE (\E s \in Slot : Damage(s)) \/ UNCHANGED vars
  <2>1. UNCHANGED <<pc, call, at, todo, found, ret>>
    BY <1>5 DEF Damage, vars, self
  <2>2. \A q \in Proc : Grows(q)
    BY <1>5, AroundDamage DEF Grows, Present, vars, disk, history
  <2> QED
    BY <2>1, <2>2, ListerOther DEF ListInv
<1> QED
  BY <1>1, <1>2, <1>3, <1>4, <1>5 DEF Next, ListInv

(* Whatever is done to the files from outside, a List that succeeds reports *)
(* only slots of its scope that had a record under their own name at an     *)
(* instant of the call (Vault.List): ListHonest.                            *)
THEOREM ListsAreHonest == Spec => []ListHonest
<1>1. ListInv => ListHonest
  BY DEF ListInv, ListerOK, ListHonest
<1>2. AuthInv => TypeInv /\ WholeInv
  BY DEF AuthInv
<1> QED
  BY <1>1, <1>2, AuthInvInit, AuthInvNext, ListInvInit, ListInvNext, PTL DEF Spec
=============================================================================
