----------------------------- MODULE AtomicVault -----------------------------
(***************************************************************************)
(* What the local store promises the processes that share it, without      *)
(* files: every Set and Delete takes effect at one instant between its     *)
(* call and its return, Get answers with the item of one such instant, and *)
(* List with one instant for every slot of its scope: with the kind the    *)
(* slot had then, or not at all if it was empty.  The instants of one List *)
(* need not be the same.  A call may fail instead; a failed Set or Delete  *)
(* may have taken effect.  A power loss undoes no change whose call has    *)
(* returned without an error, once the vault's directory is on the disk.   *)
(***************************************************************************)
EXTENDS Naturals

CONSTANTS Proc, Scope, Key, Kind, Value, None

Slot == [scope : Scope, key : Key]
Item == [kind : Kind, value : Value]

VARIABLES
  vault,    \* the item of every slot, or None
  may,      \* what every slot may hold after a power loss
  founded,  \* whether the vault as a whole survives a power loss
  phase,    \* "idle", "called", "applied", "settled", "failed"
  call,     \* the call of every process
  left,     \* List: slots still to be reported
  seen,     \* List: what has been reported
  ret       \* the answer a process has, or will return with

vars == <<vault, may, founded, phase, call, left, seen, ret>>

Pending == [is |-> "pending"]
Done == [is |-> "done"]
NotFound == [is |-> "notfound"]
Error == [is |-> "error"]
Got(i) == IF i = None THEN NotFound
          ELSE [is |-> "value", kind |-> i.kind, value |-> i.value]
Listed(ms) == [is |-> "list", items |-> ms]

Call ==
  [op : {"set"}, slot : Slot, kind : Kind, value : Value]
    \cup [op : {"get", "delete"}, slot : Slot]
    \cup [op : {"list"}, scope : Scope]

Init ==
  /\ vault = [s \in Slot |-> None]
  /\ may = [s \in Slot |-> {None}]
  /\ founded \in BOOLEAN
  /\ phase = [p \in Proc |-> "idle"]
  /\ call = [p \in Proc |-> None]
  /\ left = [p \in Proc |-> {}]
  /\ seen = [p \in Proc |-> {}]
  /\ ret = [p \in Proc |-> Pending]

Begin(p, c) ==
  /\ phase[p] = "idle"
  /\ phase' = [phase EXCEPT ![p] = "called"]
  /\ call' = [call EXCEPT ![p] = c]
  /\ ret' = [ret EXCEPT ![p] = Pending]
  /\ UNCHANGED <<vault, may, founded, left, seen>>

(* The instant a Set takes effect. *)
Set(p) ==
  /\ phase[p] = "called" /\ call[p].op = "set"
  /\ LET s == call[p].slot
         i == [kind |-> call[p].kind, value |-> call[p].value]
     IN  /\ vault' = [vault EXCEPT ![s] = i]
         /\ may' = [may EXCEPT ![s] = @ \cup {i}]
  /\ phase' = [phase EXCEPT ![p] = "applied"]
  /\ UNCHANGED <<founded, call, left, seen, ret>>

(* The instant a Delete takes effect on a slot that holds an item. *)
Delete(p) ==
  /\ phase[p] = "called" /\ call[p].op = "delete"
  /\ vault[call[p].slot] # None
  /\ vault' = [vault EXCEPT ![call[p].slot] = None]
  /\ may' = [may EXCEPT ![call[p].slot] = @ \cup {None}]
  /\ phase' = [phase EXCEPT ![p] = "applied"]
  /\ UNCHANGED <<founded, call, left, seen, ret>>

(* What has been done so far can no longer be lost. *)
Settle(p) ==
  /\ phase[p] = "applied"
  /\ may' = [s \in Slot |-> {vault[s]}]
  /\ ret' = [ret EXCEPT ![p] = Done]
  /\ phase' = [phase EXCEPT ![p] = IF call[p].op = "set" THEN "settled" ELSE "idle"]
  /\ UNCHANGED <<vault, founded, call, left, seen>>

(* A Delete of a slot that is empty. *)
NothingToDelete(p) ==
  /\ phase[p] = "called" /\ call[p].op = "delete"
  /\ vault[call[p].slot] = None
  /\ ret' = [ret EXCEPT ![p] = Done]
  /\ phase' = [phase EXCEPT ![p] = "idle"]
  /\ UNCHANGED <<vault, may, founded, call, left, seen>>

(* The instant a Get reads; nothing there is an answer of its own. *)
Get(p) ==
  /\ phase[p] = "called" /\ call[p].op = "get"
  /\ ret' = [ret EXCEPT ![p] = Got(vault[call[p].slot])]
  /\ phase' = [phase EXCEPT ![p] = IF vault[call[p].slot] = None THEN "idle" ELSE "settled"]
  /\ UNCHANGED <<vault, may, founded, call, left, seen>>

(* A List begins to look at the slots of its scope. *)
Look(p) ==
  /\ phase[p] = "called" /\ call[p].op = "list"
  /\ left' = [left EXCEPT ![p] = {s \in Slot : s.scope = call[p].scope}]
  /\ phase' = [phase EXCEPT ![p] = "applied"]
  /\ UNCHANGED <<vault, may, founded, call, seen, ret>>

(* A List at an instant when its scope has no item. *)
NothingToList(p) ==
  /\ phase[p] = "called" /\ call[p].op = "list"
  /\ \A s \in Slot : s.scope = call[p].scope => vault[s] = None
  /\ ret' = [ret EXCEPT ![p] = Listed({})]
  /\ phase' = [phase EXCEPT ![p] = "idle"]
  /\ UNCHANGED <<vault, may, founded, call, left, seen>>

(* The instant a List finds slots of its scope empty. *)
Skip(p, empty) ==
  /\ phase[p] = "applied" /\ empty \subseteq left[p]
  /\ \A s \in empty : vault[s] = None
  /\ left' = [left EXCEPT ![p] = @ \ empty]
  /\ UNCHANGED <<vault, may, founded, phase, call, seen, ret>>

(* The instant whose kind a List reports for one of them. *)
Report(p, s) ==
  /\ phase[p] = "applied" /\ s \in left[p] /\ vault[s] # None
  /\ left' = [left EXCEPT ![p] = @ \ {s}]
  /\ seen' = [seen EXCEPT ![p] = @ \cup {[slot |-> s, kind |-> vault[s].kind]}]
  /\ UNCHANGED <<vault, may, founded, phase, call, ret>>

ReturnList(p) ==
  /\ phase[p] = "applied" /\ call[p].op = "list" /\ left[p] = {}
  /\ ret' = [ret EXCEPT ![p] = Listed(seen[p])]
  /\ phase' = [phase EXCEPT ![p] = "idle"]
  /\ seen' = [seen EXCEPT ![p] = {}]
  /\ UNCHANGED <<vault, may, founded, call, left>>

Return(p) ==
  /\ phase[p] \in {"settled", "failed"}
  /\ phase' = [phase EXCEPT ![p] = "idle"]
  /\ UNCHANGED <<vault, may, founded, call, left, seen, ret>>

(* The call is going to fail. *)
Abort(p) ==
  /\ phase[p] \in {"called", "applied"}
  /\ phase' = [phase EXCEPT ![p] = "failed"]
  /\ ret' = [ret EXCEPT ![p] = Error]
  /\ UNCHANGED <<vault, may, founded, call, left, seen>>

(* The call fails, or its process dies. *)
Fail(p, r) ==
  /\ phase[p] # "idle"
  /\ phase' = [phase EXCEPT ![p] = "idle"]
  /\ ret' = [ret EXCEPT ![p] = r]
  /\ left' = [left EXCEPT ![p] = {}]
  /\ seen' = [seen EXCEPT ![p] = {}]
  /\ UNCHANGED <<vault, may, founded, call>>

Crash ==
  /\ \/ /\ ~founded
        /\ vault' = [s \in Slot |-> None]
        /\ founded' = FALSE
     \/ /\ founded' = TRUE
        /\ vault' \in [Slot -> Item \cup {None}]
        /\ \A s \in Slot : vault'[s] \in may[s]
     \/ /\ founded' = founded       \* nothing was ever stored
        /\ \A s \in Slot : may[s] = {None}
        /\ vault' = vault
  /\ may' = [s \in Slot |-> {vault'[s]}]
  /\ phase' = [p \in Proc |-> "idle"]
  /\ call' = [p \in Proc |-> None]
  /\ left' = [p \in Proc |-> {}]
  /\ seen' = [p \in Proc |-> {}]
  /\ ret' = [p \in Proc |-> Pending]

Next ==
  \/ \E p \in Proc : \E c \in Call : Begin(p, c)
  \/ \E p \in Proc :
       \/ Set(p) \/ Delete(p) \/ Settle(p) \/ NothingToDelete(p)
       \/ Get(p) \/ Look(p) \/ NothingToList(p) \/ ReturnList(p)
       \/ Return(p) \/ Abort(p)
       \/ \E empty \in SUBSET Slot : Skip(p, empty)
       \/ \E s \in Slot : Report(p, s)
       \/ \E r \in {Error, Pending} : Fail(p, r)
  \/ Crash

Spec == Init /\ [][Next]_vars
=============================================================================
