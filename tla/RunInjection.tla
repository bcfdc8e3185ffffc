----------------------------- MODULE RunInjection -----------------------------
(***************************************************************************)
(* nvault run (runLocal of src/cmd/nvault/local.go): a List and several    *)
(* Gets of a store that other processes change in the meantime, and the    *)
(* environment of the child made of them.                                  *)
(*                                                                         *)
(* The store is AtomicVault, which VaultStore implements; the run is one   *)
(* of its processes.                                                       *)
(***************************************************************************)
EXTENDS AtomicVault

CONSTANTS
  Runner,    \* the process of the run
  Home,      \* its scope
  Name,      \* names of environment variables: the keys that are none are refused
  Seam,      \* NVAULT_IDENTITY_KEY and NVAULT_PASSPHRASE
  Old,       \* any value the parent's environment has
  Nul,       \* the values with a NUL byte
  MaxOthers  \* bound: calls of the other processes

ASSUME RunnerAssumption == Runner \in Proc /\ Home \in Scope
ASSUME NamesAssumption == Seam \subseteq Name /\ Nul \subseteq Value
ASSUME OldAssumption == Old # None /\ Old \notin Value /\ None \notin Item
ASSUME OthersAssumption == MaxOthers \in Nat

VARIABLES
  step,         \* "start", "list", "select", "next", "get", "child", "failed"
  only, all,    \* the options
  selected,     \* the keys to be added
  todo,         \* those that are not added yet
  parent,       \* the environment of the run
  environment,  \* that of the child in the making
  others,       \* calls of the others
  past,         \* history: what each slot has held since the run began
  always, ever  \* history: keys the scope has had throughout the List, or at all

run == <<step, only, all, selected, todo, parent, environment>>
history == <<past, always, ever>>
allVars == <<vars, run, others, history>>

At(key) == [scope |-> Home, key |-> key]
KeysIn(v) == {k \in Key : v[At(k)] # None}
Env == [Name -> Value \cup {Old, None}]

RunTypeOK ==
  /\ step \in {"start", "list", "select", "next", "get", "child", "failed"}
  /\ only \subseteq Key /\ all \in BOOLEAN
  /\ selected \subseteq Key /\ todo \subseteq selected
  /\ parent \in Env /\ environment \in Env
  /\ others \in 0 .. MaxOthers
  /\ past \in [Slot -> SUBSET (Item \cup {None})]
  /\ always \subseteq Key /\ ever \subseteq Key
  /\ step \in {"next", "get", "child"} =>
       \A key \in selected \ todo : key \in Name /\ environment[key] \in Value \ Nul

(* The store has had other users before.                                   *)
RunInit ==
  /\ vault \in [Slot -> Item \cup {None}]
  /\ may = [s \in Slot |-> {vault[s]}]
  /\ founded = TRUE
  /\ phase = [p \in Proc |-> "idle"]
  /\ call = [p \in Proc |-> None]
  /\ left = [p \in Proc |-> {}]
  /\ seen = [p \in Proc |-> {}]
  /\ ret = [p \in Proc |-> Pending]
  /\ step = "start"
  /\ only = {} /\ all = FALSE /\ selected = {} /\ todo = {}
  /\ parent \in [Name -> {Old, None}]
  /\ environment = parent
  /\ others = 0
  /\ past = [s \in Slot |-> {vault[s]}]
  /\ always = KeysIn(vault) /\ ever = always

Going == step \notin {"child", "failed"}

Listing == step = "list" /\ phase[Runner] # "idle"

(* What there is at each instant of the run, and of its List.              *)
Observe ==
  /\ past' = [s \in Slot |-> past[s] \cup {vault'[s]}]
  /\ CASE step = "start" -> always' = KeysIn(vault') /\ ever' = KeysIn(vault')
       [] Listing -> always' = always \cap KeysIn(vault') /\ ever' = ever \cup KeysIn(vault')
       [] OTHER -> UNCHANGED <<always, ever>>

Mine == phase[Runner] = "idle" /\ UNCHANGED others

-----------------------------------------------------------------------------
(* Slip: --only and --all are taken together. *)
StartBoth(keys, every) ==
  /\ step = "start" /\ Mine
  /\ only' = keys /\ all' = every /\ selected' = keys
  /\ IF every
     THEN step' = "list" /\ Begin(Runner, [op |-> "list", scope |-> Home])
     ELSE step' = "select" /\ UNCHANGED vars
  /\ UNCHANGED <<todo, parent, environment>>

(* The options: one of --only and --all.                                   *)
Start(keys, every) ==
  /\ step = "start" /\ Mine
  /\ ~(every /\ keys # {})
  /\ only' = keys /\ all' = every /\ selected' = keys
  /\ IF every
     THEN step' = "list" /\ Begin(Runner, [op |-> "list", scope |-> Home])
     ELSE step' = "select" /\ UNCHANGED vars
  /\ UNCHANGED <<todo, parent, environment>>

TakeList ==
  /\ step = "list" /\ Mine
  /\ IF ret[Runner].is = "list"
     THEN /\ step' = "select"
          /\ selected' = selected \cup {m.slot.key : m \in ret[Runner].items}
     ELSE step' = "failed" /\ UNCHANGED selected
  /\ UNCHANGED <<vars, only, all, todo, parent, environment>>

(* Slip: the seams are not removed. *)
SelectKeepingSeams ==
  /\ step = "select" /\ Mine
  /\ todo' = selected
  /\ step' = IF selected = {} THEN "failed" ELSE "next"
  /\ UNCHANGED <<vars, only, all, selected, parent, environment>>

(* removeEnvironment takes out the seams before any key is added.          *)
Select ==
  /\ step = "select" /\ Mine
  /\ todo' = selected
  /\ step' = IF selected = {} THEN "failed" ELSE "next"
  /\ environment' = [n \in Name |-> IF n \in Seam THEN None ELSE environment[n]]
  /\ UNCHANGED <<vars, only, all, selected, parent>>

(* The next key; sorted, which is any order here.                          *)
NextKey(key) ==
  /\ step = "next" /\ Mine
  /\ key \in todo
  /\ IF key \in Name
     THEN step' = "get" /\ Begin(Runner, [op |-> "get", slot |-> At(key)])
     ELSE step' = "failed" /\ UNCHANGED vars
  /\ UNCHANGED <<only, all, selected, todo, parent, environment>>

(* Slip: a key that has gone is left out. *)
SkipMissing ==
  /\ step = "get" /\ Mine
  /\ LET key == call[Runner].slot.key
     IN  CASE ret[Runner].is = "value" /\ ret[Runner].value \notin Nul ->
                /\ environment' = [environment EXCEPT ![key] = ret[Runner].value]
                /\ todo' = todo \ {key}
                /\ step' = "next"
           [] ret[Runner].is = "notfound" ->
                step' = "next" /\ todo' = todo \ {key} /\ UNCHANGED environment
           [] OTHER -> step' = "failed" /\ UNCHANGED <<environment, todo>>
  /\ UNCHANGED <<vars, only, all, selected, parent>>

(* setEnvironment with what Get has returned.                              *)
SetEnvironment ==
  /\ step = "get" /\ Mine
  /\ LET key == call[Runner].slot.key
     IN  IF ret[Runner].is = "value" /\ ret[Runner].value \notin Nul
         THEN /\ environment' = [environment EXCEPT ![key] = ret[Runner].value]
              /\ todo' = todo \ {key}
              /\ step' = "next"
         ELSE step' = "failed" /\ UNCHANGED <<environment, todo>>
  /\ UNCHANGED <<vars, only, all, selected, parent>>

StartChild ==
  /\ step = "next" /\ Mine
  /\ todo = {}
  /\ step' = "child"
  /\ UNCHANGED <<vars, only, all, selected, todo, parent, environment>>

-----------------------------------------------------------------------------
(* The run's call, in the store.                                           *)
InStore ==
  /\ \/ Get(Runner) \/ Look(Runner) \/ NothingToList(Runner) \/ ReturnList(Runner)
     \/ Return(Runner) \/ Fail(Runner, Error) \/ \E s \in Slot : Report(Runner, s)
     \/ \E empty \in SUBSET Slot : Skip(Runner, empty)
  /\ UNCHANGED <<run, others>>

(* Set and Delete by other processes, as long as it can matter.            *)
Other(p) ==
  /\ p # Runner /\ Going
  /\ \/ /\ others < MaxOthers
        /\ others' = others + 1
        /\ \E s \in Slot : \/ Begin(p, [op |-> "delete", slot |-> s])
                           \/ \E i \in Item : Begin(p, [op |-> "set", slot |-> s, kind |-> i.kind,
                                                        value |-> i.value])
     \/ /\ Set(p) \/ Delete(p) \/ NothingToDelete(p) \/ Settle(p) \/ Return(p) \/ Fail(p, Error)
        /\ UNCHANGED others
  /\ UNCHANGED run

RunStep ==
  /\ \/ \E keys \in SUBSET Key, every \in BOOLEAN : Start(keys, every)
     \/ TakeList \/ Select \/ SetEnvironment \/ StartChild \/ InStore
     \/ \E key \in Key : NextKey(key)
  /\ Observe

RunNext == RunStep \/ \E p \in Proc : Other(p) /\ Observe

RunSpec == RunInit /\ [][RunNext]_allVars

-----------------------------------------------------------------------------
(* Properties.                                                             *)

(* The child has every key that was selected, with a value its slot held   *)
(* while the run was going; of the parent's variables it has all others    *)
(* but the two seams, as they are.                                         *)
ChildExact ==
  step = "child" => \A n \in Name :
    IF n \in selected
    THEN \E i \in past[At(n)] \ {None} : environment[n] = i.value
    ELSE environment[n] = IF n \in Seam THEN None ELSE parent[n]

(* What is selected is what was asked for: the keys of --only, or with     *)
(* --all every key the scope had throughout the List and only keys it had  *)
(* at some instant of it, whatever others set and delete meanwhile.        *)
SelectionWhole ==
  step = "child" =>
    /\ selected # {}
    /\ IF all THEN always \subseteq selected /\ selected \subseteq ever ELSE selected = only
=============================================================================
