-------------------------- MODULE RunInjectionProofs --------------------------
(* Proofs about RunInjection, for any processes, scopes, keys, values and   *)
(* number of calls the others make.                                         *)
EXTENDS RunInjection, TLAPS

Vaults == [Slot -> Item \cup {None}]

(* What the run relies on in the store.                                     *)
StoreOK ==
  /\ vault \in Vaults
  /\ DOMAIN phase = Proc /\ DOMAIN call = Proc /\ DOMAIN left = Proc
  /\ DOMAIN seen = Proc /\ DOMAIN ret = Proc
  /\ \A p \in Proc \ {Runner} : phase[p] = "called" /\ call[p].op = "set" =>
       [kind |-> call[p].kind, value |-> call[p].value] \in Item

(* The run has watched the store so far.                                    *)
WatchOK ==
  /\ \A s \in Slot : vault[s] \in past[s]
  /\ step = "start" \/ Listing => always \subseteq KeysIn(vault) /\ KeysIn(vault) \subseteq ever

KeysOf(ms) == {m.slot.key : m \in ms}
KeysLeft(slots) == {s.key : s \in slots}

(* Keys that cannot be missing, and that can be there.                      *)
Whole(keys) == always \subseteq keys
Real(keys) == keys \subseteq ever

(* A list under way has every key of the whole time, reported or left, and  *)
(* has reported only keys of some instant.                                  *)
ListOK ==
  /\ phase[Runner] # "applied" => seen[Runner] = {}
  /\ step = "list" =>
       /\ all /\ selected = {}
       /\ phase[Runner] \in {"idle", "called", "applied"}
       /\ call[Runner] = [op |-> "list", scope |-> Home]
       /\ phase[Runner] = "applied" =>
            /\ \A s \in left[Runner] : s.key \in Key /\ s = At(s.key)
            /\ Whole(KeysLeft(left[Runner]) \cup KeysOf(seen[Runner]))
            /\ Real(KeysOf(seen[Runner]))
       /\ phase[Runner] = "idle" /\ ret[Runner].is = "list" =>
            Whole(KeysOf(ret[Runner].items)) /\ Real(KeysOf(ret[Runner].items))

(* A get has an answer that its slot has held.                              *)
GetOK ==
  step = "get" =>
    /\ phase[Runner] \in {"idle", "called", "settled"}
    /\ \E key \in todo \cap Name :
         /\ call[Runner] = [op |-> "get", slot |-> At(key)]
         /\ ret[Runner].is = "value" =>
              \E i \in past[At(key)] \ {None} : ret[Runner].value = i.value

IdleOK == step \notin {"list", "get"} => phase[Runner] = "idle"

ChoiceOK ==
  /\ step \in {"select", "next", "get", "child"} =>
       IF all THEN Whole(selected) /\ Real(selected) ELSE selected = only
  /\ step \in {"next", "get", "child"} => selected # {}

(* The environment, while keys are added to it.                             *)
Added(n) == \E i \in past[At(n)] \ {None} : environment[n] = i.value

EnvOK ==
  /\ step \in {"start", "list", "select"} => environment = parent /\ todo = {}
  /\ step \in {"next", "get", "child"} => \A n \in Name :
       IF n \in selected \ todo THEN Added(n)
       ELSE environment[n] = IF n \in Seam THEN None ELSE parent[n]
  /\ step = "child" => todo = {}

RunInv ==
  /\ RunTypeOK /\ StoreOK /\ WatchOK /\ ListOK /\ GetOK /\ IdleOK /\ ChoiceOK /\ EnvOK

-----------------------------------------------------------------------------
LEMMA AtSlot == \A key \in Key : At(key) \in Slot
BY RunnerAssumption DEF At, Slot

LEMMA RunStarts == RunInit => RunInv
<1> SUFFICES ASSUME RunInit
             PROVE  RunInv
  OBVIOUS
<1>1. RunTypeOK
  <2>1. parent \in Env /\ environment \in Env
    BY DEF RunInit, Env
  <2>2. /\ past \in [Slot -> SUBSET (Item \cup {None})]
        /\ always \subseteq Key /\ ever \subseteq Key
    BY DEF RunInit, KeysIn
  <2>3. /\ step = "start" /\ only = {} /\ all = FALSE /\ selected = {} /\ todo = {}
        /\ others = 0 /\ 0 \in 0 .. MaxOthers
    BY OthersAssumption DEF RunInit
  <2> QED
    BY <2>1, <2>2, <2>3 DEF RunTypeOK
<1>2. StoreOK
  BY DEF RunInit, StoreOK, Vaults
<1>3. WatchOK
  BY DEF RunInit, WatchOK
<1>4. phase[Runner] = "idle" /\ seen[Runner] = {} /\ step = "start"
  BY RunnerAssumption DEF RunInit
<1>5. ListOK /\ GetOK /\ IdleOK /\ ChoiceOK
  BY <1>4 DEF ListOK, GetOK, IdleOK, ChoiceOK
<1>6. EnvOK
  BY <1>4 DEF EnvOK, RunInit
<1> QED
  BY <1>1, <1>2, <1>3, <1>5, <1>6 DEF RunInv

(* What was watched stays so: as long as a list goes on, keys only leave    *)
(* `always` and only come to `ever`.                                        *)
LEMMA Watching ==
  ASSUME RunInv, Observe, vault' \in Vaults, UNCHANGED step, Listing' => Listing
  PROVE  /\ past' \in [Slot -> SUBSET (Item \cup {None})]
         /\ always' \subseteq Key /\ ever' \subseteq Key
         /\ WatchOK'
         /\ \A s \in Slot : past[s] \subseteq past'[s]
         /\ step # "start" => always' \subseteq always /\ ever \subseteq ever'
<1>1. past' = [s \in Slot |-> past[s] \cup {vault'[s]}]
  BY DEF Observe
<1>2. /\ past \in [Slot -> SUBSET (Item \cup {None})]
      /\ always \subseteq Key /\ ever \subseteq Key /\ KeysIn(vault') \subseteq Key
  BY DEF RunInv, RunTypeOK, KeysIn
<1>3. past' \in [Slot -> SUBSET (Item \cup {None})]
  BY <1>1, <1>2 DEF Vaults
<1>4. /\ step = "start" => always' = KeysIn(vault') /\ ever' = KeysIn(vault')
      /\ Listing => always' = always \cap KeysIn(vault') /\ ever' = ever \cup KeysIn(vault')
      /\ step # "start" /\ ~Listing => UNCHANGED <<always, ever>>
  BY DEF Observe, Listing
<1>5. KeysIn(vault)' = KeysIn(vault')
  BY DEF KeysIn, At
<1>6. WatchOK'
  <2>1. \A s \in Slot : vault'[s] \in past'[s]
    BY <1>1
  <2> QED
    BY <2>1, <1>4, <1>5 DEF WatchOK
<1>7. step # "start" => always' \subseteq always /\ ever \subseteq ever'
  BY <1>4
<1> QED
  BY <1>1, <1>2, <1>3, <1>4, <1>6, <1>7

(* A step that leaves the run and its call alone.                           *)
LEMMA Untouched ==
  ASSUME RunInv, Observe, StoreOK', UNCHANGED run, others' \in 0 .. MaxOthers,
         phase'[Runner] = phase[Runner], call'[Runner] = call[Runner],
         left'[Runner] = left[Runner], seen'[Runner] = seen[Runner], ret'[Runner] = ret[Runner]
  PROVE  RunInv'
<1>1. UNCHANGED <<step, only, all, selected, todo, parent, environment>>
  BY DEF run
<1>2. /\ past' \in [Slot -> SUBSET (Item \cup {None})]
      /\ always' \subseteq Key /\ ever' \subseteq Key
      /\ WatchOK'
      /\ \A s \in Slot : past[s] \subseteq past'[s]
      /\ step # "start" => always' \subseteq always /\ ever \subseteq ever'
  <2>1. Listing' = Listing
    BY <1>1 DEF Listing
  <2> QED
    BY <2>1, <1>1, Watching DEF StoreOK
<1>3. RunTypeOK'
  BY <1>1, <1>2 DEF RunInv, RunTypeOK, Env
<1>4. ListOK'
  BY <1>1, <1>2 DEF RunInv, ListOK, KeysLeft, KeysOf, Whole, Real, At
<1>5. GetOK'
  <2> SUFFICES ASSUME step = "get"
               PROVE  /\ phase[Runner] \in {"idle", "called", "settled"}
                      /\ \E key \in todo \cap Name :
                           /\ call[Runner] = [op |-> "get", slot |-> At(key)]
                           /\ ret[Runner].is = "value" =>
                                \E i \in past'[At(key)] \ {None} : ret[Runner].value = i.value
    BY <1>1 DEF GetOK, At
  <2>1. PICK key \in todo \cap Name :
          /\ call[Runner] = [op |-> "get", slot |-> At(key)]
          /\ ret[Runner].is = "value" =>
               \E i \in past[At(key)] \ {None} : ret[Runner].value = i.value
    BY DEF RunInv, GetOK
  <2>2. past[At(key)] \subseteq past'[At(key)]
    BY <1>2, AtSlot DEF RunInv, RunTypeOK
  <2> QED
    BY <2>1, <2>2 DEF RunInv, GetOK
<1>6. IdleOK' /\ ChoiceOK'
  BY <1>1, <1>2 DEF RunInv, IdleOK, ChoiceOK, Whole, Real
<1>7. EnvOK'
  <2>1. ASSUME NEW n \in Name, n \in selected, Added(n)
        PROVE  Added(n)'
    <3>1. past[At(n)] \subseteq past'[At(n)]
      BY <2>1, <1>2, AtSlot DEF RunInv, RunTypeOK
    <3> QED
      BY <2>1, <3>1, <1>1 DEF Added, At
  <2> QED
    BY <2>1, <1>1 DEF RunInv, EnvOK
<1> QED
  BY <1>2, <1>3, <1>4, <1>5, <1>6, <1>7 DEF RunInv

-----------------------------------------------------------------------------
(* The others.                                                              *)
LEMMA OtherStep ==
  ASSUME RunInv, NEW p \in Proc, Other(p), Observe
  PROVE  RunInv'
<1>1. p # Runner /\ UNCHANGED run
  BY DEF Other
<1>2. others \in 0 .. MaxOthers /\ MaxOthers \in Nat
  BY OthersAssumption DEF RunInv, RunTypeOK
<1> DEFINE Kept == /\ DOMAIN phase' = Proc /\ DOMAIN call' = Proc /\ DOMAIN left' = Proc
                   /\ DOMAIN seen' = Proc /\ DOMAIN ret' = Proc
                   /\ \A q \in Proc \ {p} : /\ phase'[q] = phase[q] /\ call'[q] = call[q]
                                          /\ left'[q] = left[q] /\ seen'[q] = seen[q]
                                          /\ ret'[q] = ret[q]
<1>3. StoreOK
  BY DEF RunInv
<1>4. ASSUME Kept, vault' \in Vaults, others' \in 0 .. MaxOthers,
             phase'[p] = "called" /\ call'[p].op = "set" =>
               [kind |-> call'[p].kind, value |-> call'[p].value] \in Item
      PROVE  RunInv'
  <2>1. StoreOK'
    BY <1>3, <1>4 DEF StoreOK
  <2> QED
    BY <2>1, <1>1, <1>4, Untouched, RunnerAssumption
<1>5. ASSUME NEW s \in Slot, others < MaxOthers, others' = others + 1,
             Begin(p, [op |-> "delete", slot |-> s])
      PROVE  RunInv'
  <2>1. Kept /\ vault' = vault /\ call'[p] = [op |-> "delete", slot |-> s]
    BY <1>3, <1>5 DEF Begin, StoreOK
  <2> QED
    BY <2>1, <1>2, <1>3, <1>4, <1>5 DEF StoreOK
<1>6. ASSUME NEW s \in Slot, NEW i \in Item, others < MaxOthers, others' = others + 1,
             Begin(p, [op |-> "set", slot |-> s, kind |-> i.kind, value |-> i.value])
      PROVE  RunInv'
  <2>1. /\ Kept /\ vault' = vault
        /\ call'[p] = [op |-> "set", slot |-> s, kind |-> i.kind, value |-> i.value]
    BY <1>3, <1>6 DEF Begin, StoreOK
  <2>2. [kind |-> i.kind, value |-> i.value] \in Item
    BY DEF Item
  <2> QED
    BY <2>1, <2>2, <1>2, <1>3, <1>4, <1>6 DEF StoreOK
<1>7. ASSUME Set(p), UNCHANGED others
      PROVE  RunInv'
  <2>1. Kept /\ phase'[p] = "applied"
    BY <1>3, <1>7 DEF Set, StoreOK
  <2>2. [kind |-> call[p].kind, value |-> call[p].value] \in Item
    BY <1>1, <1>3, <1>7 DEF Set, StoreOK
  <2>3. vault' \in Vaults
    BY <2>2, <1>3, <1>7 DEF Set, StoreOK, Vaults
  <2> QED
    BY <2>1, <2>3, <1>2, <1>4, <1>7
<1>8. ASSUME Delete(p), UNCHANGED others
      PROVE  RunInv'
  <2>1. Kept /\ phase'[p] = "applied"
    BY <1>3, <1>8 DEF Delete, StoreOK
  <2>2. vault' \in Vaults
    BY <1>3, <1>8 DEF Delete, StoreOK, Vaults
  <2> QED
    BY <2>1, <2>2, <1>2, <1>4, <1>8
<1>9. ASSUME NothingToDelete(p) \/ Settle(p) \/ Return(p) \/ Fail(p, Error), UNCHANGED others
      PROVE  RunInv'
  <2>1. Kept /\ phase'[p] # "called" /\ vault' = vault
    <3>1. CASE NothingToDelete(p)
      BY <1>3, <3>1 DEF NothingToDelete, StoreOK
    <3>2. CASE Settle(p)
      BY <1>3, <3>2 DEF Settle, StoreOK
    <3>3. CASE Return(p)
      BY <1>3, <3>3 DEF Return, StoreOK
    <3>4. CASE Fail(p, Error)
      BY <1>3, <3>4 DEF Fail, StoreOK
    <3> QED
      BY <3>1, <3>2, <3>3, <3>4, <1>9
  <2> QED
    BY <2>1, <1>2, <1>3, <1>4, <1>9 DEF StoreOK
<1> QED
  BY <1>5, <1>6, <1>7, <1>8, <1>9 DEF Other

-----------------------------------------------------------------------------
(* The run.  Its own steps leave the store alone, and so nothing new is     *)
(* observed once it has started.                                            *)
LEMMA NothingNew ==
  ASSUME RunInv, Observe, UNCHANGED vault, step # "start", step' # "start",
         Listing' => Listing
  PROVE  UNCHANGED history /\ WatchOK'
<1>1. past \in [Slot -> SUBSET (Item \cup {None})]
  BY DEF RunInv, RunTypeOK
<1>2. \A s \in Slot : past[s] \cup {vault[s]} = past[s]
  BY DEF RunInv, WatchOK
<1>3. [s \in Slot |-> past[s] \cup {vault[s]}] = past
  BY <1>1, <1>2
<1>4. UNCHANGED past
  BY <1>3 DEF Observe
<1>5. KeysIn(vault') = KeysIn(vault) /\ KeysIn(vault)' = KeysIn(vault)
  BY DEF KeysIn, At
<1>6. UNCHANGED <<always, ever>>
  <2>1. CASE Listing
    BY <2>1, <1>5 DEF Observe, RunInv, WatchOK
  <2>2. CASE ~Listing
    BY <2>2 DEF Observe
  <2> QED
    BY <2>1, <2>2
<1> QED
  BY <1>4, <1>5, <1>6 DEF history, RunInv, WatchOK

(* What the store has when a run starts.                                    *)
LEMMA FirstLook ==
  ASSUME RunInv, Observe, UNCHANGED vault, step = "start"
  PROVE  /\ UNCHANGED past /\ WatchOK'
         /\ always' \subseteq Key /\ ever' \subseteq Key
<1>1. past \in [Slot -> SUBSET (Item \cup {None})]
  BY DEF RunInv, RunTypeOK
<1>2. [s \in Slot |-> past[s] \cup {vault[s]}] = past
  BY <1>1 DEF RunInv, WatchOK
<1>3. UNCHANGED past
  BY <1>2 DEF Observe
<1>4. always' = KeysIn(vault') /\ ever' = KeysIn(vault')
  BY DEF Observe, Listing
<1>5. KeysIn(vault)' = KeysIn(vault') /\ KeysIn(vault') \subseteq Key
  BY DEF KeysIn, At
<1> QED
  BY <1>3, <1>4, <1>5 DEF RunInv, WatchOK

(* A run's call begins.                                                     *)
LEMMA Beginning ==
  ASSUME RunInv, NEW c, Begin(Runner, c)
  PROVE  /\ UNCHANGED vault /\ StoreOK'
         /\ phase'[Runner] = "called" /\ call'[Runner] = c /\ ret'[Runner] = Pending
         /\ phase[Runner] = "idle" /\ seen'[Runner] = seen[Runner]
BY RunnerAssumption DEF RunInv, StoreOK, Begin

LEMMA StartStep ==
  ASSUME RunInv, NEW keys \in SUBSET Key, NEW every \in BOOLEAN, Start(keys, every), Observe
  PROVE  RunInv'
<1>1. /\ step = "start" /\ UNCHANGED others /\ phase[Runner] = "idle"
      /\ only' = keys /\ all' = every /\ selected' = keys /\ (every => keys = {})
      /\ UNCHANGED <<todo, parent, environment>>
  BY DEF Start, Mine
<1>2. CASE every
  <2>1. step' = "list" /\ Begin(Runner, [op |-> "list", scope |-> Home])
    BY <1>2 DEF Start
  <2>2. /\ UNCHANGED vault /\ StoreOK'
        /\ phase'[Runner] = "called" /\ call'[Runner] = [op |-> "list", scope |-> Home]
        /\ phase[Runner] = "idle" /\ seen'[Runner] = seen[Runner]
    BY <2>1, Beginning
  <2>3. UNCHANGED past /\ WatchOK' /\ always' \subseteq Key /\ ever' \subseteq Key
    BY <1>1, <2>2, FirstLook
  <2>4. RunTypeOK'
    BY <1>1, <2>1, <2>3 DEF RunInv, RunTypeOK, Env, EnvOK
  <2>5. ListOK'
    BY <1>1, <1>2, <2>1, <2>2 DEF RunInv, ListOK
  <2>6. GetOK' /\ IdleOK' /\ ChoiceOK'
    BY <2>1 DEF GetOK, IdleOK, ChoiceOK
  <2>7. EnvOK'
    BY <1>1, <2>1 DEF RunInv, EnvOK
  <2> QED
    BY <2>2, <2>3, <2>4, <2>5, <2>6, <2>7 DEF RunInv
<1>3. CASE ~every
  <2>1. step' = "select" /\ UNCHANGED <<vault, may, founded, phase, call, left, seen, ret>>
    BY <1>3 DEF Start, vars
  <2>2. StoreOK'
    BY <2>1 DEF RunInv, StoreOK
  <2>3. UNCHANGED past /\ WatchOK' /\ always' \subseteq Key /\ ever' \subseteq Key
    BY <1>1, <2>1, FirstLook
  <2>4. RunTypeOK'
    BY <1>1, <2>1, <2>3 DEF RunInv, RunTypeOK, Env, EnvOK
  <2>5. ListOK' /\ GetOK' /\ IdleOK'
    BY <1>1, <2>1 DEF RunInv, ListOK, GetOK, IdleOK
  <2>6. ChoiceOK'
    BY <1>1, <1>3, <2>1 DEF ChoiceOK
  <2>7. EnvOK'
    BY <1>1, <2>1 DEF RunInv, EnvOK
  <2> QED
    BY <2>2, <2>3, <2>4, <2>5, <2>6, <2>7 DEF RunInv
<1> QED
  BY <1>2, <1>3

LEMMA TakeListStep ==
  ASSUME RunInv, TakeList, Observe
  PROVE  RunInv'
<1>1. /\ step = "list" /\ phase[Runner] = "idle"
      /\ UNCHANGED <<others, only, all, todo, parent, environment>>
      /\ UNCHANGED <<vault, may, founded, phase, call, left, seen, ret>>
  BY DEF TakeList, Mine, vars
<1>2. StoreOK'
  BY <1>1 DEF RunInv, StoreOK
<1>3. step' \in {"select", "failed"}
  BY DEF TakeList
<1>4. UNCHANGED <<past, always, ever>> /\ WatchOK'
  BY <1>1, <1>3, NothingNew DEF history, Listing
<1>5. ListOK' /\ GetOK' /\ IdleOK'
  BY <1>1, <1>3 DEF RunInv, ListOK, GetOK, IdleOK
<1>6. EnvOK'
  BY <1>1, <1>3 DEF RunInv, EnvOK
<1>7. CASE ret[Runner].is = "list"
  <2>1. selected' = KeysOf(ret[Runner].items) /\ all
    BY <1>1, <1>7 DEF TakeList, KeysOf, RunInv, ListOK
  <2>2. Whole(selected') /\ Real(selected') /\ selected' \subseteq Key
    BY <1>1, <1>7, <2>1 DEF RunInv, RunTypeOK, ListOK, Real
  <2>3. RunTypeOK'
    BY <1>1, <1>3, <1>4, <2>2 DEF RunInv, RunTypeOK, Env, ListOK
  <2>4. ChoiceOK'
    BY <1>1, <1>3, <1>4, <2>1, <2>2 DEF ChoiceOK, Whole, Real
  <2> QED
    BY <1>2, <1>4, <1>5, <1>6, <2>3, <2>4 DEF RunInv
<1>8. CASE ret[Runner].is # "list"
  <2>1. step' = "failed" /\ UNCHANGED selected
    BY <1>8 DEF TakeList
  <2>2. RunTypeOK'
    BY <1>1, <1>4, <2>1 DEF RunInv, RunTypeOK, Env
  <2>3. ChoiceOK'
    BY <2>1 DEF ChoiceOK
  <2> QED
    BY <1>2, <1>4, <1>5, <1>6, <2>2, <2>3 DEF RunInv
<1> QED
  BY <1>7, <1>8

LEMMA SelectStep ==
  ASSUME RunInv, Select, Observe
  PROVE  RunInv'
<1>1. /\ step = "select" /\ phase[Runner] = "idle"
      /\ UNCHANGED <<others, only, all, selected, parent>>
      /\ UNCHANGED <<vault, may, founded, phase, call, left, seen, ret>>
      /\ todo' = selected /\ step' \in {"next", "failed"} /\ (step' = "next" => selected # {})
      /\ environment' = [n \in Name |-> IF n \in Seam THEN None ELSE environment[n]]
  BY DEF Select, Mine, vars
<1>2. StoreOK'
  BY <1>1 DEF RunInv, StoreOK
<1>3. UNCHANGED <<past, always, ever>> /\ WatchOK'
  BY <1>1, NothingNew DEF history, Listing
<1>4. environment' \in Env
  BY <1>1 DEF RunInv, RunTypeOK, Env
<1>5. RunTypeOK'
  BY <1>1, <1>3, <1>4 DEF RunInv, RunTypeOK, Env
<1>6. ListOK' /\ GetOK' /\ IdleOK'
  BY <1>1 DEF RunInv, ListOK, GetOK, IdleOK
<1>7. ChoiceOK'
  BY <1>1, <1>3 DEF RunInv, ChoiceOK, Whole, Real
<1>8. EnvOK'
  BY <1>1 DEF RunInv, EnvOK
<1> QED
  BY <1>2, <1>3, <1>5, <1>6, <1>7, <1>8 DEF RunInv

LEMMA NextKeyStep ==
  ASSUME RunInv, NEW key \in Key, NextKey(key), Observe
  PROVE  RunInv'
<1>1. /\ step = "next" /\ phase[Runner] = "idle" /\ key \in todo
      /\ UNCHANGED <<others, only, all, selected, todo, parent, environment>>
  BY DEF NextKey, Mine
<1>2. CASE key \in Name
  <2>1. step' = "get" /\ Begin(Runner, [op |-> "get", slot |-> At(key)])
    BY <1>2 DEF NextKey
  <2>2. /\ UNCHANGED vault /\ StoreOK'
        /\ phase'[Runner] = "called" /\ call'[Runner] = [op |-> "get", slot |-> At(key)]
        /\ ret'[Runner] = Pending /\ seen'[Runner] = seen[Runner]
    BY <2>1, Beginning
  <2>3. UNCHANGED <<past, always, ever>> /\ WatchOK'
    BY <1>1, <2>1, <2>2, NothingNew DEF history, Listing
  <2>4. RunTypeOK'
    BY <1>1, <2>1, <2>3 DEF RunInv, RunTypeOK, Env
  <2>5. ListOK' /\ IdleOK'
    BY <1>1, <2>1, <2>2 DEF RunInv, ListOK, IdleOK
  <2>6. GetOK'
    BY <1>1, <1>2, <2>1, <2>2 DEF GetOK, Pending, At
  <2>7. ChoiceOK'
    BY <1>1, <2>1, <2>3 DEF RunInv, ChoiceOK, Whole, Real
  <2>8. EnvOK'
    BY <1>1, <2>1, <2>3 DEF RunInv, EnvOK, Added, At
  <2> QED
    BY <2>2, <2>3, <2>4, <2>5, <2>6, <2>7, <2>8 DEF RunInv
<1>3. CASE key \notin Name
  <2>1. step' = "failed" /\ UNCHANGED <<vault, may, founded, phase, call, left, seen, ret>>
    BY <1>3 DEF NextKey, vars
  <2>2. StoreOK'
    BY <2>1 DEF RunInv, StoreOK
  <2>3. UNCHANGED <<past, always, ever>> /\ WatchOK'
    BY <1>1, <2>1, NothingNew DEF history, Listing
  <2>4. RunTypeOK'
    BY <1>1, <2>1, <2>3 DEF RunInv, RunTypeOK, Env
  <2>5. ListOK' /\ GetOK' /\ IdleOK' /\ ChoiceOK' /\ EnvOK'
    BY <1>1, <2>1 DEF RunInv, ListOK, GetOK, IdleOK, ChoiceOK, EnvOK
  <2> QED
    BY <2>2, <2>3, <2>4, <2>5 DEF RunInv
<1> QED
  BY <1>2, <1>3

LEMMA SetEnvironmentStep ==
  ASSUME RunInv, SetEnvironment, Observe
  PROVE  RunInv'
<1>1. /\ step = "get" /\ phase[Runner] = "idle"
      /\ UNCHANGED <<others, only, all, selected, parent>>
      /\ UNCHANGED <<vault, may, founded, phase, call, left, seen, ret>>
  BY DEF SetEnvironment, Mine, vars
<1>2. StoreOK'
  BY <1>1 DEF RunInv, StoreOK
<1>3. UNCHANGED <<past, always, ever>> /\ WatchOK'
  BY <1>1, NothingNew DEF history, Listing, SetEnvironment
<1>4. step' \in {"next", "failed"}
  BY DEF SetEnvironment
<1>5. ListOK' /\ GetOK' /\ IdleOK'
  BY <1>1, <1>4 DEF RunInv, ListOK, GetOK, IdleOK
<1>6. PICK key \in todo \cap Name :
        /\ call[Runner] = [op |-> "get", slot |-> At(key)]
        /\ ret[Runner].is = "value" =>
             \E i \in past[At(key)] \ {None} : ret[Runner].value = i.value
  BY <1>1 DEF RunInv, GetOK
<1>7. call[Runner].slot.key = key /\ key \in selected /\ key \in Key
  BY <1>6 DEF At, RunInv, RunTypeOK
<1>8. CASE ret[Runner].is = "value" /\ ret[Runner].value \notin Nul
  <2>1. /\ environment' = [environment EXCEPT ![key] = ret[Runner].value]
        /\ todo' = todo \ {key} /\ step' = "next"
    BY <1>7, <1>8 DEF SetEnvironment
  <2>2. PICK i \in past[At(key)] \ {None} : ret[Runner].value = i.value
    BY <1>6, <1>8
  <2>3. i \in Item /\ ret[Runner].value \in Value \ Nul
    BY <1>7, <1>8, <2>2, AtSlot DEF RunInv, RunTypeOK, Item
  <2>4. /\ environment' \in Env /\ environment'[key] = ret[Runner].value
        /\ \A n \in Name : n # key => environment'[n] = environment[n]
    BY <1>6, <2>1, <2>3 DEF RunInv, RunTypeOK, Env
  <2>5. RunTypeOK'
    BY <1>1, <1>3, <2>1, <2>3, <2>4 DEF RunInv, RunTypeOK, Env
  <2>6. ChoiceOK'
    BY <1>1, <1>3, <2>1 DEF RunInv, ChoiceOK, Whole, Real
  <2>7. Added(key)'
    BY <1>3, <2>2, <2>4 DEF Added, At
  <2>8. \A n \in Name : n # key /\ Added(n) => Added(n)'
    BY <1>3, <2>4 DEF Added, At
  <2>9. EnvOK'
    <3>1. ASSUME NEW n \in Name, n # key
          PROVE  IF n \in selected \ todo' THEN Added(n)'
                 ELSE environment'[n] = IF n \in Seam THEN None ELSE parent[n]
      BY <3>1, <1>1, <2>1, <2>4, <2>8 DEF RunInv, EnvOK
    <3>2. key \in selected \ todo'
      BY <1>7, <2>1
    <3> QED
      BY <3>1, <3>2, <2>7, <2>1, <1>1 DEF EnvOK
  <2> QED
    BY <1>2, <1>3, <1>5, <2>5, <2>6, <2>9 DEF RunInv
<1>9. CASE ~(ret[Runner].is = "value" /\ ret[Runner].value \notin Nul)
  <2>1. step' = "failed" /\ UNCHANGED <<environment, todo>>
    BY <1>9 DEF SetEnvironment
  <2>2. RunTypeOK'
    BY <1>1, <1>3, <2>1 DEF RunInv, RunTypeOK, Env
  <2>3. ChoiceOK' /\ EnvOK'
    BY <2>1 DEF ChoiceOK, EnvOK
  <2> QED
    BY <1>2, <1>3, <1>5, <2>2, <2>3 DEF RunInv
<1> QED
  BY <1>8, <1>9

LEMMA StartChildStep ==
  ASSUME RunInv, StartChild, Observe
  PROVE  RunInv'
<1>1. /\ step = "next" /\ step' = "child" /\ todo = {} /\ phase[Runner] = "idle"
      /\ UNCHANGED <<others, only, all, selected, todo, parent, environment>>
      /\ UNCHANGED <<vault, may, founded, phase, call, left, seen, ret>>
  BY DEF StartChild, Mine, vars
<1>2. StoreOK'
  BY <1>1 DEF RunInv, StoreOK
<1>3. UNCHANGED <<past, always, ever>> /\ WatchOK'
  BY <1>1, NothingNew DEF history, Listing
<1>4. RunTypeOK'
  BY <1>1, <1>3 DEF RunInv, RunTypeOK, Env
<1>5. ListOK' /\ GetOK' /\ IdleOK'
  BY <1>1 DEF RunInv, ListOK, GetOK, IdleOK
<1>6. ChoiceOK'
  BY <1>1, <1>3 DEF RunInv, ChoiceOK, Whole, Real
<1>7. EnvOK'
  BY <1>1, <1>3 DEF RunInv, EnvOK, Added, At
<1> QED
  BY <1>2, <1>3, <1>4, <1>5, <1>6, <1>7 DEF RunInv

(* The run's call in the store changes but what there is of the call.       *)
LEMMA InStoreFrame ==
  ASSUME RunInv, InStore, Observe, ListOK', GetOK', UNCHANGED <<vault, call>>,
         DOMAIN phase' = Proc, DOMAIN left' = Proc, DOMAIN seen' = Proc, DOMAIN ret' = Proc,
         phase[Runner] # "idle", \A p \in Proc \ {Runner} : phase'[p] = phase[p]
  PROVE  RunInv'
<1>1. UNCHANGED <<step, only, all, selected, todo, parent, environment, others>>
  BY DEF InStore, run
<1>2. UNCHANGED <<past, always, ever>> /\ WatchOK'
  <2>1. step # "start" /\ (Listing' => Listing)
    BY <1>1 DEF RunInv, IdleOK, Listing
  <2> QED
    BY <1>1, <2>1, NothingNew DEF history
<1>3. StoreOK'
  BY DEF RunInv, StoreOK
<1>4. RunTypeOK'
  BY <1>1, <1>2 DEF RunInv, RunTypeOK, Env
<1>5. IdleOK' /\ ChoiceOK'
  BY <1>1, <1>2 DEF RunInv, IdleOK, ChoiceOK, Whole, Real
<1>6. EnvOK'
  BY <1>1, <1>2 DEF RunInv, EnvOK, Added, At
<1> QED
  BY <1>2, <1>3, <1>4, <1>5, <1>6 DEF RunInv

(* It is a list or a get: a list leaves out a key only where the slot is    *)
(* empty and reports it only where it is not, and a get answers with what   *)
(* the slot holds.                                                          *)
LEMMA InStoreStep ==
  ASSUME RunInv, InStore, Observe
  PROVE  RunInv'
<1>1. UNCHANGED <<step, only, all, selected, todo, parent, environment, others>>
  BY DEF InStore, run
<1>2. StoreOK /\ ListOK /\ GetOK /\ IdleOK /\ Runner \in Proc
  BY RunnerAssumption DEF RunInv
<1>10. phase[Runner] # "idle" => step # "start" /\ (Listing' => Listing)
  BY <1>1, <1>2 DEF IdleOK, Listing
<1>3. CASE Get(Runner)
  <2>1. /\ UNCHANGED <<vault, call, left, seen>> /\ phase[Runner] = "called"
        /\ DOMAIN phase' = Proc /\ DOMAIN ret' = Proc
        /\ \A p \in Proc \ {Runner} : phase'[p] = phase[p]
        /\ call[Runner].op = "get" /\ phase'[Runner] \in {"idle", "settled"}
        /\ ret'[Runner] = Got(vault[call[Runner].slot])
    BY <1>2, <1>3 DEF Get, StoreOK
  <2>2. step = "get"
    BY <1>2, <2>1 DEF IdleOK, ListOK
  <2>3. UNCHANGED <<past, always, ever>>
    BY <1>1, <1>10, <2>1, NothingNew DEF history
  <2>4. ListOK'
    BY <1>1, <1>2, <2>1, <2>2 DEF ListOK
  <2>5. PICK key \in todo \cap Name : call[Runner] = [op |-> "get", slot |-> At(key)]
    BY <1>2, <2>2 DEF GetOK
  <2>6. At(key) \in Slot /\ vault[At(key)] \in past[At(key)]
    BY AtSlot DEF RunInv, RunTypeOK, WatchOK
  <2>7. ret'[Runner].is = "value" =>
          vault[At(key)] # None /\ ret'[Runner].value = vault[At(key)].value
    BY <2>1, <2>5 DEF Got, NotFound
  <2>8. GetOK'
    BY <1>1, <2>1, <2>3, <2>5, <2>6, <2>7 DEF GetOK, At
  <2> QED
    BY <1>2, <2>1, <2>4, <2>8, InStoreFrame DEF StoreOK
<1>4. CASE Look(Runner)
  <2>1. /\ UNCHANGED <<vault, call, seen, ret>> /\ phase[Runner] = "called"
        /\ DOMAIN phase' = Proc /\ DOMAIN left' = Proc
        /\ \A p \in Proc \ {Runner} : phase'[p] = phase[p]
        /\ call[Runner].op = "list" /\ phase'[Runner] = "applied"
        /\ left'[Runner] = {s \in Slot : s.scope = call[Runner].scope}
    BY <1>2, <1>4 DEF Look, StoreOK
  <2>2. step = "list" /\ call[Runner].scope = Home /\ seen[Runner] = {}
    <3>1. step # "get"
      <4>1. \A key : [op |-> "get", slot |-> At(key)].op # "list"
        OBVIOUS
      <4> QED
        BY <1>2, <2>1, <4>1 DEF GetOK
    <3> QED
      BY <1>2, <2>1, <3>1 DEF ListOK, IdleOK
  <2>3. \A s \in left'[Runner] : s.key \in Key /\ s = At(s.key)
    BY <2>1, <2>2 DEF Slot, At
  <2>4. Key \subseteq KeysLeft(left'[Runner])
    <3>1. \A key \in Key : At(key) \in Slot /\ At(key).scope = Home /\ At(key).key = key
      BY AtSlot DEF At
    <3>2. \A key \in Key : At(key) \in left'[Runner]
      BY <2>1, <2>2, <3>1
    <3> QED
      BY <3>1, <3>2 DEF KeysLeft
  <2>5. KeysOf(seen'[Runner]) = {}
    BY <2>1, <2>2 DEF KeysOf
  <2>6. UNCHANGED <<past, always, ever>>
    BY <1>1, <1>10, <2>1, NothingNew DEF history
  <2>7. ListOK' /\ GetOK'
    <3>1. /\ Whole(KeysLeft(left'[Runner]) \cup KeysOf(seen'[Runner]))
          /\ Real(KeysOf(seen'[Runner]))
      BY <2>4, <2>5 DEF Whole, Real, RunInv, RunTypeOK
    <3> QED
      BY <1>1, <1>2, <2>1, <2>2, <2>3, <2>6, <3>1
         DEF ListOK, GetOK, KeysLeft, KeysOf, Whole, Real, At
  <2> QED
    BY <1>2, <2>1, <2>7, InStoreFrame DEF StoreOK
<1>11. ASSUME NEW empty \in SUBSET Slot, Skip(Runner, empty)
      PROVE  RunInv'
  <2>1. /\ UNCHANGED <<vault, call, phase, seen, ret>> /\ phase[Runner] = "applied"
        /\ DOMAIN left' = Proc /\ left'[Runner] = left[Runner] \ empty
        /\ empty \subseteq left[Runner] /\ \A s \in empty : vault[s] = None
    BY <1>2, <1>11 DEF Skip, StoreOK
  <2>2. step = "list"
    BY <1>2, <2>1 DEF IdleOK, GetOK
  <2>3. /\ \A s \in left[Runner] : s.key \in Key /\ s = At(s.key)
        /\ Whole(KeysLeft(left[Runner]) \cup KeysOf(seen[Runner]))
    BY <1>2, <2>1, <2>2 DEF ListOK
  <2>4. \A s \in empty : s.key \notin always
    <3>1. always \subseteq KeysIn(vault)
      BY <2>1, <2>2 DEF RunInv, WatchOK, Listing
    <3>2. \A s \in empty : s.key \notin KeysIn(vault)
      BY <2>1, <2>3 DEF KeysIn
    <3> QED
      BY <3>1, <3>2
  <2>5. Whole(KeysLeft(left'[Runner]) \cup KeysOf(seen[Runner]))
    BY <2>1, <2>3, <2>4 DEF Whole, KeysLeft
  <2>6. UNCHANGED <<past, always, ever>>
    BY <1>1, <1>10, <2>1, NothingNew DEF history
  <2>7. ListOK' /\ GetOK'
    BY <1>1, <1>2, <2>1, <2>2, <2>5, <2>6
       DEF ListOK, GetOK, KeysLeft, KeysOf, Whole, Real, At
  <2> QED
    BY <1>2, <2>1, <2>7, InStoreFrame DEF StoreOK
<1>5. CASE NothingToList(Runner)
  <2>1. /\ UNCHANGED <<vault, call, left, seen>> /\ phase[Runner] = "called"
        /\ DOMAIN phase' = Proc /\ DOMAIN ret' = Proc
        /\ \A p \in Proc \ {Runner} : phase'[p] = phase[p]
        /\ call[Runner].op = "list" /\ phase'[Runner] = "idle" /\ ret'[Runner] = Listed({})
        /\ \A s \in Slot : s.scope = call[Runner].scope => vault[s] = None
    BY <1>2, <1>5 DEF NothingToList, StoreOK
  <2>2. step = "list" /\ call[Runner].scope = Home
    <3>1. ASSUME step = "get"
          PROVE  call[Runner].op = "get"
      <4>1. PICK key \in todo \cap Name : call[Runner] = [op |-> "get", slot |-> At(key)]
        BY <1>2, <3>1 DEF GetOK
      <4> QED
        BY <4>1
    <3>2. step = "list"
      <4>1. call[Runner].op = "list" /\ phase[Runner] = "called"
        BY <2>1
      <4> QED
        BY <1>2, <3>1, <4>1 DEF IdleOK
    <3> QED
      BY <1>2, <2>1, <3>2 DEF ListOK
  <2>3. KeysIn(vault) = {}
    BY <2>1, <2>2, AtSlot DEF KeysIn, At
  <2>4. KeysOf(ret'[Runner].items) = {}
    BY <2>1 DEF Listed, KeysOf
  <2>5. UNCHANGED <<past, always, ever>>
    BY <1>1, <1>10, <2>1, NothingNew DEF history
  <2>6. Whole({}) /\ Real({})
    BY <2>1, <2>2, <2>3 DEF RunInv, WatchOK, Listing, Whole, Real
  <2>7. ListOK' /\ GetOK'
    BY <1>1, <1>2, <2>1, <2>2, <2>4, <2>5, <2>6 DEF ListOK, GetOK, KeysOf, Whole, Real
  <2> QED
    BY <1>2, <2>1, <2>7, InStoreFrame DEF StoreOK
<1>6. ASSUME NEW s \in Slot, Report(Runner, s)
      PROVE  RunInv'
  <2> DEFINE m == [slot |-> s, kind |-> vault[s].kind]
  <2>1. /\ UNCHANGED <<vault, call, phase, ret>> /\ phase[Runner] = "applied"
        /\ DOMAIN left' = Proc /\ DOMAIN seen' = Proc /\ s \in left[Runner] /\ vault[s] # None
        /\ left'[Runner] = left[Runner] \ {s} /\ seen'[Runner] = seen[Runner] \cup {m}
    BY <1>2, <1>6 DEF Report, StoreOK
  <2>2. step = "list"
    BY <1>2, <2>1 DEF IdleOK, GetOK
  <2>3. m.slot.key = s.key
    OBVIOUS
  <2> HIDE DEF m
  <2>4. /\ KeysLeft(left'[Runner]) \cup KeysOf(seen'[Runner])
             = KeysLeft(left[Runner]) \cup KeysOf(seen[Runner])
        /\ KeysOf(seen'[Runner]) = KeysOf(seen[Runner]) \cup {s.key}
    BY <2>1, <2>3 DEF KeysLeft, KeysOf
  <2>5. s.key \in ever
    <3>1. s.key \in Key /\ s = At(s.key)
      BY <1>2, <2>1, <2>2 DEF ListOK
    <3>2. s.key \in KeysIn(vault)
      BY <2>1, <3>1 DEF KeysIn
    <3> QED
      BY <2>1, <2>2, <3>2 DEF RunInv, WatchOK, Listing
  <2>6. UNCHANGED <<past, always, ever>>
    BY <1>1, <1>10, <2>1, NothingNew DEF history
  <2>7. /\ Whole(KeysLeft(left'[Runner]) \cup KeysOf(seen'[Runner]))
        /\ Real(KeysOf(seen'[Runner]))
    BY <1>2, <2>1, <2>2, <2>4, <2>5 DEF ListOK, Whole, Real
  <2>8. ListOK' /\ GetOK'
    BY <1>1, <1>2, <2>1, <2>2, <2>6, <2>7
       DEF ListOK, GetOK, KeysLeft, KeysOf, Whole, Real, At
  <2> QED
    BY <1>2, <2>1, <2>8, InStoreFrame DEF StoreOK
<1>7. CASE ReturnList(Runner)
  <2>1. /\ UNCHANGED <<vault, call, left>> /\ phase[Runner] = "applied"
        /\ DOMAIN phase' = Proc /\ DOMAIN seen' = Proc /\ DOMAIN ret' = Proc
        /\ \A p \in Proc \ {Runner} : phase'[p] = phase[p]
        /\ left[Runner] = {} /\ seen'[Runner] = {}
        /\ phase'[Runner] = "idle" /\ ret'[Runner] = Listed(seen[Runner])
    BY <1>2, <1>7 DEF ReturnList, StoreOK
  <2>2. step = "list"
    BY <1>2, <2>1 DEF IdleOK, GetOK
  <2>3. /\ KeysOf(ret'[Runner].items) = KeysOf(seen[Runner])
        /\ KeysLeft(left[Runner]) = {}
    BY <2>1 DEF Listed, KeysLeft, KeysOf
  <2>4. UNCHANGED <<past, always, ever>>
    BY <1>1, <1>10, <2>1, NothingNew DEF history
  <2>5. ListOK' /\ GetOK'
    BY <1>1, <1>2, <2>1, <2>2, <2>3, <2>4 DEF ListOK, GetOK, KeysOf, Whole, Real
  <2> QED
    BY <1>2, <2>1, <2>5, InStoreFrame DEF StoreOK
<1>8. CASE Return(Runner)
  <2>1. /\ UNCHANGED <<vault, call, left, seen, ret>> /\ phase[Runner] \in {"settled", "failed"}
        /\ DOMAIN phase' = Proc /\ phase'[Runner] = "idle"
        /\ \A p \in Proc \ {Runner} : phase'[p] = phase[p]
    BY <1>2, <1>8 DEF Return, StoreOK
  <2>2. step = "get"
    BY <1>2, <2>1 DEF IdleOK, ListOK
  <2>3. UNCHANGED <<past, always, ever>>
    BY <1>1, <1>10, <2>1, NothingNew DEF history
  <2>4. ListOK' /\ GetOK'
    BY <1>1, <1>2, <2>1, <2>2, <2>3 DEF ListOK, GetOK, At
  <2> QED
    BY <1>2, <2>1, <2>4, InStoreFrame DEF StoreOK
<1>9. CASE Fail(Runner, Error)
  <2>1. /\ UNCHANGED <<vault, call>> /\ phase[Runner] # "idle"
        /\ DOMAIN phase' = Proc /\ DOMAIN left' = Proc /\ DOMAIN seen' = Proc
        /\ DOMAIN ret' = Proc /\ phase'[Runner] = "idle" /\ seen'[Runner] = {}
        /\ ret'[Runner] = Error
        /\ \A p \in Proc \ {Runner} : phase'[p] = phase[p]
    BY <1>2, <1>9 DEF Fail, StoreOK
  <2>2. ret'[Runner].is \notin {"list", "value"}
    BY <2>1 DEF Error
  <2>3. ListOK' /\ GetOK'
    BY <1>1, <1>2, <2>1, <2>2 DEF ListOK, GetOK, At
  <2> QED
    BY <1>2, <2>1, <2>3, InStoreFrame DEF StoreOK
<1> QED
  BY <1>3, <1>4, <1>5, <1>6, <1>7, <1>8, <1>9, <1>11 DEF InStore

-----------------------------------------------------------------------------
LEMMA RunSteps == RunInv /\ [RunNext]_allVars => RunInv'
<1> SUFFICES ASSUME RunInv, [RunNext]_allVars
             PROVE  RunInv'
  OBVIOUS
<1>1. ASSUME NEW p \in Proc, Other(p), Observe
      PROVE  RunInv'
  BY <1>1, OtherStep
<1>2. ASSUME NEW keys \in SUBSET Key, NEW every \in BOOLEAN, Start(keys, every), Observe
      PROVE  RunInv'
  BY <1>2, StartStep
<1>3. ASSUME NEW key \in Key, NextKey(key), Observe
      PROVE  RunInv'
  BY <1>3, NextKeyStep
<1>4. ASSUME TakeList \/ Select \/ SetEnvironment \/ StartChild \/ InStore, Observe
      PROVE  RunInv'
  BY <1>4, TakeListStep, SelectStep, SetEnvironmentStep, StartChildStep, InStoreStep
<1>5. CASE UNCHANGED allVars
  <2>1. UNCHANGED <<vault, phase, call, left, seen, ret, step, only, all, selected, todo,
                    parent, environment, others, past, always, ever>>
    BY <1>5 DEF allVars, vars, run, history
  <2>2. RunTypeOK' /\ StoreOK' /\ WatchOK'
    BY <2>1 DEF RunInv, RunTypeOK, Env, StoreOK, WatchOK, Listing, KeysIn, At
  <2>3. ListOK' /\ GetOK' /\ IdleOK' /\ ChoiceOK' /\ EnvOK'
    BY <2>1 DEF RunInv, ListOK, KeysLeft, KeysOf, Whole, Real, GetOK, At, IdleOK, ChoiceOK, EnvOK,
           Added
  <2> QED
    BY <2>2, <2>3 DEF RunInv
<1> QED
  BY <1>1, <1>2, <1>3, <1>4, <1>5 DEF RunNext, RunStep

LEMMA Running == RunSpec => []RunInv
<1> QED
  BY RunStarts, RunSteps, PTL DEF RunSpec

-----------------------------------------------------------------------------
(* All variables have their types, and every key that has been added has a  *)
(* name and a value that an environment can hold (setEnvironment).          *)
THEOREM RunTypes == RunSpec => []RunTypeOK
<1>1. RunInv => RunTypeOK
  BY DEF RunInv
<1> QED
  BY <1>1, Running, PTL

(* The child's environment (runLocal, local.go): selected keys with values  *)
(* their slots held during the run, no seam, everything else as it was.     *)
THEOREM ChildIsExact == RunSpec => []ChildExact
<1>1. RunInv => ChildExact
  BY DEF RunInv, EnvOK, ChildExact, Added
<1> QED
  BY <1>1, Running, PTL

(* The selection (runLocal, local.go) is that of --only, or has every key   *)
(* its scope had as long as the List took and only keys it had at some      *)
(* instant of it, whatever other processes set and delete.                  *)
THEOREM SelectionIsWhole == RunSpec => []SelectionWhole
<1>1. RunInv => SelectionWhole
  BY DEF RunInv, ChoiceOK, SelectionWhole, Whole, Real
<1> QED
  BY <1>1, Running, PTL
=============================================================================
