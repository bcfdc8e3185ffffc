---------------------------- MODULE SyncCasProofs ----------------------------
(* Proofs about SyncCas, for any number of keys and calls, and batches of   *)
(* any size.                                                                *)
EXTENDS SyncCas, FiniteSetTheorems, TLAPS

(* What a call asks for is what was passed to it, and was known then.       *)
CallsOK ==
  \A n \in DOMAIN calls :
    /\ calls[n].outbound = calls[n].passed
    /\ Valid(calls[n].outbound)
    /\ calls[n].op = "delete" => Len(calls[n].outbound) = 1
    /\ \A k \in Key : calls[n].since[k] <= Version(k)

(* Write v of a key is by a call that was to replace v - 1.                 *)
Replaces(n, k, v) ==
  n \in DOMAIN calls /\ \E i \in DOMAIN calls[n].outbound :
    calls[n].outbound[i].key = k /\ calls[n].outbound[i].expected = v - 1

WritesOK ==
  \A k \in Key : \A v \in DOMAIN history[k] :
    LET w == history[k][v]
    IN  /\ Replaces(w.by, k, v)
        /\ calls[w.by].op = IF w.deleted THEN "delete" ELSE "push"

(* The batch of a call is stored as a whole.                                *)
Wrote(n, k, v) == v \in DOMAIN history[k] /\ history[k][v].by = n

BatchesOK ==
  \A k \in Key : \A v \in DOMAIN history[k] :
    \A n, i, key, next :
      /\ n = history[k][v].by /\ i \in DOMAIN calls[n].outbound
      /\ key = calls[n].outbound[i].key /\ next = calls[n].outbound[i].expected + 1
      => Wrote(n, key, next)

(* What a call has resolved to.                                             *)
ResultsOK ==
  \A n \in DOMAIN calls : calls[n].state = "resolved" =>
    /\ Len(calls[n].results) = Len(calls[n].outbound)
    /\ calls[n].op = "push" =>
         /\ \E k \in Key : \E v \in DOMAIN history[k] : history[k][v].by = n
         /\ \A i \in DOMAIN calls[n].outbound :
              /\ calls[n].results[i].key = calls[n].outbound[i].key
              /\ calls[n].results[i].version = calls[n].outbound[i].expected + 1

(* What versions and delete resolve to, of a key alone.                     *)
TrueVersion(k, since, result) ==
  /\ result.key = k
  /\ result.version \in since .. Version(k)
  /\ result.deleted = (result.version > 0 /\ history[k][result.version].deleted)

TrueDelete(k, since, expected, v) ==
  /\ v \in since .. Version(k)
  /\ v > 0 /\ history[k][v].deleted
  /\ \A u \in 1 .. v : history[k][u].deleted \/ u <= expected

VersionsOK ==
  \A n \in DOMAIN calls : calls[n].state = "resolved" /\ calls[n].op = "versions" =>
    \A i \in DOMAIN calls[n].passed : \A k, since, result :
      k = calls[n].passed[i].key /\ since = calls[n].since[k] /\ result = calls[n].results[i]
      => TrueVersion(k, since, result)

DeletesOK ==
  \A n \in DOMAIN calls : calls[n].state = "resolved" /\ calls[n].op = "delete" =>
    \A k, since, expected, v :
      /\ k = calls[n].passed[1].key /\ since = calls[n].since[k]
      /\ expected = calls[n].passed[1].expected /\ v = calls[n].results[1].version
      => TrueDelete(k, since, expected, v)

Types ==
  /\ history \in [Key -> Seq(Write)]
  /\ calls \in Seq(CallRecord) /\ Len(calls) <= MaxCalls

Inv ==
  Types /\ CallsOK /\ WritesOK /\ BatchesOK /\ ResultsOK /\ VersionsOK /\ DeletesOK

-----------------------------------------------------------------------------
(* What the types say of a batch, a call and a write.                       *)
LEMMA BatchType ==
  ASSUME NEW b \in Batch
  PROVE  /\ Len(b) \in 0 .. MaxItems /\ DOMAIN b = 1 .. Len(b) /\ b \in [1 .. Len(b) -> Item]
         /\ \A i \in DOMAIN b : b[i].key \in Key /\ b[i].expected \in 0 .. MaxCalls
<1>1. PICK m \in 0 .. MaxItems : b \in [1 .. m -> Item]
  BY DEF Batch
<1>2. m \in Nat /\ DOMAIN b = 1 .. m /\ Len(b) = m
  BY <1>1, BoundsAssumption
<1> QED
  BY <1>1, <1>2 DEF Item

LEMMA CallType ==
  ASSUME Types, NEW n \in DOMAIN calls
  PROVE  /\ calls[n] \in CallRecord /\ n \in 1 .. MaxCalls
         /\ calls[n].outbound \in Batch /\ calls[n].passed \in Batch
<1>1. /\ calls \in Seq(CallRecord) /\ Len(calls) \in Nat /\ Len(calls) <= MaxCalls
      /\ DOMAIN calls = 1 .. Len(calls)
  BY DEF Types
<1>2. calls[n] \in CallRecord /\ n \in 1 .. MaxCalls
  BY <1>1, BoundsAssumption
<1> QED
  BY <1>2 DEF CallRecord

(* Every call has at most one write of a key, since it replaces one version *)
(* only: so a key has at most as many versions as there were calls.         *)
LEMMA WritesBounded ==
  ASSUME Types, CallsOK, WritesOK, NEW k \in Key
  PROVE  Len(history[k]) <= MaxCalls
<1> DEFINE V == 1 .. Len(history[k])
           W == 1 .. MaxCalls
           f == [v \in V |-> history[k][v].by]
<1>1. Len(history[k]) \in Nat /\ DOMAIN history[k] = V /\ history[k] \in Seq(Write)
  BY DEF Types
<1>2. f \in [V -> W]
  <2>1. \A v \in V : history[k][v] \in Write
    BY <1>1
  <2> QED
    BY <2>1 DEF Write
<1>3. ASSUME NEW v \in V, NEW w \in V, f[v] = f[w]
      PROVE  v = w
  <2> DEFINE n == history[k][v].by
  <2>1. Replaces(n, k, v) /\ Replaces(n, k, w)
    BY <1>1, <1>3 DEF WritesOK
  <2>2. n \in DOMAIN calls /\ Valid(calls[n].outbound)
    BY <2>1 DEF CallsOK, Replaces
  <2>3. PICK i \in DOMAIN calls[n].outbound :
          calls[n].outbound[i].key = k /\ calls[n].outbound[i].expected = v - 1
    BY <2>1 DEF Replaces
  <2>4. PICK j \in DOMAIN calls[n].outbound :
          calls[n].outbound[j].key = k /\ calls[n].outbound[j].expected = w - 1
    BY <2>1 DEF Replaces
  <2>5. i = j
    BY <2>2, <2>3, <2>4 DEF Valid
  <2> QED
    BY <1>1, <2>3, <2>4, <2>5
<1>4. /\ IsFiniteSet(V) /\ Cardinality(V) = Len(history[k])
      /\ IsFiniteSet(W) /\ Cardinality(W) = MaxCalls
  <2>1. \A m \in Nat : IsFiniteSet(1 .. m) /\ Cardinality(1 .. m) = m
    BY FS_Interval
  <2> QED
    BY <2>1, <1>1, BoundsAssumption
<1>5. ~(MaxCalls < Len(history[k]))
  <2> HIDE DEF f, V, W
  <2> QED
    BY <1>2, <1>3, <1>4, FS_PigeonHole
<1> QED
  BY <1>1, <1>5, BoundsAssumption

(* They stay true while histories grow.                                     *)
Grows == \A k \in Key : /\ Version(k) \in Nat /\ Version(k)' \in Nat /\ Version(k) <= Version(k)'
                       /\ \A v \in 1 .. Version(k) : history'[k][v] = history[k][v]

LEMMA StaysTrue ==
  ASSUME Grows, NEW k \in Key, NEW since \in Nat
  PROVE  /\ \A result : TrueVersion(k, since, result) => TrueVersion(k, since, result)'
         /\ \A expected, v : TrueDelete(k, since, expected, v) => TrueDelete(k, since, expected, v)'
<1>1. /\ Version(k) \in Nat /\ Version(k)' \in Nat /\ Version(k) <= Version(k)'
      /\ \A v \in 1 .. Version(k) : history'[k][v] = history[k][v]
  BY DEF Grows
<1>2. ASSUME NEW v, v \in since .. Version(k)
      PROVE  v \in since .. Version(k)' /\ v \in 0 .. Version(k)
  BY <1>1, <1>2
<1>3. ASSUME NEW result, TrueVersion(k, since, result)
      PROVE  TrueVersion(k, since, result)'
  BY <1>1, <1>2, <1>3 DEF TrueVersion
<1>4. ASSUME NEW expected, NEW v, TrueDelete(k, since, expected, v)
      PROVE  TrueDelete(k, since, expected, v)'
  <2>1. v \in 0 .. Version(k) /\ v > 0
    BY <1>2, <1>4 DEF TrueDelete
  <2>2. history'[k][v] = history[k][v] /\ \A u \in 1 .. v : history'[k][u] = history[k][u]
    BY <2>1, <1>1
  <2> QED
    BY <2>2, <1>2, <1>4 DEF TrueDelete
<1> QED
  BY <1>3, <1>4

LEMMA WellTyped ==
  ASSUME Inv
  PROVE  TypeOK
BY WritesBounded DEF Inv, Types, TypeOK

-----------------------------------------------------------------------------
LEMMA InvInit == Init => Inv
<1> SUFFICES ASSUME Init
             PROVE  Inv
  OBVIOUS
<1>1. Types
  BY BoundsAssumption DEF Init, Types
<1>2. DOMAIN calls = {} /\ \A k \in Key : DOMAIN history[k] = {}
  BY DEF Init
<1> QED
  BY <1>1, <1>2 DEF Inv, CallsOK, WritesOK, BatchesOK, ResultsOK, VersionsOK, DeletesOK

(* A step that leaves calls as they are, but for those that end now, and    *)
(* appends to histories, keeps what is said of the past.                    *)
LEMMA CallStep ==
  ASSUME Inv, NEW op \in {"push", "versions", "delete"}, NEW batch \in Batch,
         Call(op, batch), op = "delete" => Len(batch) = 1
  PROVE  Inv'
<1> DEFINE c == [op |-> op, passed |-> batch, outbound |-> batch,
                 since |-> [k \in Key |-> Version(k)], state |-> "wait", results |-> <<>>]
<1>1. /\ calls' = Append(calls, c) /\ Len(calls) < MaxCalls /\ Valid(batch)
      /\ UNCHANGED history
  BY DEF Call
<1>2. TypeOK /\ Types
  BY WellTyped DEF Inv
<1>3. c \in CallRecord
  <2>1. \A k \in Key : Version(k) \in 0 .. MaxCalls
    BY <1>2, BoundsAssumption DEF TypeOK, Version
  <2>2. <<>> \in Results
    BY BoundsAssumption DEF Results
  <2> QED
    BY <2>1, <2>2 DEF CallRecord
<1>4. Len(calls) \in Nat /\ DOMAIN calls = 1 .. Len(calls)
  BY <1>2 DEF Types
<1>5. /\ DOMAIN calls' = DOMAIN calls \cup {Len(calls) + 1}
      /\ \A n \in DOMAIN calls : calls'[n] = calls[n]
      /\ calls'[Len(calls) + 1] = c
      /\ Len(calls)' = Len(calls) + 1
  BY <1>1, <1>2, <1>3 DEF Types
<1>6. Types'
  BY <1>1, <1>2, <1>3, <1>4, <1>5, BoundsAssumption DEF Types
<1>7. \A k \in Key : Version(k)' = Version(k) /\ Version(k) \in Nat
  BY <1>1, <1>2 DEF Version, Types
<1> HIDE DEF c
<1>8. CallsOK'
  <2> SUFFICES ASSUME NEW n \in DOMAIN calls'
               PROVE  /\ calls'[n].outbound = calls'[n].passed
                      /\ Valid(calls'[n].outbound)
                      /\ calls'[n].op = "delete" => Len(calls'[n].outbound) = 1
                      /\ \A k \in Key : calls'[n].since[k] <= Version(k)'
    BY DEF CallsOK, Valid
  <2>1. CASE n \in DOMAIN calls
    BY <2>1, <1>5, <1>7 DEF Inv, CallsOK
  <2>2. CASE n = Len(calls) + 1
    BY <2>2, <1>1, <1>5, <1>7 DEF c
  <2> QED
    BY <2>1, <2>2, <1>5
<1>9. \A k \in Key : \A v \in DOMAIN history[k] :
        history[k][v].by \in DOMAIN calls /\ calls'[history[k][v].by] = calls[history[k][v].by]
  BY <1>5 DEF Inv, WritesOK, Replaces
<1>10. WritesOK'
  <2> SUFFICES ASSUME NEW k \in Key, NEW v \in DOMAIN history[k]
               PROVE  /\ Replaces(history[k][v].by, k, v)'
                      /\ calls'[history[k][v].by].op =
                           IF history[k][v].deleted THEN "delete" ELSE "push"
    BY <1>1 DEF WritesOK, Replaces
  <2>1. Replaces(history[k][v].by, k, v)
    BY DEF Inv, WritesOK
  <2>2. Replaces(history[k][v].by, k, v)'
    BY <2>1, <1>1, <1>5, <1>9 DEF Replaces
  <2> QED
    BY <2>2, <1>9 DEF Inv, WritesOK
<1>11. BatchesOK'
  <2> SUFFICES ASSUME NEW k \in Key, NEW v \in DOMAIN history[k], NEW n, NEW i, NEW key, NEW next,
                      n = history[k][v].by, i \in DOMAIN calls'[n].outbound,
                      key = calls'[n].outbound[i].key, next = calls'[n].outbound[i].expected + 1
               PROVE  Wrote(n, key, next)'
    BY <1>1 DEF BatchesOK
  <2>1. calls'[n] = calls[n]
    BY <1>9
  <2>2. Wrote(n, key, next)
    BY <2>1 DEF Inv, BatchesOK
  <2> QED
    BY <2>2, <1>1 DEF Wrote
<1>12. \A n \in DOMAIN calls' : calls'[n].state = "resolved" => n \in DOMAIN calls
  BY <1>5 DEF c
<1>13. ResultsOK'
  BY <1>1, <1>5, <1>12 DEF Inv, ResultsOK
<1>14. /\ \A k, since, result : TrueVersion(k, since, result)' <=> TrueVersion(k, since, result)
       /\ \A k, since, expected, v :
            TrueDelete(k, since, expected, v)' <=> TrueDelete(k, since, expected, v)
  BY <1>1 DEF TrueVersion, TrueDelete, Version
<1>15. VersionsOK'
  BY <1>1, <1>5, <1>12, <1>14 DEF Inv, VersionsOK
<1>16. DeletesOK'
  <2> SUFFICES ASSUME NEW n \in DOMAIN calls',
                      calls'[n].state = "resolved", calls'[n].op = "delete",
                      NEW k, NEW since, NEW expected, NEW v,
                      k = calls'[n].passed[1].key, since = calls'[n].since[k],
                      expected = calls'[n].passed[1].expected, v = calls'[n].results[1].version
               PROVE  TrueDelete(k, since, expected, v)'
    BY DEF DeletesOK
  <2>1. n \in DOMAIN calls /\ calls'[n] = calls[n]
    BY <1>5, <1>12
  <2>2. TrueDelete(k, since, expected, v)
    BY <2>1 DEF Inv, DeletesOK
  <2> QED
    BY <2>2, <1>14
<1> QED
  BY <1>6, <1>8, <1>10, <1>11, <1>13, <1>15, <1>16 DEF Inv

LEMMA Storing ==
  ASSUME Inv, NEW n \in DOMAIN calls, NEW deleted \in BOOLEAN, Store(n, deleted)
  PROVE  /\ history' \in [Key -> Seq(Write)]
         /\ \A k \in Key :
              /\ Version(k) \in Nat /\ DOMAIN history[k] = 1 .. Version(k)
              /\ DOMAIN history'[k] = 1 .. Version(k)'
              /\ Version(k)' = IF k \in Keys(calls[n].outbound) THEN Version(k) + 1
                                                                ELSE Version(k)
              /\ \A v \in DOMAIN history[k] : history'[k][v] = history[k][v]
              /\ k \in Keys(calls[n].outbound) =>
                   /\ Version(k) + 1 \in DOMAIN history'[k]
                   /\ history'[k][Version(k) + 1] =
                        [by |-> n, deleted |-> deleted]
<1> DEFINE w == [by |-> n, deleted |-> deleted]
<1>1. w \in Write
  BY CallType DEF Write, CallRecord, Inv, Types
<1>2. history \in [Key -> Seq(Write)]
  BY DEF Inv, Types
<1>3. history' = [k \in Key |-> IF k \in Keys(calls[n].outbound) THEN Append(history[k], w)
                                                                ELSE history[k]]
  BY DEF Store
<1> HIDE DEF w
<1>4. ASSUME NEW k \in Key
      PROVE  /\ history'[k] \in Seq(Write)
             /\ Version(k) \in Nat /\ DOMAIN history[k] = 1 .. Version(k)
             /\ DOMAIN history'[k] = 1 .. Version(k)'
             /\ Version(k)' = IF k \in Keys(calls[n].outbound) THEN Version(k) + 1
                                                               ELSE Version(k)
             /\ \A v \in DOMAIN history[k] : history'[k][v] = history[k][v]
             /\ k \in Keys(calls[n].outbound) =>
                  Version(k) + 1 \in DOMAIN history'[k] /\ history'[k][Version(k) + 1] = w
  <2>1. history[k] \in Seq(Write) /\ history'[k] =
          IF k \in Keys(calls[n].outbound) THEN Append(history[k], w) ELSE history[k]
    BY <1>2, <1>3
  <2> QED
    BY <2>1, <1>1 DEF Version
<1> QED
  BY <1>3, <1>4 DEF w

(* A request that is applied finds the versions it was to replace, so that  *)
(* it has not been applied before.                                          *)
LEMMA StoreStep ==
  ASSUME Inv, NEW n \in DOMAIN calls, NEW deleted \in BOOLEAN, Store(n, deleted), Current(n),
         calls[n].op = IF deleted THEN "delete" ELSE "push"
  PROVE  Inv'
<1> DEFINE out == calls[n].outbound
           w == [by |-> n, deleted |-> deleted]
<1>1. UNCHANGED calls
  BY DEF Store
<1>2. /\ history' \in [Key -> Seq(Write)]
      /\ \A k \in Key :
           /\ Version(k) \in Nat /\ DOMAIN history[k] = 1 .. Version(k)
           /\ DOMAIN history'[k] = 1 .. Version(k)'
           /\ Version(k)' = IF k \in Keys(out) THEN Version(k) + 1 ELSE Version(k)
           /\ \A v \in DOMAIN history[k] : history'[k][v] = history[k][v]
           /\ k \in Keys(out) =>
                Version(k) + 1 \in DOMAIN history'[k] /\ history'[k][Version(k) + 1] = w
  BY Storing
<1>3. Types'
  BY <1>1, <1>2 DEF Inv, Types
<1>4. CallsOK'
  <2>1. \A k \in Key : Version(k) <= Version(k)'
    BY <1>2
  <2> SUFFICES ASSUME NEW m \in DOMAIN calls, NEW k \in Key
               PROVE  calls[m].since[k] <= Version(k)'
    BY <1>1 DEF Inv, CallsOK, Valid
  <2>2. calls[m].since[k] <= Version(k) /\ calls[m].since[k] \in Int
    BY CallType DEF Inv, CallsOK, CallRecord
  <2> QED
    BY <1>2, <2>1, <2>2
<1>5. ASSUME NEW k \in Key, NEW v \in DOMAIN history'[k]
      PROVE  v \in DOMAIN history[k] \/ (k \in Keys(out) /\ v = Version(k) + 1)
  BY <1>2
<1>6. \A k \in Key : DOMAIN history[k] \subseteq DOMAIN history'[k]
  BY <1>2
<1>7. \A i \in DOMAIN out : /\ out[i].key \in Key /\ out[i].expected = Version(out[i].key)
                            /\ out[i].key \in Keys(out)
  BY CallType, BatchType DEF Current, Inv, Keys
<1> HIDE DEF w
<1>8. WritesOK'
  <2>1. \A m, k, v : Replaces(m, k, v)' <=> Replaces(m, k, v)
    BY <1>1 DEF Replaces
  <2> SUFFICES ASSUME NEW k \in Key, NEW v \in DOMAIN history'[k]
               PROVE  (/\ Replaces(history[k][v].by, k, v)
                       /\ calls[history[k][v].by].op =
                            IF history[k][v].deleted THEN "delete" ELSE "push")'
    BY DEF WritesOK
  <2>2. CASE v \in DOMAIN history[k]
    <3>1. history'[k][v] = history[k][v]
      BY <2>2, <1>2
    <3>2. /\ Replaces(history[k][v].by, k, v)
          /\ calls[history[k][v].by].op = IF history[k][v].deleted THEN "delete" ELSE "push"
      BY <2>2 DEF Inv, WritesOK
    <3> QED
      BY <2>1, <3>1, <3>2, <1>1
  <2>3. CASE k \in Keys(out) /\ v = Version(k) + 1
    <3>1. history'[k][v] = w
      BY <2>3, <1>2
    <3>2. Replaces(n, k, v)
      BY <2>3, <1>2, <1>7 DEF Replaces, Keys
    <3> QED
      BY <2>1, <3>1, <3>2, <1>1 DEF w
  <2> QED
    BY <2>2, <2>3, <1>5
<1>9. BatchesOK'
  <2> SUFFICES ASSUME NEW k \in Key, NEW v \in DOMAIN history'[k],
                      NEW m, NEW i, NEW key, NEW next,
                      m = history'[k][v].by, i \in DOMAIN calls[m].outbound,
                      key = calls[m].outbound[i].key, next = calls[m].outbound[i].expected + 1
               PROVE  Wrote(m, key, next)'
    BY <1>1 DEF BatchesOK
  <2>1. CASE v \in DOMAIN history[k]
    <3>1. m = history[k][v].by /\ m \in DOMAIN calls
      <4>1. m = history[k][v].by
        BY <2>1, <1>2
      <4>2. Replaces(history[k][v].by, k, v)
        BY <2>1 DEF Inv, WritesOK
      <4> QED
        BY <4>1, <4>2 DEF Replaces
    <3>2. key \in Key
      BY <3>1, CallType, BatchType DEF Inv
    <3>3. \A p, j, x, u :
            /\ p = history[k][v].by /\ j \in DOMAIN calls[p].outbound
            /\ x = calls[p].outbound[j].key /\ u = calls[p].outbound[j].expected + 1
            => Wrote(p, x, u)
      BY <2>1 DEF Inv, BatchesOK
    <3>4. Wrote(m, key, next)
      BY <3>1, <3>3
    <3> QED
      BY <3>2, <3>4, <1>2, <1>6 DEF Wrote
  <2>2. CASE k \in Keys(out) /\ v = Version(k) + 1
    <3>1. m = n
      BY <2>2, <1>2 DEF w
    <3>2. key \in Key /\ key \in Keys(out) /\ next = Version(key) + 1
      BY <3>1, <1>7
    <3>3. Version(key) + 1 \in DOMAIN history'[key] /\ history'[key][Version(key) + 1] = w
      BY <3>2, <1>2
    <3> QED
      BY <3>1, <3>2, <3>3 DEF w, Wrote
  <2> QED
    BY <2>1, <2>2, <1>5
<1>10. ResultsOK'
  <2> SUFFICES ASSUME NEW m \in DOMAIN calls, calls[m].state = "resolved", calls[m].op = "push"
               PROVE  \E k \in Key : \E v \in DOMAIN history'[k] : history'[k][v].by = m
    BY <1>1 DEF Inv, ResultsOK
  <2>1. PICK k \in Key : \E v \in DOMAIN history[k] : history[k][v].by = m
    BY DEF Inv, ResultsOK
  <2> QED
    BY <2>1, <1>2, <1>6
<1>11. Grows
  BY <1>2 DEF Grows
<1>12. ASSUME NEW m \in DOMAIN calls, NEW i \in DOMAIN calls[m].passed
       PROVE  /\ calls[m].passed[i].key \in Key
              /\ calls[m].since[calls[m].passed[i].key] \in Nat
  <2>1. calls[m].passed[i].key \in Key
    BY CallType, BatchType DEF Inv
  <2> QED
    BY <2>1, CallType DEF Inv, CallRecord
<1>13. VersionsOK'
  <2> SUFFICES ASSUME NEW m \in DOMAIN calls, calls[m].state = "resolved",
                      calls[m].op = "versions", NEW i \in DOMAIN calls[m].passed,
                      NEW k, NEW since, NEW result, k = calls[m].passed[i].key,
                      since = calls[m].since[k], result = calls[m].results[i]
               PROVE  TrueVersion(k, since, result)'
    BY <1>1 DEF VersionsOK
  <2>1. TrueVersion(k, since, result)
    BY DEF Inv, VersionsOK
  <2>2. k \in Key /\ since \in Nat
    BY <1>12
  <2> QED
    BY <2>1, <2>2, <1>11, StaysTrue
<1>14. DeletesOK'
  <2> SUFFICES ASSUME NEW m \in DOMAIN calls, calls[m].state = "resolved",
                      calls[m].op = "delete",
                      NEW k, NEW since, NEW expected, NEW v,
                      k = calls[m].passed[1].key, since = calls[m].since[k],
                      expected = calls[m].passed[1].expected, v = calls[m].results[1].version
               PROVE  TrueDelete(k, since, expected, v)'
    BY <1>1 DEF DeletesOK
  <2>1. TrueDelete(k, since, expected, v)
    BY DEF Inv, DeletesOK
  <2>2. 1 \in DOMAIN calls[m].passed
    BY CallType, BatchType DEF Inv, CallsOK
  <2>3. k \in Key /\ since \in Nat
    BY <1>12, <2>2
  <2> QED
    BY <2>1, <2>3, <1>11, StaysTrue
<1> QED
  BY <1>3, <1>4, <1>8, <1>9, <1>10, <1>13, <1>14 DEF Inv

(* A call ends as c: nothing but its state and its results change, and what *)
(* it has resolved to, if it has, is true now.                              *)
LEMMA EndStep ==
  ASSUME Inv, NEW n \in DOMAIN calls, NEW c \in CallRecord, UNCHANGED history,
         calls' = [calls EXCEPT ![n] = c],
         c.op = calls[n].op, c.passed = calls[n].passed, c.outbound = calls[n].outbound,
         c.since = calls[n].since,
         c.state = "resolved" =>
           /\ Len(c.results) = Len(c.outbound)
           /\ c.op = "push" =>
                /\ \E k \in Key : \E v \in DOMAIN history[k] : history[k][v].by = n
                /\ \A i \in DOMAIN c.outbound :
                     /\ c.results[i].key = c.outbound[i].key
                     /\ c.results[i].version = c.outbound[i].expected + 1
           /\ c.op = "versions" =>
                \A i \in DOMAIN c.passed :
                  TrueVersion(c.passed[i].key, c.since[c.passed[i].key], c.results[i])
           /\ c.op = "delete" =>
                TrueDelete(c.passed[1].key, c.since[c.passed[1].key], c.passed[1].expected,
                           c.results[1].version)
  PROVE  Inv'
<1>1. /\ calls' \in Seq(CallRecord) /\ Len(calls)' = Len(calls) /\ DOMAIN calls' = DOMAIN calls
      /\ calls'[n] = c /\ \A m \in DOMAIN calls : m # n => calls'[m] = calls[m]
  BY DEF Inv, Types
<1>2. \A m \in DOMAIN calls :
        /\ calls'[m].op = calls[m].op /\ calls'[m].passed = calls[m].passed
        /\ calls'[m].outbound = calls[m].outbound
        /\ calls'[m].since = calls[m].since
  BY <1>1
<1>3. Types'
  BY <1>1 DEF Inv, Types
<1>4. CallsOK'
  BY <1>1, <1>2 DEF Inv, CallsOK, Valid, Version
<1>5. \A k \in Key : \A v \in DOMAIN history[k] : history[k][v].by \in DOMAIN calls
  BY DEF Inv, WritesOK, Replaces
<1>6. WritesOK'
  <2> SUFFICES ASSUME NEW k \in Key, NEW v \in DOMAIN history[k]
               PROVE  /\ Replaces(history[k][v].by, k, v)'
                      /\ calls'[history[k][v].by].op
                           = IF history[k][v].deleted THEN "delete" ELSE "push"
    BY DEF WritesOK, Replaces
  <2>1. /\ Replaces(history[k][v].by, k, v)
        /\ calls[history[k][v].by].op = IF history[k][v].deleted THEN "delete" ELSE "push"
    BY DEF Inv, WritesOK
  <2>2. /\ calls'[history[k][v].by].op = calls[history[k][v].by].op
        /\ calls'[history[k][v].by].outbound = calls[history[k][v].by].outbound
    BY <1>2, <1>5
  <2>3. Replaces(history[k][v].by, k, v)'
    BY <2>1, <2>2, <1>1, ZenonT(30) DEF Replaces
  <2> QED
    BY <2>1, <2>2, <2>3
<1>7. BatchesOK'
  <2> SUFFICES ASSUME NEW k \in Key, NEW v \in DOMAIN history[k], NEW m, NEW i, NEW key, NEW next,
                      m = history[k][v].by, i \in DOMAIN calls'[m].outbound,
                      key = calls'[m].outbound[i].key, next = calls'[m].outbound[i].expected + 1
               PROVE  Wrote(m, key, next)'
    BY DEF BatchesOK
  <2>1. calls'[m].outbound = calls[m].outbound
    BY <1>2, <1>5
  <2>2. Wrote(m, key, next)
    BY <2>1 DEF Inv, BatchesOK
  <2> QED
    BY <2>2 DEF Wrote
<1>8. ResultsOK'
  <2> SUFFICES ASSUME NEW m \in DOMAIN calls, calls'[m].state = "resolved"
               PROVE  /\ Len(calls'[m].results) = Len(calls'[m].outbound)
                      /\ calls'[m].op = "push" =>
                           /\ \E k \in Key : \E v \in DOMAIN history[k] : history[k][v].by = m
                           /\ \A i \in DOMAIN calls'[m].outbound :
                                /\ calls'[m].results[i].key = calls'[m].outbound[i].key
                                /\ calls'[m].results[i].version = calls'[m].outbound[i].expected + 1
    BY <1>1 DEF ResultsOK
  <2>1. CASE m = n
    BY <2>1, <1>1
  <2>2. CASE m # n
    BY <2>2, <1>1 DEF Inv, ResultsOK
  <2> QED
    BY <2>1, <2>2
<1>9. /\ \A k, since, result : TrueVersion(k, since, result)' <=> TrueVersion(k, since, result)
      /\ \A k, since, expected, v :
           TrueDelete(k, since, expected, v)' <=> TrueDelete(k, since, expected, v)
  BY DEF TrueVersion, TrueDelete, Version
<1>10. VersionsOK'
  <2> SUFFICES ASSUME NEW m \in DOMAIN calls, calls'[m].state = "resolved",
                      calls'[m].op = "versions", NEW i \in DOMAIN calls'[m].passed,
                      NEW k, NEW since, NEW result, k = calls'[m].passed[i].key,
                      since = calls'[m].since[k], result = calls'[m].results[i]
               PROVE  TrueVersion(k, since, result)
    BY <1>1, <1>9 DEF VersionsOK
  <2>1. CASE m = n
    BY <2>1, <1>1
  <2>2. CASE m # n
    BY <2>2, <1>1 DEF Inv, VersionsOK
  <2> QED
    BY <2>1, <2>2
<1>11. DeletesOK'
  <2> SUFFICES ASSUME NEW m \in DOMAIN calls, calls'[m].state = "resolved",
                      calls'[m].op = "delete",
                      NEW k, NEW since, NEW expected, NEW v,
                      k = calls'[m].passed[1].key, since = calls'[m].since[k],
                      expected = calls'[m].passed[1].expected, v = calls'[m].results[1].version
               PROVE  TrueDelete(k, since, expected, v)
    BY <1>1, <1>9 DEF DeletesOK
  <2>1. CASE m = n
    BY <2>1, <1>1
  <2>2. CASE m # n
    BY <2>2, <1>1 DEF Inv, DeletesOK
  <2> QED
    BY <2>1, <2>2
<1> QED
  BY <1>3, <1>4, <1>6, <1>7, <1>8, <1>10, <1>11 DEF Inv

(* What the parser accepts of an answer written now is true now.            *)
LEMMA ResolveStep ==
  ASSUME Inv, NEW n \in DOMAIN calls, Resolve(n)
  PROVE  Inv'
<1> DEFINE out == calls[n].outbound
<1>1. PICK results \in Answers(n), array \in Batch :
        /\ Parses(calls[n], array, results)
        /\ calls' = [calls EXCEPT ![n].state = "resolved", ![n].results = results]
  BY DEF Resolve
<1>2. UNCHANGED history /\ Answered(n)
  BY DEF Resolve
<1>3. PICK f \in [DOMAIN out -> DOMAIN out] :
        results = [i \in DOMAIN out |-> [key |-> out[f[i]].key, version |-> Version(out[f[i]].key),
                                        deleted |-> Deleted(out[f[i]].key)]]
  BY <1>1 DEF Answers
<1>4. /\ calls[n] \in CallRecord /\ out \in Batch /\ out = calls[n].passed
      /\ Len(out) \in 0 .. MaxItems /\ DOMAIN out = 1 .. Len(out)
      /\ \A i \in DOMAIN out : out[i].key \in Key /\ out[i].expected \in 0 .. MaxCalls
  BY CallType, BatchType DEF Inv, CallsOK
<1>5. \A k \in Key : Version(k) \in 0 .. MaxCalls /\ Deleted(k) \in BOOLEAN
  <2> SUFFICES ASSUME NEW k \in Key
               PROVE  Version(k) \in 0 .. MaxCalls /\ Deleted(k) \in BOOLEAN
    OBVIOUS
  <2>1. history[k] \in Seq(Write) /\ Len(history[k]) <= MaxCalls
    BY WritesBounded DEF Inv, Types
  <2>2. Version(k) \in 0 .. MaxCalls
    BY <2>1, BoundsAssumption DEF Version
  <2>3. ASSUME Version(k) > 0
        PROVE  history[k][Version(k)].deleted \in BOOLEAN
    <3>1. Version(k) \in DOMAIN history[k]
      BY <2>1, <2>2, <2>3 DEF Version
    <3>2. history[k][Version(k)] \in Write
      BY <2>1, <3>1
    <3> QED
      BY <3>2 DEF Write
  <2> QED
    BY <2>2, <2>3 DEF Deleted
<1>6. results \in Results /\ DOMAIN results = DOMAIN out
  <2>1. ASSUME NEW i \in DOMAIN out
        PROVE  results[i] \in Result
    <3>1. f[i] \in DOMAIN out
      OBVIOUS
    <3>2. out[f[i]].key \in Key
      BY <3>1, <1>4
    <3> QED
      BY <3>2, <1>3, <1>5 DEF Result
  <2>2. results \in [1 .. Len(out) -> Result]
    BY <2>1, <1>3, <1>4
  <2> QED
    BY <2>2, <1>3, <1>4 DEF Results
<1>7. \A i \in DOMAIN out :
        /\ results[i].key = out[i].key /\ OfOp(calls[n].op, results[i], out[i])
        /\ results[i].version = Version(out[i].key) /\ results[i].deleted = Deleted(out[i].key)
  <2>1. ASSUME NEW i \in DOMAIN out
        PROVE  /\ results[i].key = out[f[i]].key /\ results[i].version = Version(out[f[i]].key)
               /\ results[i].deleted = Deleted(out[f[i]].key)
    BY <1>3
  <2>2. ASSUME NEW i \in DOMAIN out
        PROVE  results[i].key = out[i].key /\ OfOp(calls[n].op, results[i], out[i])
    BY <1>1, <1>6 DEF Parses
  <2> QED
    BY <2>1, <2>2
<1>8. Len(results) = Len(out)
  BY <1>1 DEF Parses
<1> DEFINE c == [calls[n] EXCEPT !.state = "resolved", !.results = results]
<1>9. /\ c \in CallRecord /\ c.state = "resolved" /\ c.results = results /\ c.op = calls[n].op
      /\ c.passed = calls[n].passed /\ c.outbound = out /\ c.since = calls[n].since
  BY <1>4, <1>6 DEF CallRecord
<1>10. calls' = [calls EXCEPT ![n] = c]
  BY <1>1
<1>11. ASSUME calls[n].op = "push"
       PROVE  /\ \E k \in Key : \E v \in DOMAIN history[k] : history[k][v].by = n
              /\ \A i \in DOMAIN out : results[i].version = out[i].expected + 1
  BY <1>2, <1>7, <1>11 DEF Answered, OfOp, PushResult
<1>12. \A k \in Key : calls[n].since[k] <= Version(k) /\ calls[n].since[k] \in 0 .. MaxCalls
  BY <1>4 DEF Inv, CallsOK, CallRecord
<1>13. ASSUME calls[n].op = "versions", NEW i \in DOMAIN out
       PROVE  TrueVersion(out[i].key, calls[n].since[out[i].key], results[i])
  <2>1. results[i].version \in calls[n].since[out[i].key] .. Version(out[i].key)
    BY <1>4, <1>5, <1>7, <1>12
  <2> QED
    BY <2>1, <1>7 DEF TrueVersion, Deleted
<1>14. ASSUME calls[n].op = "delete"
       PROVE  TrueDelete(out[1].key, calls[n].since[out[1].key], out[1].expected, results[1].version)
  <2> DEFINE k == out[1].key
             v == results[1].version
  <2>1. 1 \in DOMAIN out
    <3>1. Len(out) = 1
      BY <1>14 DEF Inv, CallsOK
    <3> QED
      BY <3>1, <1>4, SMTT(30)
  <2>2. /\ k \in Key /\ v = Version(k) /\ v \in 0 .. MaxCalls /\ Deleted(k)
        /\ out[1].expected \in 0 .. MaxCalls /\ v - out[1].expected \in {0, 1}
    BY <2>1, <1>4, <1>5, <1>7, <1>14 DEF OfOp, DeleteResult
  <2>3. v \in calls[n].since[k] .. Version(k)
    BY <2>2, <1>12
  <2>4. v > 0 /\ history[k][v].deleted
    BY <2>2 DEF Deleted
  <2>5. \A u \in 1 .. v : u = v \/ u <= out[1].expected
    BY <2>2
  <2> QED
    BY <2>3, <2>4, <2>5 DEF TrueDelete
<1> HIDE DEF c
<1> QED
  BY <1>2, <1>4, <1>7, <1>8, <1>9, <1>10, <1>11, <1>13, <1>14, EndStep, ZenonT(30)

LEMMA ThrowStep ==
  ASSUME Inv, NEW n \in DOMAIN calls, Throw(n)
  PROVE  Inv'
<1> DEFINE c == [calls[n] EXCEPT !.state = "thrown"]
<1>1. calls[n] \in CallRecord
  BY CallType DEF Inv
<1>2. /\ c \in CallRecord /\ c.state = "thrown" /\ c.op = calls[n].op
      /\ c.passed = calls[n].passed /\ c.outbound = calls[n].outbound
      /\ c.since = calls[n].since
  BY <1>1 DEF CallRecord
<1>3. calls' = [calls EXCEPT ![n] = c] /\ UNCHANGED history
  BY DEF Throw
<1> HIDE DEF c
<1> QED
  BY <1>2, <1>3, EndStep

LEMMA InvNext == Inv /\ [Next]_vars => Inv'
<1> SUFFICES ASSUME Inv, [Next]_vars
             PROVE  Inv'
  OBVIOUS
<1>1. ASSUME NEW batch \in Batch, Versions(batch)
      PROVE  Inv'
  BY <1>1, CallStep DEF Versions
<1>2. ASSUME NEW batch \in Batch, Push(batch)
      PROVE  Inv'
  BY <1>2, CallStep DEF Push
<1>3. ASSUME NEW item \in Item, Delete(item)
      PROVE  Inv'
  <2>1. <<item>> \in Batch /\ Len(<<item>>) = 1
    <3>1. <<item>> \in [1 .. 1 -> Item] /\ 1 \in 0 .. MaxItems
      BY BoundsAssumption
    <3> QED
      BY <3>1 DEF Batch
  <2> QED
    BY <2>1, <1>3, CallStep DEF Delete
<1>4. ASSUME NEW n \in DOMAIN calls, ApplyPush(n)
      PROVE  Inv'
  BY <1>4, StoreStep DEF ApplyPush
<1>5. ASSUME NEW n \in DOMAIN calls, ApplyDelete(n)
      PROVE  Inv'
  BY <1>5, StoreStep DEF ApplyDelete
<1>6. ASSUME NEW n \in DOMAIN calls, Resolve(n) \/ Throw(n)
      PROVE  Inv'
  BY <1>6, ResolveStep, ThrowStep
<1>7. CASE UNCHANGED vars
  <2>1. history' = history /\ calls' = calls
    BY <1>7 DEF vars
  <2>2. Types' /\ CallsOK'
    BY <2>1 DEF Inv, Types, CallsOK, Valid, Version
  <2>3. WritesOK'
    <3>1. \A n, k, v : Replaces(n, k, v)' <=> Replaces(n, k, v)
      BY <2>1 DEF Replaces
    <3> QED
      BY <2>1, <3>1 DEF Inv, WritesOK
  <2>4. BatchesOK'
    <3>1. \A n, k, v : Wrote(n, k, v)' <=> Wrote(n, k, v)
      BY <2>1 DEF Wrote
    <3> QED
      BY <2>1, <3>1 DEF Inv, BatchesOK
  <2>5. ResultsOK'
    BY <2>1 DEF Inv, ResultsOK
  <2>6. VersionsOK'
    <3>1. \A k, since, result : TrueVersion(k, since, result)' <=> TrueVersion(k, since, result)
      BY <2>1 DEF TrueVersion, Version
    <3> QED
      BY <2>1, <3>1 DEF Inv, VersionsOK
  <2>7. DeletesOK'
    <3>1. \A k, since, expected, v :
            TrueDelete(k, since, expected, v)' <=> TrueDelete(k, since, expected, v)
      BY <2>1 DEF TrueDelete, Version
    <3> QED
      BY <2>1, <3>1 DEF Inv, DeletesOK
  <2> QED
    BY <2>2, <2>3, <2>4, <2>5, <2>6, <2>7 DEF Inv
<1> QED
  BY <1>1, <1>2, <1>3, <1>4, <1>5, <1>6, <1>7 DEF Next, Caller, Server, Client

(* In every state of every behaviour.                                       *)
LEMMA Always == Spec => []Inv
<1> QED
  BY InvInit, InvNext, PTL DEF Spec

-----------------------------------------------------------------------------
(* Every history, call and result has its type, and no key has more         *)
(* versions than there were calls, for any number of requests that arrive   *)
(* late or again.                                                           *)
THEOREM SyncTypes == Spec => []TypeOK
<1>1. Inv => TypeOK
  BY WellTyped
<1> QED
  BY <1>1, Always, PTL

(* A resolved push (client.ts, push) has stored all it was passed, once, as *)
(* the versions that it returned: PushTrue, for any number of clients.      *)
THEOREM PushesAreTrue == Spec => []PushTrue
<1>1. ASSUME Inv
      PROVE  PushTrue
  <2> SUFFICES ASSUME NEW n \in Resolved("push")
               PROVE  /\ \A i \in DOMAIN calls[n].passed :
                           /\ calls[n].results[i].key = calls[n].passed[i].key
                           /\ calls[n].results[i].version = calls[n].passed[i].expected + 1
                           /\ WritesOf(n, calls[n].passed[i].key) = {calls[n].results[i].version}
                      /\ \A k \in Key \ Keys(calls[n].passed) : WritesOf(n, k) = {}
    BY DEF PushTrue
  <2> DEFINE out == calls[n].outbound
  <2>1. /\ n \in DOMAIN calls /\ calls[n].passed = out /\ Valid(out)
        /\ \A i \in DOMAIN out : out[i].key \in Key /\ out[i].expected \in 0 .. MaxCalls
    BY <1>1, CallType, BatchType DEF Resolved, Inv, CallsOK
  <2>2. \A i \in DOMAIN out : /\ calls[n].results[i].key = out[i].key
                              /\ calls[n].results[i].version = out[i].expected + 1
    BY <1>1, <2>1 DEF Resolved, Inv, ResultsOK
  <2>3. PICK k \in Key : \E v \in DOMAIN history[k] : history[k][v].by = n
    BY <1>1, <2>1 DEF Resolved, Inv, ResultsOK
  <2>4. ASSUME NEW i \in DOMAIN out
        PROVE  WritesOf(n, out[i].key) = {out[i].expected + 1}
    <3> DEFINE key == out[i].key
    <3>1. Wrote(n, key, out[i].expected + 1)
      BY <1>1, <2>3 DEF Inv, BatchesOK
    <3>2. ASSUME NEW v \in DOMAIN history[key], history[key][v].by = n
          PROVE  v = out[i].expected + 1
      <4>1. Replaces(n, key, v)
        BY <1>1, <2>1, <3>2 DEF Inv, WritesOK
      <4>2. PICK j \in DOMAIN out : out[j].key = key /\ out[j].expected = v - 1
        BY <4>1 DEF Replaces
      <4>3. j = i
        BY <4>2, <2>1 DEF Valid
      <4>4. v \in Int
        BY <1>1, <2>1 DEF Inv, Types
      <4> QED
        BY <4>2, <4>3, <4>4, <2>1
    <3> QED
      BY <3>1, <3>2 DEF WritesOf, Wrote
  <2>5. ASSUME NEW key \in Key, NEW v \in DOMAIN history[key], history[key][v].by = n
        PROVE  key \in Keys(out)
    <3>1. Replaces(n, key, v)
      BY <1>1, <2>5 DEF Inv, WritesOK
    <3> QED
      BY <3>1 DEF Replaces, Keys
  <2>6. \A key \in Key \ Keys(out) : WritesOf(n, key) = {}
    BY <2>5 DEF WritesOf
  <2> QED
    BY <2>1, <2>2, <2>4, <2>6
<1> QED
  BY <1>1, Always, PTL

(* What versions (client.ts) has resolved to was true of each key at some   *)
(* time since the call: VersionsTrue.                                       *)
THEOREM VersionsAreTrue == Spec => []VersionsTrue
<1>1. ASSUME Inv
      PROVE  VersionsTrue
  <2> SUFFICES ASSUME NEW n \in DOMAIN calls, calls[n].state = "resolved",
                      calls[n].op = "versions", NEW i \in DOMAIN calls[n].passed
               PROVE  LET k == calls[n].passed[i].key
                      IN  TrueVersion(k, calls[n].since[k], calls[n].results[i])
    BY DEF VersionsTrue, TrueVersion, Resolved
  <2>1. \A k, since, result :
          k = calls[n].passed[i].key /\ since = calls[n].since[k] /\ result = calls[n].results[i]
          => TrueVersion(k, since, result)
    BY <1>1 DEF Inv, VersionsOK
  <2> QED
    BY <2>1
<1> QED
  BY <1>1, Always, PTL

(* After a resolved delete (client.ts) the item was gone at some time since *)
(* the call, and no unknown value went with it: DeleteTrue.                 *)
THEOREM DeletesAreTrue == Spec => []DeleteTrue
<1>1. Inv => DeleteTrue
  BY DEF Inv, DeletesOK, DeleteTrue, TrueDelete, Resolved
<1> QED
  BY <1>1, Always, PTL
=============================================================================
