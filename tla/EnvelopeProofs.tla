---------------------------- MODULE EnvelopeProofs ----------------------------
(* Proofs about Envelope, for every set of keys, labels and slots and every  *)
(* bound.                                                                    *)
EXTENDS Envelope, FiniteSetTheorems, TLAPS

(* A wrapped key in the store was made for a key its data key was given to.  *)
KnownStanza(s) == s.wrapped # Damaged => s.wrapped.to \in granted[s.wrapped.dek]

(* A body in the store was sealed, for the slot it says.                     *)
KnownBody(b) == b # Damaged => b.by \in 1 .. used.seals /\ slot[b.by] = b.slot

StoreInv ==
  \A e \in envelopes : KnownBody(e.body) /\ \A s \in e.stanzas : KnownStanza(s)

(* Data keys that are yet to be drawn are not wrapped, and so not granted.   *)
DrawnInv ==
  \A e \in envelopes : \A s \in e.stanzas :
    s.wrapped # Damaged => s.wrapped.dek \in 1 .. used.seals

(* What sealing and re-wrapping return is as they build it.                  *)
Built(m) ==
  /\ m.envelope.form = "canonical"
  /\ m.envelope.nonce = m.seal
  /\ m.envelope.aad = m.slot
  /\ m.envelope.body = [by |-> m.seal, slot |-> m.slot]
  /\ \E rs \in Recipients :
       ValidateRecipients(rs) /\ m.envelope.stanzas = Wraps(m.seal, rs) /\ m.to = KeysOf(rs)

MadeInv == \A m \in made : Built(m)

EnvelopeInv == TypeOK /\ StoreInv /\ DrawnInv /\ MadeInv

(* A list of recipients that is valid makes as many stanzas, with the ids it *)
(* has.                                                                      *)
LEMMA WrapsCountable ==
  ASSUME NEW dek, NEW rs \in Recipients, ValidateRecipients(rs)
  PROVE  Countable(Wraps(dek, rs))
<1> DEFINE W(r) == [id |-> r.id, wrapped |-> [dek |-> dek, to |-> r.key]]
<1>1. IsFiniteSet(rs) /\ Cardinality(rs) \in 1 .. MaxRecipients /\ DistinctIds(rs)
  BY DEF Recipients, ValidateRecipients, Countable
<1>2. /\ IsFiniteSet(Wraps(dek, rs))
      /\ Cardinality(Wraps(dek, rs)) <= Cardinality(rs)
  <2> DEFINE f == [r \in rs |-> W(r)]
  <2>1. f \in Surjection(rs, Wraps(dek, rs))
    BY DEF Wraps, Surjection
  <2> QED
    BY <1>1, <2>1, FS_Surjection
<1>3. Wraps(dek, rs) # {}
  <2>1. rs # {}
    BY <1>1, FS_EmptySet
  <2> QED
    BY <2>1 DEF Wraps
<1>4. Cardinality(Wraps(dek, rs)) \in Nat \ {0}
  BY <1>2, <1>3, FS_CardinalityType, FS_EmptySet
<1>5. DistinctIds(Wraps(dek, rs))
  BY <1>1 DEF DistinctIds, Wraps
<1> QED
  BY <1>1, <1>2, <1>4, <1>5, BoundsAssumption DEF Countable

(* Its stanzas open for its keys, with the data key, and for no others.      *)
LEMMA WrapsOpen ==
  ASSUME NEW dek \in Nat, NEW rs \in Recipients, ValidateRecipients(rs), NEW k \in Key,
         NEW e, e.stanzas = Wraps(dek, rs)
  PROVE  DataKeys(e, k) = IF k \in KeysOf(rs) THEN {dek} ELSE {}
<1>1. \A r \in rs : r.key \in Key /\ [dek |-> dek, to |-> r.key] # Damaged
  BY DamagedAssumption DEF Recipients, Recipient, ValidateRecipients, Wrapped
<1>2. \A t \in e.stanzas : t.wrapped.dek = dek
  BY DEF Wraps
<1>3. k \in KeysOf(rs) <=> \E t \in e.stanzas : Opens(t.wrapped, k)
  <2> DEFINE W(r) == [id |-> r.id, wrapped |-> [dek |-> dek, to |-> r.key]]
  <2>1. e.stanzas = {W(r) : r \in rs}
    BY DEF Wraps
  <2>2. \A r \in rs : W(r).wrapped # Damaged /\ W(r).wrapped.to = r.key
    BY <1>1
  <2> HIDE DEF W
  <2>3. ASSUME NEW r \in rs PROVE Opens(W(r).wrapped, k) <=> r.key = k
    BY <2>2 DEF Opens
  <2> QED
    BY <2>1, <2>3 DEF KeysOf
<1> QED
  BY <1>2, <1>3 DEF DataKeys

(* The initial state satisfies the invariant.                                *)
LEMMA EnvelopesStart == Init => EnvelopeInv
<1> SUFFICES ASSUME Init PROVE EnvelopeInv
  OBVIOUS
<1>1. used \in [seals : 0 .. MaxSeals, rewraps : Nat, edits : Nat] /\ used.seals = 0
  BY BoundsAssumption DEF Init
<1>2. slot \in [1 .. used.seals -> Slot]
  BY <1>1 DEF Init
<1> QED
  BY <1>1, <1>2 DEF Init, TypeOK, EnvelopeInv, StoreInv, DrawnInv, MadeInv

(* What is known of a stanza or a body stays known: slots are kept and       *)
(* grants only added.                                                        *)
LEMMA KnownKept ==
  ASSUME TypeOK, used'.seals \in used.seals .. MaxSeals,
         \A n \in 1 .. used.seals : slot'[n] = slot[n],
         \A n \in 1 .. MaxSeals : granted[n] \subseteq granted'[n]
  PROVE  /\ \A b : KnownBody(b) => KnownBody(b)'
         /\ \A s : KnownStanza(s) /\ (s.wrapped # Damaged => s.wrapped.dek \in 1 .. used.seals)
                     => KnownStanza(s)'
<1>1. used.seals \in Nat /\ MaxSeals \in Nat /\ used.seals <= MaxSeals
  BY BoundsAssumption DEF TypeOK
<1> QED
  BY <1>1 DEF KnownBody, KnownStanza

(* What is returned is built of stanzas for the new recipients and a body    *)
(* that was sealed, so returning it keeps the invariant.                     *)
LEMMA ReturnKeeps ==
  ASSUME EnvelopeInv, NEW e, NEW dek, NEW expected \in Slot, NEW rs \in Recipients,
         ValidateRecipients(rs), Return(e, dek, expected, rs),
         e = [form |-> "canonical", nonce |-> dek, body |-> [by |-> dek, slot |-> expected],
              aad |-> expected, stanzas |-> Wraps(dek, rs)],
         used'.seals \in used.seals .. MaxSeals,
         \A n \in 1 .. used.seals : slot'[n] = slot[n],
         dek \in 1 .. used'.seals, slot'[dek] = expected
  PROVE  /\ StoreInv' /\ DrawnInv' /\ MadeInv'
         /\ envelopes' \subseteq Env /\ made' \subseteq Made
         /\ granted' \in [1 .. MaxSeals -> SUBSET Key]
<1>0. TypeOK /\ StoreInv /\ DrawnInv /\ MadeInv
  BY DEF EnvelopeInv
<1>1. /\ used.seals \in Nat /\ used'.seals \in Nat /\ MaxSeals \in Nat
      /\ dek \in 1 .. MaxSeals /\ dek \in Nat
  BY <1>0, BoundsAssumption DEF TypeOK
<1>2. \A r \in rs : r.id \in Label /\ r.key \in Key
  BY DEF Recipients, Recipient, ValidateRecipients
<1>3. KeysOf(rs) \subseteq Key
  BY <1>2 DEF KeysOf
<1>4. /\ granted' \in [1 .. MaxSeals -> SUBSET Key]
      /\ \A n \in 1 .. MaxSeals : granted[n] \subseteq granted'[n]
      /\ KeysOf(rs) \subseteq granted'[dek]
  BY <1>0, <1>1, <1>3 DEF Return, TypeOK
<1>5. ASSUME NEW s \in Wraps(dek, rs)
      PROVE  /\ s \in Stanza /\ s.wrapped # Damaged
             /\ s.wrapped.dek = dek /\ s.wrapped.to \in KeysOf(rs)
  <2>1. PICK r \in rs : s = [id |-> r.id, wrapped |-> [dek |-> dek, to |-> r.key]]
    BY DEF Wraps
  <2>2. [dek |-> dek, to |-> r.key] \in Wrapped
    BY <1>1, <1>2 DEF Wrapped
  <2> QED
    BY <1>2, <2>1, <2>2, DamagedAssumption DEF Stanza, KeysOf
<1>6. e \in Env
  <2>1. [by |-> dek, slot |-> expected] \in Body
    BY <1>1 DEF Body
  <2>2. Wraps(dek, rs) \in SUBSET Stanza
    BY <1>5
  <2> QED
    BY <1>1, <2>1, <2>2 DEF Env, Form
<1>7. envelopes' = envelopes \cup {e}
  BY DEF Return
<1>8. StoreInv'
  <2>1. KnownBody(e.body)'
    BY DEF KnownBody
  <2>2. \A s \in e.stanzas : KnownStanza(s)'
    BY <1>4, <1>5 DEF KnownStanza
  <2>3. ASSUME NEW f \in envelopes
        PROVE  KnownBody(f.body)' /\ \A s \in f.stanzas : KnownStanza(s)'
    BY <1>0, <1>4, KnownKept DEF StoreInv, DrawnInv
  <2> QED
    BY <1>7, <2>1, <2>2, <2>3 DEF StoreInv
<1>9. DrawnInv'
  <2>1. ASSUME NEW f \in envelopes, NEW s \in f.stanzas, s.wrapped # Damaged
        PROVE  s.wrapped.dek \in 1 .. used'.seals
    BY <1>0, <1>1, <2>1 DEF DrawnInv
  <2>2. ASSUME NEW s \in e.stanzas PROVE s.wrapped.dek \in 1 .. used'.seals
    BY <1>5
  <2> QED
    BY <1>7, <2>1, <2>2 DEF DrawnInv
<1> DEFINE m == [envelope |-> e, seal |-> dek, slot |-> expected, to |-> KeysOf(rs)]
<1>10. made' = made \cup {m}
  BY DEF Return
<1>11. m \in Made
  BY <1>1, <1>3, <1>6 DEF Made
<1>12. Built(m)
  BY DEF Built
<1>13. made' \subseteq Made
  BY <1>0, <1>10, <1>11 DEF TypeOK
<1>14. MadeInv'
  <2>1. \A x \in made : Built(x)
    BY <1>0 DEF MadeInv
  <2> HIDE DEF m
  <2>2. \A x \in made' : Built(x)
    BY <2>1, <1>10, <1>12
  <2> QED
    BY <2>2 DEF MadeInv, Built
<1> QED
  BY <1>0, <1>4, <1>6, <1>7, <1>8, <1>9, <1>13, <1>14 DEF TypeOK

(* Every step keeps the invariant.                                           *)
LEMMA EnvelopesStep == EnvelopeInv /\ [Next]_vars => EnvelopeInv'
<1> SUFFICES ASSUME EnvelopeInv, [Next]_vars PROVE EnvelopeInv'
  OBVIOUS
<1>0. TypeOK /\ StoreInv /\ DrawnInv /\ MadeInv
  BY DEF EnvelopeInv
<1>1. used.seals \in Nat /\ MaxSeals \in Nat /\ used.seals <= MaxSeals
  BY <1>0, BoundsAssumption DEF TypeOK
<1>2. ASSUME NEW rs \in Recipients, NEW aad \in Slot, used.seals < MaxSeals, Encrypt(rs, aad)
      PROVE  EnvelopeInv'
  <2> DEFINE n == used.seals + 1
             e == [form |-> "canonical", nonce |-> n, body |-> [by |-> n, slot |-> aad],
                   aad |-> aad, stanzas |-> Wraps(n, rs)]
  <2>1. /\ ValidateRecipients(rs) /\ Return(e, n, aad, rs)
        /\ used' = [used EXCEPT !.seals = n]
        /\ slot' = [i \in 1 .. n |-> IF i = n THEN aad ELSE slot[i]]
    BY <1>2 DEF Encrypt
  <2>2. /\ used'.seals = n
        /\ used' \in [seals : 0 .. MaxSeals, rewraps : Nat, edits : Nat]
    BY <1>0, <1>1, <1>2, <2>1 DEF TypeOK
  <2>3. /\ slot' \in [1 .. n -> Slot]
        /\ slot'[n] = aad
        /\ \A i \in 1 .. used.seals : slot'[i] = slot[i]
    BY <1>0, <1>1, <2>1 DEF TypeOK
  <2>4. n \in 1 .. n /\ n \in used.seals .. MaxSeals
    BY <1>1, <1>2
  <2>5. /\ StoreInv' /\ DrawnInv' /\ MadeInv'
        /\ envelopes' \subseteq Env /\ made' \subseteq Made
        /\ granted' \in [1 .. MaxSeals -> SUBSET Key]
    BY <2>1, <2>2, <2>3, <2>4, ReturnKeeps
  <2> QED
    BY <2>2, <2>3, <2>5 DEF EnvelopeInv, TypeOK
<1>3. ASSUME NEW e \in envelopes, NEW k \in Key, NEW expected \in Slot, NEW rs \in Recipients,
             Rewrap(e, k, expected, rs) \/ RewrapEnvelope(e, k, expected, rs)
      PROVE  EnvelopeInv'
  <2>1. PICK dek \in DataKeys(e, k) :
          /\ Authentic(dek, e)
          /\ \/ Return([e EXCEPT !.form = "canonical", !.stanzas = Wraps(dek, rs)],
                       dek, expected, rs)
             \/ /\ e.form = "canonical"
                /\ Return([e EXCEPT !.stanzas = Wraps(dek, rs)], dek, expected, rs)
    BY <1>3 DEF Rewrap, RewrapEnvelope, ValidateEnvelopeReady
  <2>2. /\ ValidateRecipients(rs) /\ e.aad = expected
        /\ slot' = slot /\ used' = [used EXCEPT !.rewraps = @ + 1]
    BY <1>3 DEF Rewrap, RewrapEnvelope, CountRewrap
  <2>3. /\ used'.seals = used.seals
        /\ used' \in [seals : 0 .. MaxSeals, rewraps : Nat, edits : Nat]
    BY <1>0, <2>2 DEF TypeOK
  <2>4. e \in Env /\ KnownBody(e.body)
    BY <1>0 DEF TypeOK, StoreInv
  <2>5. /\ dek \in 1 .. used.seals /\ slot[dek] = expected
        /\ e.nonce = dek /\ e.body = [by |-> dek, slot |-> expected]
    BY <2>1, <2>2, <2>4 DEF Authentic, KnownBody, Env, Body
  <2> DEFINE f == [form |-> "canonical", nonce |-> dek, body |-> [by |-> dek, slot |-> expected],
                   aad |-> expected, stanzas |-> Wraps(dek, rs)]
  <2> DEFINE W == Wraps(dek, rs)
             g == [e EXCEPT !.form = "canonical"]
  <2>6. [e EXCEPT !.form = "canonical", !.stanzas = W] = f
    <3>1. e = [form |-> e.form, nonce |-> e.nonce, body |-> e.body, aad |-> e.aad,
               stanzas |-> e.stanzas]
      BY <2>4 DEF Env
    <3>2. g = [form |-> "canonical", nonce |-> dek, body |-> [by |-> dek, slot |-> expected],
               aad |-> expected, stanzas |-> e.stanzas]
      BY <3>1, <2>2, <2>5
    <3>3. [e EXCEPT !.form = "canonical", !.stanzas = W] = [g EXCEPT !.stanzas = W]
      OBVIOUS
    <3> HIDE DEF g
    <3>4. [g EXCEPT !.stanzas = W] = f
      BY <3>2
    <3> QED
      BY <3>3, <3>4, Zenon
  <2>7. e.form = "canonical" => [e EXCEPT !.stanzas = Wraps(dek, rs)] = f
    BY <2>2, <2>4, <2>5 DEF Env
  <2>8. Return(f, dek, expected, rs)
    BY <2>1, <2>6, <2>7
  <2>9. used'.seals \in used.seals .. MaxSeals /\ \A i \in 1 .. used.seals : slot'[i] = slot[i]
    BY <1>1, <2>2, <2>3
  <2>10. /\ StoreInv' /\ DrawnInv' /\ MadeInv'
         /\ envelopes' \subseteq Env /\ made' \subseteq Made
         /\ granted' \in [1 .. MaxSeals -> SUBSET Key]
    BY <2>2, <2>3, <2>5, <2>8, <2>9, ReturnKeeps
  <2> QED
    BY <1>0, <2>2, <2>3, <2>10 DEF EnvelopeInv, TypeOK
<1>4. ASSUME Edit PROVE EnvelopeInv'
  <2>1. PICK e \in envelopes, f \in envelopes, form \in Form, aad \in Slot :
          \E body \in {f.body, Damaged},
             stanzas \in SUBSET (e.stanzas \cup f.stanzas
                                 \cup [id : {s.id : s \in f.stanzas}, wrapped : {Damaged}]) :
            envelopes' = envelopes \cup
              {[form |-> form, nonce |-> e.nonce, body |-> body, aad |-> aad, stanzas |-> stanzas]}
    BY <1>4 DEF Edit
  <2>2. PICK body \in {f.body, Damaged},
             stanzas \in SUBSET (e.stanzas \cup f.stanzas
                                 \cup [id : {s.id : s \in f.stanzas}, wrapped : {Damaged}]) :
          envelopes' = envelopes \cup
            {[form |-> form, nonce |-> e.nonce, body |-> body, aad |-> aad, stanzas |-> stanzas]}
    BY <2>1
  <2> DEFINE g == [form |-> form, nonce |-> e.nonce, body |-> body, aad |-> aad,
                   stanzas |-> stanzas]
  <2>3. /\ UNCHANGED <<made, granted, slot>> /\ used' = [used EXCEPT !.edits = @ + 1]
        /\ used'.seals = used.seals
        /\ used' \in [seals : 0 .. MaxSeals, rewraps : Nat, edits : Nat]
    BY <1>0, <1>4 DEF Edit, TypeOK
  <2>4. e \in Env /\ f \in Env /\ KnownBody(body)
    BY <1>0 DEF TypeOK, StoreInv, KnownBody
  <2>5. ASSUME NEW s \in stanzas
        PROVE  /\ s \in Stanza /\ KnownStanza(s)
               /\ s.wrapped # Damaged => s.wrapped.dek \in 1 .. used.seals
    <3>1. CASE s \in e.stanzas \cup f.stanzas
      BY <1>0, <2>4, <3>1 DEF StoreInv, DrawnInv, Env
    <3>2. CASE s \in [id : {t.id : t \in f.stanzas}, wrapped : {Damaged}]
      <4>1. \A t \in f.stanzas : t.id \in Label
        BY <2>4 DEF Env, Stanza
      <4> QED
        BY <3>2, <4>1 DEF Stanza, KnownStanza
    <3> QED
      BY <3>1, <3>2
  <2>6. g \in Env
    BY <2>4, <2>5 DEF Env
  <2>7. StoreInv' /\ DrawnInv'
    BY <1>0, <2>2, <2>3, <2>4, <2>5 DEF StoreInv, DrawnInv, KnownBody, KnownStanza
  <2>8. MadeInv'
    BY <1>0, <2>3 DEF MadeInv, Built
  <2> QED
    BY <1>0, <2>2, <2>3, <2>6, <2>7, <2>8 DEF EnvelopeInv, TypeOK
<1>5. ASSUME UNCHANGED vars PROVE EnvelopeInv'
  BY <1>0, <1>5 DEF vars, EnvelopeInv, TypeOK, StoreInv, DrawnInv, MadeInv, Built,
                    KnownBody, KnownStanza
<1> QED
  BY <1>2, <1>3, <1>4, <1>5 DEF Next

(* The invariant holds whatever members and the store do.                    *)
THEOREM EnvelopeInvariant == Spec => []EnvelopeInv
<1> QED
  BY EnvelopesStart, EnvelopesStep, PTL DEF Spec

(* Every variable stays in its type.                                         *)
THEOREM EnvelopeTypes == Spec => []TypeOK
<1>1. EnvelopeInv => TypeOK
  BY DEF EnvelopeInv
<1> QED
  BY <1>1, EnvelopeInvariant, PTL

(* However the store mixes and damages envelopes, what opens for a slot was  *)
(* sealed for that slot, and opens only for a key it was given to.           *)
THEOREM OpeningIsAuthentic == Spec => []OpensWhatWasSealed
<1>1. EnvelopeInv => OpensWhatWasSealed
  <2> SUFFICES ASSUME EnvelopeInv, NEW e \in envelopes, NEW k \in Key, NEW expected \in Slot,
                      NEW n \in Decrypt(e, k, expected) \cup OpenEnvelope(e, k, expected)
               PROVE  n \in 1 .. used.seals /\ slot[n] = expected /\ k \in granted[n]
    BY DEF OpensWhatWasSealed
  <2>1. n \in DataKeys(e, k) /\ e.aad = expected /\ Authentic(n, e)
    BY DEF Decrypt, OpenEnvelope
  <2>2. PICK s \in e.stanzas : Opens(s.wrapped, k) /\ n = s.wrapped.dek
    BY <2>1 DEF DataKeys
  <2>3. KnownBody(e.body) /\ KnownStanza(s)
    BY DEF EnvelopeInv, StoreInv
  <2> QED
    BY <2>1, <2>2, <2>3 DEF Authentic, KnownBody, KnownStanza, Opens
<1> QED
  BY <1>1, EnvelopeInvariant, PTL

(* What sealing and re-wrapping return opens for the recipients asked for,   *)
(* in Go, and for no other key.                                              *)
THEOREM ReturnedOpens == Spec => []MadeOpens
<1>1. EnvelopeInv => MadeOpens
  <2> SUFFICES ASSUME EnvelopeInv, NEW m \in made, NEW k \in Key
               PROVE  Decrypt(m.envelope, k, m.slot) = IF k \in m.to THEN {m.seal} ELSE {}
    BY DEF MadeOpens
  <2>1. Built(m) /\ m.seal \in Nat /\ m.slot \in Slot
    BY DEF EnvelopeInv, MadeInv, TypeOK, Made
  <2>2. PICK rs \in Recipients :
          ValidateRecipients(rs) /\ m.envelope.stanzas = Wraps(m.seal, rs) /\ m.to = KeysOf(rs)
    BY <2>1 DEF Built
  <2>3. DataKeys(m.envelope, k) = IF k \in m.to THEN {m.seal} ELSE {}
    BY <2>1, <2>2, WrapsOpen
  <2>4. ValidateEnvelope(m.envelope)
    BY <2>1, <2>2, WrapsCountable DEF Built, ValidateEnvelope
  <2>5. [by |-> m.seal, slot |-> m.slot] # Damaged
    BY <2>1, DamagedAssumption DEF Body
  <2>6. Authentic(m.seal, m.envelope) /\ m.envelope.aad = m.slot
    BY <2>1, <2>5 DEF Built, Authentic
  <2> QED
    BY <2>3, <2>4, <2>6 DEF Decrypt
<1> QED
  BY <1>1, EnvelopeInvariant, PTL

(* TypeScript opens of it exactly what Go does.                              *)
THEOREM ImplementationsAgree == Spec => []BothOpen
<1>1. EnvelopeInv => BothOpen
  <2> SUFFICES ASSUME EnvelopeInv, NEW m \in made, NEW k \in Key, NEW expected \in Slot
               PROVE  OpenEnvelope(m.envelope, k, expected) = Decrypt(m.envelope, k, expected)
    BY DEF BothOpen
  <2>1. m.envelope.form = "canonical"
    BY DEF EnvelopeInv, MadeInv, Built
  <2> QED
    BY <2>1 DEF OpenEnvelope, Decrypt, ValidateEnvelope, ValidateEnvelopeReady
<1> QED
  BY <1>1, EnvelopeInvariant, PTL

=============================================================================
