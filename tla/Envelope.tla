------------------------------- MODULE Envelope -------------------------------
(***************************************************************************)
(* Envelopes in an untrusted store: sealing, re-wrapping and opening in    *)
(* Go (src/crypto/crypto.go) and TypeScript (src/client/src/crypto.ts).    *)
(*                                                                         *)
(* Cryptography is symbolic.  The n-th sealing draws data key n and nonce  *)
(* n and has plaintext n.  A body opens with its data key, its nonce and   *)
(* its associated data, a wrapped key with the private key it was made     *)
(* for, and nothing else opens either.  The store may put an envelope      *)
(* together from the parts of others, and damage parts.                    *)
(***************************************************************************)
EXTENDS Naturals, FiniteSets

CONSTANTS
  Key,            \* key pairs, each of one member
  ZeroKey,        \* the public key that is all zeroes
  Label,          \* recipient ids
  Slot,           \* associated data
  Damaged,        \* a body or wrapped key that opens with nothing
  MaxRecipients,
  MaxSeals,       \* bound: envelopes sealed
  MaxRewraps,     \* bound: envelopes re-wrapped
  MaxEdits        \* bound: envelopes put together by the store

ASSUME KeysAssumption == ZeroKey \notin Key
ASSUME BoundsAssumption ==
  MaxRecipients \in Nat \ {0} /\ MaxSeals \in Nat /\ MaxRewraps \in Nat /\ MaxEdits \in Nat

Wrapped == [dek : Nat, to : Key]
Stanza == [id : Label, wrapped : Wrapped \cup {Damaged}]
Body == [by : Nat, slot : Slot]
ASSUME DamagedAssumption == Damaged \notin Wrapped \cup Body

(* "lax" is what Go's decoder reads and TypeScript's refuses: base64 that  *)
(* is not canonical, field names in other case.  "broken" fails a check of *)
(* format or length in both.                                               *)
Form == {"canonical", "lax", "broken"}

(* Stanzas are tried in their order, which is that of their labels and, in *)
(* an edited envelope, any.  Here they are a set, and which of those that  *)
(* open comes first is a choice.                                           *)
Env ==
  [form : Form, nonce : Nat, body : Body \cup {Damaged}, aad : Slot, stanzas : SUBSET Stanza]

Recipient == [id : Label, key : Key \cup {ZeroKey}]
Recipients == {rs \in SUBSET Recipient : IsFiniteSet(rs)}

VARIABLES
  envelopes,  \* all that are or were in the store
  made,       \* history: those that sealing and re-wrapping returned
  granted,    \* history: the keys every data key was wrapped to
  slot,       \* history: the slot of every sealing
  used        \* how much of each bound is spent

vars == <<envelopes, made, granted, slot, used>>

Made == [envelope : Env, seal : Nat, slot : Slot, to : SUBSET Key]

TypeOK ==
  /\ envelopes \subseteq Env
  /\ made \subseteq Made
  /\ granted \in [1 .. MaxSeals -> SUBSET Key]
  /\ slot \in [1 .. used.seals -> Slot]
  /\ used \in [seals : 0 .. MaxSeals, rewraps : Nat, edits : Nat]

Init ==
  /\ envelopes = {}
  /\ made = {}
  /\ granted = [n \in 1 .. MaxSeals |-> {}]
  /\ slot = [n \in {} |-> n]
  /\ used = [seals |-> 0, rewraps |-> 0, edits |-> 0]

-----------------------------------------------------------------------------
(* The primitives. *)
Opens(wrapped, k) == wrapped # Damaged /\ wrapped.to = k
Authentic(dek, e) ==
  /\ e.body # Damaged
  /\ e.body.by = dek
  /\ e.nonce = e.body.by
  /\ e.aad = e.body.slot

DistinctIds(s) == \A a, b \in s : a.id = b.id => a = b
Countable(s) == Cardinality(s) \in 1 .. MaxRecipients /\ DistinctIds(s)

(* Slip: the public keys are not looked at. *)
ValidateIds(rs) == Countable(rs)

ValidateRecipients(rs) == Countable(rs) /\ \A r \in rs : r.key # ZeroKey

ValidateEnvelope(e) == e.form # "broken" /\ Countable(e.stanzas)

(* The same in TypeScript, which decodes the fields itself.                *)
ValidateEnvelopeReady(e) == e.form = "canonical" /\ Countable(e.stanzas)

(* The data keys that the first stanza to open may give.                   *)
DataKeys(e, k) == {s.wrapped.dek : s \in {t \in e.stanzas : Opens(t.wrapped, k)}}

(* Slip: the slot is taken from the envelope. *)
DecryptAnySlot(e, k, expected) ==
  {dek \in DataKeys(e, k) : ValidateEnvelope(e) /\ Authentic(dek, e)}

(* What opening returns, none for an error.  The first stanza to open      *)
(* decides: with another data key the body fails, and so does opening.     *)
Decrypt(e, k, expected) ==
  {dek \in DataKeys(e, k) : ValidateEnvelope(e) /\ e.aad = expected /\ Authentic(dek, e)}

OpenEnvelope(e, k, expected) ==
  {dek \in DataKeys(e, k) : ValidateEnvelopeReady(e) /\ e.aad = expected /\ Authentic(dek, e)}

Wraps(dek, rs) == {[id |-> r.id, wrapped |-> [dek |-> dek, to |-> r.key]] : r \in rs}
KeysOf(rs) == {r.key : r \in rs}

Return(e, dek, expected, rs) ==
  /\ envelopes' = envelopes \cup {e}
  /\ made' = made \cup {[envelope |-> e, seal |-> dek, slot |-> expected, to |-> KeysOf(rs)]}
  /\ granted' = [granted EXCEPT ![dek] = @ \cup KeysOf(rs)]

(* Encrypt and sealEnvelope.                                               *)
Encrypt(rs, aad) ==
  LET n == used.seals + 1
  IN  /\ ValidateRecipients(rs)
      /\ used' = [used EXCEPT !.seals = n]
      /\ slot' = [i \in 1 .. n |-> IF i = n THEN aad ELSE slot[i]]
      /\ Return([form |-> "canonical", nonce |-> n, body |-> [by |-> n, slot |-> aad],
                 aad |-> aad, stanzas |-> Wraps(n, rs)],
                n, aad, rs)

CountRewrap == used' = [used EXCEPT !.rewraps = @ + 1]

(* Slip: the body is passed on without being opened. *)
RewrapUnopened(e, k, expected, rs) ==
  /\ CountRewrap
  /\ ValidateEnvelope(e)
  /\ e.aad = expected
  /\ ValidateRecipients(rs)
  /\ \E dek \in DataKeys(e, k) :
       Return([e EXCEPT !.form = "canonical", !.stanzas = Wraps(dek, rs)], dek, expected, rs)
  /\ UNCHANGED slot

(* Slip: the fields are passed on in the form they were read. *)
RewrapAsRead(e, k, expected, rs) ==
  /\ CountRewrap
  /\ ValidateEnvelope(e)
  /\ e.aad = expected
  /\ ValidateRecipients(rs)
  /\ \E dek \in DataKeys(e, k) :
       /\ Authentic(dek, e)
       /\ Return([e EXCEPT !.stanzas = Wraps(dek, rs)], dek, expected, rs)
  /\ UNCHANGED slot

(* The holder of k re-wraps e, which it looked up at `expected`.  Go       *)
(* writes the fields it has read anew.                                     *)
Rewrap(e, k, expected, rs) ==
  /\ CountRewrap
  /\ ValidateEnvelope(e)
  /\ e.aad = expected
  /\ ValidateRecipients(rs)
  /\ \E dek \in DataKeys(e, k) :
       /\ Authentic(dek, e)
       /\ Return([e EXCEPT !.form = "canonical", !.stanzas = Wraps(dek, rs)], dek, expected, rs)
  /\ UNCHANGED slot

(* TypeScript passes the fields on as they are.                            *)
RewrapEnvelope(e, k, expected, rs) ==
  /\ CountRewrap
  /\ ValidateEnvelopeReady(e)
  /\ e.aad = expected
  /\ ValidateRecipients(rs)
  /\ \E dek \in DataKeys(e, k) :
       /\ Authentic(dek, e)
       /\ Return([e EXCEPT !.stanzas = Wraps(dek, rs)], dek, expected, rs)
  /\ UNCHANGED slot

(* The store writes an envelope of parts it has, in any form.              *)
Edit ==
  /\ used.edits < MaxEdits
  /\ used' = [used EXCEPT !.edits = @ + 1]
  /\ \E e, f \in envelopes, form \in Form, aad \in Slot :
       \E body \in {f.body, Damaged},
          stanzas \in SUBSET (e.stanzas \cup f.stanzas
                              \cup [id : {s.id : s \in f.stanzas}, wrapped : {Damaged}]) :
         envelopes' = envelopes \cup
           {[form |-> form, nonce |-> e.nonce, body |-> body, aad |-> aad, stanzas |-> stanzas]}
  /\ UNCHANGED <<made, granted, slot>>

Next ==
  \/ /\ used.seals < MaxSeals
     /\ \E rs \in Recipients, aad \in Slot : Encrypt(rs, aad)
  \/ /\ used.rewraps < MaxRewraps
     /\ \E e \in envelopes, k \in Key, expected \in Slot, rs \in Recipients :
          Rewrap(e, k, expected, rs) \/ RewrapEnvelope(e, k, expected, rs)
  \/ Edit

Spec == Init /\ [][Next]_vars

-----------------------------------------------------------------------------
(* Properties.                                                             *)

(* Whatever the store has done to an envelope, opening it for a slot gives *)
(* a plaintext that was sealed for that slot, and only to a key that a     *)
(* sealing or a re-wrapping gave it to.                                    *)
OpensWhatWasSealed ==
  \A e \in envelopes, k \in Key, expected \in Slot :
    \A n \in Decrypt(e, k, expected) \cup OpenEnvelope(e, k, expected) :
      n \in 1 .. used.seals /\ slot[n] = expected /\ k \in granted[n]

(* What sealing and re-wrapping return opens for every recipient asked for *)
(* and for nobody else, even if the envelope that was re-wrapped had been  *)
(* put together by the store.                                              *)
MadeOpens ==
  \A m \in made, k \in Key :
    Decrypt(m.envelope, k, m.slot) = IF k \in m.to THEN {m.seal} ELSE {}

(* And TypeScript opens for a key what Go opens for it, whichever of the   *)
(* two made it.                                                            *)
BothOpen ==
  \A m \in made, k \in Key, expected \in Slot :
    OpenEnvelope(m.envelope, k, expected) = Decrypt(m.envelope, k, expected)
=============================================================================
